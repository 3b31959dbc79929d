--------------------------- MODULE MCDeployEngine ---------------------------
(***************************************************************************)
(* Small instances of the deploy engine: one server, whose agent's loops   *)
(* all run, and every service in its workspace.                            *)
(***************************************************************************)
EXTENDS DeployEngine

MCWorkspaceOf == [x \in Services \cup Servers |-> "w1"]
MCSuffix == [r \in Refs |-> "pr-5"]
=============================================================================
