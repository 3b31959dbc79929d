--------------------------- MODULE MCDeployments ---------------------------
(***************************************************************************)
(* The control plane alone, with agents that may report anything: two      *)
(* workspaces, one service and one server in each.  The branch "pr-5" and  *)
(* pull request 5 share a slug, as slugifyRef allows.                      *)
(***************************************************************************)
EXTENDS Deployments

MCServices == {"web", "other"}
MCServers == {"s1", "s2"}
MCWorkspaceOf == [x \in MCServices \cup MCServers |->
                    IF x \in {"web", "s1"} THEN "w1" ELSE "w2"]
MCSuffix == [r \in Refs |-> IF r = "main" THEN "main" ELSE "pr-5"]
=============================================================================
