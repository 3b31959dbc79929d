---------------------------- MODULE ServerSetup ----------------------------
(***************************************************************************)
(* Dashboard-managed setup of a server over SSH (internal/serversetup),    *)
(* composed with registration (module Agents): setup runs as background    *)
(* goroutines of the control plane, the pinned host key, and the SSH       *)
(* management key, which is stored by the control plane and installed on   *)
(* the machine in two steps.                                               *)
(*                                                                         *)
(* Nothing keeps two runs for one server apart, and a run lives only in    *)
(* the memory of the control plane.                                        *)
(***************************************************************************)
EXTENDS Agents

CONSTANTS
    RunIds,        \* setup runs
    MaxRotations   \* bound on key rotations

ASSUME SetupAssumption == RunIds \subseteq Nat /\ MaxRotations \in Nat

VARIABLES
    status,     \* server_setup_runs.status
    run,        \* each run's goroutine: its inputs, program counter and locals
    pin,        \* servers.host_key_fingerprint: the machine whose key is pinned
    mkey,       \* ssh_management_keys, one row per server
    lastKey,    \* the management key generated last
    authKey,    \* authorized_keys of the plorigo user on each machine
    stored,     \* history: every key that was committed
    overtaken,  \* history: runs whose server's key, or machine's, another run replaced
    rotated,    \* history: runs whose server's key was rotated since they provisioned it
    rotations   \* rotations so far

historyVars == <<stored, overtaken, rotated>>
keyVars == <<pin, mkey, lastKey, authKey, historyVars, rotations>>
setupVars == <<status, run, keyVars>>
vars == <<agentsVars, setupVars>>

-----------------------------------------------------------------------------

\* Program counters: before each statement, dial or remote command with an effect.
RunState == [srv : Servers, host : Hosts,
             pc : {"start", "dial", "check", "mint", "install", "provision",
                   "authorize", "await", "done"},
             pinned : Hosts \cup {NoHost}, tok : TokenIds \cup {NoId}, key : Nat]
NoRun == [pc |-> "none"]

KeyRow == [key : Nat \ {NoId}, revoked : BOOLEAN]
NoKey == [key |-> NoId]
HasKey(s) == mkey[s].key # NoId
Active(s) == HasKey(s) /\ ~mkey[s].revoked

TypeOK ==
    /\ AgentsTypeOK
    /\ status \in [RunIds -> {"none", "queued", "running", "succeeded", "failed", "deleted"}]
    /\ run \in [RunIds -> RunState \cup {NoRun}]
    /\ \A r \in RunIds : status[r] = "none" <=> run[r] = NoRun
    /\ pin \in [Servers -> Hosts \cup {NoHost}]
    /\ mkey \in [Servers -> KeyRow \cup {NoKey}]
    /\ lastKey \in Nat
    /\ authKey \in [Hosts -> Nat]
    /\ stored \subseteq Nat \ {NoId}
    /\ overtaken \subseteq RunIds /\ rotated \subseteq RunIds
    /\ rotations \in 0 .. MaxRotations

\* The server in service was set up from the dashboard: pinned, and with a key.
Init ==
    /\ AgentsInit
    /\ status = [r \in RunIds |-> "none"]
    /\ run = [r \in RunIds |-> NoRun]
    /\ pin = [s \in Servers |-> IF s = HomeServer THEN Home ELSE NoHost]
    /\ mkey = [s \in Servers |-> IF s = HomeServer THEN [key |-> 1, revoked |-> FALSE]
                                  ELSE NoKey]
    /\ lastKey = 1
    /\ authKey = [h \in Hosts |-> IF h = Home THEN 1 ELSE NoId]
    /\ stored = {1}
    /\ overtaken = {} /\ rotated = {}
    /\ rotations = 0

-----------------------------------------------------------------------------
(* Starting and ending a run *)

\* Mutant: the goroutine is dispatched without a row.
MutantStartSetup(r, s, h) ==
    /\ server[s] = "live"
    /\ run[r] = NoRun
    /\ run' = [run EXCEPT ![r] = [srv |-> s, host |-> h, pc |-> "start",
                                  pinned |-> NoHost, tok |-> NoId, key |-> NoId]]
    /\ UNCHANGED <<agentsVars, status, keyVars>>

InsertSetupRun(r) ==
    /\ status[r] = "none" /\ \A q \in RunIds : q < r => status[q] # "none"
    /\ status' = [status EXCEPT ![r] = "queued"]

\* StartSetup: insert the run, dispatch its goroutine.  The host is what the user
\* typed: another machine than last time, perhaps.
StartSetup(r, s, h) ==
    /\ server[s] = "live"
    /\ InsertSetupRun(r)
    /\ run' = [run EXCEPT ![r] = [srv |-> s, host |-> h, pc |-> "start",
                                  pinned |-> NoHost, tok |-> NoId, key |-> NoId]]
    /\ UNCHANGED <<agentsVars, keyVars>>

\* SetSetupRunStatus: no row is updated once the server's deletion removed it.
SetStatus(r, st) ==
    status' = IF status[r] = "deleted" THEN status ELSE [status EXCEPT ![r] = st]

At(r, pc) == run[r].pc = pc
Advance(r, pc) == run' = [run EXCEPT ![r].pc = pc]

\* A goroutine that is gone keeps no locals.
Over(r) == [run[r] EXCEPT !.pc = "done", !.pinned = NoHost, !.tok = NoId, !.key = NoId]

\* A status write that fails is logged, and no more.
TrySetStatus(r, st) ==
    \/ SetStatus(r, st) /\ UNCHANGED faults
    \/ Fault /\ UNCHANGED status

\* Mutant: a failing step returns without finishRun.
MutantFinishRun(r, st) ==
    /\ run' = [run EXCEPT ![r] = Over(r)]
    /\ IF st = "failed" THEN UNCHANGED <<status, faults>> ELSE TrySetStatus(r, st)

\* finishRun, which outlives the run's timeout.
FinishRun(r, st) ==
    /\ run' = [run EXCEPT ![r] = Over(r)]
    /\ TrySetStatus(r, st)

HostKeyFingerprint(s) == pin[s]

\* runSetup: mark the run running and read the pinned host key.  Neither error stops
\* it: a pin that cannot be read is taken for none.
Begin(r) ==
    /\ At(r, "start")
    /\ \E pinned \in {HostKeyFingerprint(run[r].srv), NoHost} :
           /\ run' = [run EXCEPT ![r].pc = "dial", ![r].pinned = pinned]
           /\ \/ pinned = HostKeyFingerprint(run[r].srv) /\ TrySetStatus(r, "running")
              \/ SetStatus(r, "running") /\ Fault
    /\ UNCHANGED <<agentRows, machineVars, keyVars>>

\* Dial: trust on first use, otherwise only the pinned machine.
HostKeyMatches(r) == run[r].pinned \in {NoHost, run[r].host}

\* SetHostKeyFingerprint: nothing when the server is gone.
SetHostKeyFingerprint(s, h) ==
    pin' = IF server[s] = "live" THEN [pin EXCEPT ![s] = h] ELSE pin

\* A run that has read no pin pins the machine it reached; when that fails it goes on.
Dial(r) ==
    /\ At(r, "dial")
    /\ HostKeyMatches(r)
    /\ Advance(r, "check")
    /\ \/ /\ run[r].pinned = NoHost
          /\ SetHostKeyFingerprint(run[r].srv, run[r].host) /\ UNCHANGED faults
       \/ run[r].pinned = NoHost /\ Fault /\ UNCHANGED pin
       \/ run[r].pinned # NoHost /\ UNCHANGED <<pin, faults>>
    /\ UNCHANGED <<agentRows, machineVars, status, mkey, lastKey, authKey, historyVars,
                   rotations>>

DialRefused(r) ==
    /\ At(r, "dial")
    /\ ~HostKeyMatches(r)
    /\ FinishRun(r, "failed")
    /\ UNCHANGED <<agentRows, machineVars, keyVars>>

\* detectOS, checkPrivilege and preflight look at the machine and may refuse it.
Check(r) ==
    /\ At(r, "check")
    /\ Advance(r, "mint")
    /\ UNCHANGED <<agentsVars, status, keyVars>>

\* installPrereqs: mint a token for the server, if it is still there ...
Mint(r) ==
    /\ At(r, "mint")
    /\ \E t \in TokenIds :
           /\ CreateRegistrationToken(run[r].srv, t)
           /\ run' = [run EXCEPT ![r].pc = "install", ![r].tok = t]
    /\ UNCHANGED <<machineVars, status, keyVars>>

\* ... and run the installer with it.
Install(r) ==
    /\ At(r, "install")
    /\ InstallAgent(run[r].host, run[r].tok)
    /\ Advance(r, "provision")
    /\ UNCHANGED <<agentRows, faults, status, keyVars>>

\* Mutant: the upsert keeps the key of a server that has one.
MutantUpsertKey(s, k) ==
    /\ mkey' = [mkey EXCEPT ![s] = IF HasKey(s) THEN [@ EXCEPT !.revoked = FALSE]
                                   ELSE [key |-> k, revoked |-> FALSE]]
    /\ stored' = stored \cup {k}

\* UpsertSSHManagementKey replaces the key and clears a revocation.
UpsertKey(s, k) ==
    /\ mkey' = [mkey EXCEPT ![s] = [key |-> k, revoked |-> FALSE]]
    /\ stored' = stored \cup {k}

\* The runs for a server, and those that have been at a machine's authorized_keys.
RunsOf(s) == {r \in RunIds : status[r] # "none" /\ run[r].srv = s}
RunsPast(h) == {r \in RunIds : run[r].pc \in {"await", "done"} /\ run[r].host = h}

\* Provision: generate a key, seal it and commit it.
Provision(r) ==
    /\ At(r, "provision")
    /\ server[run[r].srv] = "live"
    /\ lastKey' = lastKey + 1
    /\ UpsertKey(run[r].srv, lastKey')
    /\ run' = [run EXCEPT ![r].pc = "authorize", ![r].key = lastKey']
    /\ overtaken' = (overtaken \cup RunsOf(run[r].srv)) \ {r}
    /\ rotated' = rotated \ {r}
    /\ UNCHANGED <<agentsVars, status, pin, authKey, rotations>>

\* provisionUser: the user, authorized_keys (overwritten) and the sudo policy.
Authorize(r) ==
    /\ At(r, "authorize")
    /\ authKey' = [authKey EXCEPT ![run[r].host] = run[r].key]
    /\ Advance(r, "await")
    /\ overtaken' = overtaken \cup RunsPast(run[r].host)
    /\ UNCHANGED <<agentsVars, status, pin, mkey, lastKey, stored, rotated, rotations>>

\* AgentOnline asks for the server's agent, whichever machine it is on.
AgentOnline(s) == Registered(s) /\ agent[s].online

AwaitAgent(r) ==
    /\ At(r, "await")
    /\ AgentOnline(run[r].srv)
    /\ FinishRun(r, "succeeded")
    /\ UNCHANGED <<agentRows, machineVars, keyVars>>

\* Any dial, command or wait may fail, and does when the setup's time is over or the
\* server was deleted; heartbeatAttempts bounds the wait.
StepFails(r) ==
    /\ run[r].pc \in {"dial", "check", "mint", "install", "provision", "authorize", "await"}
    /\ FinishRun(r, "failed")
    /\ UNCHANGED <<agentRows, machineVars, keyVars>>

RunStep(r) ==
    \/ Begin(r) \/ Dial(r) \/ DialRefused(r) \/ Check(r) \/ Mint(r) \/ Install(r)
    \/ Provision(r) \/ Authorize(r) \/ AwaitAgent(r) \/ StepFails(r)

-----------------------------------------------------------------------------
(* Keys, deletion, restarts *)

\* RotateSSHManagementKey: an active credential only.
RotateKey(s, k) ==
    /\ Active(s)
    /\ mkey' = [mkey EXCEPT ![s].key = k]
    /\ stored' = stored \cup {k}

\* Rotate: the stored key; the machine is not touched.
Rotate(s) ==
    /\ rotations < MaxRotations
    /\ rotations' = rotations + 1
    /\ lastKey' = lastKey + 1
    /\ RotateKey(s, lastKey')
    /\ rotated' = rotated \cup RunsOf(s)
    /\ UNCHANGED <<agentsVars, status, run, pin, authKey, overtaken>>

\* RevokeSSHManagementKey: likewise.
RevokeKey(s) == Active(s) /\ mkey' = [mkey EXCEPT ![s].revoked = TRUE]

\* Revoke: the credential is marked; the machine and the pin are not touched.
Revoke(s) ==
    /\ RevokeKey(s)
    /\ UNCHANGED <<agentsVars, status, run, pin, lastKey, authKey, historyVars, rotations>>

\* DeleteServer with the rows of this module; a run's goroutine goes on.
DeleteServerAndSetup(s) ==
    /\ DeleteServer(s)
    /\ status' = [r \in RunIds |-> IF status[r] # "none" /\ run[r].srv = s
                                   THEN "deleted" ELSE status[r]]
    /\ pin' = [pin EXCEPT ![s] = NoHost]
    /\ mkey' = [mkey EXCEPT ![s] = NoKey]
    /\ UNCHANGED <<run, lastKey, authKey, historyVars, rotations>>

\* The control plane restarts: its goroutines are gone, nothing resumes them.
RestartControlPlane ==
    /\ \E r \in RunIds : run[r].pc \notin {"none", "done"}
    /\ run' = [r \in RunIds |-> IF run[r] = NoRun THEN NoRun ELSE Over(r)]
    /\ Fault
    /\ UNCHANGED <<agentRows, machineVars, status, keyVars>>

User ==
    \/ \E s \in Servers : CreateServer(s) /\ UNCHANGED setupVars
    \/ \E s \in Servers : DeleteServerAndSetup(s) \/ Rotate(s) \/ Revoke(s)
    \/ \E s \in Servers, t \in TokenIds :
           CreateRegistrationToken(s, t) /\ UNCHANGED <<machineVars, setupVars>>
    \/ \E h \in Hosts, t \in TokenIds : RunInstallCommand(h, t) /\ UNCHANGED setupVars
    \/ \E h \in Hosts : RestartAgent(h) /\ UNCHANGED setupVars
    \/ \E r \in RunIds, s \in Servers, h \in Hosts : StartSetup(r, s, h)

Environment ==
    \/ \E t \in TokenIds : TokenExpires(t) /\ UNCHANGED setupVars
    \/ \E s \in Servers : Lapse(s) /\ UNCHANGED setupVars
    \/ \E h \in Hosts : Crash(h) /\ UNCHANGED setupVars
    \/ RestartControlPlane

AgentProcess(h) == AgentStep(h) /\ UNCHANGED setupVars

Next ==
    \/ User
    \/ Environment
    \/ \E h \in Hosts : AgentProcess(h)
    \/ \E r \in RunIds : RunStep(r)

Spec == Init /\ [][Next]_vars

\* systemd restarts the agent and its loop goes on: the calls of the agent, which have
\* no timeout, are taken to return.  A goroutine of the control plane runs, and each of
\* its steps ends at the latest with setupTimeout.
FairSpec ==
    /\ Spec
    /\ \A h \in Hosts : WF_vars(AgentProcess(h))
    /\ \A r \in RunIds : WF_vars(RunStep(r))

-----------------------------------------------------------------------------
(* Properties *)

\* The stored key of run r's server is the one its machine trusts.
KeyInPlace(r) == authKey[run[r].host] = mkey[run[r].srv].key

\* A setup run that succeeded gave the control plane a way in: the key stored for its
\* server is the one its machine trusts (Provision commits it, provisionUser installs
\* it, steps apart), and stays so until a later run for the server or on the machine
\* replaces it, a rotation does, or the server is deleted.  And whatever run dies,
\* fails or is overtaken half-way, no key reaches a machine before its private half
\* was committed.
KeysAgree ==
    /\ \A r \in RunIds :
           status[r] = "succeeded" /\ r \notin overtaken \cup rotated => KeyInPlace(r)
    /\ \A h \in Hosts : authKey[h] # NoId => authKey[h] \in stored

\* A setup run ends: no step leaves it queued or running for ever, unless the
\* control plane restarts or its last write fails.
SetupSettles ==
    \A r \in RunIds :
        status[r] = "queued" ~> (status[r] \in {"succeeded", "failed", "deleted"} \/ faults > 0)
=============================================================================
