------------------------- MODULE ServerSetupProofs -------------------------
(***************************************************************************)
(* Theorems about modules Agents and ServerSetup, for any number of        *)
(* servers, machines, registration tokens, setup runs, rotations and       *)
(* faults.                                                                 *)
(***************************************************************************)
EXTENDS ServerSetup, TLAPS

-----------------------------------------------------------------------------
(* The part of a step that concerns the agents *)

\* Every step of ServerSetup is one of these for module Agents.
AgentsEffect ==
    \/ Fault /\ UNCHANGED <<agentRows, machineVars>>
    \/ \E s \in Servers : CreateServer(s) \/ DeleteServer(s) \/ Lapse(s)
    \/ \E s \in Servers, t \in TokenIds : CreateRegistrationToken(s, t) /\ UNCHANGED machineVars
    \/ \E t \in TokenIds : TokenExpires(t)
    \/ \E h \in Hosts, t \in TokenIds \cup {NoId} :
           InstallAgent(h, t) /\ UNCHANGED <<agentRows, faults>>
    \/ \E h \in Hosts : RestartAgent(h) \/ Crash(h) \/ AgentStep(h)
    \/ UNCHANGED agentsVars

\* The server and the machine of a run that was started.
LEMMA RunInputs ==
  ASSUME TypeOK, NEW r \in RunIds, run[r].pc # "none"
  PROVE  run[r] \in RunState
BY DEF TypeOK, NoRun

LEMMA AgentsPart ==
  ASSUME TypeOK, [Next]_vars
  PROVE  AgentsEffect
<1>1. CASE User
  BY <1>1 DEF User, DeleteServerAndSetup, Rotate, Revoke, StartSetup, RunInstallCommand,
              AgentsEffect
<1>2. CASE Environment
  BY <1>2 DEF Environment, RestartControlPlane, AgentsEffect
<1>3. ASSUME NEW h \in Hosts, AgentProcess(h) PROVE AgentsEffect
  BY <1>3 DEF AgentProcess, AgentsEffect
<1>4. ASSUME NEW r \in RunIds, RunStep(r) PROVE AgentsEffect
  <2>1. CASE Mint(r)
    <3>1. run[r] \in RunState
      BY <2>1, RunInputs DEF Mint, At
    <3> QED
      BY <2>1, <3>1 DEF Mint, AgentsEffect, RunState
  <2>2. CASE Install(r)
    <3>1. run[r] \in RunState
      BY <2>2, RunInputs DEF Install, At
    <3> QED
      BY <2>2, <3>1 DEF Install, AgentsEffect, RunState
  <2>3. CASE ~Mint(r) /\ ~Install(r)
    <3>1. CASE Check(r) \/ Provision(r) \/ Authorize(r)
      BY <3>1, Zenon DEF Check, Provision, Authorize, AgentsEffect
    <3>2. ASSUME UNCHANGED faults \/ Fault, UNCHANGED <<agentRows, machineVars>>
          PROVE  AgentsEffect
      BY <3>2 DEF AgentsEffect, agentsVars
    <3>3. ASSUME NEW st, TrySetStatus(r, st) PROVE UNCHANGED faults \/ Fault
      BY <3>3, Zenon DEF TrySetStatus
    <3>4. CASE Begin(r)
      BY <3>2, <3>3, <3>4, Zenon DEF Begin
    <3>5. CASE Dial(r)
      BY <3>2, <3>5 DEF Dial
    <3>6. CASE DialRefused(r) \/ AwaitAgent(r) \/ StepFails(r)
      BY <3>2, <3>3, <3>6, Zenon DEF DialRefused, AwaitAgent, StepFails, FinishRun
    <3> QED
      BY <1>4, <2>3, <3>1, <3>4, <3>5, <3>6, Zenon DEF RunStep
  <2> QED
    BY <2>1, <2>2, <2>3
<1>5. CASE UNCHANGED vars
  BY <1>5 DEF vars, AgentsEffect
<1> QED
  BY <1>1, <1>2, <1>3, <1>4, <1>5 DEF Next

-----------------------------------------------------------------------------
(* Types: the agents *)

LEMMA DownType == Down \in Process
BY DEF Down, Process, NoId

LEMMA AgentFaultType ==
  ASSUME AgentsTypeOK, Fault
  PROVE  faults' \in 0 .. MaxFaults
BY AgentsAssumption DEF AgentsTypeOK, Fault

\* A registered server has a full row.
LEMMA RegisteredRow ==
  ASSUME AgentsTypeOK, NEW s \in Servers, Registered(s)
  PROVE  agent[s] \in AgentRow
BY DEF AgentsTypeOK, Registered, NoAgent

\* The process that is about to do something other than start.
LEMMA RegisterTypes ==
  ASSUME AgentsTypeOK, NEW h \in Hosts, Register(h)
  PROVE  /\ proc[h].tok \in TokenIds /\ token[proc[h].tok] \in TokenRow
         /\ lastCred' = lastCred + 1 /\ lastCred' \in Nat \ {NoId}
         /\ token' \in [TokenIds -> TokenRow \cup {NoToken}]
         /\ agent' \in [Servers -> AgentRow \cup {NoAgent}]
         /\ redeemed' \subseteq [cred : Nat \ {NoId}, tok : TokenIds \cup {NoId}, host : Hosts]
         /\ UNCHANGED server
<1> DEFINE t == proc[h].tok
<1>1. t \in TokenIds
  BY DEF AgentsTypeOK, Process, Register, Redeemable
<1>2. token[t] \in TokenRow /\ token[t].state = "fresh"
  BY <1>1 DEF AgentsTypeOK, Register, Redeemable, NoToken
<1>3. lastCred' = lastCred + 1 /\ lastCred' \in Nat \ {NoId}
  BY DEF AgentsTypeOK, Register, NoId
<1>4. token' \in [TokenIds -> TokenRow \cup {NoToken}]
  <2>1. [token[t] EXCEPT !.state = "consumed"] \in TokenRow
    BY <1>2 DEF TokenRow
  <2>2. token' = [token EXCEPT ![t] = [token[t] EXCEPT !.state = "consumed"]]
    BY <1>1 DEF Register, AgentsTypeOK
  <2> QED
    BY <2>1, <2>2 DEF AgentsTypeOK
<1>5. agent' \in [Servers -> AgentRow \cup {NoAgent}]
  <2> DEFINE s == token[t].srv
             by == IF Registered(s) THEN agent[s].by ELSE NoHost
  <2>1. s \in Servers
    BY <1>2 DEF TokenRow
  <2>2. by \in Hosts \cup {NoHost}
    BY <2>1, RegisteredRow DEF AgentRow
  <2>3. agent' = [agent EXCEPT ![s] = [cred |-> lastCred', online |-> FALSE, by |-> by]]
    BY DEF Register, UpsertAgent
  <2> HIDE DEF s, by
  <2>4. [cred |-> lastCred', online |-> FALSE, by |-> by] \in AgentRow
    BY <1>3, <2>2 DEF AgentRow
  <2> QED
    BY <2>3, <2>4 DEF AgentsTypeOK
<1>6. redeemed' \subseteq [cred : Nat \ {NoId}, tok : TokenIds \cup {NoId}, host : Hosts]
  BY <1>1, <1>3 DEF Register, AgentsTypeOK
<1> QED
  BY <1>1, <1>2, <1>3, <1>4, <1>5, <1>6 DEF Register

\* What a step of a machine's agent process writes besides the tables.
LEMMA MachineTypes ==
  ASSUME AgentsTypeOK, NEW h \in Hosts, RestartAgent(h) \/ Crash(h) \/ AgentStep(h)
  PROVE  /\ proc' \in [Hosts -> Process] /\ disk' \in [Hosts -> Nat] /\ torn' \subseteq Hosts
         /\ unit' = unit /\ faults' \in 0 .. MaxFaults
<1>0. proc[h] \in Process /\ disk[h] \in Nat /\ unit[h] \in TokenIds \cup {NoId}
  BY DEF AgentsTypeOK
<1>1. ASSUME NEW p \in Process, proc' = [proc EXCEPT ![h] = p] PROVE proc' \in [Hosts -> Process]
  BY <1>1 DEF AgentsTypeOK
<1>2. ASSUME NEW pc \in {"register", "save", "beat", "reregister"}, NEW c \in Nat,
             NEW b \in BOOLEAN
      PROVE  /\ [proc[h] EXCEPT !.pc = pc] \in Process
             /\ [proc[h] EXCEPT !.pc = pc, !.cred = c] \in Process
             /\ [proc[h] EXCEPT !.pc = pc, !.tried = b] \in Process
  BY <1>0 DEF Process
<1>3. ASSUME Exit(h) PROVE proc' \in [Hosts -> Process]
  BY <1>1, <1>3, DownType DEF Exit
<1>4. ASSUME NEW pc \in {"register", "save", "beat", "reregister"}, NEW c \in Nat,
             NEW b \in BOOLEAN,
             \/ proc' = [proc EXCEPT ![h].pc = pc]
             \/ proc' = [proc EXCEPT ![h].pc = pc, ![h].cred = c]
             \/ proc' = [proc EXCEPT ![h].pc = pc, ![h].tried = b]
      PROVE  proc' \in [Hosts -> Process]
  <2>1. \/ proc' = [proc EXCEPT ![h] = [proc[h] EXCEPT !.pc = pc]]
        \/ proc' = [proc EXCEPT ![h] = [proc[h] EXCEPT !.pc = pc, !.cred = c]]
        \/ proc' = [proc EXCEPT ![h] = [proc[h] EXCEPT !.pc = pc, !.tried = b]]
    BY <1>4 DEF AgentsTypeOK
  <2> QED
    BY <1>1, <1>2, <2>1
<1>15. ASSUME NEW c \in Nat, WriteState(h, c) PROVE disk' \in [Hosts -> Nat] /\ torn' \subseteq Hosts
  BY <1>15 DEF WriteState, AgentsTypeOK
<1>16. ASSUME WriteFails(h) PROVE disk' \in [Hosts -> Nat] /\ torn' \subseteq Hosts
  BY <1>16 DEF WriteFails, AgentsTypeOK, NoId
<1>5. CASE RestartAgent(h)
  BY <1>1, <1>5, DownType DEF RestartAgent, AgentsTypeOK
<1>6. CASE Crash(h)
  BY <1>3, <1>6, AgentFaultType DEF Crash, AgentsTypeOK
<1>7. CASE Load(h)
  <2>1. [pc |-> IF disk[h] # NoId THEN "beat" ELSE "register",
         cred |-> disk[h], tok |-> unit[h], tried |-> FALSE] \in Process
    BY <1>0 DEF Process
  <2> QED
    BY <1>1, <1>7, <2>1 DEF Load, AgentsTypeOK
<1>8. CASE FirstRegister(h)
  <2>1. lastCred' \in Nat
    BY <1>8, RegisterTypes DEF FirstRegister
  <2>2. proc' \in [Hosts -> Process]
    BY <1>3, <1>4, <1>8, <2>1 DEF FirstRegister
  <2>3. faults' \in 0 .. MaxFaults
    BY <1>8, AgentFaultType DEF FirstRegister, AgentsTypeOK
  <2> QED
    BY <1>8, <2>2, <2>3 DEF FirstRegister, AgentsTypeOK
<1>9. CASE FirstRegisterRejected(h)
  BY <1>3, <1>9 DEF FirstRegisterRejected, AgentsTypeOK
<1>10. CASE SaveState(h)
  <2>1. proc' \in [Hosts -> Process]
    BY <1>3, <1>4, <1>10 DEF SaveState, Goto
  <2>2. proc[h].cred \in Nat
    BY <1>0 DEF Process
  <2>3. disk' \in [Hosts -> Nat] /\ torn' \subseteq Hosts
    BY <1>10, <1>15, <1>16, <2>2 DEF SaveState
  <2>4. faults' \in 0 .. MaxFaults
    BY <1>10, AgentFaultType DEF SaveState, AgentsTypeOK
  <2> QED
    BY <1>10, <2>1, <2>3, <2>4 DEF SaveState
<1>11. CASE Heartbeat(h)
  BY <1>11 DEF Heartbeat, machineVars, AgentsTypeOK
<1>12. CASE HeartbeatRejected(h)
  BY <1>4, <1>12 DEF HeartbeatRejected, AgentsTypeOK
<1>13. CASE Reregister(h)
  <2>1. lastCred' \in Nat
    BY <1>13, RegisterTypes DEF Reregister
  <2>2. proc' \in [Hosts -> Process]
    BY <1>3, <1>4, <1>13, <2>1 DEF Reregister, Goto
  <2>3. disk' \in [Hosts -> Nat] /\ torn' \subseteq Hosts
    BY <1>13, <1>15, <1>16, <2>1 DEF Reregister, AgentsTypeOK
  <2>4. faults' \in 0 .. MaxFaults
    BY <1>13, AgentFaultType DEF Reregister, AgentsTypeOK
  <2> QED
    BY <1>13, <2>2, <2>3, <2>4 DEF Reregister
<1>14. CASE ReregisterRejected(h)
  BY <1>4, <1>14 DEF ReregisterRejected, Goto, AgentsTypeOK
<1> QED
  BY <1>5, <1>6, <1>7, <1>8, <1>9, <1>10, <1>11, <1>12, <1>13, <1>14 DEF AgentStep

\* And the tables: a registration, a heartbeat, or nothing.
LEMMA ProcessEffect ==
  ASSUME NEW h \in Hosts, RestartAgent(h) \/ Crash(h) \/ AgentStep(h)
  PROVE  Register(h) \/ Heartbeat(h) \/ UNCHANGED agentRows
BY DEF RestartAgent, Crash, AgentStep, Load, FirstRegister, FirstRegisterRejected, SaveState,
       HeartbeatRejected, Reregister, ReregisterRejected

LEMMA HeartbeatTypes ==
  ASSUME AgentsTypeOK, NEW h \in Hosts, Heartbeat(h)
  PROVE  agent' \in [Servers -> AgentRow \cup {NoAgent}]
<1>1. PICK s \in Servers : /\ Names(proc[h].cred, s)
                           /\ agent' = [agent EXCEPT ![s].online = TRUE, ![s].by = h]
  BY DEF Heartbeat, HeartbeatAgent, CollectHealth
<1>2. agent[s] \in AgentRow
  BY <1>1, RegisteredRow DEF Names
<1>3. [agent[s] EXCEPT !.online = TRUE, !.by = h] \in AgentRow
  BY <1>2 DEF AgentRow
<1>4. agent' = [agent EXCEPT ![s] = [agent[s] EXCEPT !.online = TRUE, !.by = h]]
  BY <1>1 DEF AgentsTypeOK
<1> QED
  BY <1>3, <1>4 DEF AgentsTypeOK

LEMMA AgentsTypes ==
  ASSUME AgentsTypeOK, AgentsEffect
  PROVE  AgentsTypeOK'
<1>1. CASE Fault /\ UNCHANGED <<agentRows, machineVars>>
  BY <1>1, AgentFaultType DEF AgentsTypeOK, agentRows, machineVars
<1>2. ASSUME NEW s \in Servers, CreateServer(s) PROVE AgentsTypeOK'
  BY <1>2 DEF CreateServer, InsertServer, AgentsTypeOK, machineVars
<1>3. ASSUME NEW s \in Servers, DeleteServer(s) PROVE AgentsTypeOK'
  <2>1. token' \in [TokenIds -> TokenRow \cup {NoToken}]
    BY <1>3 DEF DeleteServer, DeleteServerRow, AgentsTypeOK, TokenRow
  <2>2. /\ server' \in [Servers -> {"none", "live", "deleted"}]
        /\ agent' \in [Servers -> AgentRow \cup {NoAgent}]
    BY <1>3 DEF DeleteServer, DeleteServerRow, AgentsTypeOK
  <2> QED
    BY <1>3, <2>1, <2>2 DEF DeleteServer, AgentsTypeOK, machineVars
<1>4. ASSUME NEW s \in Servers, Lapse(s) PROVE AgentsTypeOK'
  <2>1. agent[s] \in AgentRow
    BY <1>4, RegisteredRow DEF Lapse
  <2>2. [agent[s] EXCEPT !.online = FALSE] \in AgentRow
    BY <2>1 DEF AgentRow
  <2>3. agent' = [agent EXCEPT ![s] = [agent[s] EXCEPT !.online = FALSE]]
    BY <1>4 DEF Lapse, AgentsTypeOK
  <2> QED
    BY <1>4, <2>2, <2>3 DEF Lapse, AgentsTypeOK, machineVars
<1>5. ASSUME NEW s \in Servers, NEW t \in TokenIds,
             CreateRegistrationToken(s, t), UNCHANGED machineVars
      PROVE  AgentsTypeOK'
  <2>1. token' \in [TokenIds -> TokenRow \cup {NoToken}]
    BY <1>5 DEF CreateRegistrationToken, InsertRegistrationToken, AgentsTypeOK, TokenRow
  <2> QED
    BY <1>5, <2>1 DEF CreateRegistrationToken, AgentsTypeOK, machineVars
<1>6. ASSUME NEW t \in TokenIds, TokenExpires(t) PROVE AgentsTypeOK'
  <2>1. token[t] \in TokenRow
    BY <1>6 DEF TokenExpires, AgentsTypeOK, NoToken
  <2>2. [token[t] EXCEPT !.state = "void"] \in TokenRow
    BY <2>1 DEF TokenRow
  <2>3. token' = [token EXCEPT ![t] = [token[t] EXCEPT !.state = "void"]]
    BY <1>6 DEF TokenExpires, AgentsTypeOK
  <2> QED
    BY <1>6, <2>2, <2>3 DEF TokenExpires, AgentsTypeOK, machineVars
<1>7. ASSUME NEW h \in Hosts, NEW t \in TokenIds \cup {NoId},
             InstallAgent(h, t), UNCHANGED <<agentRows, faults>>
      PROVE  AgentsTypeOK'
  BY <1>7 DEF InstallAgent, AgentsTypeOK, agentRows
<1>8. ASSUME NEW h \in Hosts, RestartAgent(h) \/ Crash(h) \/ AgentStep(h) PROVE AgentsTypeOK'
  <2>1. /\ proc' \in [Hosts -> Process] /\ disk' \in [Hosts -> Nat] /\ torn' \subseteq Hosts
        /\ unit' = unit /\ faults' \in 0 .. MaxFaults
    BY <1>8, MachineTypes
  <2>2. CASE Register(h)
    BY <2>1, <2>2, RegisterTypes DEF AgentsTypeOK
  <2>3. CASE Heartbeat(h)
    BY <2>1, <2>3, HeartbeatTypes DEF Heartbeat, AgentsTypeOK
  <2>4. CASE UNCHANGED agentRows
    BY <2>1, <2>4 DEF AgentsTypeOK, agentRows
  <2> QED
    BY <1>8, <2>2, <2>3, <2>4, ProcessEffect
<1>9. CASE UNCHANGED agentsVars
  BY <1>9 DEF AgentsTypeOK, agentsVars, agentRows, machineVars
<1> QED
  BY <1>1, <1>2, <1>3, <1>4, <1>5, <1>6, <1>7, <1>8, <1>9 DEF AgentsEffect

-----------------------------------------------------------------------------
(* Types: the setup runs and the keys *)

RunStatus == {"queued", "running", "succeeded", "failed", "deleted"}

RunsOK ==
    /\ status \in [RunIds -> RunStatus \cup {"none"}]
    /\ run \in [RunIds -> RunState \cup {NoRun}]
    /\ \A r \in RunIds : status[r] = "none" <=> run[r] = NoRun

KeysOK ==
    /\ pin \in [Servers -> Hosts \cup {NoHost}]
    /\ mkey \in [Servers -> KeyRow \cup {NoKey}]
    /\ lastKey \in Nat
    /\ authKey \in [Hosts -> Nat]
    /\ stored \subseteq Nat \ {NoId}
    /\ overtaken \subseteq RunIds /\ rotated \subseteq RunIds
    /\ rotations \in 0 .. MaxRotations

LEMMA TypeParts == TypeOK <=> AgentsTypeOK /\ RunsOK /\ KeysOK
BY DEF TypeOK, RunsOK, KeysOK, RunStatus

\* A step of a run's goroutine, which may set its row.
LEMMA RunMoves ==
  ASSUME RunsOK, NEW r \in RunIds, run[r].pc # "none", NEW p \in RunState,
         run' = [run EXCEPT ![r] = p],
         status' = status \/ \E st \in RunStatus : SetStatus(r, st)
  PROVE  RunsOK'
<1>1. run[r] # NoRun /\ p # NoRun
  BY DEF NoRun, RunState
<1>2. status[r] # "none"
  BY <1>1 DEF RunsOK
<1>3. /\ run'[r] = p /\ \A q \in RunIds : q # r => run'[q] = run[q]
      /\ run' \in [RunIds -> RunState \cup {NoRun}]
  BY DEF RunsOK
<1>4. PICK st \in RunStatus : status' = status \/ status' = [status EXCEPT ![r] = st]
  BY DEF SetStatus, RunStatus
<1>5. /\ status' \in [RunIds -> RunStatus \cup {"none"}] /\ status'[r] # "none"
      /\ \A q \in RunIds : q # r => status'[q] = status[q]
  BY <1>2, <1>4 DEF RunsOK, RunStatus
<1> QED
  BY <1>1, <1>3, <1>5 DEF RunsOK

LEMMA OverType ==
  ASSUME RunsOK, NEW r \in RunIds, run[r] # NoRun
  PROVE  /\ Over(r) \in RunState /\ Over(r).host = run[r].host /\ Over(r).pc = "done"
         /\ Over(r) # NoRun
<1>1. run[r] \in RunState
  BY DEF RunsOK
<1> QED
  BY <1>1 DEF Over, RunState, NoRun, NoId

\* What each step of a run writes into its own record.
LEMMA RunStepTypes ==
  ASSUME TypeOK, NEW r \in RunIds, RunStep(r)
  PROVE  RunsOK'
<1>1. run[r].pc # "none" /\ RunsOK
  BY TypeParts DEF RunStep, Begin, Dial, DialRefused, Check, Mint, Install, Provision, Authorize,
     AwaitAgent, StepFails, At
<1>2. run[r] \in RunState /\ run[r] # NoRun
  BY <1>1, RunInputs DEF NoRun
<1>3. ASSUME NEW pc \in {"dial", "check", "mint", "install", "provision", "authorize", "await"},
             NEW g \in Hosts \cup {NoHost}, NEW t \in TokenIds \cup {NoId}, NEW k \in Nat
      PROVE  /\ [run[r] EXCEPT !.pc = pc] \in RunState
             /\ [run[r] EXCEPT !.pc = pc, !.pinned = g] \in RunState
             /\ [run[r] EXCEPT !.pc = pc, !.tok = t] \in RunState
             /\ [run[r] EXCEPT !.pc = pc, !.key = k] \in RunState
  BY <1>2 DEF RunState
<1>4. ASSUME NEW pc \in {"dial", "check", "mint", "install", "provision", "authorize", "await"},
             Advance(r, pc), UNCHANGED status
      PROVE  RunsOK'
  <2>1. run' = [run EXCEPT ![r] = [run[r] EXCEPT !.pc = pc]]
    BY <1>1, <1>4 DEF Advance, RunsOK
  <2> QED
    BY <1>1, <1>3, <1>4, <2>1, RunMoves
<1>5. ASSUME NEW st \in RunStatus, FinishRun(r, st) PROVE RunsOK'
  BY <1>1, <1>2, <1>5, OverType, RunMoves DEF FinishRun, TrySetStatus
<1>6. CASE Begin(r)
  <2>1. pin[run[r].srv] \in Hosts \cup {NoHost}
    BY <1>2 DEF RunState, TypeOK
  <2>2. PICK g \in Hosts \cup {NoHost} : run' = [run EXCEPT ![r].pc = "dial", ![r].pinned = g]
    BY <1>6, <2>1 DEF Begin, HostKeyFingerprint
  <2>3. run' = [run EXCEPT ![r] = [run[r] EXCEPT !.pc = "dial", !.pinned = g]]
    BY <1>1, <2>2 DEF RunsOK
  <2>4. [run[r] EXCEPT !.pc = "dial", !.pinned = g] \in RunState
    BY <1>2 DEF RunState
  <2>5. status' = status \/ SetStatus(r, "running")
    BY <1>6, Zenon DEF Begin, TrySetStatus
  <2> QED
    BY <1>1, <2>3, <2>4, <2>5, RunMoves DEF RunStatus
<1>7. CASE Dial(r) \/ Check(r) \/ Install(r) \/ Authorize(r)
  BY <1>4, <1>7 DEF Dial, Check, Install, Authorize
<1>8. CASE Mint(r)
  <2>1. PICK t \in TokenIds : run' = [run EXCEPT ![r].pc = "install", ![r].tok = t]
    BY <1>8 DEF Mint
  <2>2. run' = [run EXCEPT ![r] = [run[r] EXCEPT !.pc = "install", !.tok = t]]
    BY <1>1, <2>1 DEF RunsOK
  <2>3. [run[r] EXCEPT !.pc = "install", !.tok = t] \in RunState
    BY <1>2 DEF RunState
  <2> QED
    BY <1>1, <1>8, <2>2, <2>3, RunMoves DEF Mint
<1>9. CASE Provision(r)
  <2>1. lastKey' \in Nat /\ run' = [run EXCEPT ![r].pc = "authorize", ![r].key = lastKey']
    BY <1>9 DEF Provision, TypeOK
  <2>2. run' = [run EXCEPT ![r] = [run[r] EXCEPT !.pc = "authorize", !.key = lastKey']]
    BY <1>1, <2>1 DEF RunsOK
  <2>3. [run[r] EXCEPT !.pc = "authorize", !.key = lastKey'] \in RunState
    BY <1>2, <2>1 DEF RunState
  <2> QED
    BY <1>1, <1>9, <2>2, <2>3, RunMoves DEF Provision
<1>10. CASE DialRefused(r) \/ AwaitAgent(r) \/ StepFails(r)
  BY <1>5, <1>10 DEF DialRefused, AwaitAgent, StepFails, RunStatus
<1> QED
  BY <1>6, <1>7, <1>8, <1>9, <1>10 DEF RunStep

LEMMA KeyRowType ==
  ASSUME NEW k \in Nat \ {NoId}, NEW b \in BOOLEAN
  PROVE  [key |-> k, revoked |-> b] \in KeyRow
BY DEF KeyRow

LEMMA RunStepKeys ==
  ASSUME TypeOK, NEW r \in RunIds, RunStep(r)
  PROVE  KeysOK'
<1>1. run[r].pc # "none"
  BY DEF RunStep, Begin, Dial, DialRefused, Check, Mint, Install, Provision, Authorize,
     AwaitAgent, StepFails, At
<1>2. run[r] \in RunState /\ KeysOK
  BY <1>1, RunInputs, TypeParts
<1>3. CASE UNCHANGED keyVars
  BY <1>2, <1>3 DEF KeysOK, keyVars, historyVars
<1>4. CASE Dial(r)
  <2>1. pin' \in [Servers -> Hosts \cup {NoHost}]
    BY <1>2, <1>4 DEF Dial, SetHostKeyFingerprint, KeysOK, RunState
  <2> QED
    BY <1>2, <1>4, <2>1 DEF Dial, KeysOK, historyVars
<1>5. CASE Provision(r)
  <2>1. lastKey' \in Nat \ {NoId}
    BY <1>2, <1>5 DEF Provision, KeysOK, NoId
  <2>2. mkey' \in [Servers -> KeyRow \cup {NoKey}] /\ stored' \subseteq Nat \ {NoId}
    BY <1>2, <1>5, <2>1, KeyRowType DEF Provision, UpsertKey, KeysOK
  <2>3. overtaken' \subseteq RunIds /\ rotated' \subseteq RunIds
    BY <1>2, <1>5 DEF Provision, RunsOf, KeysOK
  <2> QED
    BY <1>2, <1>5, <2>1, <2>2, <2>3 DEF Provision, KeysOK
<1>6. CASE Authorize(r)
  <2>1. authKey' \in [Hosts -> Nat]
    BY <1>2, <1>6 DEF Authorize, KeysOK, RunState
  <2>2. overtaken' \subseteq RunIds
    BY <1>2, <1>6 DEF Authorize, RunsPast, KeysOK
  <2> QED
    BY <1>2, <1>6, <2>1, <2>2 DEF Authorize, KeysOK
<1> QED
  BY <1>3, <1>4, <1>5, <1>6 DEF RunStep, Begin, DialRefused, Check, Mint, Install, AwaitAgent,
     StepFails

\* The users' steps on runs and keys, and the restart.
LEMMA StartTypes ==
  ASSUME TypeOK, NEW r \in RunIds, NEW s \in Servers, NEW h \in Hosts, StartSetup(r, s, h)
  PROVE  RunsOK'
<1> DEFINE p == [srv |-> s, host |-> h, pc |-> "start", pinned |-> NoHost, tok |-> NoId,
                 key |-> NoId]
<1>1. p \in RunState
  BY DEF RunState, NoId
<1>2. p # NoRun
  BY DEF NoRun
<1>3. run' = [run EXCEPT ![r] = p] /\ status' = [status EXCEPT ![r] = "queued"]
  BY DEF StartSetup, InsertSetupRun
<1> HIDE DEF p
<1> QED
  BY <1>1, <1>2, <1>3, TypeParts DEF RunsOK, RunStatus

LEMMA DeletedTypes ==
  ASSUME TypeOK, NEW s \in Servers, DeleteServerAndSetup(s)
  PROVE  RunsOK' /\ KeysOK'
<1>0. RunsOK /\ KeysOK
  BY TypeParts
<1>1. /\ status' = [r \in RunIds |-> IF status[r] # "none" /\ run[r].srv = s
                                     THEN "deleted" ELSE status[r]]
      /\ run' = run
  BY DEF DeleteServerAndSetup
<1>2. RunsOK'
  BY <1>0, <1>1 DEF RunsOK, RunStatus
<1>3. /\ pin' \in [Servers -> Hosts \cup {NoHost}] /\ mkey' \in [Servers -> KeyRow \cup {NoKey}]
  BY <1>0 DEF DeleteServerAndSetup, KeysOK
<1> QED
  BY <1>0, <1>2, <1>3 DEF DeleteServerAndSetup, KeysOK, historyVars

LEMMA RestartTypes ==
  ASSUME TypeOK, RestartControlPlane
  PROVE  RunsOK'
<1>0. RunsOK /\ status' = status
        /\ run' = [r \in RunIds |-> IF run[r] = NoRun THEN NoRun ELSE Over(r)]
  BY TypeParts DEF RestartControlPlane
<1>1. \A r \in RunIds : run'[r] \in RunState \cup {NoRun} /\ (run'[r] = NoRun <=> run[r] = NoRun)
  BY <1>0, OverType
<1> QED
  BY <1>0, <1>1 DEF RunsOK

LEMMA ManagedKeyTypes ==
  ASSUME TypeOK, NEW s \in Servers, Rotate(s) \/ Revoke(s)
  PROVE  KeysOK'
<1>0. KeysOK
  BY TypeParts
<1>1. mkey[s] \in KeyRow
  BY <1>0 DEF Rotate, RotateKey, Revoke, RevokeKey, Active, HasKey, KeysOK, NoKey
<1>2. CASE Rotate(s)
  <2>1. lastKey' \in Nat \ {NoId} /\ rotations' \in 0 .. MaxRotations
    BY <1>0, <1>2, SetupAssumption DEF Rotate, KeysOK, NoId
  <2>2. [mkey[s] EXCEPT !.key = lastKey'] \in KeyRow
    BY <1>1, <2>1 DEF KeyRow
  <2>3. mkey' = [mkey EXCEPT ![s] = [mkey[s] EXCEPT !.key = lastKey']]
    BY <1>0, <1>2 DEF Rotate, RotateKey, KeysOK
  <2>4. stored' \subseteq Nat \ {NoId}
    BY <1>0, <1>2, <2>1 DEF Rotate, RotateKey, KeysOK
  <2>5. rotated' \subseteq RunIds
    BY <1>0, <1>2 DEF Rotate, RunsOf, KeysOK
  <2> QED
    BY <1>0, <1>2, <2>1, <2>2, <2>3, <2>4, <2>5 DEF Rotate, KeysOK
<1>3. CASE Revoke(s)
  <2>1. [mkey[s] EXCEPT !.revoked = TRUE] \in KeyRow
    BY <1>1 DEF KeyRow
  <2>2. mkey' = [mkey EXCEPT ![s] = [mkey[s] EXCEPT !.revoked = TRUE]]
    BY <1>0, <1>3 DEF Revoke, RevokeKey, KeysOK
  <2> QED
    BY <1>0, <1>3, <2>1, <2>2 DEF Revoke, KeysOK, historyVars
<1> QED
  BY <1>2, <1>3

LEMMA InitialTypes == Init => TypeOK
<1> SUFFICES ASSUME Init PROVE TypeOK
  OBVIOUS
<1>1. [Down EXCEPT !.pc = "beat", !.cred = 1] \in Process
  BY DEF Down, Process, NoId
<1>2. [cred |-> 1, online |-> TRUE, by |-> Home] \in AgentRow
  BY AgentsAssumption DEF AgentRow, NoId
<1>3. /\ server \in [Servers -> {"none", "live", "deleted"}]
      /\ token \in [TokenIds -> TokenRow \cup {NoToken}]
      /\ unit \in [Hosts -> TokenIds \cup {NoId}]
  BY DEF Init, AgentsInit
<1>4. agent \in [Servers -> AgentRow \cup {NoAgent}] /\ proc \in [Hosts -> Process]
  BY <1>1, <1>2, DownType DEF Init, AgentsInit
<1>5. lastCred \in Nat /\ disk \in [Hosts -> Nat] /\ torn \subseteq Hosts /\ faults \in 0 .. MaxFaults
  BY AgentsAssumption DEF Init, AgentsInit, NoId
<1>6. redeemed \subseteq [cred : Nat \ {NoId}, tok : TokenIds \cup {NoId}, host : Hosts]
  BY AgentsAssumption DEF Init, AgentsInit, NoId
<1>7. AgentsTypeOK
  BY <1>3, <1>4, <1>5, <1>6 DEF AgentsTypeOK
<1>8. RunsOK
  BY DEF Init, RunsOK
<1>9. pin \in [Servers -> Hosts \cup {NoHost}] /\ mkey \in [Servers -> KeyRow \cup {NoKey}]
  BY AgentsAssumption DEF Init, KeyRow, NoId
<1>10. /\ lastKey \in Nat /\ authKey \in [Hosts -> Nat] /\ stored \subseteq Nat \ {NoId}
       /\ overtaken \subseteq RunIds /\ rotated \subseteq RunIds /\ rotations \in 0 .. MaxRotations
  BY SetupAssumption DEF Init, NoId
<1> QED
  BY <1>7, <1>8, <1>9, <1>10, TypeParts DEF KeysOK

LEMMA StepTypes ==
  ASSUME TypeOK, [Next]_vars
  PROVE  TypeOK'
<1>1. AgentsTypeOK'
  BY AgentsPart, AgentsTypes, TypeParts
<1> SUFFICES RunsOK' /\ KeysOK'
  BY <1>1 DEF TypeOK, RunsOK, KeysOK, RunStatus
<1>2. ASSUME UNCHANGED setupVars PROVE RunsOK' /\ KeysOK'
  BY <1>2, TypeParts DEF setupVars, keyVars, historyVars, RunsOK, KeysOK
<1>3. ASSUME UNCHANGED keyVars PROVE KeysOK'
  BY <1>3, TypeParts DEF keyVars, historyVars, KeysOK
<1>4. ASSUME UNCHANGED <<status, run>> PROVE RunsOK'
  BY <1>4, TypeParts DEF RunsOK
<1>5. CASE User
  BY <1>2, <1>3, <1>4, <1>5, StartTypes, DeletedTypes, ManagedKeyTypes
     DEF User, StartSetup, Rotate, Revoke
<1>6. CASE Environment
  BY <1>2, <1>3, <1>6, RestartTypes DEF Environment, RestartControlPlane
<1>7. CASE \E h \in Hosts : AgentProcess(h)
  BY <1>2, <1>7 DEF AgentProcess
<1>8. CASE \E r \in RunIds : RunStep(r)
  BY <1>8, RunStepTypes, RunStepKeys
<1>9. CASE UNCHANGED vars
  BY <1>2, <1>9 DEF vars
<1> QED
  BY <1>5, <1>6, <1>7, <1>8, <1>9 DEF Next

\* Every reachable state is well typed, the registrations, the setup runs and the keys;
\* a run has a row exactly when its goroutine was started.
THEOREM SetupTypeCorrect == Spec => []TypeOK
BY InitialTypes, StepTypes, PTL DEF Spec

-----------------------------------------------------------------------------
(* Identities *)

Redeemed(c, h) == \E r \in redeemed : r.cred = c /\ r.host = h

\* A credential was issued once, for one token, to one machine; a redeemed token is no
\* longer fresh; what a machine holds was issued to it; and what a server shows came
\* from its own machine.
IdentityInv ==
    /\ \A a, b \in redeemed : a.tok = b.tok \/ a.cred = b.cred => a = b
    /\ \A r \in redeemed : r.cred <= lastCred
    /\ \A r \in redeemed : r.tok # NoId => token[r.tok].state \in {"consumed", "void"}
    /\ \A h \in Hosts : \A c \in Held(h) : c # NoId => Redeemed(c, h)
    /\ ReadinessIsOwn

\* Steps that issue nothing: a token is never fresh again, machines hold no more than
\* before, and a server that is shown shows what it showed.
KeepsIdentities ==
    /\ UNCHANGED <<lastCred, redeemed>>
    /\ \A t \in TokenIds : token[t].state \in {"consumed", "void"} =>
           token'[t].state \in {"consumed", "void"}
    /\ \A h \in Hosts : disk'[h] \in Held(h) \cup {NoId} /\ proc'[h].cred \in Held(h) \cup {NoId}
    /\ \A s \in Servers : ~Unknown(s)' =>
           ~Unknown(s) /\ agent'[s].cred = agent[s].cred /\ agent'[s].by = agent[s].by

LEMMA IdentitiesKept ==
  ASSUME AgentsTypeOK, IdentityInv, KeepsIdentities
  PROVE  IdentityInv'
<1>1. \A r \in redeemed : r.tok # NoId => r.tok \in TokenIds
  BY DEF AgentsTypeOK
<1>2. \A r \in redeemed' : r.tok # NoId => token'[r.tok].state \in {"consumed", "void"}
  BY <1>1 DEF IdentityInv, KeepsIdentities
<1>3. ASSUME NEW h \in Hosts, NEW c \in Held(h)', c # NoId PROVE Redeemed(c, h)'
  <2>1. c \in Held(h)
    BY <1>3 DEF Held, KeepsIdentities
  <2> QED
    BY <1>3, <2>1 DEF IdentityInv, Redeemed, KeepsIdentities
<1>4. ReadinessIsOwn'
  BY DEF IdentityInv, KeepsIdentities, ReadinessIsOwn, ReadinessOf
<1> QED
  BY <1>2, <1>3, <1>4 DEF IdentityInv, KeepsIdentities

\* Steps that leave the machines and the agents' rows alone.
LEMMA FrameKeeps ==
  ASSUME UNCHANGED <<lastCred, redeemed, disk, proc, agent>>,
         \A t \in TokenIds : token[t].state \in {"consumed", "void"} =>
             token'[t].state \in {"consumed", "void"}
  PROVE  KeepsIdentities
BY DEF KeepsIdentities, Held, Unknown, Registered

\* A registration issues a new credential to the machine that asked.
LEMMA RegisterKeeps ==
  ASSUME AgentsTypeOK, IdentityInv, NEW h \in Hosts, Register(h),
         \A g \in Hosts :
             /\ disk'[g] \in Held(g) \cup {NoId} \/ (g = h /\ disk'[g] = lastCred')
             /\ proc'[g].cred \in Held(g) \cup {NoId} \/ (g = h /\ proc'[g].cred = lastCred')
  PROVE  IdentityInv'
<1> DEFINE t == proc[h].tok
           new == [cred |-> lastCred', tok |-> t, host |-> h]
<1>1. /\ t \in TokenIds /\ token[t] \in TokenRow /\ token[t].state = "fresh"
      /\ lastCred' = lastCred + 1 /\ lastCred \in Nat
      /\ redeemed' = redeemed \cup {new}
  BY RegisterTypes DEF Register, Redeemable, AgentsTypeOK
<1>2. t # NoId
  BY DEF Register, Redeemable
<1>3. \A r \in redeemed : r.cred < lastCred' /\ r.cred \in Nat
  BY <1>1 DEF IdentityInv, AgentsTypeOK
<1>4. \A r \in redeemed : r.tok # t
  BY <1>1, <1>2 DEF IdentityInv
<1>5. token' = [token EXCEPT ![t].state = "consumed"]
  BY DEF Register
<1>6. \A u \in TokenIds : u # t => token'[u] = token[u]
  BY <1>5 DEF AgentsTypeOK
<1>7. token'[t].state = "consumed"
  BY <1>1, <1>5 DEF AgentsTypeOK, TokenRow
<1>8. \A r \in redeemed : r.tok # NoId => r.tok \in TokenIds
  BY DEF AgentsTypeOK
<1>9. new.cred = lastCred' /\ new.tok = t /\ new.host = h
  OBVIOUS
<1> HIDE DEF new, t
<1>10. \A a, b \in redeemed' : a.tok = b.tok \/ a.cred = b.cred => a = b
  BY <1>1, <1>3, <1>4, <1>9 DEF IdentityInv
<1>11. \A r \in redeemed' : r.cred <= lastCred'
  BY <1>1, <1>3, <1>9
<1>12. \A r \in redeemed' : r.tok # NoId => token'[r.tok].state \in {"consumed", "void"}
  BY <1>1, <1>6, <1>7, <1>8, <1>9 DEF IdentityInv
<1>13. \A g \in Hosts : \A c \in Held(g)' : c # NoId => Redeemed(c, g)'
  <2>1. ASSUME NEW g \in Hosts, NEW c \in Held(g)', c # NoId PROVE Redeemed(c, g)'
    <3>1. c \in Held(g) \/ (g = h /\ c = lastCred')
      BY <2>1 DEF Held
    <3>2. CASE c \in Held(g)
      BY <1>1, <2>1, <3>2 DEF IdentityInv, Redeemed
    <3>3. CASE g = h /\ c = lastCred'
      BY <1>1, <1>9, <3>3 DEF Redeemed
    <3> QED
      BY <3>1, <3>2, <3>3
  <2> QED
    BY <2>1
<1>14. ReadinessIsOwn'
  <2> DEFINE s == token[t].srv
             by == IF Registered(s) THEN agent[s].by ELSE NoHost
  <2>1. agent' = [agent EXCEPT ![s] = [cred |-> lastCred', online |-> FALSE, by |-> by]]
    BY DEF Register, UpsertAgent, t
  <2> HIDE DEF s, by
  <2>2. ASSUME NEW v \in Servers, ~Unknown(v)' PROVE agent'[v] = agent[v]
    BY <2>1, <2>2 DEF Unknown, Registered, AgentsTypeOK
  <2> QED
    BY <1>1, <2>2 DEF IdentityInv, ReadinessIsOwn, ReadinessOf, Unknown, Registered
<1> QED
  BY <1>10, <1>11, <1>12, <1>13, <1>14 DEF IdentityInv

\* A heartbeat is accepted from the machine that the credential was issued to.
LEMMA HeartbeatKeeps ==
  ASSUME AgentsTypeOK, IdentityInv, NEW h \in Hosts, Heartbeat(h)
  PROVE  IdentityInv'
<1>1. PICK s \in Servers : /\ Names(proc[h].cred, s)
                           /\ agent' = [agent EXCEPT ![s].online = TRUE, ![s].by = h]
  BY DEF Heartbeat, HeartbeatAgent, CollectHealth
<1>2. UNCHANGED <<server, token, lastCred, redeemed, disk, proc>>
  BY DEF Heartbeat, machineVars
<1>3. agent[s] \in AgentRow /\ agent[s].cred = proc[h].cred /\ proc[h].cred # NoId
  BY <1>1, RegisteredRow DEF Names, Registered
<1>4. Redeemed(proc[h].cred, h)
  BY <1>3 DEF IdentityInv, Held
<1>5. agent'[s].cred = proc[h].cred /\ agent'[s].by = h
  BY <1>1, <1>3 DEF AgentsTypeOK, AgentRow
<1>6. \A v \in Servers : v # s => agent'[v] = agent[v]
  BY <1>1 DEF AgentsTypeOK
<1>7. ASSUME NEW v \in Servers, ~Unknown(v)'
      PROVE  \E r \in redeemed' : r.cred = agent'[v].cred /\ r.host = ReadinessOf(v)'
  <2>1. CASE v = s
    BY <1>2, <1>4, <1>5, <1>7, <2>1 DEF Redeemed, ReadinessOf
  <2>2. CASE v # s
    BY <1>2, <1>6, <1>7, <2>2 DEF IdentityInv, ReadinessIsOwn, ReadinessOf, Unknown, Registered
  <2> QED
    BY <2>1, <2>2
<1>8. ReadinessIsOwn'
  BY <1>7 DEF ReadinessIsOwn
<1> QED
  BY <1>2, <1>8 DEF IdentityInv, Held, Redeemed

\* What a step of an agent process does to what the machines hold.
LEMMA ProcessHolds ==
  ASSUME AgentsTypeOK, NEW h \in Hosts, RestartAgent(h) \/ Crash(h) \/ AgentStep(h)
  PROVE  \A g \in Hosts :
             /\ \/ disk'[g] \in Held(g) \cup {NoId}
                \/ g = h /\ disk'[g] = lastCred' /\ Register(h)
             /\ \/ proc'[g].cred \in Held(g) \cup {NoId}
                \/ g = h /\ proc'[g].cred = lastCred' /\ Register(h)
<1>0. proc[h] \in Process
  BY DEF AgentsTypeOK
<1>1. ASSUME NEW p, proc' = [proc EXCEPT ![h] = p], p.cred \in Held(h) \cup {NoId}
      PROVE  \A g \in Hosts : proc'[g].cred \in Held(g) \cup {NoId}
  BY <1>1 DEF AgentsTypeOK, Held
<1>2. ASSUME Exit(h) PROVE \A g \in Hosts : proc'[g].cred \in Held(g) \cup {NoId}
  BY <1>1, <1>2 DEF Exit, Down
<1>3. ASSUME NEW pc, NEW b,
             proc' = [proc EXCEPT ![h].pc = pc] \/ proc' = [proc EXCEPT ![h].pc = pc, ![h].tried = b]
      PROVE  \A g \in Hosts : proc'[g].cred \in Held(g) \cup {NoId}
  BY <1>0, <1>3 DEF AgentsTypeOK, Held, Process
<1>4. ASSUME disk' = disk PROVE \A g \in Hosts : disk'[g] \in Held(g)
  BY <1>4 DEF Held
<1>5. ASSUME NEW pc, proc' = [proc EXCEPT ![h].pc = pc, ![h].cred = lastCred']
      PROVE  \A g \in Hosts : proc'[g].cred \in Held(g) \/ (g = h /\ proc'[g].cred = lastCred')
  BY <1>0, <1>5 DEF AgentsTypeOK, Held, Process
<1>6. CASE RestartAgent(h)
  BY <1>2, <1>4, <1>6 DEF RestartAgent, Exit
<1>7. CASE Crash(h)
  BY <1>2, <1>4, <1>7 DEF Crash
<1>8. CASE Load(h)
  <2>1. \A g \in Hosts : proc'[g].cred \in Held(g) \cup {NoId}
    BY <1>8 DEF Load, AgentsTypeOK, Held
  <2> QED
    BY <1>4, <1>8, <2>1 DEF Load
<1>9. CASE FirstRegister(h)
  BY <1>2, <1>4, <1>5, <1>9 DEF FirstRegister
<1>10. CASE FirstRegisterRejected(h)
  BY <1>2, <1>4, <1>10 DEF FirstRegisterRejected
<1>11. CASE SaveState(h)
  <2>1. \A g \in Hosts : disk'[g] \in Held(g) \cup {NoId}
    BY <1>11 DEF SaveState, WriteState, WriteFails, AgentsTypeOK, Held
  <2>2. \A g \in Hosts : proc'[g].cred \in Held(g) \cup {NoId}
    BY <1>2, <1>3, <1>11 DEF SaveState, Goto
  <2> QED
    BY <2>1, <2>2
<1>12. CASE Heartbeat(h)
  BY <1>12 DEF Heartbeat, machineVars, Held
<1>13. CASE HeartbeatRejected(h)
  BY <1>3, <1>4, <1>13 DEF HeartbeatRejected
<1>14. CASE Reregister(h)
  <2>1. \A g \in Hosts : disk'[g] \in Held(g) \cup {NoId} \/ (g = h /\ disk'[g] = lastCred')
    BY <1>14 DEF Reregister, WriteState, WriteFails, AgentsTypeOK, Held
  <2>2. \A g \in Hosts : \/ proc'[g].cred \in Held(g) \cup {NoId}
                         \/ g = h /\ proc'[g].cred = lastCred'
    BY <1>2, <1>3, <1>5, <1>14 DEF Reregister, Goto
  <2> QED
    BY <1>14, <2>1, <2>2 DEF Reregister
<1>15. CASE ReregisterRejected(h)
  BY <1>3, <1>4, <1>15 DEF ReregisterRejected, Goto
<1> QED
  BY <1>6, <1>7, <1>8, <1>9, <1>10, <1>11, <1>12, <1>13, <1>14, <1>15 DEF AgentStep

LEMMA IdentityStep ==
  ASSUME AgentsTypeOK, IdentityInv, AgentsEffect
  PROVE  IdentityInv'
<1>1. CASE Fault /\ UNCHANGED <<agentRows, machineVars>>
  BY <1>1, FrameKeeps, IdentitiesKept DEF agentRows, machineVars
<1>2. ASSUME NEW s \in Servers, CreateServer(s) PROVE IdentityInv'
  BY <1>2, FrameKeeps, IdentitiesKept DEF CreateServer, machineVars
<1>3. ASSUME NEW s \in Servers, DeleteServer(s) PROVE IdentityInv'
  <2>1. UNCHANGED <<lastCred, redeemed, disk, proc>>
    BY <1>3 DEF DeleteServer, machineVars
  <2>2. \A t \in TokenIds : token'[t] = token[t] \/ token'[t].state = "void"
    BY <1>3 DEF DeleteServer, DeleteServerRow
  <2>3. agent' = [agent EXCEPT ![s] = NoAgent]
    BY <1>3 DEF DeleteServer, DeleteServerRow
  <2>4. \A v \in Servers : ~Unknown(v)' => agent'[v] = agent[v]
    BY <2>3 DEF AgentsTypeOK, Unknown, Registered, NoAgent
  <2>5. KeepsIdentities
    BY <2>1, <2>2, <2>4 DEF KeepsIdentities, Held, Unknown, Registered
  <2> QED
    BY <2>5, IdentitiesKept
<1>4. ASSUME NEW s \in Servers, Lapse(s) PROVE IdentityInv'
  <2>1. UNCHANGED <<token, lastCred, redeemed, disk, proc>>
    BY <1>4 DEF Lapse, machineVars
  <2>2. agent' = [agent EXCEPT ![s].online = FALSE] /\ agent[s] \in AgentRow
    BY <1>4, RegisteredRow DEF Lapse
  <2>3. ~agent'[s].online /\ \A v \in Servers : v # s => agent'[v] = agent[v]
    BY <2>2 DEF AgentsTypeOK, AgentRow
  <2>4. KeepsIdentities
    BY <2>1, <2>3 DEF KeepsIdentities, Held, Unknown, Registered
  <2> QED
    BY <2>4, IdentitiesKept
<1>5. ASSUME NEW s \in Servers, NEW t \in TokenIds,
             CreateRegistrationToken(s, t), UNCHANGED machineVars
      PROVE  IdentityInv'
  <2>1. \A u \in TokenIds : token[u].state \in {"consumed", "void"} => token'[u] = token[u]
    BY <1>5 DEF CreateRegistrationToken, InsertRegistrationToken, AgentsTypeOK, NoToken
  <2> QED
    BY <1>5, <2>1, FrameKeeps, IdentitiesKept DEF CreateRegistrationToken, machineVars
<1>6. ASSUME NEW t \in TokenIds, TokenExpires(t) PROVE IdentityInv'
  <2>1. \A u \in TokenIds : token[u].state \in {"consumed", "void"} => token'[u] = token[u]
    BY <1>6 DEF TokenExpires, AgentsTypeOK
  <2> QED
    BY <1>6, <2>1, FrameKeeps, IdentitiesKept DEF TokenExpires, machineVars
<1>7. ASSUME NEW h \in Hosts, NEW t \in TokenIds \cup {NoId},
             InstallAgent(h, t), UNCHANGED <<agentRows, faults>>
      PROVE  IdentityInv'
  BY <1>7, FrameKeeps, IdentitiesKept DEF InstallAgent, agentRows
<1>8. ASSUME NEW h \in Hosts, RestartAgent(h) \/ Crash(h) \/ AgentStep(h) PROVE IdentityInv'
  <2>1. CASE Register(h)
    BY <1>8, <2>1, ProcessHolds, RegisterKeeps
  <2>2. CASE Heartbeat(h)
    BY <2>2, HeartbeatKeeps
  <2>3. CASE UNCHANGED agentRows /\ ~Register(h)
    <3>1. KeepsIdentities
      BY <1>8, <2>3, ProcessHolds DEF KeepsIdentities, agentRows, Unknown, Registered
    <3> QED
      BY <3>1, IdentitiesKept
  <2> QED
    BY <1>8, <2>1, <2>2, <2>3, ProcessEffect
<1>9. CASE UNCHANGED agentsVars
  BY <1>9, FrameKeeps, IdentitiesKept DEF agentsVars, agentRows, machineVars
<1> QED
  BY <1>1, <1>2, <1>3, <1>4, <1>5, <1>6, <1>7, <1>8, <1>9 DEF AgentsEffect

LEMMA InitialIdentities == Init => IdentityInv
<1> SUFFICES ASSUME Init PROVE IdentityInv
  OBVIOUS
<1>1. /\ redeemed = {[cred |-> 1, tok |-> NoId, host |-> Home]} /\ lastCred = 1
      /\ disk = [h \in Hosts |-> IF h = Home THEN 1 ELSE NoId]
      /\ proc = [h \in Hosts |-> IF h = Home THEN [Down EXCEPT !.pc = "beat", !.cred = 1]
                                 ELSE Down]
      /\ agent = [s \in Servers |-> IF s = HomeServer
                                    THEN [cred |-> 1, online |-> TRUE, by |-> Home]
                                    ELSE NoAgent]
  BY DEF Init, AgentsInit
<1>2. \A h \in Hosts : Held(h) \subseteq (IF h = Home THEN {1} ELSE {NoId})
  BY <1>1 DEF Held, Down
<1>3. \A h \in Hosts : \A c \in Held(h) : c # NoId => Redeemed(c, h)
  BY <1>1, <1>2 DEF Redeemed
<1>4. ReadinessIsOwn
  BY <1>1 DEF ReadinessIsOwn, ReadinessOf, Unknown, Registered, NoAgent
<1> QED
  BY <1>1, <1>3, <1>4 DEF IdentityInv

LEMMA IdentityHolds == Spec => []IdentityInv
<1>1. TypeOK /\ IdentityInv /\ [Next]_vars => IdentityInv'
  BY AgentsPart, IdentityStep, TypeParts
<1> QED
  BY <1>1, InitialTypes, StepTypes, InitialIdentities, PTL DEF Spec

\* A token makes one identity and a server answers to one machine, whatever answers are
\* lost, processes crash, tokens are copied and servers are set up again elsewhere
\* (Register, saveState, the self-heal of heartbeatLoop).
THEOREM IdentitiesUnique == Spec => []OneIdentity
<1>1. IdentityInv => OneIdentity
  <2> SUFFICES ASSUME IdentityInv PROVE OneIdentity
    OBVIOUS
  <2>1. ASSUME NEW g \in Hosts, NEW h \in Hosts, NEW s \in Servers,
               NEW c \in Held(g), NEW d \in Held(h), Names(c, s), Names(d, s)
        PROVE  g = h
    <3>1. c = d /\ c # NoId
      BY <2>1 DEF Names, Registered
    <3>2. Redeemed(c, g) /\ Redeemed(c, h)
      BY <3>1 DEF IdentityInv
    <3> QED
      BY <3>2 DEF Redeemed, IdentityInv
  <2> QED
    BY <2>1 DEF IdentityInv, OneIdentity
<1> QED
  BY <1>1, IdentityHolds, PTL

\* What the dashboard shows as a server's readiness was reported by the machine that is
\* registered for it now (UpsertAgent, HeartbeatAgent, Readiness).
THEOREM ReadinessOwn == Spec => []ReadinessIsOwn
<1>1. IdentityInv => ReadinessIsOwn
  BY DEF IdentityInv
<1> QED
  BY <1>1, IdentityHolds, PTL

-----------------------------------------------------------------------------
(* Management keys *)

\* Nothing has replaced the key of run r's server, or its machine's, behind its back.
Fresh(r) == r \notin overtaken \cup rotated

\* A run's row goes with its server; a run that succeeded is over; the key it is about to
\* install is stored; and, unless it was overtaken, that key is its server's key, which is
\* in place from the install on.
RunKeys(r) ==
    /\ status[r] # "none" =>
           server[run[r].srv] = IF status[r] = "deleted" THEN "deleted" ELSE "live"
    /\ status[r] = "succeeded" => run[r].pc = "done"
    /\ run[r].pc = "authorize" => run[r].key \in stored
    /\ Fresh(r) /\ status[r] # "deleted" =>
           /\ run[r].pc = "authorize" => mkey[run[r].srv].key = run[r].key
           /\ run[r].pc = "await" \/ status[r] = "succeeded" => KeyInPlace(r)

KeyInv ==
    /\ \A h \in Hosts : authKey[h] # NoId => authKey[h] \in stored
    /\ \A r \in RunIds : RunKeys(r)

\* A server that exists stays as it is, unless it is deleted.
LEMMA ServersStay ==
  ASSUME TypeOK, [Next]_vars, ~\E s \in Servers : DeleteServerAndSetup(s)
  PROVE  \A s \in Servers : server[s] # "none" => server'[s] = server[s]
<1>1. CASE server' = server
  BY <1>1
<1>2. ASSUME NEW s \in Servers, CreateServer(s)
      PROVE  \A v \in Servers : server[v] # "none" => server'[v] = server[v]
  BY <1>2 DEF CreateServer, InsertServer, TypeOK, AgentsTypeOK
<1>3. ASSUME NEW h \in Hosts, AgentProcess(h) PROVE server' = server
  <2>1. Register(h) \/ Heartbeat(h) \/ UNCHANGED agentRows
    BY <1>3, ProcessEffect DEF AgentProcess
  <2> QED
    BY <2>1 DEF Register, Heartbeat, agentRows
<1>4. ASSUME NEW r \in RunIds, RunStep(r) PROVE server' = server
  BY <1>4 DEF RunStep, Begin, Dial, DialRefused, Check, Mint, Install, Provision, Authorize,
     AwaitAgent, StepFails, CreateRegistrationToken, agentsVars, agentRows
<1>5. CASE Environment
  BY <1>1, <1>5 DEF Environment, TokenExpires, Lapse, Crash, RestartControlPlane, agentRows
<1>6. CASE User
  BY <1>1, <1>2, <1>6 DEF User, Rotate, Revoke, CreateRegistrationToken, RunInstallCommand,
     RestartAgent, StartSetup, agentsVars, agentRows
<1>7. CASE UNCHANGED vars
  BY <1>1, <1>7 DEF vars, agentsVars, agentRows
<1> QED
  BY <1>1, <1>3, <1>4, <1>5, <1>6, <1>7 DEF Next

\* The server and the machine of a run that has a row.
LEMMA RunPlaces ==
  ASSUME TypeOK, NEW r \in RunIds
  PROVE  /\ status[r] = "none" => run[r].pc = "none"
         /\ status[r] # "none" => /\ run[r] \in RunState /\ run[r].pc # "none"
                                  /\ run[r].srv \in Servers /\ run[r].host \in Hosts
<1>1. CASE status[r] = "none"
  BY <1>1 DEF TypeOK, NoRun
<1>2. CASE status[r] # "none"
  <2>1. run[r] \in RunState
    BY <1>2 DEF TypeOK
  <2> QED
    BY <1>2, <2>1 DEF RunState
<1> QED
  BY <1>1, <1>2

\* A run that does not move, while nothing touches its keys unless it is marked for that.
LEMMA RunLeft ==
  ASSUME TypeOK, NEW r \in RunIds, RunKeys(r), run'[r] = run[r], status'[r] = status[r],
         stored \subseteq stored',
         \A s \in Servers : server[s] # "none" => server'[s] = server[s],
         status[r] # "none" /\ Fresh(r)' =>
             /\ Fresh(r)
             /\ mkey'[run[r].srv].key = mkey[run[r].srv].key
             /\ run[r].pc \in {"await", "done"} => authKey'[run[r].host] = authKey[run[r].host]
  PROVE  RunKeys(r)'
<1>1. CASE status[r] = "none"
  BY <1>1, RunPlaces DEF RunKeys
<1>2. CASE status[r] # "none"
  <2>1. run[r].srv \in Servers
    BY <1>2, RunPlaces
  <2>2. server'[run[r].srv] = server[run[r].srv]
    BY <1>2, <2>1 DEF RunKeys
  <2> QED
    BY <1>2, <2>2 DEF RunKeys, KeyInPlace
<1> QED
  BY <1>1, <1>2

\* A run that moves, but not to a step that is about its key, or ends.
LEMMA RunMovesOn ==
  ASSUME TypeOK, NEW r \in RunIds, RunKeys(r), status[r] # "none",
         UNCHANGED <<mkey, authKey, stored, overtaken, rotated>>,
         \A s \in Servers : server[s] # "none" => server'[s] = server[s],
         run'[r].srv = run[r].srv, run'[r].host = run[r].host,
         run'[r].pc \notin {"authorize", "await"},
         \/ status'[r] = status[r] /\ (run[r].pc = "done" => run'[r].pc = "done")
         \/ status[r] # "deleted" /\ status'[r] \in {"running", "failed"}
         \/ /\ status[r] # "deleted" /\ status'[r] = "succeeded"
            /\ run[r].pc = "await" /\ run'[r].pc = "done"
  PROVE  RunKeys(r)'
<1>1. run[r].srv \in Servers
  BY RunPlaces
<1>2. server'[run[r].srv] = server[run[r].srv]
  BY <1>1 DEF RunKeys
<1>3. Fresh(r)' <=> Fresh(r)
  BY DEF Fresh
<1>4. KeyInPlace(r)' <=> KeyInPlace(r)
  BY DEF KeyInPlace
<1> QED
  BY <1>2, <1>3, <1>4 DEF RunKeys

\* A step of a run sets only its own row and record.
LEMMA OwnRow ==
  ASSUME TypeOK, NEW r \in RunIds, NEW p, run' = [run EXCEPT ![r] = p],
         status' = status \/ \E st : SetStatus(r, st)
  PROVE  /\ run'[r] = p
         /\ \A q \in RunIds : q # r => run'[q] = run[q] /\ status'[q] = status[q]
BY DEF TypeOK, SetStatus

\* The step of a run that is not about its key: the others are left, it moves on.
LEMMA PlainRunStep ==
  ASSUME TypeOK, KeyInv, [Next]_vars, ~\E s \in Servers : DeleteServerAndSetup(s),
         NEW r \in RunIds, status[r] # "none", NEW p, run' = [run EXCEPT ![r] = p],
         UNCHANGED <<mkey, authKey, stored, overtaken, rotated>>,
         p.srv = run[r].srv, p.host = run[r].host, p.pc \notin {"authorize", "await"},
         \/ status' = status /\ (run[r].pc = "done" => p.pc = "done")
         \/ \E st \in {"running", "failed"} : SetStatus(r, st) /\ run[r].pc # "done"
         \/ SetStatus(r, "succeeded") /\ run[r].pc = "await" /\ p.pc = "done"
  PROVE  KeyInv'
<1>1. /\ run'[r] = p
      /\ \A q \in RunIds : q # r => run'[q] = run[q] /\ status'[q] = status[q]
  BY OwnRow
<1>2. \A s \in Servers : server[s] # "none" => server'[s] = server[s]
  BY ServersStay
<1>3. RunKeys(r)'
  <2>1. \/ status'[r] = status[r] /\ (run[r].pc = "done" => p.pc = "done")
        \/ status[r] # "deleted" /\ status'[r] \in {"running", "failed"}
        \/ /\ status[r] # "deleted" /\ status'[r] = "succeeded"
           /\ run[r].pc = "await" /\ p.pc = "done"
    BY DEF SetStatus, TypeOK
  <2> QED
    BY <1>1, <1>2, <2>1, RunMovesOn DEF KeyInv
<1>4. ASSUME NEW q \in RunIds, q # r PROVE RunKeys(q)'
  <2>1. Fresh(q)' => Fresh(q)
    BY DEF Fresh
  <2> QED
    BY <1>1, <1>2, <1>4, <2>1, RunLeft DEF KeyInv
<1> QED
  BY <1>3, <1>4 DEF KeyInv

LEMMA ProvisionKeepsKeys ==
  ASSUME TypeOK, KeyInv, [Next]_vars, ~\E s \in Servers : DeleteServerAndSetup(s),
         NEW r \in RunIds, Provision(r)
  PROVE  KeyInv'
<1> DEFINE p == [run[r] EXCEPT !.pc = "authorize", !.key = lastKey']
           s == run[r].srv
<1>1. status[r] # "none" /\ run[r] \in RunState /\ s \in Servers /\ run[r].host \in Hosts
  BY RunPlaces DEF Provision, At
<1>2. run' = [run EXCEPT ![r] = p]
  BY DEF Provision, TypeOK
<1>3. p.pc = "authorize" /\ p.srv = s /\ p.key = lastKey'
  BY <1>1 DEF RunState
<1>4. run[r].pc = "provision"
  BY DEF Provision, At
<1> HIDE DEF p
<1>5. /\ UNCHANGED <<status, authKey>>
      /\ mkey' = [mkey EXCEPT ![s] = [key |-> lastKey', revoked |-> FALSE]]
      /\ stored' = stored \cup {lastKey'}
      /\ overtaken' = (overtaken \cup RunsOf(s)) \ {r} /\ rotated' = rotated \ {r}
  BY DEF Provision, UpsertKey
<1> HIDE DEF s
<1>6. /\ mkey'[s].key = lastKey' /\ \A v \in Servers : v # s => mkey'[v] = mkey[v]
  BY <1>1, <1>5 DEF TypeOK
<1>7. /\ run'[r] = p
      /\ \A q \in RunIds : q # r => run'[q] = run[q] /\ status'[q] = status[q]
  BY <1>2, <1>5, OwnRow
<1>8. \A v \in Servers : server[v] # "none" => server'[v] = server[v]
  BY ServersStay
<1>9. RunKeys(r)'
  <2>1. /\ status[r] # "none" => server[s] = IF status[r] = "deleted" THEN "deleted" ELSE "live"
        /\ status[r] # "succeeded"
    BY <1>4 DEF KeyInv, RunKeys, s
  <2>2. server'[s] = server[s]
    BY <1>1, <1>8, <2>1
  <2> QED
    BY <1>1, <1>3, <1>5, <1>6, <1>7, <2>1, <2>2 DEF RunKeys
<1>10. ASSUME NEW q \in RunIds, q # r PROVE RunKeys(q)'
  <2>1. ASSUME status[q] # "none", Fresh(q)'
        PROVE  Fresh(q) /\ mkey'[run[q].srv].key = mkey[run[q].srv].key
    <3>1. q \notin overtaken /\ q \notin rotated /\ q \notin RunsOf(s)
      BY <1>5, <1>10, <2>1 DEF Fresh
    <3>2. run[q].srv # s /\ run[q].srv \in Servers
      BY <2>1, <3>1, RunPlaces DEF RunsOf
    <3> QED
      BY <1>6, <3>1, <3>2 DEF Fresh
  <2> QED
    BY <1>5, <1>7, <1>8, <1>10, <2>1, RunLeft DEF KeyInv
<1> QED
  BY <1>5, <1>9, <1>10 DEF KeyInv

LEMMA AuthorizeKeepsKeys ==
  ASSUME TypeOK, KeyInv, [Next]_vars, ~\E s \in Servers : DeleteServerAndSetup(s),
         NEW r \in RunIds, Authorize(r)
  PROVE  KeyInv'
<1> DEFINE p == [run[r] EXCEPT !.pc = "await"]
           h == run[r].host
           k == run[r].key
<1>1. status[r] # "none" /\ run[r] \in RunState /\ run[r].srv \in Servers /\ h \in Hosts
  BY RunPlaces DEF Authorize, At
<1>2. run' = [run EXCEPT ![r] = p]
  BY DEF Authorize, Advance, TypeOK
<1>3. p.pc = "await" /\ p.srv = run[r].srv /\ p.host = h
  BY <1>1 DEF RunState
<1>4. run[r].pc = "authorize" /\ k \in stored /\ status[r] # "succeeded"
  BY DEF Authorize, At, KeyInv, RunKeys
<1> HIDE DEF p
<1>5. /\ UNCHANGED <<status, mkey, stored, rotated>>
      /\ authKey' = [authKey EXCEPT ![h] = k] /\ overtaken' = overtaken \cup RunsPast(h)
  BY DEF Authorize
<1>6. authKey'[h] = k /\ \A g \in Hosts : g # h => authKey'[g] = authKey[g]
  BY <1>1, <1>5 DEF TypeOK
<1>7. /\ run'[r] = p
      /\ \A q \in RunIds : q # r => run'[q] = run[q] /\ status'[q] = status[q]
  BY <1>2, <1>5, OwnRow
<1>8. \A v \in Servers : server[v] # "none" => server'[v] = server[v]
  BY ServersStay
<1>9. RunKeys(r)'
  <2>1. RunKeys(r)
    BY DEF KeyInv
  <2>2. server'[run[r].srv] = server[run[r].srv]
    BY <1>1, <1>8, <2>1 DEF RunKeys
  <2>3. Fresh(r)' => Fresh(r)
    BY <1>5 DEF Fresh
  <2>4. ASSUME Fresh(r), status[r] # "deleted" PROVE KeyInPlace(r)'
    BY <1>3, <1>4, <1>5, <1>6, <1>7, <2>1, <2>4 DEF RunKeys, KeyInPlace
  <2> QED
    BY <1>1, <1>3, <1>4, <1>5, <1>7, <2>1, <2>2, <2>3, <2>4 DEF RunKeys
<1>10. ASSUME NEW q \in RunIds, q # r PROVE RunKeys(q)'
  <2>1. ASSUME status[q] # "none", Fresh(q)'
        PROVE  /\ Fresh(q)
               /\ run[q].pc \in {"await", "done"} => authKey'[run[q].host] = authKey[run[q].host]
    <3>1. q \notin overtaken /\ q \notin rotated /\ q \notin RunsPast(h)
      BY <1>5, <2>1 DEF Fresh
    <3>2. run[q].host \in Hosts
      BY <2>1, RunPlaces
    <3>3. run[q].pc \in {"await", "done"} => run[q].host # h
      BY <3>1 DEF RunsPast
    <3> QED
      BY <1>6, <3>1, <3>2, <3>3 DEF Fresh
  <2> QED
    BY <1>5, <1>7, <1>8, <1>10, <2>1, RunLeft DEF KeyInv
<1>11. \A g \in Hosts : authKey'[g] # NoId => authKey'[g] \in stored'
  BY <1>4, <1>5, <1>6 DEF KeyInv
<1> QED
  BY <1>9, <1>10, <1>11 DEF KeyInv

LEMMA RunStepKeepsKeys ==
  ASSUME TypeOK, KeyInv, [Next]_vars, ~\E s \in Servers : DeleteServerAndSetup(s),
         NEW r \in RunIds, RunStep(r)
  PROVE  KeyInv'
<1>1. run[r].pc # "none" /\ RunsOK
  BY TypeParts DEF RunStep, Begin, Dial, DialRefused, Check, Mint, Install, Provision, Authorize,
     AwaitAgent, StepFails, At
<1>2. run[r] \in RunState /\ status[r] # "none" /\ run[r] # NoRun
  BY <1>1, RunInputs, RunPlaces DEF NoRun
<1>3. ASSUME NEW pc \in {"check", "mint", "provision"}, Advance(r, pc), run[r].pc # "done",
             UNCHANGED <<status, mkey, authKey, stored, overtaken, rotated>>
      PROVE  KeyInv'
  <2> DEFINE p == [run[r] EXCEPT !.pc = pc]
  <2>1. run' = [run EXCEPT ![r] = p]
    BY <1>1, <1>3 DEF Advance, RunsOK
  <2>2. p.pc = pc /\ p.srv = run[r].srv /\ p.host = run[r].host
    BY <1>2 DEF RunState
  <2> HIDE DEF p
  <2> QED
    BY <1>2, <1>3, <2>1, <2>2, PlainRunStep
<1>4. CASE Begin(r)
  <2>1. PICK g : run' = [run EXCEPT ![r].pc = "dial", ![r].pinned = g]
    BY <1>4 DEF Begin
  <2> DEFINE p == [run[r] EXCEPT !.pc = "dial", !.pinned = g]
  <2>2. run' = [run EXCEPT ![r] = p]
    BY <1>1, <2>1 DEF RunsOK
  <2>3. p.pc = "dial" /\ p.srv = run[r].srv /\ p.host = run[r].host
    BY <1>2 DEF RunState
  <2>4. status' = status \/ SetStatus(r, "running")
    BY <1>4, Zenon DEF Begin, TrySetStatus
  <2>5. UNCHANGED <<mkey, authKey, stored, overtaken, rotated>> /\ run[r].pc = "start"
    BY <1>4 DEF Begin, At, keyVars, historyVars
  <2> HIDE DEF p
  <2> QED
    BY <1>2, <2>2, <2>3, <2>4, <2>5, PlainRunStep
<1>5. CASE Dial(r) \/ Check(r) \/ Install(r)
  BY <1>3, <1>5 DEF Dial, Check, Install, At, keyVars, historyVars
<1>6. CASE Mint(r)
  <2>1. PICK t \in TokenIds : run' = [run EXCEPT ![r].pc = "install", ![r].tok = t]
    BY <1>6 DEF Mint
  <2> DEFINE p == [run[r] EXCEPT !.pc = "install", !.tok = t]
  <2>2. run' = [run EXCEPT ![r] = p]
    BY <1>1, <2>1 DEF RunsOK
  <2>3. p.pc = "install" /\ p.srv = run[r].srv /\ p.host = run[r].host
    BY <1>2 DEF RunState
  <2>4. UNCHANGED <<status, mkey, authKey, stored, overtaken, rotated>> /\ run[r].pc = "mint"
    BY <1>6 DEF Mint, At, keyVars, historyVars
  <2> HIDE DEF p
  <2> QED
    BY <1>2, <2>2, <2>3, <2>4, PlainRunStep
<1>7. CASE DialRefused(r) \/ AwaitAgent(r) \/ StepFails(r)
  <2> DEFINE p == Over(r)
  <2>1. run' = [run EXCEPT ![r] = p]
    BY <1>7 DEF DialRefused, AwaitAgent, StepFails, FinishRun
  <2>2. p.pc = "done" /\ p.srv = run[r].srv /\ p.host = run[r].host
    BY <1>2 DEF Over, RunState
  <2>3. UNCHANGED <<mkey, authKey, stored, overtaken, rotated>> /\ run[r].pc # "done"
    BY <1>7 DEF DialRefused, AwaitAgent, StepFails, At, keyVars, historyVars
  <2>4. \/ status' = status
        \/ SetStatus(r, "failed")
        \/ SetStatus(r, "succeeded") /\ run[r].pc = "await"
    BY <1>7 DEF DialRefused, AwaitAgent, StepFails, FinishRun, TrySetStatus, At
  <2> HIDE DEF p
  <2> QED
    BY <1>2, <2>1, <2>2, <2>3, <2>4, PlainRunStep
<1> QED
  BY <1>4, <1>5, <1>6, <1>7, ProvisionKeepsKeys, AuthorizeKeepsKeys DEF RunStep

\* The steps of users and the environment that leave the keys alone.
LEMMA KeysLeft ==
  ASSUME TypeOK, KeyInv, UNCHANGED setupVars,
         \A s \in Servers : server[s] # "none" => server'[s] = server[s]
  PROVE  KeyInv'
<1>1. /\ UNCHANGED <<status, run, mkey, authKey, stored, overtaken, rotated>>
  BY DEF setupVars, keyVars, historyVars
<1>2. ASSUME NEW r \in RunIds PROVE RunKeys(r)'
  <2>1. Fresh(r)' => Fresh(r)
    BY <1>1 DEF Fresh
  <2> QED
    BY <1>1, <2>1, RunLeft DEF KeyInv
<1> QED
  BY <1>1, <1>2 DEF KeyInv

LEMMA RotateKeepsKeys ==
  ASSUME TypeOK, KeyInv, NEW s \in Servers, Rotate(s) \/ Revoke(s)
  PROVE  KeyInv'
<1>0. /\ UNCHANGED <<status, run, authKey, overtaken>> /\ stored \subseteq stored'
      /\ server' = server
  BY DEF Rotate, RotateKey, Revoke, historyVars, agentsVars, agentRows
<1>1. mkey[s] \in KeyRow
  BY DEF Rotate, RotateKey, Revoke, RevokeKey, Active, HasKey, TypeOK, NoKey
<1>2. ASSUME NEW r \in RunIds, status[r] # "none", Fresh(r)'
      PROVE  Fresh(r) /\ mkey'[run[r].srv].key = mkey[run[r].srv].key
  <2>0. run[r].srv \in Servers
    BY <1>2, RunPlaces
  <2>1. CASE Rotate(s)
    <3>1. rotated' = rotated \cup RunsOf(s) /\ mkey' = [mkey EXCEPT ![s].key = lastKey']
      BY <2>1 DEF Rotate, RotateKey
    <3>2. run[r].srv # s /\ r \notin rotated /\ r \notin overtaken
      BY <1>0, <1>2, <3>1 DEF Fresh, RunsOf
    <3> QED
      BY <2>0, <3>1, <3>2 DEF Fresh, TypeOK
  <2>2. CASE Revoke(s)
    <3>1. mkey' = [mkey EXCEPT ![s].revoked = TRUE] /\ rotated' = rotated
      BY <2>2 DEF Revoke, RevokeKey, historyVars
    <3>2. \A v \in Servers : mkey'[v].key = mkey[v].key
      BY <1>1, <3>1 DEF TypeOK, KeyRow
    <3> QED
      BY <1>0, <1>2, <2>0, <3>1, <3>2 DEF Fresh
  <2> QED
    BY <2>1, <2>2
<1>3. \A r \in RunIds : RunKeys(r)'
  BY <1>0, <1>2, RunLeft DEF KeyInv
<1> QED
  BY <1>0, <1>3 DEF KeyInv

LEMMA DeleteKeepsKeys ==
  ASSUME TypeOK, KeyInv, NEW s \in Servers, DeleteServerAndSetup(s)
  PROVE  KeyInv'
<1>1. /\ UNCHANGED <<run, authKey, stored, overtaken, rotated>>
      /\ mkey' = [mkey EXCEPT ![s] = NoKey] /\ server' = [server EXCEPT ![s] = "deleted"]
      /\ status' = [r \in RunIds |-> IF status[r] # "none" /\ run[r].srv = s
                                     THEN "deleted" ELSE status[r]]
  BY DEF DeleteServerAndSetup, DeleteServer, DeleteServerRow, historyVars
<1>2. ASSUME NEW r \in RunIds PROVE RunKeys(r)'
  <2>0. RunKeys(r) /\ (Fresh(r)' <=> Fresh(r))
    BY <1>1 DEF KeyInv, Fresh
  <2>1. CASE status[r] = "none"
    <3>1. status'[r] = "none" /\ run'[r].pc = "none"
      BY <1>1, <2>1, RunPlaces
    <3> QED
      BY <3>1 DEF RunKeys
  <2>2. CASE status[r] # "none" /\ run[r].srv = s
    <3>1. status'[r] = "deleted" /\ server'[s] = "deleted"
      BY <1>1, <2>2 DEF TypeOK, AgentsTypeOK
    <3> QED
      BY <1>1, <2>0, <2>2, <3>1 DEF RunKeys
  <2>3. CASE status[r] # "none" /\ run[r].srv # s
    <3>1. run[r].srv \in Servers
      BY <2>3, RunPlaces
    <3>2. /\ status'[r] = status[r] /\ server'[run[r].srv] = server[run[r].srv]
          /\ mkey'[run[r].srv] = mkey[run[r].srv]
      BY <1>1, <2>3, <3>1 DEF TypeOK, AgentsTypeOK
    <3> QED
      BY <1>1, <2>0, <3>2 DEF RunKeys, KeyInPlace
  <2> QED
    BY <2>1, <2>2, <2>3
<1> QED
  BY <1>1, <1>2 DEF KeyInv

LEMMA StartKeepsKeys ==
  ASSUME TypeOK, KeyInv, NEW r \in RunIds, NEW s \in Servers, NEW h \in Hosts, StartSetup(r, s, h)
  PROVE  KeyInv'
<1> DEFINE p == [srv |-> s, host |-> h, pc |-> "start", pinned |-> NoHost, tok |-> NoId,
                 key |-> NoId]
<1>1. /\ run' = [run EXCEPT ![r] = p] /\ status' = [status EXCEPT ![r] = "queued"]
      /\ UNCHANGED <<mkey, authKey, stored, overtaken, rotated, server>> /\ server[s] = "live"
  BY DEF StartSetup, InsertSetupRun, keyVars, historyVars, agentsVars, agentRows
<1>2. p.pc = "start" /\ p.srv = s
  OBVIOUS
<1> HIDE DEF p
<1>3. /\ run'[r] = p /\ status'[r] = "queued"
      /\ \A q \in RunIds : q # r => run'[q] = run[q] /\ status'[q] = status[q]
  BY <1>1 DEF TypeOK
<1>4. RunKeys(r)'
  BY <1>1, <1>2, <1>3 DEF RunKeys
<1>5. ASSUME NEW q \in RunIds, q # r PROVE RunKeys(q)'
  <2>1. Fresh(q)' => Fresh(q)
    BY <1>1 DEF Fresh
  <2> QED
    BY <1>1, <1>3, <1>5, <2>1, RunLeft DEF KeyInv
<1> QED
  BY <1>1, <1>4, <1>5 DEF KeyInv

LEMMA RestartKeepsKeys ==
  ASSUME TypeOK, KeyInv, RestartControlPlane
  PROVE  KeyInv'
<1>1. /\ run' = [r \in RunIds |-> IF run[r] = NoRun THEN NoRun ELSE Over(r)]
      /\ UNCHANGED <<status, mkey, authKey, stored, overtaken, rotated, server>>
  BY DEF RestartControlPlane, keyVars, historyVars, agentRows
<1>2. ASSUME NEW r \in RunIds PROVE RunKeys(r)'
  <2>1. CASE status[r] = "none"
    <3>1. run'[r] = NoRun
      BY <1>1, <2>1 DEF TypeOK
    <3> QED
      BY <1>1, <2>1, <3>1 DEF RunKeys, NoRun
  <2>2. CASE status[r] # "none"
    <3>1. run[r] \in RunState /\ run[r] # NoRun
      BY <2>2 DEF TypeOK
    <3>2. run'[r].pc = "done" /\ run'[r].srv = run[r].srv /\ run'[r].host = run[r].host
      BY <1>1, <3>1 DEF Over, RunState
    <3> QED
      BY <1>1, <2>2, <3>2, RunMovesOn DEF KeyInv
  <2> QED
    BY <2>1, <2>2
<1> QED
  BY <1>1, <1>2 DEF KeyInv

LEMMA KeyStep ==
  ASSUME TypeOK, KeyInv, [Next]_vars
  PROVE  KeyInv'
<1>1. CASE \E s \in Servers : DeleteServerAndSetup(s)
  BY <1>1, DeleteKeepsKeys
<1>2. CASE ~\E s \in Servers : DeleteServerAndSetup(s)
  <2>1. \A s \in Servers : server[s] # "none" => server'[s] = server[s]
    BY <1>2, ServersStay
  <2>2. ASSUME UNCHANGED setupVars PROVE KeyInv'
    BY <2>1, <2>2, KeysLeft
  <2>3. CASE User
    BY <1>2, <2>2, <2>3, RotateKeepsKeys, StartKeepsKeys DEF User
  <2>4. CASE Environment
    BY <2>2, <2>4, RestartKeepsKeys DEF Environment
  <2>5. CASE \E h \in Hosts : AgentProcess(h)
    BY <2>2, <2>5 DEF AgentProcess
  <2>6. CASE \E r \in RunIds : RunStep(r)
    BY <1>2, <2>6, RunStepKeepsKeys
  <2>7. CASE UNCHANGED vars
    BY <2>2, <2>7 DEF vars
  <2> QED
    BY <2>3, <2>4, <2>5, <2>6, <2>7 DEF Next
<1> QED
  BY <1>1, <1>2

\* The key stored for a server is the one its machine trusts once a setup run succeeded,
\* until another run or a rotation replaces it, and no key reaches a machine before it is
\* committed: however many runs overlap, fail half-way, or lose their server or the control
\* plane (Provision, provisionUser, Rotate, finishRun).
THEOREM KeysInAgreement == Spec => []KeysAgree
<1>1. Init => KeyInv
  <2> SUFFICES ASSUME Init PROVE KeyInv
    OBVIOUS
  <2>1. \A h \in Hosts : authKey[h] # NoId => authKey[h] \in stored
    BY DEF Init, NoId
  <2>2. \A r \in RunIds : status[r] = "none" /\ run[r].pc = "none"
    BY DEF Init, NoRun
  <2> QED
    BY <2>1, <2>2 DEF KeyInv, RunKeys
<1>2. KeyInv => KeysAgree
  BY DEF KeyInv, RunKeys, KeysAgree, Fresh
<1> QED
  BY <1>1, <1>2, InitialTypes, StepTypes, KeyStep, PTL DEF Spec

=============================================================================
