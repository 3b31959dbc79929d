------------------------------- MODULE Agents -------------------------------
(***************************************************************************)
(* Servers and their agents: internal/servers, internal/agents and the     *)
(* identity of the agent process (agentcore.go, health.go).                *)
(*                                                                         *)
(* A user creates a server and mints a one-time registration token for it. *)
(* The token reaches a machine in the install command; the agent there     *)
(* exchanges it for a durable credential, keeps that on disk and beats     *)
(* with it.  A machine and a server record are different things: a server  *)
(* may be set up again on another machine, and deleted while its old       *)
(* machine still beats.                                                    *)
(*                                                                         *)
(* One action is one RPC (its transaction and, unless it is lost, its      *)
(* answer), one file operation or one start of the process.                *)
(***************************************************************************)
EXTENDS Naturals

CONSTANTS
    Servers,    \* server ids
    Hosts,      \* machines
    Home,       \* the machine that is registered at the start
    HomeServer, \* and the server it is registered for
    TokenIds,   \* registration tokens
    MaxFaults   \* bound on lost answers, failed writes and crashes

NoId == 0
NoServer == "no-server"
NoHost == "no-host"

ASSUME AgentsAssumption ==
    /\ TokenIds \subseteq Nat \ {NoId}
    /\ NoServer \notin Servers
    /\ NoHost \notin Hosts
    /\ Home \in Hosts /\ HomeServer \in Servers
    /\ MaxFaults \in Nat

VARIABLES
    server,     \* servers: "none" before the insert, "live", "deleted"
    token,      \* agent_registration_tokens
    agent,      \* agents, at most one row per server (UNIQUE server_id)
    lastCred,   \* the credential issued last; newAgentCredential never repeats one
    unit,       \* the token in each machine's systemd unit, NoId without one
    disk,       \* the credential in each machine's agent.json, NoId without one
    torn,       \* machines whose agent.json cannot be parsed
    proc,       \* the agent process of each machine
    redeemed,   \* history: which machine exchanged which token for which credential
    faults      \* faults so far

agentRows == <<server, token, agent, lastCred, redeemed>>
machineVars == <<unit, disk, torn, proc>>
agentsVars == <<agentRows, machineVars, faults>>

-----------------------------------------------------------------------------
(* Tables and processes *)

\* A token is void once it has expired or was deleted with its server.
TokenRow == [srv : Servers, state : {"fresh", "consumed", "void"}]
NoToken == [srv |-> NoServer, state |-> "none"]

\* agents: the credential, Status (online, or one of awaiting and offline, which
\* nothing tells apart here) and whose facts the row holds, if any.
AgentRow == [cred : Nat \ {NoId}, online : BOOLEAN, by : Hosts \cup {NoHost}]
NoAgent == [cred |-> NoId]

\* The process: before register, before saveState, in heartbeatLoop, before the
\* re-registration; its in-memory credential and token, and reregisterTried.
Process == [pc : {"down", "register", "save", "beat", "reregister"},
            cred : Nat, tok : TokenIds \cup {NoId}, tried : BOOLEAN]
Down == [pc |-> "down", cred |-> NoId, tok |-> NoId, tried |-> FALSE]

Registered(s) == agent[s].cred # NoId
\* resolveAgent and HeartbeatAgent: the server a credential names.
Names(c, s) == Registered(s) /\ agent[s].cred = c
Accepted(c) == \E s \in Servers : Names(c, s)

AgentsTypeOK ==
    /\ server \in [Servers -> {"none", "live", "deleted"}]
    /\ token \in [TokenIds -> TokenRow \cup {NoToken}]
    /\ agent \in [Servers -> AgentRow \cup {NoAgent}]
    /\ lastCred \in Nat
    /\ unit \in [Hosts -> TokenIds \cup {NoId}]
    /\ disk \in [Hosts -> Nat]
    /\ torn \subseteq Hosts
    /\ proc \in [Hosts -> Process]
    /\ redeemed \subseteq [cred : Nat \ {NoId}, tok : TokenIds \cup {NoId}, host : Hosts]
    /\ faults \in 0 .. MaxFaults

\* A server in service: its machine registered with a token that is long spent
\* (NoId) and beats with its first credential.
AgentsInit ==
    /\ server = [s \in Servers |-> IF s = HomeServer THEN "live" ELSE "none"]
    /\ token = [t \in TokenIds |-> NoToken]
    /\ agent = [s \in Servers |-> IF s = HomeServer
                                  THEN [cred |-> 1, online |-> TRUE, by |-> Home]
                                  ELSE NoAgent]
    /\ lastCred = 1
    /\ unit = [h \in Hosts |-> NoId]
    /\ disk = [h \in Hosts |-> IF h = Home THEN 1 ELSE NoId]
    /\ torn = {}
    /\ proc = [h \in Hosts |-> IF h = Home THEN [Down EXCEPT !.pc = "beat", !.cred = 1]
                                ELSE Down]
    /\ redeemed = {[cred |-> 1, tok |-> NoId, host |-> Home]}
    /\ faults = 0

Fault == faults < MaxFaults /\ faults' = faults + 1

-----------------------------------------------------------------------------
(* Servers and tokens *)

InsertServer(s) == server' = [server EXCEPT ![s] = "live"]

CreateServer(s) ==
    /\ server[s] = "none"
    /\ InsertServer(s)
    /\ UNCHANGED <<token, agent, lastCred, redeemed, machineVars, faults>>

\* The DELETE statement: the agent and the tokens go with the row (ON DELETE CASCADE).
DeleteServerRow(s) ==
    /\ server' = [server EXCEPT ![s] = "deleted"]
    /\ token' = [t \in TokenIds |->
                   IF token[t].srv = s THEN [srv |-> s, state |-> "void"] ELSE token[t]]
    /\ agent' = [agent EXCEPT ![s] = NoAgent]

DeleteServer(s) ==
    /\ server[s] = "live"
    /\ DeleteServerRow(s)
    /\ UNCHANGED <<lastCred, redeemed, machineVars, faults>>

InsertRegistrationToken(s, t) ==
    /\ token[t] = NoToken /\ \A u \in TokenIds : u < t => token[u] # NoToken
    /\ token' = [token EXCEPT ![t] = [srv |-> s, state |-> "fresh"]]

\* CreateRegistrationToken, for a server that exists.
CreateRegistrationToken(s, t) ==
    /\ server[s] = "live"
    /\ InsertRegistrationToken(s, t)
    /\ UNCHANGED <<server, agent, lastCred, redeemed, faults>>

\* registrationTokenTTL passes.
TokenExpires(t) ==
    /\ token[t].state = "fresh"
    /\ token' = [token EXCEPT ![t].state = "void"]
    /\ UNCHANGED <<server, agent, lastCred, redeemed, machineVars, faults>>

\* onlineWindow passes without a heartbeat.
Lapse(s) ==
    /\ Registered(s) /\ agent[s].online
    /\ agent' = [agent EXCEPT ![s].online = FALSE]
    /\ UNCHANGED <<server, token, lastCred, redeemed, machineVars, faults>>

-----------------------------------------------------------------------------
(* The machine *)

\* loadState and the head of Run: resume the identity on disk, or register.  A file
\* that cannot be parsed is an error of Run: systemd starts the process again and
\* again, and it gets no further.
Load(h) ==
    /\ proc[h].pc = "down" /\ (unit[h] # NoId \/ disk[h] # NoId)
    /\ h \notin torn
    /\ proc' = [proc EXCEPT ![h] =
                  [pc |-> IF disk[h] # NoId THEN "beat" ELSE "register",
                   cred |-> disk[h], tok |-> unit[h], tried |-> FALSE]]
    /\ UNCHANGED <<agentRows, unit, disk, torn, faults>>

\* The installer writes the unit and runs "systemctl enable --now", which starts
\* the agent but does not restart one that runs.
InstallAgent(h, t) == unit' = [unit EXCEPT ![h] = t] /\ UNCHANGED <<disk, torn, proc>>

\* A user runs an install command on a machine, one whose token is spent perhaps (a
\* void one fares no differently).
RunInstallCommand(h, t) ==
    /\ token[t].state \in {"fresh", "consumed"}
    /\ InstallAgent(h, t)
    /\ UNCHANGED <<agentRows, faults>>

\* The user restarts the agent to make it read a newly installed token.
RestartAgent(h) ==
    /\ proc[h].pc = "beat" /\ proc[h].tok # unit[h]
    /\ proc' = [proc EXCEPT ![h] = Down]
    /\ UNCHANGED <<agentRows, unit, disk, torn, faults>>

\* Mutant: the token is only looked up.
MutantRedeemable(t) == t # NoId /\ token[t].state \in {"fresh", "consumed"}

\* ConsumeAgentRegistrationToken's WHERE clause: neither consumed nor expired.
Redeemable(t) == t # NoId /\ token[t].state = "fresh"

\* Mutant: a second registration keeps the credential and the last heartbeat.
MutantUpsertAgent(s, c) ==
    agent' = [agent EXCEPT ![s] = IF Registered(s) THEN [@ EXCEPT !.cred = c]
                                  ELSE [cred |-> c, online |-> FALSE, by |-> NoHost]]

\* UpsertAgent: the new credential replaces the old one, the last heartbeat is
\* cleared, and so are some of the facts: those of the host (caddy, disk, memory)
\* stay in the row until the first heartbeat overwrites them.
UpsertAgent(s, c) ==
    agent' = [agent EXCEPT ![s] =
                [cred |-> c, online |-> FALSE,
                 by |-> IF Registered(s) THEN agent[s].by ELSE NoHost]]

\* Register, one transaction: consume the token, upsert the agent.
Register(h) ==
    LET t == proc[h].tok IN
    /\ Redeemable(t)
    /\ lastCred' = lastCred + 1
    /\ token' = [token EXCEPT ![t].state = "consumed"]
    /\ UpsertAgent(token[t].srv, lastCred')
    /\ redeemed' = redeemed \cup {[cred |-> lastCred', tok |-> t, host |-> h]}
    /\ UNCHANGED server

Goto(h, pc) == proc' = [proc EXCEPT ![h].pc = pc]
Exit(h) == proc' = [proc EXCEPT ![h] = Down]

\* register in Run: the answer carries the credential, or is lost and the process
\* exits; systemd starts it again with the same token.
FirstRegister(h) ==
    /\ proc[h].pc = "register"
    /\ Register(h)
    /\ \/ /\ proc' = [proc EXCEPT ![h].pc = "save", ![h].cred = lastCred']
          /\ UNCHANGED faults
       \/ Exit(h) /\ Fault
    /\ UNCHANGED <<unit, disk, torn>>

FirstRegisterRejected(h) ==
    /\ proc[h].pc = "register"
    /\ ~Redeemable(proc[h].tok)
    /\ Exit(h)
    /\ UNCHANGED <<agentRows, unit, disk, torn, faults>>

\* saveState: os.WriteFile truncates agent.json and writes it again.
WriteState(h, c) == disk' = [disk EXCEPT ![h] = c] /\ torn' = torn \ {h}

\* It fails before it touches the file, or leaves part of it: an error, or the end of
\* the process.
WriteFails(h) ==
    \/ UNCHANGED <<disk, torn>>
    \/ disk' = [disk EXCEPT ![h] = NoId] /\ torn' = torn \cup {h}

\* The save in Run; a process that cannot save exits.
SaveState(h) ==
    /\ proc[h].pc = "save"
    /\ \/ WriteState(h, proc[h].cred) /\ Goto(h, "beat") /\ UNCHANGED faults
       \/ WriteFails(h) /\ Exit(h) /\ Fault
    /\ UNCHANGED <<agentRows, unit>>

\* collectHealth: Docker, Caddy, disk and memory of a machine.  The facts stand for
\* the machine they are about.
CollectHealth(h) == h

\* HeartbeatAgent matches the credential and writes every fact in one statement.
HeartbeatAgent(c, facts) ==
    \E s \in Servers :
        /\ Names(c, s)
        /\ agent' = [agent EXCEPT ![s].online = TRUE, ![s].by = facts]

Heartbeat(h) ==
    /\ proc[h].pc = "beat"
    /\ HeartbeatAgent(proc[h].cred, CollectHealth(h))
    /\ UNCHANGED <<server, token, lastCred, redeemed, machineVars, faults>>

\* Mutant: a rejected heartbeat is only retried.
MutantHeartbeatRejected(h) ==
    /\ proc[h].pc = "beat"
    /\ ~Accepted(proc[h].cred)
    /\ UNCHANGED agentsVars

\* A rejected credential: re-register, once per process.
HeartbeatRejected(h) ==
    /\ proc[h].pc = "beat"
    /\ ~Accepted(proc[h].cred)
    /\ proc[h].tok # NoId /\ ~proc[h].tried
    /\ proc' = [proc EXCEPT ![h].pc = "reregister", ![h].tried = TRUE]
    /\ UNCHANGED <<agentRows, unit, disk, torn, faults>>

\* The self-heal: a new identity in memory, even if it cannot be saved (unless the
\* process dies in the write); when the answer is lost the old one stays.
Reregister(h) ==
    /\ proc[h].pc = "reregister"
    /\ Register(h)
    /\ \/ /\ WriteState(h, lastCred')
          /\ proc' = [proc EXCEPT ![h].pc = "beat", ![h].cred = lastCred']
          /\ UNCHANGED faults
       \/ /\ WriteFails(h) /\ Fault
          /\ \/ proc' = [proc EXCEPT ![h].pc = "beat", ![h].cred = lastCred']
             \/ Exit(h)
       \/ Goto(h, "beat") /\ Fault /\ UNCHANGED <<disk, torn>>
    /\ UNCHANGED unit

ReregisterRejected(h) ==
    /\ proc[h].pc = "reregister"
    /\ ~Redeemable(proc[h].tok)
    /\ Goto(h, "beat")
    /\ UNCHANGED <<agentRows, unit, disk, torn, faults>>

Crash(h) ==
    /\ proc[h].pc # "down"
    /\ Exit(h)
    /\ Fault
    /\ UNCHANGED <<agentRows, unit, disk, torn>>

AgentStep(h) ==
    \/ Load(h)
    \/ FirstRegister(h) \/ FirstRegisterRejected(h) \/ SaveState(h)
    \/ Heartbeat(h) \/ HeartbeatRejected(h)
    \/ Reregister(h) \/ ReregisterRejected(h)

-----------------------------------------------------------------------------
(* What the dashboard shows *)

\* Readiness: unknown unless the agent is online, else a verdict on the facts in the
\* row.  Which verdict is left out; what is kept is the machine it is about.
Unknown(s) == ~Registered(s) \/ ~agent[s].online
ReadinessOf(s) == IF Unknown(s) THEN NoHost ELSE agent[s].by

-----------------------------------------------------------------------------
(* Properties *)

\* The credentials a machine could present: in memory or on disk.
Held(h) == {disk[h], proc[h].cred}

\* A registration token makes one identity, whatever is lost, retried, crashed or
\* copied to a second machine (Register and its consume are one transaction); and a
\* server answers to one machine, the one that registered for it last: no two
\* machines hold credentials that name the same server.
OneIdentity ==
    /\ \A a, b \in redeemed : a.tok = b.tok => a = b
    /\ \A g, h \in Hosts, s \in Servers :
           /\ \E c \in Held(g) : Names(c, s)
           /\ \E c \in Held(h) : Names(c, s)
           => g = h

\* The readiness shown for a server was reported by the machine that is registered
\* for it now.  UpsertAgent leaves facts of the previous machine in the row; they
\* must not be shown.
ReadinessIsOwn ==
    \A s \in Servers : ~Unknown(s) =>
        \E r \in redeemed : r.cred = agent[s].cred /\ r.host = ReadinessOf(s)

\* A machine whose credential is rejected and whose token is still good gets a new
\* identity (heartbeatLoop: "instead of erroring forever with a stale identity"),
\* unless the token is lost to time, to another machine, to a deleted server or to
\* a fault.
Stale(h) ==
    /\ proc[h].pc = "beat" /\ ~Accepted(proc[h].cred)
    /\ Redeemable(proc[h].tok) /\ ~proc[h].tried
SelfHeals ==
    \A h \in Hosts :
        Stale(h) ~> \/ Accepted(proc[h].cred)
                    \/ ~Redeemable(proc[h].tok)
                    \/ faults > 0
=============================================================================
