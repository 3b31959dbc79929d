------------------------------ MODULE Backups ------------------------------
(***************************************************************************)
(* Backups and restores of managed Postgres services: the two job tables   *)
(* of internal/backups, and the one loop of each host's agent that works   *)
(* through both queues (agentcore/backup.go).                              *)
(*                                                                         *)
(* A job names a server; the agent that runs it is the one whose           *)
(* credential names that server, and it finds containers and artifacts on  *)
(* its own host.  Registering a host again moves a server to another host, *)
(* so the two are kept apart here.                                         *)
(*                                                                         *)
(* One action is one transaction, RPC, Docker exec or file operation       *)
(* together with the report that follows it.                               *)
(***************************************************************************)
EXTENDS Naturals

CONSTANTS
    Services,      \* managed Postgres services
    Servers,       \* server ids
    Hosts,         \* machines that run an agent
    HomeOf,        \* the server each host is first registered for, if any
    Tables,        \* names of the objects an application creates
    ContainerIds,  \* Docker containers of the services
    BackupIds,     \* backups, numbered by created_at
    RestoreIds,    \* restore jobs, numbered by created_at
    MaxFaults      \* bound on lost calls, crashes, disk errors, reinstalls

NoId == 0
NoServer == "no-server"

ASSUME BackupsAssumption ==
    /\ BackupIds \subseteq Nat \ {NoId}
    /\ RestoreIds \subseteq Nat \ {NoId}
    /\ ContainerIds \subseteq Nat \ {NoId}
    /\ MaxFaults \in Nat
    /\ NoServer \notin Servers
    /\ HomeOf \in [Hosts -> Servers \cup {NoServer}]
    /\ \A g, h \in Hosts : HomeOf[g] = HomeOf[h] /\ HomeOf[g] # NoServer => g = h

VARIABLES
    bstatus,   \* backups.status, "none" for a row not inserted yet
    brow,      \* backups: the service and the server
    uri,       \* backups: whether artifact_uri is set
    rstatus,   \* restore_jobs.status
    rrow,      \* restore_jobs: the backup, its service and server
    latest,    \* the server of a service's newest running deployment
    cont,      \* containers: the service label, the host, whether it is up
    data,      \* what the database in a container holds
    files,     \* artifacts on each host's disk
    ident,     \* the server an agent's credential names; NoServer without a valid one
    loop,      \* the backup loop: program counter, job, container
    landed,    \* history: where psql completed a restore, and what it wrote
    faults     \* faults so far

backupVars == <<bstatus, brow, uri>>
restoreVars == <<rstatus, rrow>>
dockerVars == <<latest, cont>>
vars == <<backupVars, restoreVars, dockerVars, data, files, ident, loop,
          landed, faults>>

-----------------------------------------------------------------------------
(* Tables, containers and files *)

\* backups.Status* and RestoreStatus*: "uploading" (and, for a restore,
\* "verifying") are reportable, but no agent reports them.
BackupStatus == {"queued", "assigned", "dumping", "uploading", "verifying",
                 "succeeded", "failed"}
RestoreStatus == {"queued", "assigned", "restoring", "verifying", "succeeded",
                  "failed"}
Terminal == {"succeeded", "failed"}

BackupRow == [svc : Services, srv : Servers]
NoBackup == [srv |-> NoServer]
RestoreRow == [bak : BackupIds, svc : Services, srv : Servers]
NoRestore == [bak |-> NoId]

\* A database's contents: the objects in it, each with the service whose
\* application created it.
Contents == SUBSET (Services \X Tables)

Container == [svc : Services, host : Hosts, up : BOOLEAN]
NoContainer == [up |-> FALSE]

\* {dataDir}/backups/{service}/{backup}.sql.
Artifact == [whole : BOOLEAN, data : Contents]
NoFile == [whole |-> FALSE]
EmptyFile == [whole |-> FALSE, data |-> {}]

\* Program counters: before PollBackupJob and PollRestoreJob, and before each
\* step of executeBackup and executeRestore.
Loop == [pc : {"poll", "pollRestore", "find", "dump", "verify", "target", "psql"},
         job : BackupIds \cup RestoreIds \cup {NoId},
         at : ContainerIds \cup {NoId}]
Idle == [pc |-> "poll", job |-> NoId, at |-> NoId]

HasBackup(h) == loop[h].pc \in {"find", "dump", "verify"}
HasRestore(h) == loop[h].pc \in {"target", "psql"}

TypeOK ==
    /\ bstatus \in [BackupIds -> BackupStatus \cup {"none"}]
    /\ brow \in [BackupIds -> BackupRow \cup {NoBackup}]
    /\ \A b \in BackupIds : bstatus[b] # "none" <=> brow[b] \in BackupRow
    /\ uri \in [BackupIds -> BOOLEAN]
    /\ rstatus \in [RestoreIds -> RestoreStatus \cup {"none"}]
    /\ rrow \in [RestoreIds -> RestoreRow \cup {NoRestore}]
    /\ \A r \in RestoreIds : rstatus[r] # "none" <=> rrow[r] \in RestoreRow
    /\ latest \in [Services -> Servers \cup {NoServer}]
    /\ cont \in [ContainerIds -> Container \cup {NoContainer}]
    /\ data \in [ContainerIds -> Contents]
    /\ files \in [Hosts -> [BackupIds -> Artifact \cup {NoFile}]]
    /\ ident \in [Hosts -> Servers \cup {NoServer}]
    /\ loop \in [Hosts -> Loop]
    /\ landed \in [RestoreIds -> [at : ContainerIds \cup {NoId}, data : Contents]]
    /\ faults \in 0 .. MaxFaults
    /\ \A h \in Hosts :
           /\ HasBackup(h) => loop[h].job \in BackupIds
           /\ HasRestore(h) => loop[h].job \in RestoreIds
           /\ loop[h].pc \in {"dump", "psql"} =>
                  loop[h].at # NoId /\ cont[loop[h].at] \in Container

Init ==
    /\ bstatus = [b \in BackupIds |-> "none"]
    /\ brow = [b \in BackupIds |-> NoBackup]
    /\ uri = [b \in BackupIds |-> FALSE]
    /\ rstatus = [r \in RestoreIds |-> "none"]
    /\ rrow = [r \in RestoreIds |-> NoRestore]
    /\ latest = [v \in Services |-> NoServer]
    /\ cont = [c \in ContainerIds |-> NoContainer]
    /\ data = [c \in ContainerIds |-> {}]
    /\ files = [h \in Hosts |-> [b \in BackupIds |-> NoFile]]
    /\ ident = HomeOf
    /\ loop = [h \in Hosts |-> Idle]
    /\ landed = [r \in RestoreIds |-> [at |-> NoId, data |-> {}]]
    /\ faults = 0

-----------------------------------------------------------------------------
(* The dashboard.  Each request reads the running server and then inserts; *)
(* a row inserted with a server that has changed meanwhile is a row        *)
(* inserted just before the change.                                        *)

\* Rows are inserted in the order of their numbers.
NextBackup(b) ==
    bstatus[b] = "none" /\ \A a \in BackupIds : a < b => bstatus[a] # "none"
NextRestore(r) ==
    rstatus[r] = "none" /\ \A q \in RestoreIds : q < r => rstatus[q] # "none"

\* Mutant: the row's columns are not filled in.
MutantEmptyRow(v, b) ==
    /\ NextBackup(b)
    /\ latest[v] # NoServer
    /\ bstatus' = [bstatus EXCEPT ![b] = "queued"]
    /\ UNCHANGED <<brow, uri, restoreVars, dockerVars, data, files, ident, loop,
                   landed, faults>>

InsertBackup(b, v, s) ==
    /\ NextBackup(b)
    /\ bstatus' = [bstatus EXCEPT ![b] = "queued"]
    /\ brow' = [brow EXCEPT ![b] = [svc |-> v, srv |-> s]]

\* CreateBackup: the database must be running somewhere.
CreateBackup(v, b) ==
    /\ latest[v] # NoServer
    /\ InsertBackup(b, v, latest[v])
    /\ UNCHANGED <<uri, restoreVars, dockerVars, data, files, ident, loop, landed,
                   faults>>

\* Mutant: any backup that has an artifact path can be restored.
MutantAnyArtifact(b) == uri[b]

\* A backup may be restored once it has succeeded.
Restorable(b) == bstatus[b] = "succeeded"

\* InsertRestore: to the server that holds the artifact.
InsertRestore(r, b) ==
    /\ NextRestore(r)
    /\ rstatus' = [rstatus EXCEPT ![r] = "queued"]
    /\ rrow' = [rrow EXCEPT ![r] = [bak |-> b, svc |-> brow[b].svc, srv |-> brow[b].srv]]

\* RestoreBackup: of a succeeded backup, while the database runs on the server
\* that took it.
RestoreBackup(b, r) ==
    /\ Restorable(b)
    /\ latest[brow[b].svc] = brow[b].srv
    /\ InsertRestore(r, b)
    /\ UNCHANGED <<backupVars, dockerVars, data, files, ident, loop, landed, faults>>

-----------------------------------------------------------------------------
(* The agent gateway *)

\* A fault: a lost call or answer, a crash, a disk error, a new registration.
Fault == faults < MaxFaults /\ faults' = faults + 1

\* Mutant: failed jobs are offered again.
MutantOldestRetried(status, row, s, j) ==
    LET Waiting(i) == status[i] \in {"queued", "failed"} /\ row[i].srv = s
    IN  Waiting(j) /\ \A i \in DOMAIN status : i < j => ~Waiting(i)

\* Mutant: the claim orders by created_at the wrong way round.
MutantNewest(status, row, s, j) ==
    LET Waiting(i) == status[i] = "queued" /\ row[i].srv = s
    IN  Waiting(j) /\ \A i \in DOMAIN status : i > j => ~Waiting(i)

\* The job ClaimNext...ForServer picks: the server's oldest queued one.
Oldest(status, row, s, j) ==
    LET Waiting(i) == status[i] = "queued" /\ row[i].srv = s
    IN  Waiting(j) /\ \A i \in DOMAIN status : i < j => ~Waiting(i)

\* UpdateBackupStatus: written whatever the status was; an empty path keeps the old one.
UpdateBackupStatus(b, status, path) ==
    /\ bstatus' = [bstatus EXCEPT ![b] = status]
    /\ uri' = [uri EXCEPT ![b] = @ \/ path]

UpdateRestoreStatus(r, status) == rstatus' = [rstatus EXCEPT ![r] = status]

\* ReportBackupJob, if the caller's credential names the backup's server.  The agent
\* ignores an error, so a lost report is simply not written.
ReportBackupJob(h, b, status, path) ==
    \/ /\ ident[h] = brow[b].srv
       /\ UpdateBackupStatus(b, status, path)
       /\ UNCHANGED <<brow, faults>>
    \/ ident[h] # brow[b].srv /\ UNCHANGED <<backupVars, faults>>
    \/ Fault /\ UNCHANGED backupVars

ReportRestoreJob(h, r, status) ==
    \/ /\ ident[h] = rrow[r].srv
       /\ UpdateRestoreStatus(r, status)
       /\ UNCHANGED <<rrow, faults>>
    \/ ident[h] # rrow[r].srv /\ UNCHANGED <<restoreVars, faults>>
    \/ Fault /\ UNCHANGED restoreVars

-----------------------------------------------------------------------------
(* backupLoop *)

Goto(h, pc, job, c) == loop' = [loop EXCEPT ![h] = [pc |-> pc, job |-> job, at |-> c]]
Return(h) == loop' = [loop EXCEPT ![h] = Idle]

\* PollBackupJob.  The claim is committed before the credentials are read and
\* the answer is sent: if either fails the row stays assigned and the loop polls
\* again.  A rejected credential is retried.
PollBackupJob(h) ==
    /\ loop[h].pc = "poll"
    /\ ident[h] # NoServer
    /\ \/ \E b \in BackupIds :
              /\ Oldest(bstatus, brow, ident[h], b)
              /\ bstatus' = [bstatus EXCEPT ![b] = "assigned"]
              /\ \/ Goto(h, "find", b, NoId) /\ UNCHANGED faults
                 \/ Fault /\ UNCHANGED loop
       \/ /\ ~\E b \in BackupIds : Oldest(bstatus, brow, ident[h], b)
          /\ Goto(h, "pollRestore", NoId, NoId)
          /\ UNCHANGED <<bstatus, faults>>
    /\ UNCHANGED <<brow, uri, restoreVars, dockerVars, data, files, ident, landed>>

\* pollAndRunRestore: any error counts as no work.
PollRestoreJob(h) ==
    /\ loop[h].pc = "pollRestore"
    /\ \/ \E r \in RestoreIds :
              /\ ident[h] # NoServer
              /\ Oldest(rstatus, rrow, ident[h], r)
              /\ rstatus' = [rstatus EXCEPT ![r] = "assigned"]
              /\ \/ Goto(h, "target", r, NoId) /\ UNCHANGED faults
                 \/ Fault /\ Return(h)
       \/ /\ ident[h] = NoServer
             \/ ~\E r \in RestoreIds : Oldest(rstatus, rrow, ident[h], r)
          /\ Return(h)
          /\ UNCHANGED <<rstatus, faults>>
       \/ Fault /\ Return(h) /\ UNCHANGED rstatus
    /\ UNCHANGED <<backupVars, rrow, dockerVars, data, files, ident, landed>>

\* Mutant: the service label is not part of the filter.
MutantAnyContainer(h, v) == {c \in ContainerIds : cont[c].up /\ cont[c].host = h}

\* findRunningByService takes the first container that Docker lists for the
\* service label: during a redeploy that may be the old one or the new one.
Running(h, v) == {c \in ContainerIds :
                    cont[c].up /\ cont[c].svc = v /\ cont[c].host = h}

-----------------------------------------------------------------------------
(* executeBackup *)

\* fail(msg): report, and back to polling.  Docker missing, an unreadable list
\* and a directory or file that cannot be created all end here.
FailBackup(h) == ReportBackupJob(h, loop[h].job, "failed", FALSE) /\ Return(h)

\* Mutant: no report when the container is not running.
MutantSilentFind(h) ==
    LET b == loop[h].job
    IN  /\ loop[h].pc = "find"
        /\ \/ \E c \in Running(h, brow[b].svc) :
                  /\ ReportBackupJob(h, b, "dumping", FALSE)
                  /\ files' = [files EXCEPT ![h][b] = EmptyFile]
                  /\ Goto(h, "dump", b, c)
           \/ /\ Running(h, brow[b].svc) = {}
              /\ Return(h) /\ UNCHANGED <<backupVars, files, faults>>
        /\ UNCHANGED <<restoreVars, dockerVars, data, ident, landed>>

\* Find the container, report dumping, create the file.
FindDatabase(h) ==
    LET b == loop[h].job
    IN  /\ loop[h].pc = "find"
        /\ \/ \E c \in Running(h, brow[b].svc) :
                  /\ ReportBackupJob(h, b, "dumping", FALSE)
                  /\ files' = [files EXCEPT ![h][b] = EmptyFile]
                  /\ Goto(h, "dump", b, c)
           \/ FailBackup(h) /\ UNCHANGED files
        /\ UNCHANGED <<restoreVars, dockerVars, data, ident, landed>>

\* execPgDump: a dump of the container's contents, then the report with the
\* path; or an error (the container is gone, a non-zero exit, no output), and
\* the partial file is removed.
PgDump(h) ==
    LET b == loop[h].job
        c == loop[h].at
    IN  /\ loop[h].pc = "dump"
        /\ \/ /\ cont[c].up
              /\ files' = [files EXCEPT ![h][b] = [whole |-> TRUE, data |-> data[c]]]
              /\ ReportBackupJob(h, b, "verifying", TRUE)
              /\ Goto(h, "verify", b, NoId)
           \/ /\ files' = [files EXCEPT ![h][b] = NoFile]
              /\ FailBackup(h)
        /\ UNCHANGED <<restoreVars, dockerVars, data, ident, landed>>

\* Mutant: the artifact is not looked at before the last report.
MutantUnverified(h) ==
    LET b == loop[h].job
    IN  /\ loop[h].pc = "verify"
        /\ ReportBackupJob(h, b, "succeeded", TRUE) /\ Return(h)
        /\ UNCHANGED <<restoreVars, dockerVars, data, files, ident, landed>>

\* Stat the artifact and compare its size.  A failure leaves the file.
Verify(h) ==
    LET b == loop[h].job
    IN  /\ loop[h].pc = "verify"
        /\ \/ /\ files[h][b].whole
              /\ ReportBackupJob(h, b, "succeeded", TRUE) /\ Return(h)
           \/ ~files[h][b].whole /\ FailBackup(h)
        /\ UNCHANGED <<restoreVars, dockerVars, data, files, ident, landed>>

-----------------------------------------------------------------------------
(* executeRestore *)

FailRestore(h) == ReportRestoreJob(h, loop[h].job, "failed") /\ Return(h)

\* Find the container and open the artifact, then report restoring.  Opening
\* does not look at the contents: a partial file opens too.
FindTarget(h) ==
    LET r == loop[h].job
    IN  /\ loop[h].pc = "target"
        /\ \/ \E c \in Running(h, rrow[r].svc) :
                  /\ files[h][rrow[r].bak] # NoFile
                  /\ ReportRestoreJob(h, r, "restoring")
                  /\ Goto(h, "psql", r, c)
           \/ FailRestore(h)
        /\ UNCHANGED <<backupVars, dockerVars, data, files, ident, landed>>

\* The dump is plain SQL without --clean and psql runs it in no transaction: it
\* stops at the first object that exists, and what ran before that stays.
Partly(h, c) ==
    \E done \in SUBSET (files[h][rrow[loop[h].job].bak].data \ data[c]) :
        /\ done # {} => cont[c].up
        /\ data' = [data EXCEPT ![c] = @ \cup done]

\* execPsqlRestore and the last report.
Psql(h) ==
    LET r == loop[h].job
        c == loop[h].at
        dump == files[h][rrow[r].bak].data
    IN  /\ loop[h].pc = "psql"
        /\ \/ /\ cont[c].up
              /\ dump \cap data[c] = {}
              /\ data' = [data EXCEPT ![c] = @ \cup dump]
              /\ landed' = [landed EXCEPT ![r] = [at |-> c, data |-> dump]]
              /\ ReportRestoreJob(h, r, "succeeded") /\ Return(h)
           \/ Partly(h, c) /\ FailRestore(h) /\ UNCHANGED landed
        /\ UNCHANGED <<backupVars, dockerVars, files, ident>>

-----------------------------------------------------------------------------
(* Faults and re-registration *)

\* The process stops anywhere.  psql sees the end of its input and keeps what
\* it ran; nothing is resumed when the agent comes back.
Stop(h) ==
    /\ Fault
    /\ Return(h)
    /\ IF loop[h].pc = "psql" THEN Partly(h, loop[h].at) ELSE UNCHANGED data
    /\ UNCHANGED <<backupVars, restoreVars, dockerVars, files, landed>>

Crash(h) == loop[h] # Idle /\ Stop(h) /\ UNCHANGED ident

\* A credential names one server and a server has one: registering replaces the
\* server's old credential, and the host's identity is overwritten.
Registered(h, s) ==
    [g \in Hosts |-> IF g = h THEN s ELSE IF ident[g] = s THEN NoServer ELSE ident[g]]

\* The agent is installed again on a host, with a token of any server.
Reinstall(h, s) == ident[h] # s /\ ident' = Registered(h, s) /\ Stop(h)

\* heartbeatLoop: a rejected credential is exchanged for a new one while the
\* other loops keep running.
Reregister(h, s) ==
    /\ ident[h] = NoServer
    /\ Fault
    /\ ident' = Registered(h, s)
    /\ UNCHANGED <<backupVars, restoreVars, dockerVars, data, files, loop, landed>>

\* The disk loses an artifact's tail, or all of it, before it is verified.
DiskError(h) ==
    /\ loop[h].pc = "verify"
    /\ files[h][loop[h].job].whole
    /\ Fault
    /\ \E left \in {NoFile, EmptyFile} :
           files' = [files EXCEPT ![h][loop[h].job] = left]
    /\ UNCHANGED <<backupVars, restoreVars, dockerVars, data, ident, loop, landed>>

-----------------------------------------------------------------------------
(* The rest of the system, as far as this loop sees it: deployments of the *)
(* services (module DeployEngine) and the applications that use them.      *)

\* The deploy loop starts a fresh, empty container beside the old ones.
StartDatabase(h, v, c) ==
    /\ ident[h] # NoServer
    /\ cont[c] = NoContainer
    /\ \A b \in ContainerIds : b < c => cont[b] # NoContainer
    /\ cont' = [cont EXCEPT ![c] = [svc |-> v, host |-> h, up |-> TRUE]]
    /\ UNCHANGED <<backupVars, restoreVars, latest, data, files, ident, loop, landed,
                   faults>>

\* Its deployment is reported running.
DatabaseRunning(c) ==
    /\ cont[c].up
    /\ ident[cont[c].host] # NoServer
    /\ latest[cont[c].svc] # ident[cont[c].host]
    /\ latest' = [latest EXCEPT ![cont[c].svc] = ident[cont[c].host]]
    /\ UNCHANGED <<backupVars, restoreVars, cont, data, files, ident, loop, landed,
                   faults>>

\* A container is replaced, torn down or dies.
StopDatabase(c) ==
    /\ cont[c].up
    /\ cont' = [cont EXCEPT ![c].up = FALSE]
    /\ UNCHANGED <<backupVars, restoreVars, latest, data, files, ident, loop, landed,
                   faults>>

\* The application creates an object in its database.
Write(c, t) ==
    /\ cont[c].up
    /\ <<cont[c].svc, t>> \notin data[c]
    /\ data' = [data EXCEPT ![c] = @ \cup {<<cont[c].svc, t>>}]
    /\ UNCHANGED <<backupVars, restoreVars, dockerVars, files, ident, loop, landed,
                   faults>>

-----------------------------------------------------------------------------
LoopStep(h) ==
    \/ PollBackupJob(h) \/ FindDatabase(h) \/ PgDump(h) \/ Verify(h)
    \/ PollRestoreJob(h) \/ FindTarget(h) \/ Psql(h)

Next ==
    \/ \E v \in Services, b \in BackupIds : CreateBackup(v, b)
    \/ \E b \in BackupIds, r \in RestoreIds : RestoreBackup(b, r)
    \/ \E h \in Hosts : LoopStep(h) \/ Crash(h) \/ DiskError(h)
    \/ \E h \in Hosts, s \in Servers : Reinstall(h, s) \/ Reregister(h, s)
    \/ \E h \in Hosts, v \in Services, c \in ContainerIds : StartDatabase(h, v, c)
    \/ \E c \in ContainerIds : DatabaseRunning(c) \/ StopDatabase(c)
    \/ \E c \in ContainerIds, t \in Tables : Write(c, t)

\* backupLoop is a goroutine in an endless loop whose calls return; a poll is
\* retried until the control plane answers.
Fairness == \A h \in Hosts : WF_vars(LoopStep(h))

Spec == Init /\ [][Next]_vars
FairSpec == Spec /\ Fairness

-----------------------------------------------------------------------------
(* Properties *)

\* A succeeded backup can be restored: its row has a path and some host holds
\* the whole dump, through lost reports, crashes at any step, disk errors
\* before the verification and servers that move to another host.
ArtifactKept ==
    \A b \in BackupIds : bstatus[b] = "succeeded" =>
        uri[b] /\ \E h \in Hosts : files[h][b].whole

\* A restore reported as succeeded is one that psql completed, in a container of
\* the backup's own service, with everything the verified artifact holds.
RestoreTruthful ==
    \A r \in RestoreIds : rstatus[r] = "succeeded" =>
        LET c == landed[r].at
        IN  /\ c # NoId
            /\ cont[c].svc = rrow[r].svc
            /\ files[cont[c].host][rrow[r].bak] = [whole |-> TRUE, data |-> landed[r].data]

\* What one service's application wrote never reaches another service's database
\* or artifact, though jobs of both go through one loop and one disk.
OwnDataOnly ==
    /\ \A c \in ContainerIds, x \in Services \X Tables :
           x \in data[c] => cont[c].svc = x[1]
    /\ \A h \in Hosts, b \in BackupIds, x \in Services \X Tables :
           files[h][b] # NoFile /\ x \in files[h][b].data => brow[b].svc = x[1]

\* A job that has ended stays as it ended: no poll, late report or restarted
\* agent touches its row again.
OutcomeStable ==
    [][/\ \A b \in BackupIds : bstatus[b] \in Terminal => bstatus'[b] = bstatus[b]
       /\ \A r \in RestoreIds : rstatus[r] \in Terminal => rstatus'[r] = rstatus[r]]_vars

\* Without faults every job ends: each error path of the agent reports.  Whatever
\* the faults, every queued job is claimed unless its server is left without an
\* agent: the loop asks for restores only when no backup is queued, and still
\* reaches both queues.
JobsSettle ==
    LET Excused(queued, s) == /\ faults > 0
                              /\ queued => \A h \in Hosts : ident[h] # s
    IN  /\ \A b \in BackupIds : bstatus[b] \in {"queued", "assigned"} ~>
               \/ bstatus[b] \in Terminal
               \/ Excused(bstatus[b] = "queued", brow[b].srv)
        /\ \A r \in RestoreIds : rstatus[r] \in {"queued", "assigned"} ~>
               \/ rstatus[r] \in Terminal
               \/ Excused(rstatus[r] = "queued", rrow[r].srv)

-----------------------------------------------------------------------------
(* The two tables as job queues *)

Phase(status) ==
    CASE status = "none" -> "new"
      [] status = "queued" -> "waiting"
      [] status \in Terminal -> "ended"
      [] OTHER -> "taken"

backupPhase == [b \in BackupIds |-> Phase(bstatus[b])]
backupPlace == [b \in BackupIds |-> brow[b].srv]
restorePhase == [r \in RestoreIds |-> Phase(rstatus[r])]
restorePlace ==
    [r \in RestoreIds |-> IF rstatus[r] = "none" THEN NoServer ELSE rrow[r].srv]

BackupQueue == INSTANCE JobQueue WITH
    Jobs <- BackupIds, Places <- Servers, NoPlace <- NoServer,
    phase <- backupPhase, place <- backupPlace
RestoreQueue == INSTANCE JobQueue WITH
    Jobs <- RestoreIds, Places <- Servers, NoPlace <- NoServer,
    phase <- restorePhase, place <- restorePlace

\* Both tables are job queues: whatever is lost, crashes or registers anew, a
\* job is handed to its server's agent once, oldest first, and ends once.
ImplementsQueues == BackupQueue!Spec /\ RestoreQueue!Spec
=============================================================================
