--------------------------- MODULE BackupsProofs ---------------------------
(***************************************************************************)
(* Theorems about module Backups, for any number of services, hosts, jobs, *)
(* containers and faults.                                                  *)
(***************************************************************************)
EXTENDS Backups, TLAPS

\* The states in which a loop may hold a job.
BackupWork == {"assigned", "dumping", "uploading", "verifying"}
RestoreWork == {"assigned", "restoring", "verifying"}

\* A loop only works on jobs that were claimed and have not ended.
Held ==
    \A h \in Hosts :
        /\ HasBackup(h) => bstatus[loop[h].job] \in BackupWork
        /\ HasRestore(h) => rstatus[loop[h].job] \in RestoreWork

\* No job is in two loops.
Exclusive ==
    \A g, h \in Hosts :
        /\ HasBackup(g) /\ HasBackup(h) /\ loop[g].job = loop[h].job => g = h
        /\ HasRestore(g) /\ HasRestore(h) /\ loop[g].job = loop[h].job => g = h

\* A restore job's backup has succeeded.
Sources ==
    \A r \in RestoreIds : rstatus[r] # "none" => bstatus[rrow[r].bak] = "succeeded"

\* The artifact that psql reads is there.
Open ==
    \A h \in Hosts : loop[h].pc = "psql" => files[h][rrow[loop[h].job].bak] # NoFile

JobInv == TypeOK /\ Held /\ Exclusive /\ Sources /\ Open

\* What ReportBackupJob may do: the row it names takes the reported status or
\* keeps its own, and no other row changes.
LEMMA BackupReported ==
    ASSUME TypeOK, NEW h \in Hosts, NEW b \in BackupIds,
           NEW st \in BackupStatus, NEW path \in BOOLEAN,
           ReportBackupJob(h, b, st, path), bstatus[b] # "none"
    PROVE  /\ bstatus' \in [BackupIds -> BackupStatus \cup {"none"}]
           /\ \A a \in BackupIds : a # b => bstatus'[a] = bstatus[a]
           /\ bstatus'[b] \in {bstatus[b], st}
           /\ uri' \in [BackupIds -> BOOLEAN]
           /\ \A a \in BackupIds : uri[a] => uri'[a]
           /\ brow' = brow
           /\ faults' \in 0 .. MaxFaults
           /\ bstatus'[b] = bstatus[b] \/ (path => uri'[b])
<1>1. CASE /\ ident[h] = brow[b].srv
           /\ bstatus' = [bstatus EXCEPT ![b] = st]
           /\ uri' = [uri EXCEPT ![b] = @ \/ path]
           /\ UNCHANGED <<brow, faults>>
  <2>1. uri' \in [BackupIds -> BOOLEAN]
    BY <1>1, Zenon DEF TypeOK
  <2>2. \A a \in BackupIds : uri'[a] = (IF a = b THEN uri[b] \/ path ELSE uri[a])
    BY <1>1, Zenon DEF TypeOK
  <2> QED  BY <1>1, <2>1, <2>2 DEF TypeOK
<1>2. CASE UNCHANGED <<backupVars, faults>>
  BY <1>2 DEF TypeOK, backupVars
<1>3. CASE Fault /\ UNCHANGED backupVars
  BY <1>3, BackupsAssumption DEF TypeOK, backupVars, Fault
<1> QED  BY <1>1, <1>2, <1>3 DEF ReportBackupJob, UpdateBackupStatus

\* The same for ReportRestoreJob.
LEMMA RestoreReported ==
    ASSUME TypeOK, NEW h \in Hosts, NEW r \in RestoreIds,
           NEW st \in RestoreStatus,
           ReportRestoreJob(h, r, st), rstatus[r] # "none"
    PROVE  /\ rstatus' \in [RestoreIds -> RestoreStatus \cup {"none"}]
           /\ \A q \in RestoreIds : q # r => rstatus'[q] = rstatus[q]
           /\ rstatus'[r] \in {rstatus[r], st}
           /\ rrow' = rrow
           /\ faults' \in 0 .. MaxFaults
<1>1. CASE /\ ident[h] = rrow[r].srv
           /\ rstatus' = [rstatus EXCEPT ![r] = st]
           /\ UNCHANGED <<rrow, faults>>
  BY <1>1 DEF TypeOK
<1>2. CASE UNCHANGED <<restoreVars, faults>>
  BY <1>2 DEF TypeOK, restoreVars
<1>3. CASE Fault /\ UNCHANGED restoreVars
  BY <1>3, BackupsAssumption DEF TypeOK, restoreVars, Fault
<1> QED  BY <1>1, <1>2, <1>3 DEF ReportRestoreJob, UpdateRestoreStatus

\* The initial state satisfies the invariant.
LEMMA JobInit ==
    Init => JobInv
<1> SUFFICES ASSUME Init PROVE JobInv
  OBVIOUS
<1>1. \A h \in Hosts : loop[h].pc = "poll"
  BY DEF Init, Idle
<1>2. loop \in [Hosts -> Loop] /\ ident \in [Hosts -> Servers \cup {NoServer}]
  BY BackupsAssumption DEF Init, Loop, Idle
<1>3. \A b \in BackupIds : brow[b] = NoBackup /\ NoBackup \notin BackupRow
  BY BackupsAssumption DEF Init, BackupRow, NoBackup
<1>4. \A r \in RestoreIds : rrow[r] = NoRestore /\ NoRestore \notin RestoreRow
  BY BackupsAssumption DEF Init, RestoreRow, NoRestore
<1>5. TypeOK
  BY <1>1, <1>2, <1>3, <1>4, BackupsAssumption DEF Init, TypeOK, HasBackup, HasRestore, Contents
<1>6. Held /\ Exclusive /\ Sources /\ Open
  BY <1>1 DEF Init, Held, Exclusive, Sources, Open, HasBackup, HasRestore
<1> QED  BY <1>5, <1>6 DEF JobInv

\* A dashboard request inserts a queued row, which no loop holds.
LEMMA JobRequests ==
    ASSUME JobInv,
           \/ \E v \in Services, b \in BackupIds : CreateBackup(v, b)
           \/ \E b \in BackupIds, r \in RestoreIds : RestoreBackup(b, r)
    PROVE  JobInv'
<1>1. ASSUME NEW v \in Services, NEW b \in BackupIds, CreateBackup(v, b)
      PROVE  JobInv'
  <2>1. latest[v] \in Servers
    BY <1>1 DEF JobInv, TypeOK, CreateBackup, InsertBackup
  <2>2. brow' \in [BackupIds -> BackupRow \cup {NoBackup}] /\ brow'[b] \in BackupRow
    BY <1>1, <2>1 DEF JobInv, TypeOK, CreateBackup, InsertBackup, BackupRow
  <2>3. \A a \in BackupIds : a # b => brow'[a] = brow[a] /\ bstatus'[a] = bstatus[a]
    BY <1>1 DEF JobInv, TypeOK, CreateBackup, InsertBackup
  <2>4. bstatus' \in [BackupIds -> BackupStatus \cup {"none"}] /\ bstatus'[b] = "queued"
    BY <1>1 DEF JobInv, TypeOK, CreateBackup, InsertBackup, BackupStatus
  <2>5. bstatus[b] = "none"
    BY <1>1 DEF CreateBackup, InsertBackup, NextBackup
  <2>6. TypeOK'
    BY <1>1, <2>2, <2>3, <2>4
       DEF JobInv, TypeOK, CreateBackup, InsertBackup, restoreVars, dockerVars, HasBackup,
              HasRestore
  <2>7. Held' /\ Exclusive'
    BY <1>1, <2>3, <2>5
       DEF JobInv, TypeOK, Held, Exclusive, BackupWork, CreateBackup, InsertBackup, restoreVars,
           HasBackup, HasRestore
  <2>8. Sources' /\ Open'
    <3>1. \A r \in RestoreIds : rstatus[r] # "none" => rrow[r].bak \in BackupIds
      BY DEF JobInv, TypeOK, RestoreRow
    <3>2. rstatus' = rstatus /\ rrow' = rrow /\ loop' = loop /\ files' = files
      BY <1>1 DEF CreateBackup, InsertBackup, restoreVars
    <3> QED  BY <2>3, <2>5, <3>1, <3>2 DEF JobInv, Sources, Open
  <2> QED  BY <2>6, <2>7, <2>8 DEF JobInv
<1>2. ASSUME NEW b \in BackupIds, NEW r \in RestoreIds, RestoreBackup(b, r)
      PROVE  JobInv'
  <2>1. brow[b] \in BackupRow
    BY <1>2 DEF JobInv, TypeOK, RestoreBackup, InsertRestore, Restorable
  <2>2. rrow' \in [RestoreIds -> RestoreRow \cup {NoRestore}] /\ rrow'[r] \in RestoreRow
    BY <1>2, <2>1 DEF JobInv, TypeOK, RestoreBackup, InsertRestore, RestoreRow, BackupRow
  <2>3. \A q \in RestoreIds : q # r => rrow'[q] = rrow[q] /\ rstatus'[q] = rstatus[q]
    BY <1>2 DEF JobInv, TypeOK, RestoreBackup, InsertRestore
  <2>4. rstatus' \in [RestoreIds -> RestoreStatus \cup {"none"}] /\ rstatus'[r] = "queued"
    BY <1>2 DEF JobInv, TypeOK, RestoreBackup, InsertRestore, RestoreStatus
  <2>5. rstatus[r] = "none"
    BY <1>2 DEF RestoreBackup, InsertRestore, NextRestore
  <2>6. TypeOK'
    BY <1>2, <2>2, <2>3, <2>4
       DEF JobInv, TypeOK, RestoreBackup, InsertRestore, backupVars, dockerVars, HasBackup,
              HasRestore
  <2>7. Held' /\ Exclusive'
    BY <1>2, <2>3, <2>5
       DEF JobInv, TypeOK, Held, Exclusive, RestoreWork, RestoreBackup, InsertRestore,
              backupVars, HasBackup, HasRestore
  <2>8. Sources'
    BY <1>2, <2>3 DEF JobInv, TypeOK, Sources, RestoreBackup, InsertRestore, Restorable,
           backupVars
  <2>9. Open'
    <3>1. \A h \in Hosts : loop[h].pc = "psql" => /\ loop[h].job \in RestoreIds
                                                  /\ loop[h].job # r
      BY <2>5 DEF JobInv, TypeOK, Held, HasRestore, RestoreWork
    <3>2. loop' = loop /\ files' = files
      BY <1>2 DEF RestoreBackup, InsertRestore
    <3> QED  BY <2>3, <3>1, <3>2 DEF JobInv, Open
  <2> QED  BY <2>6, <2>7, <2>8, <2>9 DEF JobInv
<1> QED  BY <1>1, <1>2

\* What a step of the loop of host h may do to the jobs: it claims a queued one
\* or moves along with the one it has, or it returns.
LEMMA JobHolds ==
    ASSUME JobInv, NEW h \in Hosts, TypeOK',
           \A g \in Hosts : g # h => loop'[g] = loop[g],
           \A b \in BackupIds :
               \/ bstatus'[b] = bstatus[b]
               \/ bstatus[b] = "queued"
               \/ HasBackup(h) /\ loop[h].job = b,
           \A r \in RestoreIds :
               \/ rstatus'[r] = rstatus[r]
               \/ rstatus[r] = "queued"
               \/ HasRestore(h) /\ loop[h].job = r,
           HasBackup(h)' =>
               /\ bstatus'[loop'[h].job] \in BackupWork
               /\ \/ bstatus[loop'[h].job] = "queued"
                  \/ HasBackup(h) /\ loop'[h].job = loop[h].job,
           HasRestore(h)' =>
               /\ rstatus'[loop'[h].job] \in RestoreWork
               /\ \/ rstatus[loop'[h].job] = "queued"
                  \/ HasRestore(h) /\ loop'[h].job = loop[h].job,
           rrow' = rrow,
           \A g \in Hosts, b \in BackupIds :
               \/ files'[g][b] = files[g][b]
               \/ g = h /\ HasBackup(h) /\ loop[h].job = b,
           loop'[h].pc = "psql" => /\ ~HasBackup(h)
                                   /\ files[h][rrow[loop'[h].job].bak] # NoFile
    PROVE  JobInv'
<1>1. \A g \in Hosts : HasBackup(g) => /\ loop[g].job \in BackupIds
                                       /\ bstatus[loop[g].job] \in BackupWork
                                       /\ bstatus[loop[g].job] # "queued"
  BY DEF JobInv, TypeOK, Held, BackupWork
<1>2. \A g \in Hosts : HasRestore(g) => /\ loop[g].job \in RestoreIds
                                        /\ rstatus[loop[g].job] \in RestoreWork
                                        /\ rstatus[loop[g].job] # "queued"
  BY DEF JobInv, TypeOK, Held, RestoreWork
<1>3. \A g \in Hosts : g # h => /\ HasBackup(g)' <=> HasBackup(g)
                                /\ HasRestore(g)' <=> HasRestore(g)
  BY DEF HasBackup, HasRestore
<1>4. Held'
  <2> SUFFICES ASSUME NEW g \in Hosts
               PROVE  /\ HasBackup(g)' => bstatus'[loop'[g].job] \in BackupWork
                      /\ HasRestore(g)' => rstatus'[loop'[g].job] \in RestoreWork
    BY DEF Held
  <2>1. CASE g = h
    BY <2>1
  <2>2. CASE g # h
    BY <1>1, <1>2, <1>3, <2>2 DEF JobInv, Exclusive
  <2> QED  BY <2>1, <2>2
<1>5. Exclusive'
  BY <1>1, <1>2, <1>3 DEF JobInv, Exclusive
<1>6. \A r \in RestoreIds : rstatus[r] # "none" =>
          /\ rrow[r].bak \in BackupIds
          /\ bstatus[rrow[r].bak] = "succeeded"
          /\ bstatus'[rrow[r].bak] = "succeeded"
  <2>1. \A r \in RestoreIds : rstatus[r] # "none" => rrow[r].bak \in BackupIds
    BY DEF JobInv, TypeOK, RestoreRow
  <2>2. \A g \in Hosts : HasBackup(g) => bstatus[loop[g].job] # "succeeded"
    BY <1>1 DEF BackupWork
  <2> QED  BY <2>1, <2>2 DEF JobInv, Sources
<1>7. Sources'
  <2>1. \A r \in RestoreIds : rstatus'[r] # "none" => rstatus[r] # "none"
    BY <1>2 DEF RestoreWork
  <2> QED  BY <1>6, <2>1 DEF Sources
<1>8. Open'
  <2> SUFFICES ASSUME NEW g \in Hosts, loop'[g].pc = "psql"
               PROVE  files'[g][rrow'[loop'[g].job].bak] # NoFile
    BY DEF Open
  <2>1. loop'[g].job \in RestoreIds /\ rstatus'[loop'[g].job] \in RestoreWork
    BY <1>4 DEF Held, HasRestore, TypeOK
  <2>2. rstatus[loop'[g].job] # "none"
    BY <1>2, <2>1 DEF RestoreWork
  <2>3. rrow[loop'[g].job].bak \in BackupIds
    BY <1>6, <2>1, <2>2
  <2>4. CASE g = h
    BY <2>3, <2>4
  <2>5. CASE g # h
    BY <2>3, <2>5 DEF JobInv, Open
  <2> QED  BY <2>4, <2>5
<1> QED  BY <1>4, <1>5, <1>7, <1>8 DEF JobInv

\* TypeOK survives a step that gives the rows, files, databases and the loop of
\* one host values of their types and leaves the immutable columns alone.
LEMMA TypeKept ==
    ASSUME TypeOK, NEW h \in Hosts,
           bstatus' \in [BackupIds -> BackupStatus \cup {"none"}],
           \A b \in BackupIds : bstatus'[b] = "none" <=> bstatus[b] = "none",
           uri' \in [BackupIds -> BOOLEAN],
           rstatus' \in [RestoreIds -> RestoreStatus \cup {"none"}],
           \A r \in RestoreIds : rstatus'[r] = "none" <=> rstatus[r] = "none",
           data' \in [ContainerIds -> Contents],
           files' \in [Hosts -> [BackupIds -> Artifact \cup {NoFile}]],
           ident' \in [Hosts -> Servers \cup {NoServer}],
           landed' \in [RestoreIds -> [at : ContainerIds \cup {NoId}, data : Contents]],
           faults' \in 0 .. MaxFaults,
           UNCHANGED <<brow, rrow, dockerVars>>,
           NEW new \in Loop, loop' = [loop EXCEPT ![h] = new],
           new.pc \in {"find", "dump", "verify"} => new.job \in BackupIds,
           new.pc \in {"target", "psql"} => new.job \in RestoreIds,
           new.pc \in {"dump", "psql"} => new.at # NoId /\ cont[new.at] \in Container
    PROVE  TypeOK'
<1>1. loop' \in [Hosts -> Loop] /\ loop'[h] = new
  BY DEF TypeOK
<1>2. \A g \in Hosts : g # h => loop'[g] = loop[g]
  BY DEF TypeOK
<1>3. latest' = latest /\ cont' = cont
  BY DEF dockerVars
<1>4. ASSUME NEW g \in Hosts
      PROVE  /\ HasBackup(g)' => loop'[g].job \in BackupIds
             /\ HasRestore(g)' => loop'[g].job \in RestoreIds
             /\ loop'[g].pc \in {"dump", "psql"} =>
                    loop'[g].at # NoId /\ cont'[loop'[g].at] \in Container
  <2>1. CASE g = h
    BY <1>1, <1>3, <2>1 DEF HasBackup, HasRestore
  <2>2. CASE g # h
    BY <1>2, <1>3, <2>2 DEF TypeOK, HasBackup, HasRestore
  <2> QED  BY <2>1, <2>2
<1> QED  BY <1>1, <1>3, <1>4 DEF TypeOK

\* Polling claims a queued job or none.
LEMMA JobPolls ==
    ASSUME JobInv, NEW h \in Hosts, PollBackupJob(h) \/ PollRestoreJob(h)
    PROVE  JobInv'
<1>1. CASE PollBackupJob(h)
  <2>1. CASE \E b \in BackupIds :
                 /\ Oldest(bstatus, brow, ident[h], b)
                 /\ bstatus' = [bstatus EXCEPT ![b] = "assigned"]
                 /\ \/ Goto(h, "find", b, NoId) /\ UNCHANGED faults
                    \/ Fault /\ UNCHANGED loop
    <3>1. PICK b \in BackupIds :
                 /\ bstatus[b] = "queued"
                 /\ bstatus' = [bstatus EXCEPT ![b] = "assigned"]
                 /\ \/ Goto(h, "find", b, NoId) /\ UNCHANGED faults
                    \/ Fault /\ UNCHANGED loop
      BY <2>1 DEF Oldest
    <3>2. /\ bstatus' \in [BackupIds -> BackupStatus \cup {"none"}]
          /\ \A a \in BackupIds : bstatus'[a] = IF a = b THEN "assigned" ELSE bstatus[a]
      BY <3>1 DEF JobInv, TypeOK, BackupStatus
    <3>3. faults' \in 0 .. MaxFaults
      BY <3>1, BackupsAssumption DEF JobInv, TypeOK, Fault
    <3>4. CASE Goto(h, "find", b, NoId)
      <4> DEFINE new == [pc |-> "find", job |-> b, at |-> NoId]
      <4>1. new \in Loop
        BY DEF Loop
      <4>2. TypeOK'
        <5>1. /\ uri' = uri /\ rstatus' = rstatus /\ data' = data /\ files' = files
              /\ ident' = ident /\ landed' = landed /\ UNCHANGED <<brow, rrow, dockerVars>>
          BY <1>1 DEF PollBackupJob, restoreVars
        <5>2. \A a \in BackupIds : bstatus'[a] = "none" <=> bstatus[a] = "none"
          BY <3>1, <3>2
        <5>3. TypeOK
          BY DEF JobInv
        <5>4. loop' = [loop EXCEPT ![h] = new]
          BY <3>4 DEF Goto
        <5>5. new.pc = "find" /\ new.job \in BackupIds
          OBVIOUS
        <5> HIDE DEF new
        <5> QED  BY <3>2, <3>3, <4>1, <5>1, <5>2, <5>3, <5>4, <5>5, TypeKept DEF TypeOK
      <4>3. loop'[h] = new /\ \A g \in Hosts : g # h => loop'[g] = loop[g]
        BY <3>4 DEF JobInv, TypeOK, Goto
      <4> QED
        BY <1>1, <3>1, <3>2, <4>2, <4>3, JobHolds
           DEF PollBackupJob, restoreVars, HasBackup, HasRestore, BackupWork
    <3>5. CASE UNCHANGED loop
      <4>1. TypeOK'
        BY <1>1, <3>1, <3>2, <3>3, <3>5
           DEF JobInv, TypeOK, PollBackupJob, restoreVars, dockerVars, HasBackup, HasRestore
      <4> QED
        BY <1>1, <3>1, <3>2, <3>5, <4>1, JobHolds
           DEF PollBackupJob, restoreVars, HasBackup, HasRestore
    <3> QED  BY <3>1, <3>4, <3>5
  <2>2. CASE Goto(h, "pollRestore", NoId, NoId) /\ UNCHANGED <<bstatus, faults>>
    <3> DEFINE new == [pc |-> "pollRestore", job |-> NoId, at |-> NoId]
    <3>1. new \in Loop
      BY DEF Loop
    <3>2. TypeOK'
      BY <1>1, <2>2, <3>1, TypeKept DEF JobInv, TypeOK, PollBackupJob, restoreVars, Goto
    <3>3. loop'[h] = new /\ \A g \in Hosts : g # h => loop'[g] = loop[g]
      BY <2>2 DEF JobInv, TypeOK, Goto
    <3> QED
      BY <1>1, <2>2, <3>2, <3>3, JobHolds
         DEF PollBackupJob, restoreVars, HasBackup, HasRestore
  <2> QED  BY <1>1, <2>1, <2>2 DEF PollBackupJob
<1>2. CASE PollRestoreJob(h)
  <2>0. Idle \in Loop
    BY DEF Loop, Idle
  <2>1. CASE \E r \in RestoreIds :
                 /\ Oldest(rstatus, rrow, ident[h], r)
                 /\ rstatus' = [rstatus EXCEPT ![r] = "assigned"]
                 /\ \/ Goto(h, "target", r, NoId) /\ UNCHANGED faults
                    \/ Fault /\ Return(h)
    <3>1. PICK r \in RestoreIds :
                 /\ rstatus[r] = "queued"
                 /\ rstatus' = [rstatus EXCEPT ![r] = "assigned"]
                 /\ \/ Goto(h, "target", r, NoId) /\ UNCHANGED faults
                    \/ Fault /\ Return(h)
      BY <2>1 DEF Oldest
    <3>2. /\ rstatus' \in [RestoreIds -> RestoreStatus \cup {"none"}]
          /\ \A q \in RestoreIds : rstatus'[q] = IF q = r THEN "assigned" ELSE rstatus[q]
      BY <3>1 DEF JobInv, TypeOK, RestoreStatus
    <3>3. faults' \in 0 .. MaxFaults
      BY <3>1, BackupsAssumption DEF JobInv, TypeOK, Fault
    <3>4. PICK new \in {[pc |-> "target", job |-> r, at |-> NoId], Idle} :
                 loop' = [loop EXCEPT ![h] = new]
      BY <3>1 DEF Goto, Return
    <3>5. new \in Loop
      BY <2>0 DEF Loop
    <3>6. TypeOK'
      <4>1. /\ bstatus' = bstatus /\ uri' = uri /\ data' = data /\ files' = files
            /\ ident' = ident /\ landed' = landed /\ UNCHANGED <<brow, rrow, dockerVars>>
        BY <1>2 DEF PollRestoreJob, backupVars
      <4>2. \A q \in RestoreIds : rstatus'[q] = "none" <=> rstatus[q] = "none"
        BY <3>1, <3>2
      <4>3. TypeOK
        BY DEF JobInv
      <4>4. /\ new.pc \in {"poll", "target"}
            /\ new.pc = "target" => new.job \in RestoreIds
        BY <3>4 DEF Idle
      <4> QED  BY <3>2, <3>3, <3>4, <3>5, <4>1, <4>2, <4>3, <4>4, TypeKept DEF TypeOK
    <3>7. loop'[h] = new /\ \A g \in Hosts : g # h => loop'[g] = loop[g]
      BY <3>4 DEF JobInv, TypeOK
    <3> QED
      BY <1>2, <3>1, <3>2, <3>4, <3>6, <3>7, JobHolds
         DEF PollRestoreJob, backupVars, HasBackup, HasRestore, RestoreWork, Idle
  <2>2. CASE Return(h) /\ UNCHANGED rstatus /\ (UNCHANGED faults \/ Fault)
    <3>1. faults' \in 0 .. MaxFaults
      BY <2>2, BackupsAssumption DEF JobInv, TypeOK, Fault
    <3>2. TypeOK'
      BY <1>2, <2>0, <2>2, <3>1, TypeKept
         DEF JobInv, TypeOK, PollRestoreJob, backupVars, Return, Idle
    <3>3. loop'[h] = Idle /\ \A g \in Hosts : g # h => loop'[g] = loop[g]
      BY <2>2 DEF JobInv, TypeOK, Return
    <3> QED
      BY <1>2, <2>2, <3>2, <3>3, JobHolds
         DEF PollRestoreJob, backupVars, HasBackup, HasRestore, Idle
  <2> QED  BY <1>2, <2>1, <2>2 DEF PollRestoreJob
<1> QED  BY <1>1, <1>2

\* A step of executeBackup reports on its own job and goes on with it or returns.
LEMMA JobBackupStep ==
    ASSUME JobInv, NEW h \in Hosts, HasBackup(h),
           NEW st \in BackupStatus, NEW path \in BOOLEAN,
           ReportBackupJob(h, loop[h].job, st, path), st # "queued",
           NEW f \in Artifact \cup {NoFile},
           files' = files \/ files' = [files EXCEPT ![h][loop[h].job] = f],
           UNCHANGED <<restoreVars, dockerVars, data, ident, landed>>,
           NEW new \in Loop, loop' = [loop EXCEPT ![h] = new],
           \/ new = Idle
           \/ /\ new.pc \in {"dump", "verify"} /\ new.job = loop[h].job
              /\ st \in BackupWork
              /\ new.pc = "dump" => new.at # NoId /\ cont[new.at] \in Container
    PROVE  JobInv'
<1> DEFINE b == loop[h].job
<1>1. b \in BackupIds /\ bstatus[b] \in BackupWork /\ bstatus[b] # "none"
  BY DEF JobInv, TypeOK, Held, BackupWork
<1>2. TypeOK
  BY DEF JobInv
<1> HIDE DEF b
<1>3. ReportBackupJob(h, b, st, path)
  BY DEF b
<1>4. /\ bstatus' \in [BackupIds -> BackupStatus \cup {"none"}]
      /\ \A a \in BackupIds : a # b => bstatus'[a] = bstatus[a]
      /\ bstatus'[b] \in {bstatus[b], st}
      /\ uri' \in [BackupIds -> BOOLEAN]
      /\ brow' = brow
      /\ faults' \in 0 .. MaxFaults
  BY <1>1, <1>2, <1>3, BackupReported
<1>5. /\ rstatus' = rstatus /\ rrow' = rrow /\ data' = data /\ ident' = ident
      /\ landed' = landed
  BY DEF restoreVars
<1>6. \A a \in BackupIds : bstatus'[a] = "none" <=> bstatus[a] = "none"
  BY <1>1, <1>4 DEF BackupStatus
<1>7. /\ new.pc \in {"find", "dump", "verify"} => new.job \in BackupIds
      /\ new.pc \in {"target", "psql"} => new.job \in RestoreIds
      /\ new.pc \in {"dump", "psql"} => new.at # NoId /\ cont[new.at] \in Container
  BY <1>1 DEF b, Idle
<1>12. /\ files' \in [Hosts -> [BackupIds -> Artifact \cup {NoFile}]]
       /\ \A g \in Hosts, a \in BackupIds :
              files'[g][a] = files[g][a] \/ (g = h /\ b = a)
  <2>1. files \in [Hosts -> [BackupIds -> Artifact \cup {NoFile}]]
    BY <1>2 DEF TypeOK
  <2>2. files' = files \/ files' = [files EXCEPT ![h][b] = f]
    BY DEF b
  <2> QED  BY <1>1, <2>1, <2>2
<1>8. TypeOK'
  <2>1. /\ rstatus' \in [RestoreIds -> RestoreStatus \cup {"none"}]
        /\ \A r \in RestoreIds : rstatus'[r] = "none" <=> rstatus[r] = "none"
        /\ data' \in [ContainerIds -> Contents]
        /\ ident' \in [Hosts -> Servers \cup {NoServer}]
        /\ landed' \in [RestoreIds -> [at : ContainerIds \cup {NoId}, data : Contents]]
    BY <1>2, <1>5 DEF TypeOK
  <2>2. UNCHANGED <<brow, rrow, dockerVars>>
    BY <1>4, <1>5
  <2> QED
    BY <1>2, <1>4, <1>6, <1>7, <1>12, <2>1, <2>2, TypeKept
<1>9. loop'[h] = new /\ \A g \in Hosts : g # h => loop'[g] = loop[g]
  BY <1>2 DEF TypeOK
<1>10. HasBackup(h)' => loop'[h].job = b /\ bstatus'[b] \in BackupWork
  BY <1>1, <1>4, <1>9 DEF HasBackup, Idle, b
<1>11. ~HasRestore(h)'
  BY <1>9 DEF HasRestore, Idle
<1> QED
  BY <1>4, <1>5, <1>8, <1>9, <1>10, <1>11, <1>12, JobHolds DEF b, HasRestore

\* The same for executeRestore.
LEMMA JobRestoreStep ==
    ASSUME JobInv, NEW h \in Hosts, HasRestore(h),
           NEW st \in RestoreStatus, st # "queued",
           ReportRestoreJob(h, loop[h].job, st),
           data' \in [ContainerIds -> Contents],
           landed' \in [RestoreIds -> [at : ContainerIds \cup {NoId}, data : Contents]],
           UNCHANGED <<backupVars, dockerVars, files, ident>>,
           NEW new \in Loop, loop' = [loop EXCEPT ![h] = new],
           \/ new = Idle
           \/ /\ new.pc = "psql" /\ new.job = loop[h].job /\ st \in RestoreWork
              /\ new.at # NoId /\ cont[new.at] \in Container
              /\ files[h][rrow[loop[h].job].bak] # NoFile
    PROVE  JobInv'
<1> DEFINE r == loop[h].job
<1>1. r \in RestoreIds /\ rstatus[r] \in RestoreWork /\ rstatus[r] # "none"
  BY DEF JobInv, TypeOK, Held, RestoreWork
<1>2. TypeOK
  BY DEF JobInv
<1> HIDE DEF r
<1>3. ReportRestoreJob(h, r, st)
  BY DEF r
<1>4. /\ rstatus' \in [RestoreIds -> RestoreStatus \cup {"none"}]
      /\ \A q \in RestoreIds : q # r => rstatus'[q] = rstatus[q]
      /\ rstatus'[r] \in {rstatus[r], st}
      /\ rrow' = rrow
      /\ faults' \in 0 .. MaxFaults
  BY <1>1, <1>2, <1>3, RestoreReported
<1>5. bstatus' = bstatus /\ brow' = brow /\ uri' = uri /\ files' = files /\ ident' = ident
  BY DEF backupVars
<1>6. \A q \in RestoreIds : rstatus'[q] = "none" <=> rstatus[q] = "none"
  BY <1>1, <1>4 DEF RestoreStatus
<1>7. /\ new.pc \in {"find", "dump", "verify"} => new.job \in BackupIds
      /\ new.pc \in {"target", "psql"} => new.job \in RestoreIds
      /\ new.pc \in {"dump", "psql"} => new.at # NoId /\ cont[new.at] \in Container
  BY <1>1 DEF r, Idle
<1>8. TypeOK'
  BY <1>2, <1>4, <1>5, <1>6, <1>7, TypeKept DEF TypeOK
<1>9. loop'[h] = new /\ \A g \in Hosts : g # h => loop'[g] = loop[g]
  BY <1>2 DEF TypeOK
<1>10. HasRestore(h)' => loop'[h].job = r /\ rstatus'[r] \in RestoreWork
  BY <1>1, <1>4, <1>9 DEF HasRestore, Idle, r
<1>11. ~HasBackup(h)' /\ ~HasBackup(h)
  BY <1>9 DEF HasBackup, HasRestore, Idle
<1>12. loop'[h].pc = "psql" => files[h][rrow[loop'[h].job].bak] # NoFile
  BY <1>9, <1>10 DEF Idle, HasRestore, r
<1> QED
  BY <1>4, <1>5, <1>8, <1>9, <1>10, <1>11, <1>12, JobHolds DEF r

\* Containers that are up are real containers.
LEMMA UpIsContainer ==
    ASSUME TypeOK, NEW c \in ContainerIds, cont[c].up
    PROVE  cont[c] \in Container
BY DEF TypeOK, NoContainer

\* The steps of executeBackup.
LEMMA JobBackups ==
    ASSUME JobInv, NEW h \in Hosts, FindDatabase(h) \/ PgDump(h) \/ Verify(h)
    PROVE  JobInv'
<1> DEFINE b == loop[h].job
<1>1. HasBackup(h) /\ TypeOK
  BY DEF FindDatabase, PgDump, Verify, HasBackup, JobInv
<1>2. b \in BackupIds
  BY <1>1 DEF TypeOK
<1>3. Idle \in Loop
  BY DEF Loop, Idle
<1>4. {"dumping", "verifying", "succeeded", "failed"} \subseteq BackupStatus
  BY DEF BackupStatus
<1>5. NoFile \in Artifact \cup {NoFile} /\ EmptyFile \in Artifact
  BY DEF Artifact, EmptyFile, Contents
<1>6. CASE FindDatabase(h)
  <2>1. CASE \E c \in Running(h, brow[b].svc) :
                 /\ ReportBackupJob(h, b, "dumping", FALSE)
                 /\ files' = [files EXCEPT ![h][b] = EmptyFile]
                 /\ Goto(h, "dump", b, c)
    <3>1. PICK c \in ContainerIds :
                 /\ cont[c].up
                 /\ ReportBackupJob(h, b, "dumping", FALSE)
                 /\ files' = [files EXCEPT ![h][b] = EmptyFile]
                 /\ Goto(h, "dump", b, c)
      BY <2>1 DEF Running
    <3>2. c # NoId /\ cont[c] \in Container
      BY <1>1, <3>1, UpIsContainer, BackupsAssumption
    <3> DEFINE new == [pc |-> "dump", job |-> b, at |-> c]
    <3>3. new \in Loop /\ new.pc = "dump" /\ new.job = b /\ new.at = c
      BY <1>2 DEF Loop
    <3>4. loop' = [loop EXCEPT ![h] = new]
      BY <3>1 DEF Goto
    <3>6. UNCHANGED <<restoreVars, dockerVars, data, ident, landed>>
      BY <1>6 DEF FindDatabase
    <3> HIDE DEF new
    <3> QED
      BY <1>1, <1>4, <1>5, <3>1, <3>2, <3>3, <3>4, <3>6, JobBackupStep DEF BackupWork
  <2>2. CASE FailBackup(h) /\ UNCHANGED files
    BY <1>1, <1>3, <1>4, <1>5, <1>6, <2>2, JobBackupStep
       DEF FindDatabase, FailBackup, Return
  <2> QED  BY <1>6, <2>1, <2>2 DEF FindDatabase
<1>7. CASE PgDump(h)
  <2>1. CASE /\ cont[loop[h].at].up
             /\ files' = [files EXCEPT ![h][b] = [whole |-> TRUE, data |-> data[loop[h].at]]]
             /\ ReportBackupJob(h, b, "verifying", TRUE)
             /\ Goto(h, "verify", b, NoId)
    <3>1. loop[h].at \in ContainerIds
      BY <1>1, <1>7, BackupsAssumption DEF TypeOK, Loop, PgDump
    <3>2. [whole |-> TRUE, data |-> data[loop[h].at]] \in Artifact
      BY <1>1, <3>1 DEF TypeOK, Artifact
    <3> DEFINE new == [pc |-> "verify", job |-> b, at |-> NoId]
    <3>4. new \in Loop /\ new.pc = "verify" /\ new.job = b
      BY <1>2 DEF Loop
    <3>5. loop' = [loop EXCEPT ![h] = new]
      BY <2>1 DEF Goto
    <3>6. UNCHANGED <<restoreVars, dockerVars, data, ident, landed>>
      BY <1>7 DEF PgDump
    <3> HIDE DEF new
    <3> QED
      BY <1>1, <1>4, <2>1, <3>2, <3>4, <3>5, <3>6, JobBackupStep DEF BackupWork
  <2>2. CASE files' = [files EXCEPT ![h][b] = NoFile] /\ FailBackup(h)
    BY <1>1, <1>3, <1>4, <1>5, <1>7, <2>2, JobBackupStep DEF PgDump, FailBackup, Return
  <2> QED  BY <1>7, <2>1, <2>2 DEF PgDump
<1>8. CASE Verify(h)
  <2>2. PICK st \in {"succeeded", "failed"}, path \in BOOLEAN :
               ReportBackupJob(h, b, st, path) /\ Return(h)
    BY <1>8 DEF Verify, FailBackup
  <2> QED
    BY <1>1, <1>3, <1>4, <1>5, <1>8, <2>2, JobBackupStep DEF Verify, Return
<1> QED  BY <1>6, <1>7, <1>8

\* The file psql reads, and the container it writes to.
LEMMA PsqlTyped ==
    ASSUME JobInv, NEW h \in Hosts, loop[h].pc = "psql"
    PROVE  /\ loop[h].job \in RestoreIds
           /\ loop[h].at \in ContainerIds
           /\ rrow[loop[h].job] \in RestoreRow
           /\ files[h][rrow[loop[h].job].bak] \in Artifact
<1>1. loop[h].job \in RestoreIds /\ rstatus[loop[h].job] # "none"
  BY DEF JobInv, TypeOK, Held, HasRestore, RestoreWork
<1>2. loop[h].at \in ContainerIds
  BY DEF JobInv, TypeOK, Loop
<1>3. rrow[loop[h].job] \in RestoreRow
  BY <1>1 DEF JobInv, TypeOK
<1>4. files[h][rrow[loop[h].job].bak] \in Artifact
  BY <1>3 DEF JobInv, TypeOK, Open, RestoreRow
<1> QED  BY <1>1, <1>2, <1>3, <1>4

\* psql may have run part of a dump when it stops.
LEMMA PartlyTyped ==
    ASSUME JobInv, NEW h \in Hosts, loop[h].pc = "psql", Partly(h, loop[h].at)
    PROVE  data' \in [ContainerIds -> Contents]
<1> DEFINE c == loop[h].at
           dump == files[h][rrow[loop[h].job].bak].data
<1>1. PICK done \in SUBSET (dump \ data[c]) : data' = [data EXCEPT ![c] = @ \cup done]
  BY DEF Partly
<1>2. c \in ContainerIds /\ dump \in Contents
  BY PsqlTyped DEF Artifact
<1>3. data \in [ContainerIds -> Contents]
  BY DEF JobInv, TypeOK
<1>4. data[c] \cup done \in Contents
  BY <1>2, <1>3 DEF Contents
<1> QED  BY <1>1, <1>2, <1>3, <1>4

\* The steps of executeRestore.
LEMMA JobRestores ==
    ASSUME JobInv, NEW h \in Hosts, FindTarget(h) \/ Psql(h)
    PROVE  JobInv'
<1> DEFINE r == loop[h].job
<1>1. HasRestore(h) /\ TypeOK
  BY DEF FindTarget, Psql, HasRestore, JobInv
<1>2. r \in RestoreIds
  BY <1>1 DEF TypeOK
<1>3. Idle \in Loop
  BY DEF Loop, Idle
<1>4. {"restoring", "succeeded", "failed"} \subseteq RestoreStatus
  BY DEF RestoreStatus
<1>5. CASE FindTarget(h)
  <2>0. /\ data' \in [ContainerIds -> Contents]
        /\ landed' \in [RestoreIds -> [at : ContainerIds \cup {NoId}, data : Contents]]
        /\ UNCHANGED <<backupVars, dockerVars, files, ident>>
    BY <1>1, <1>5 DEF FindTarget, TypeOK
  <2>1. CASE \E c \in Running(h, rrow[r].svc) :
                 /\ files[h][rrow[r].bak] # NoFile
                 /\ ReportRestoreJob(h, r, "restoring")
                 /\ Goto(h, "psql", r, c)
    <3>1. PICK c \in ContainerIds :
                 /\ cont[c].up
                 /\ files[h][rrow[r].bak] # NoFile
                 /\ ReportRestoreJob(h, r, "restoring")
                 /\ Goto(h, "psql", r, c)
      BY <2>1 DEF Running
    <3>2. c # NoId /\ cont[c] \in Container
      BY <1>1, <3>1, UpIsContainer, BackupsAssumption
    <3> DEFINE new == [pc |-> "psql", job |-> r, at |-> c]
    <3>3. new \in Loop /\ new.pc = "psql" /\ new.job = r /\ new.at = c
      BY <1>2 DEF Loop
    <3>4. loop' = [loop EXCEPT ![h] = new]
      BY <3>1 DEF Goto
    <3> HIDE DEF new
    <3> QED
      BY <1>1, <1>4, <2>0, <3>1, <3>2, <3>3, <3>4, JobRestoreStep DEF RestoreWork
  <2>2. CASE FailRestore(h)
    BY <1>1, <1>3, <1>4, <2>0, <2>2, JobRestoreStep DEF FailRestore, Return
  <2> QED  BY <1>5, <2>1, <2>2 DEF FindTarget
<1>6. CASE Psql(h)
  <2> DEFINE c == loop[h].at
             dump == files[h][rrow[r].bak].data
  <2>0. loop[h].pc = "psql" /\ UNCHANGED <<backupVars, dockerVars, files, ident>>
    BY <1>6 DEF Psql
  <2>1. CASE /\ data' = [data EXCEPT ![c] = @ \cup dump]
             /\ landed' = [landed EXCEPT ![r] = [at |-> c, data |-> dump]]
             /\ ReportRestoreJob(h, r, "succeeded") /\ Return(h)
    <3>1. c \in ContainerIds /\ dump \in Contents
      BY <2>0, PsqlTyped DEF Artifact
    <3>2. data' \in [ContainerIds -> Contents]
      BY <1>1, <2>1, <3>1 DEF TypeOK, Contents
    <3>3. landed' \in [RestoreIds -> [at : ContainerIds \cup {NoId}, data : Contents]]
      BY <1>1, <1>2, <2>1, <3>1 DEF TypeOK
    <3> QED
      BY <1>1, <1>3, <1>4, <2>0, <2>1, <3>2, <3>3, JobRestoreStep DEF Return
  <2>2. CASE Partly(h, c) /\ FailRestore(h) /\ UNCHANGED landed
    <3>1. data' \in [ContainerIds -> Contents]
      BY <2>0, <2>2, PartlyTyped
    <3>2. landed' \in [RestoreIds -> [at : ContainerIds \cup {NoId}, data : Contents]]
      BY <1>1, <2>2 DEF TypeOK
    <3> QED
      BY <1>1, <1>3, <1>4, <2>0, <2>2, <3>1, <3>2, JobRestoreStep DEF FailRestore, Return
  <2> QED  BY <1>6, <2>1, <2>2 DEF Psql
<1> QED  BY <1>5, <1>6

\* Crashes, registrations and disk errors.
LEMMA JobFaults ==
    ASSUME JobInv, NEW h \in Hosts,
           \/ Crash(h) \/ DiskError(h)
           \/ \E s \in Servers : Reinstall(h, s) \/ Reregister(h, s)
    PROVE  JobInv'
<1>1. TypeOK /\ faults' \in 0 .. MaxFaults
  BY BackupsAssumption DEF JobInv, TypeOK, Crash, Reinstall, Reregister, DiskError, Stop, Fault
<1>2. \A s \in Servers : Registered(h, s) \in [Hosts -> Servers \cup {NoServer}]
  BY <1>1 DEF TypeOK, Registered
<1>3. CASE Crash(h) \/ \E s \in Servers : Reinstall(h, s)
  <2>1. /\ loop' = [loop EXCEPT ![h] = Idle]
        /\ IF loop[h].pc = "psql" THEN Partly(h, loop[h].at) ELSE UNCHANGED data
        /\ UNCHANGED <<backupVars, restoreVars, dockerVars, files, landed>>
        /\ ident' = ident \/ \E s \in Servers : ident' = Registered(h, s)
    BY <1>3 DEF Crash, Reinstall, Stop, Return
  <2>2. data' \in [ContainerIds -> Contents]
    BY <1>1, <2>1, PartlyTyped DEF TypeOK
  <2>3. ident' \in [Hosts -> Servers \cup {NoServer}]
    BY <1>1, <1>2, <2>1 DEF TypeOK
  <2>4. /\ bstatus' = bstatus /\ uri' = uri /\ rstatus' = rstatus /\ files' = files
        /\ landed' = landed /\ brow' = brow /\ rrow' = rrow /\ UNCHANGED dockerVars
    BY <2>1 DEF backupVars, restoreVars
  <2>5. Idle \in Loop /\ Idle.pc = "poll"
    BY DEF Idle, Loop
  <2>6. TypeOK'
    BY <1>1, <2>1, <2>2, <2>3, <2>4, <2>5, TypeKept DEF TypeOK
  <2>7. loop'[h] = Idle /\ \A g \in Hosts : g # h => loop'[g] = loop[g]
    BY <1>1, <2>1 DEF TypeOK
  <2>8. ~HasBackup(h)' /\ ~HasRestore(h)' /\ loop'[h].pc # "psql"
    BY <2>5, <2>7 DEF HasBackup, HasRestore
  <2> QED  BY <2>4, <2>6, <2>7, <2>8, JobHolds
<1>4. CASE \E s \in Servers : Reregister(h, s)
  <2>1. TypeOK'
    BY <1>1, <1>2, <1>4
       DEF TypeOK, Reregister, backupVars, restoreVars, dockerVars, HasBackup, HasRestore
  <2>2. /\ bstatus' = bstatus /\ rstatus' = rstatus /\ rrow' = rrow /\ files' = files
        /\ loop' = loop
    BY <1>4 DEF Reregister, backupVars, restoreVars
  <2> QED
    BY <2>1, <2>2 DEF JobInv, Held, Exclusive, Sources, Open, HasBackup, HasRestore
<1>5. CASE DiskError(h)
  <2>1. PICK left \in {NoFile, EmptyFile} :
               files' = [files EXCEPT ![h][loop[h].job] = left]
    BY <1>5 DEF DiskError
  <2>2. left \in Artifact \cup {NoFile}
    <3>1. EmptyFile \in Artifact
      BY DEF Artifact, EmptyFile, Contents
    <3> QED  BY <3>1
  <2>3. loop[h].job \in BackupIds /\ HasBackup(h) /\ loop[h].pc = "verify"
    BY <1>1, <1>5 DEF DiskError, TypeOK, HasBackup
  <2>4. /\ files' \in [Hosts -> [BackupIds -> Artifact \cup {NoFile}]]
        /\ \A g \in Hosts, b \in BackupIds :
               files'[g][b] = files[g][b] \/ (g = h /\ loop[h].job = b)
    BY <1>1, <2>1, <2>2, <2>3 DEF TypeOK
  <2>5. /\ bstatus' = bstatus /\ uri' = uri /\ rstatus' = rstatus /\ data' = data
        /\ ident' = ident /\ landed' = landed /\ brow' = brow /\ rrow' = rrow
        /\ loop' = loop /\ UNCHANGED dockerVars
    BY <1>5 DEF DiskError, backupVars, restoreVars
  <2>6. TypeOK'
    BY <1>1, <2>4, <2>5 DEF TypeOK, dockerVars, HasBackup, HasRestore
  <2>7. HasBackup(h)' /\ ~HasRestore(h)' /\ bstatus[loop[h].job] \in BackupWork
    BY <2>3, <2>5 DEF JobInv, Held, HasBackup, HasRestore
  <2> QED  BY <2>3, <2>4, <2>5, <2>6, <2>7, JobHolds
<1> QED  BY <1>3, <1>4, <1>5

\* Deployments and applications change containers and their contents only.
LEMMA JobWorld ==
    ASSUME JobInv,
           \/ \E h \in Hosts, v \in Services, c \in ContainerIds : StartDatabase(h, v, c)
           \/ \E c \in ContainerIds : DatabaseRunning(c) \/ StopDatabase(c)
           \/ \E c \in ContainerIds, t \in Tables : Write(c, t)
           \/ UNCHANGED vars
    PROVE  JobInv'
<1> USE DEF JobInv
<1>1. ASSUME NEW h \in Hosts, NEW v \in Services, NEW c \in ContainerIds,
             StartDatabase(h, v, c)
      PROVE  JobInv'
  <2>1. cont' \in [ContainerIds -> Container \cup {NoContainer}] /\ cont'[c] \in Container
    BY <1>1 DEF StartDatabase, TypeOK, Container
  <2>2. \A a \in ContainerIds : a # c => cont'[a] = cont[a]
    BY <1>1 DEF StartDatabase, TypeOK
  <2>3. TypeOK'
    <3>1. \A g \in Hosts : loop[g].pc \in {"dump", "psql"} => loop[g].at \in ContainerIds
      BY DEF TypeOK, Loop
    <3> QED
      BY <1>1, <2>1, <2>2, <3>1 DEF StartDatabase, TypeOK, backupVars, restoreVars,
                                    HasBackup, HasRestore
  <2> QED
    BY <1>1, <2>3 DEF StartDatabase, Held, Exclusive, Sources, Open, backupVars,
                      restoreVars, HasBackup, HasRestore
<1>2. ASSUME NEW c \in ContainerIds, DatabaseRunning(c)
      PROVE  JobInv'
  <2>1. cont[c] \in Container
    BY <1>2, UpIsContainer DEF DatabaseRunning
  <2>2. latest' \in [Services -> Servers \cup {NoServer}]
    BY <1>2, <2>1 DEF DatabaseRunning, TypeOK, Container
  <2>3. TypeOK'
    BY <1>2, <2>2 DEF DatabaseRunning, TypeOK, backupVars, restoreVars, HasBackup, HasRestore
  <2> QED
    BY <1>2, <2>3 DEF DatabaseRunning, Held, Exclusive, Sources, Open, backupVars,
                      restoreVars, HasBackup, HasRestore
<1>3. ASSUME NEW c \in ContainerIds, StopDatabase(c)
      PROVE  JobInv'
  <2>1. cont[c] \in Container
    BY <1>3, UpIsContainer DEF StopDatabase
  <2>2. cont' \in [ContainerIds -> Container \cup {NoContainer}] /\ cont'[c] \in Container
    BY <1>3, <2>1 DEF StopDatabase, TypeOK, Container
  <2>3. \A a \in ContainerIds : a # c => cont'[a] = cont[a]
    BY <1>3 DEF StopDatabase, TypeOK
  <2>4. TypeOK'
    <3>1. \A g \in Hosts : loop[g].pc \in {"dump", "psql"} => loop[g].at \in ContainerIds
      BY DEF TypeOK, Loop
    <3> QED
      BY <1>3, <2>2, <2>3, <3>1 DEF StopDatabase, TypeOK, backupVars, restoreVars,
                                    HasBackup, HasRestore
  <2> QED
    BY <1>3, <2>4 DEF StopDatabase, Held, Exclusive, Sources, Open, backupVars,
                      restoreVars, HasBackup, HasRestore
<1>4. ASSUME NEW c \in ContainerIds, NEW t \in Tables, Write(c, t)
      PROVE  JobInv'
  <2>1. cont[c] \in Container
    BY <1>4, UpIsContainer DEF Write
  <2>2. data[c] \cup {<<cont[c].svc, t>>} \in Contents
    BY <2>1 DEF TypeOK, Contents, Container
  <2>3. data' \in [ContainerIds -> Contents]
    BY <1>4, <2>2 DEF Write, TypeOK
  <2>4. TypeOK'
    BY <1>4, <2>3 DEF Write, TypeOK, backupVars, restoreVars, dockerVars, HasBackup,
                      HasRestore
  <2> QED
    BY <1>4, <2>4 DEF Write, Held, Exclusive, Sources, Open, backupVars, restoreVars,
                      HasBackup, HasRestore
<1>5. ASSUME UNCHANGED vars PROVE JobInv'
  BY <1>5 DEF vars, TypeOK, Held, Exclusive, Sources, Open, backupVars, restoreVars,
              dockerVars, HasBackup, HasRestore
<1> QED  BY <1>1, <1>2, <1>3, <1>4, <1>5

\* Every step keeps the invariant.
LEMMA JobStep ==
    JobInv /\ [Next]_vars => JobInv'
<1> SUFFICES ASSUME JobInv, [Next]_vars PROVE JobInv'
  OBVIOUS
<1>1. CASE \E h \in Hosts : LoopStep(h)
  BY <1>1, JobPolls, JobBackups, JobRestores DEF LoopStep
<1>2. CASE \E h \in Hosts : \/ Crash(h) \/ DiskError(h)
                            \/ \E s \in Servers : Reinstall(h, s) \/ Reregister(h, s)
  BY <1>2, JobFaults
<1>3. CASE \/ \E v \in Services, b \in BackupIds : CreateBackup(v, b)
           \/ \E b \in BackupIds, r \in RestoreIds : RestoreBackup(b, r)
  BY <1>3, JobRequests
<1>4. CASE \/ \E h \in Hosts, v \in Services, c \in ContainerIds : StartDatabase(h, v, c)
           \/ \E c \in ContainerIds : DatabaseRunning(c) \/ StopDatabase(c)
           \/ \E c \in ContainerIds, t \in Tables : Write(c, t)
           \/ UNCHANGED vars
  BY <1>4, JobWorld
<1> QED  BY <1>1, <1>2, <1>3, <1>4 DEF Next

\* A step changes the status of a backup only if it inserts or claims it, or if
\* it is a step of the loop that holds it; the same for restores.
LEMMA JobOwned ==
    ASSUME JobInv, [Next]_vars
    PROVE  /\ \A b \in BackupIds : bstatus[b] \in Terminal => bstatus'[b] = bstatus[b]
           /\ \A r \in RestoreIds : rstatus[r] \in Terminal => rstatus'[r] = rstatus[r]
<1>1. ASSUME NEW h \in Hosts, HasBackup(h)
      PROVE  /\ loop[h].job \in BackupIds
             /\ bstatus[loop[h].job] \notin Terminal \cup {"none"}
  BY <1>1 DEF JobInv, TypeOK, Held, BackupWork, Terminal
<1>2. ASSUME NEW h \in Hosts, HasRestore(h)
      PROVE  /\ loop[h].job \in RestoreIds
             /\ rstatus[loop[h].job] \notin Terminal \cup {"none"}
  BY <1>2 DEF JobInv, TypeOK, Held, RestoreWork, Terminal
<1>3. TypeOK
  BY DEF JobInv
<1>4. CASE \E v \in Services, b \in BackupIds : CreateBackup(v, b)
  BY <1>3, <1>4 DEF CreateBackup, InsertBackup, NextBackup, restoreVars, Terminal, TypeOK
<1>5. CASE \E b \in BackupIds, r \in RestoreIds : RestoreBackup(b, r)
  BY <1>3, <1>5 DEF RestoreBackup, InsertRestore, NextRestore, backupVars, Terminal, TypeOK
<1>6. ASSUME NEW h \in Hosts, PollBackupJob(h) \/ PollRestoreJob(h)
      PROVE  /\ \A b \in BackupIds : bstatus[b] \in Terminal => bstatus'[b] = bstatus[b]
             /\ \A r \in RestoreIds : rstatus[r] \in Terminal => rstatus'[r] = rstatus[r]
  BY <1>3, <1>6 DEF PollBackupJob, PollRestoreJob, Oldest, backupVars, restoreVars,
                    Terminal, TypeOK
<1>7. ASSUME NEW h \in Hosts, FindDatabase(h) \/ PgDump(h) \/ Verify(h)
      PROVE  /\ \A b \in BackupIds : bstatus[b] \in Terminal => bstatus'[b] = bstatus[b]
             /\ rstatus' = rstatus
  <2>1. HasBackup(h) /\ rstatus' = rstatus
    BY <1>7 DEF FindDatabase, PgDump, Verify, HasBackup, restoreVars
  <2>2. PICK st \in BackupStatus, path \in BOOLEAN :
               ReportBackupJob(h, loop[h].job, st, path)
    BY <1>7 DEF FindDatabase, PgDump, Verify, FailBackup, BackupStatus
  <2>3. \A b \in BackupIds : b # loop[h].job => bstatus'[b] = bstatus[b]
    BY <1>1, <1>3, <2>1, <2>2, BackupReported
  <2> QED  BY <1>1, <2>1, <2>3
<1>8. ASSUME NEW h \in Hosts, FindTarget(h) \/ Psql(h)
      PROVE  /\ \A r \in RestoreIds : rstatus[r] \in Terminal => rstatus'[r] = rstatus[r]
             /\ bstatus' = bstatus
  <2>1. HasRestore(h) /\ bstatus' = bstatus
    BY <1>8 DEF FindTarget, Psql, HasRestore, backupVars
  <2>2. PICK st \in RestoreStatus : ReportRestoreJob(h, loop[h].job, st)
    BY <1>8 DEF FindTarget, Psql, FailRestore, RestoreStatus
  <2>3. \A r \in RestoreIds : r # loop[h].job => rstatus'[r] = rstatus[r]
    BY <1>2, <1>3, <2>1, <2>2, RestoreReported
  <2> QED  BY <1>2, <2>1, <2>3
<1>9. ASSUME \/ \E h \in Hosts : Crash(h) \/ DiskError(h)
             \/ \E h \in Hosts, s \in Servers : Reinstall(h, s) \/ Reregister(h, s)
             \/ \E h \in Hosts, v \in Services, c \in ContainerIds : StartDatabase(h, v, c)
             \/ \E c \in ContainerIds : DatabaseRunning(c) \/ StopDatabase(c)
             \/ \E c \in ContainerIds, t \in Tables : Write(c, t)
             \/ UNCHANGED vars
      PROVE  bstatus' = bstatus /\ rstatus' = rstatus
  BY <1>9 DEF Crash, Reinstall, Stop, DiskError, Reregister, StartDatabase,
              DatabaseRunning, StopDatabase, Write, vars, backupVars, restoreVars
<1> QED
  BY <1>4, <1>5, <1>6, <1>7, <1>8, <1>9 DEF Next, LoopStep

\* THEOREM: type correctness, with the facts it rests on: a loop holds a claimed
\* job that has not ended, no job is in two loops, a restore's backup has
\* succeeded and psql has an artifact to read.
THEOREM BackupsTypeCorrect == Spec => []TypeOK
<1>1. JobInv => TypeOK
  BY DEF JobInv
<1> QED  BY JobInit, JobStep, <1>1, PTL DEF Spec

\* A job that has ended stays as it ended (ClaimNextBackupForServer takes queued
\* rows only, and an agent forgets a job when it ends or crashes).
THEOREM OutcomesStable == Spec => OutcomeStable
<1>1. JobInv /\ [Next]_vars =>
        [/\ \A b \in BackupIds : bstatus[b] \in Terminal => bstatus'[b] = bstatus[b]
         /\ \A r \in RestoreIds : rstatus[r] \in Terminal => rstatus'[r] = rstatus[r]]_vars
  BY JobOwned
<1> QED  BY JobInit, JobStep, <1>1, PTL DEF Spec, OutcomeStable

\* Artifacts change only under the loop that holds their backup.
LEMMA ArtifactsOwned ==
    ASSUME JobInv, [Next]_vars, NEW b \in BackupIds, bstatus[b] = "succeeded"
    PROVE  /\ \A g \in Hosts : files'[g][b] = files[g][b]
           /\ uri[b] => uri'[b]
<1>1. TypeOK
  BY DEF JobInv
<1>2. ASSUME NEW h \in Hosts, HasBackup(h)
      PROVE  /\ loop[h].job \in BackupIds /\ bstatus[loop[h].job] # "none"
             /\ loop[h].job # b
  BY <1>2 DEF JobInv, TypeOK, Held, BackupWork
<1>3. ASSUME NEW h \in Hosts, FindDatabase(h) \/ PgDump(h) \/ Verify(h)
      PROVE  (\A g \in Hosts : files'[g][b] = files[g][b]) /\ (uri[b] => uri'[b])
  <2>1. HasBackup(h)
    BY <1>3 DEF FindDatabase, PgDump, Verify, HasBackup
  <2>2. PICK st \in BackupStatus, path \in BOOLEAN :
               ReportBackupJob(h, loop[h].job, st, path)
    BY <1>3 DEF FindDatabase, PgDump, Verify, FailBackup, BackupStatus
  <2>3. uri[b] => uri'[b]
    BY <1>1, <1>2, <2>1, <2>2, BackupReported
  <2>4. files' = files \/ \E f : files' = [files EXCEPT ![h][loop[h].job] = f]
    BY <1>3 DEF FindDatabase, PgDump, Verify
  <2>5. \A g \in Hosts : files'[g][b] = files[g][b]
    BY <1>1, <1>2, <2>1, <2>4, SMTT(30) DEF TypeOK
  <2> QED  BY <2>3, <2>5
<1>4. ASSUME NEW h \in Hosts, DiskError(h)
      PROVE  (\A g \in Hosts : files'[g][b] = files[g][b]) /\ uri' = uri
  <2>1. HasBackup(h)
    BY <1>4 DEF DiskError, HasBackup
  <2>2. \E f : files' = [files EXCEPT ![h][loop[h].job] = f]
    BY <1>4 DEF DiskError
  <2> QED  BY <1>1, <1>2, <1>4, <2>1, <2>2 DEF DiskError, TypeOK, backupVars
<1>5. ASSUME NEW h \in Hosts,
             \/ PollBackupJob(h) \/ PollRestoreJob(h) \/ FindTarget(h) \/ Psql(h) \/ Crash(h)
             \/ \E s \in Servers : Reinstall(h, s) \/ Reregister(h, s)
      PROVE  files' = files /\ uri' = uri
  BY <1>5 DEF PollBackupJob, PollRestoreJob, FindTarget, Psql, Crash, Reinstall, Stop,
              Reregister, backupVars
<1>6. ASSUME \/ \E v \in Services, a \in BackupIds : CreateBackup(v, a)
             \/ \E a \in BackupIds, r \in RestoreIds : RestoreBackup(a, r)
             \/ \E h \in Hosts, v \in Services, c \in ContainerIds : StartDatabase(h, v, c)
             \/ \E c \in ContainerIds : DatabaseRunning(c) \/ StopDatabase(c)
             \/ \E c \in ContainerIds, t \in Tables : Write(c, t)
             \/ UNCHANGED vars
      PROVE  files' = files /\ uri' = uri
  BY <1>6 DEF CreateBackup, InsertBackup, RestoreBackup, InsertRestore, StartDatabase,
         DatabaseRunning, StopDatabase, Write, vars, backupVars
<1> QED  BY <1>3, <1>4, <1>5, <1>6 DEF Next, LoopStep

\* Only the verification makes a backup succeeded, and it has just seen the
\* whole artifact.
LEMMA SuccessVerified ==
    ASSUME JobInv, [Next]_vars, NEW b \in BackupIds,
           bstatus[b] # "succeeded", bstatus'[b] = "succeeded"
    PROVE  uri'[b] /\ \E h \in Hosts : files'[h][b].whole
<1>1. TypeOK
  BY DEF JobInv
<1>2. ASSUME NEW h \in Hosts, HasBackup(h)
      PROVE  loop[h].job \in BackupIds /\ bstatus[loop[h].job] # "none"
  BY <1>2 DEF JobInv, TypeOK, Held, BackupWork
<1>3. ASSUME NEW h \in Hosts, NEW st \in BackupStatus, NEW path \in BOOLEAN, HasBackup(h),
             ReportBackupJob(h, loop[h].job, st, path)
      PROVE  st = "succeeded" /\ b = loop[h].job /\ (path => uri'[b])
  BY <1>1, <1>2, <1>3, BackupReported
<1>4. ASSUME NEW h \in Hosts, FindDatabase(h) PROVE FALSE
  <2>1. PICK st \in {"dumping", "failed"} : ReportBackupJob(h, loop[h].job, st, FALSE)
    BY <1>4 DEF FindDatabase, FailBackup
  <2>2. HasBackup(h) /\ st \in BackupStatus
    BY <1>4 DEF FindDatabase, HasBackup, BackupStatus
  <2> QED  BY <1>3, <2>1, <2>2
<1>5. ASSUME NEW h \in Hosts, PgDump(h) PROVE FALSE
  <2>1. PICK st \in {"verifying", "failed"}, path \in BOOLEAN :
               ReportBackupJob(h, loop[h].job, st, path)
    BY <1>5 DEF PgDump, FailBackup
  <2>2. HasBackup(h) /\ st \in BackupStatus
    BY <1>5 DEF PgDump, HasBackup, BackupStatus
  <2> QED  BY <1>3, <2>1, <2>2
<1>6. ASSUME NEW h \in Hosts, Verify(h)
      PROVE  uri'[b] /\ \E g \in Hosts : files'[g][b].whole
  <2>1. HasBackup(h) /\ files' = files
    BY <1>6 DEF Verify, HasBackup
  <2>2. {"succeeded", "failed"} \subseteq BackupStatus
    BY DEF BackupStatus
  <2>3. CASE FailBackup(h)
    BY <1>3, <2>1, <2>2, <2>3 DEF FailBackup
  <2>4. CASE files[h][loop[h].job].whole /\ ReportBackupJob(h, loop[h].job, "succeeded", TRUE)
    BY <1>3, <2>1, <2>2, <2>4
  <2> QED  BY <1>6, <2>3, <2>4 DEF Verify
<1>7. ASSUME NEW h \in Hosts, PollBackupJob(h) PROVE FALSE
  BY <1>1, <1>7 DEF PollBackupJob, TypeOK
<1>8. ASSUME \E v \in Services, a \in BackupIds : CreateBackup(v, a) PROVE FALSE
  BY <1>1, <1>8 DEF CreateBackup, InsertBackup, TypeOK
<1>9. ASSUME NEW h \in Hosts,
             \/ PollRestoreJob(h) \/ FindTarget(h) \/ Psql(h) \/ Crash(h) \/ DiskError(h)
             \/ \E s \in Servers : Reinstall(h, s) \/ Reregister(h, s)
      PROVE  bstatus' = bstatus
  BY <1>9 DEF PollRestoreJob, FindTarget, Psql, Crash, DiskError, Reinstall, Stop,
              Reregister, backupVars
<1>10. ASSUME \/ \E a \in BackupIds, r \in RestoreIds : RestoreBackup(a, r)
              \/ \E h \in Hosts, v \in Services, c \in ContainerIds : StartDatabase(h, v, c)
              \/ \E c \in ContainerIds : DatabaseRunning(c) \/ StopDatabase(c)
              \/ \E c \in ContainerIds, t \in Tables : Write(c, t)
              \/ UNCHANGED vars
       PROVE  bstatus' = bstatus
  BY <1>10 DEF RestoreBackup, InsertRestore, StartDatabase, DatabaseRunning, StopDatabase,
         Write, vars, backupVars
<1> QED  BY <1>4, <1>5, <1>6, <1>7, <1>8, <1>9, <1>10 DEF Next, LoopStep

\* A succeeded backup keeps its path and its whole artifact, whatever is lost,
\* crashes or is registered again afterwards (executeBackup).
THEOREM ArtifactsKept == Spec => []ArtifactKept
<1>1. Init => ArtifactKept
  BY DEF Init, ArtifactKept
<1>2. JobInv /\ ArtifactKept /\ [Next]_vars => ArtifactKept'
  <2> SUFFICES ASSUME JobInv, ArtifactKept, [Next]_vars, NEW b \in BackupIds,
                      bstatus'[b] = "succeeded"
               PROVE  uri'[b] /\ \E h \in Hosts : files'[h][b].whole
    BY DEF ArtifactKept
  <2>1. CASE bstatus[b] = "succeeded"
    BY <2>1, ArtifactsOwned DEF ArtifactKept
  <2>2. CASE bstatus[b] # "succeeded"
    BY <2>2, SuccessVerified
  <2> QED  BY <2>1, <2>2
<1> QED  BY <1>1, <1>2, JobInit, JobStep, PTL DEF Spec

\* What a step may do to the backups table: nothing, insert the next row, claim a
\* server's oldest queued row, or move on a row that a loop holds.
LEMMA BackupMoves ==
    ASSUME JobInv, [Next]_vars
    PROVE  \/ UNCHANGED <<bstatus, brow>>
           \/ \E v \in Services, b \in BackupIds : CreateBackup(v, b)
           \/ \E s \in Servers, b \in BackupIds :
                  /\ Oldest(bstatus, brow, s, b)
                  /\ bstatus' = [bstatus EXCEPT ![b] = "assigned"]
                  /\ brow' = brow
           \/ \E b \in BackupIds, st \in BackupWork \cup Terminal :
                  /\ bstatus[b] \in BackupWork
                  /\ bstatus' = [bstatus EXCEPT ![b] = st]
                  /\ brow' = brow
<1>1. TypeOK
  BY DEF JobInv
<1>2. ASSUME NEW h \in Hosts, PollBackupJob(h)
      PROVE  \/ UNCHANGED <<bstatus, brow>>
             \/ \E b \in BackupIds :
                    /\ ident[h] \in Servers
                    /\ Oldest(bstatus, brow, ident[h], b)
                    /\ bstatus' = [bstatus EXCEPT ![b] = "assigned"]
                    /\ brow' = brow
  BY <1>1, <1>2 DEF PollBackupJob, TypeOK
<1>3. ASSUME NEW h \in Hosts, FindDatabase(h) \/ PgDump(h) \/ Verify(h)
      PROVE  \/ UNCHANGED <<bstatus, brow>>
             \/ \E st \in BackupWork \cup Terminal :
                    /\ loop[h].job \in BackupIds
                    /\ bstatus[loop[h].job] \in BackupWork
                    /\ bstatus' = [bstatus EXCEPT ![loop[h].job] = st]
                    /\ brow' = brow
  <2>1. HasBackup(h)
    BY <1>3 DEF FindDatabase, PgDump, Verify, HasBackup
  <2>2. loop[h].job \in BackupIds /\ bstatus[loop[h].job] \in BackupWork
    BY <2>1 DEF JobInv, TypeOK, Held
  <2>3. PICK st \in BackupWork \cup Terminal, path \in BOOLEAN :
               ReportBackupJob(h, loop[h].job, st, path)
    BY <1>3 DEF FindDatabase, PgDump, Verify, FailBackup, BackupWork, Terminal
  <2> QED  BY <2>2, <2>3 DEF ReportBackupJob, UpdateBackupStatus, backupVars
<1>4. ASSUME NEW h \in Hosts,
             \/ PollRestoreJob(h) \/ FindTarget(h) \/ Psql(h) \/ Crash(h) \/ DiskError(h)
             \/ \E s \in Servers : Reinstall(h, s) \/ Reregister(h, s)
      PROVE  UNCHANGED <<bstatus, brow>>
  BY <1>4 DEF PollRestoreJob, FindTarget, Psql, Crash, DiskError, Reinstall, Stop,
              Reregister, backupVars
<1>5. ASSUME \/ \E b \in BackupIds, r \in RestoreIds : RestoreBackup(b, r)
             \/ \E h \in Hosts, v \in Services, c \in ContainerIds : StartDatabase(h, v, c)
             \/ \E c \in ContainerIds : DatabaseRunning(c) \/ StopDatabase(c)
             \/ \E c \in ContainerIds, t \in Tables : Write(c, t)
             \/ UNCHANGED vars
      PROVE  UNCHANGED <<bstatus, brow>>
  BY <1>5 DEF RestoreBackup, InsertRestore, StartDatabase, DatabaseRunning, StopDatabase,
         Write, vars, backupVars
<1> QED  BY <1>2, <1>3, <1>4, <1>5 DEF Next, LoopStep

\* The same for the restore_jobs table.
LEMMA RestoreMoves ==
    ASSUME JobInv, [Next]_vars
    PROVE  \/ UNCHANGED <<rstatus, rrow>>
           \/ \E b \in BackupIds, r \in RestoreIds : RestoreBackup(b, r)
           \/ \E s \in Servers, r \in RestoreIds :
                  /\ Oldest(rstatus, rrow, s, r)
                  /\ rstatus' = [rstatus EXCEPT ![r] = "assigned"]
                  /\ rrow' = rrow
           \/ \E r \in RestoreIds, st \in RestoreWork \cup Terminal :
                  /\ rstatus[r] \in RestoreWork
                  /\ rstatus' = [rstatus EXCEPT ![r] = st]
                  /\ rrow' = rrow
<1>1. TypeOK
  BY DEF JobInv
<1>2. ASSUME NEW h \in Hosts, PollRestoreJob(h)
      PROVE  \/ UNCHANGED <<rstatus, rrow>>
             \/ \E r \in RestoreIds :
                    /\ ident[h] \in Servers
                    /\ Oldest(rstatus, rrow, ident[h], r)
                    /\ rstatus' = [rstatus EXCEPT ![r] = "assigned"]
                    /\ rrow' = rrow
  BY <1>1, <1>2 DEF PollRestoreJob, TypeOK
<1>3. ASSUME NEW h \in Hosts, FindTarget(h) \/ Psql(h)
      PROVE  \/ UNCHANGED <<rstatus, rrow>>
             \/ \E st \in RestoreWork \cup Terminal :
                    /\ loop[h].job \in RestoreIds
                    /\ rstatus[loop[h].job] \in RestoreWork
                    /\ rstatus' = [rstatus EXCEPT ![loop[h].job] = st]
                    /\ rrow' = rrow
  <2>1. HasRestore(h)
    BY <1>3 DEF FindTarget, Psql, HasRestore
  <2>2. loop[h].job \in RestoreIds /\ rstatus[loop[h].job] \in RestoreWork
    BY <2>1 DEF JobInv, TypeOK, Held
  <2>3. PICK st \in RestoreWork \cup Terminal : ReportRestoreJob(h, loop[h].job, st)
    BY <1>3 DEF FindTarget, Psql, FailRestore, RestoreWork, Terminal
  <2> QED  BY <2>2, <2>3 DEF ReportRestoreJob, UpdateRestoreStatus, restoreVars
<1>4. ASSUME NEW h \in Hosts,
             \/ PollBackupJob(h) \/ FindDatabase(h) \/ PgDump(h) \/ Verify(h)
             \/ Crash(h) \/ DiskError(h)
             \/ \E s \in Servers : Reinstall(h, s) \/ Reregister(h, s)
      PROVE  UNCHANGED <<rstatus, rrow>>
  BY <1>4 DEF PollBackupJob, FindDatabase, PgDump, Verify, Crash, DiskError, Reinstall,
              Stop, Reregister, restoreVars
<1>5. ASSUME \/ \E v \in Services, b \in BackupIds : CreateBackup(v, b)
             \/ \E h \in Hosts, v \in Services, c \in ContainerIds : StartDatabase(h, v, c)
             \/ \E c \in ContainerIds : DatabaseRunning(c) \/ StopDatabase(c)
             \/ \E c \in ContainerIds, t \in Tables : Write(c, t)
             \/ UNCHANGED vars
      PROVE  UNCHANGED <<rstatus, rrow>>
  BY <1>5 DEF CreateBackup, InsertBackup, StartDatabase, DatabaseRunning, StopDatabase,
         Write, vars, restoreVars
<1> QED  BY <1>2, <1>3, <1>4, <1>5 DEF Next, LoopStep

\* What the refinement mapping makes of each status.
LEMMA PhaseOf ==
    /\ Phase("none") = "new"
    /\ Phase("queued") = "waiting"
    /\ \A st \in Terminal : Phase(st) = "ended"
    /\ \A st \in BackupWork \cup RestoreWork : Phase(st) = "taken"
    /\ \A st \in BackupStatus \cup RestoreStatus : Phase(st) # "new"
    /\ \A st \in BackupStatus \cup RestoreStatus \cup {"none"} :
           Phase(st) = "waiting" => st = "queued"
BY DEF Phase, Terminal, BackupWork, RestoreWork, BackupStatus, RestoreStatus

\* Every step is a step of the backup queue, or leaves it alone.
LEMMA BackupQueueStep ==
    ASSUME JobInv, [Next]_vars
    PROVE  [BackupQueue!Next]_<<backupPhase, backupPlace>>
<1>1. TypeOK
  BY DEF JobInv
<1>2. CASE UNCHANGED <<bstatus, brow>>
  BY <1>2 DEF backupPhase, backupPlace
<1>3. ASSUME NEW v \in Services, NEW b \in BackupIds, CreateBackup(v, b)
      PROVE  BackupQueue!Enqueue(b, latest[v]) /\ latest[v] \in Servers
  <2>1. latest[v] \in Servers
    BY <1>1, <1>3 DEF CreateBackup, InsertBackup, TypeOK
  <2>2. backupPhase[b] = "new" /\ \A a \in BackupIds : a < b => backupPhase[a] # "new"
    BY <1>1, <1>3, PhaseOf DEF CreateBackup, InsertBackup, NextBackup, TypeOK, backupPhase
  <2>3. backupPhase' = [backupPhase EXCEPT ![b] = "waiting"]
    BY <1>1, <1>3, PhaseOf DEF CreateBackup, InsertBackup, TypeOK, backupPhase
  <2>4. backupPlace' = [backupPlace EXCEPT ![b] = latest[v]]
    BY <1>1, <1>3 DEF CreateBackup, InsertBackup, TypeOK, backupPlace
  <2> QED  BY <2>1, <2>2, <2>3, <2>4 DEF BackupQueue!Enqueue
<1>4. ASSUME NEW s \in Servers, NEW b \in BackupIds, Oldest(bstatus, brow, s, b),
             bstatus' = [bstatus EXCEPT ![b] = "assigned"], brow' = brow
      PROVE  BackupQueue!Take(b)
  <2>1. backupPhase[b] = "waiting" /\ backupPlace[b] = s
    BY <1>4, PhaseOf DEF Oldest, backupPhase, backupPlace
  <2>2. \A a \in BackupIds :
            a < b /\ backupPlace[a] = backupPlace[b] => backupPhase[a] # "waiting"
    BY <1>1, <1>4, <2>1, PhaseOf DEF Oldest, TypeOK, backupPhase, backupPlace
  <2>3. backupPhase' = [backupPhase EXCEPT ![b] = "taken"]
    BY <1>1, <1>4, PhaseOf DEF BackupWork, TypeOK, backupPhase
  <2>4. backupPlace' = backupPlace
    BY <1>4 DEF backupPlace
  <2> QED  BY <2>1, <2>2, <2>3, <2>4 DEF BackupQueue!Take
<1>5. ASSUME NEW b \in BackupIds, NEW st \in BackupWork \cup Terminal,
             bstatus[b] \in BackupWork, bstatus' = [bstatus EXCEPT ![b] = st],
             brow' = brow
      PROVE  BackupQueue!End(b) \/ UNCHANGED <<backupPhase, backupPlace>>
  <2>1. backupPhase[b] = "taken" /\ backupPlace' = backupPlace
    BY <1>5, PhaseOf DEF backupPhase, backupPlace
  <2>2. backupPhase' = [backupPhase EXCEPT ![b] = Phase(st)]
    BY <1>1, <1>5 DEF TypeOK, backupPhase
  <2>3. CASE st \in Terminal
    BY <2>1, <2>2, <2>3, PhaseOf DEF BackupQueue!End
  <2>4. CASE st \in BackupWork
    BY <2>1, <2>2, <2>4, PhaseOf DEF backupPhase
  <2> QED  BY <2>3, <2>4
<1> QED  BY <1>2, <1>3, <1>4, <1>5, BackupMoves DEF BackupQueue!Next

\* The same for the restore queue.
LEMMA RestoreQueueStep ==
    ASSUME JobInv, [Next]_vars
    PROVE  [RestoreQueue!Next]_<<restorePhase, restorePlace>>
<1>1. TypeOK
  BY DEF JobInv
<1>2. CASE UNCHANGED <<rstatus, rrow>>
  BY <1>2 DEF restorePhase, restorePlace
<1>3. ASSUME NEW b \in BackupIds, NEW r \in RestoreIds, RestoreBackup(b, r)
      PROVE  RestoreQueue!Enqueue(r, brow[b].srv) /\ brow[b].srv \in Servers
  <2>1. brow[b] \in BackupRow /\ brow[b].srv \in Servers
    BY <1>1, <1>3 DEF RestoreBackup, InsertRestore, Restorable, TypeOK, BackupRow
  <2>2. restorePhase[r] = "new" /\ \A q \in RestoreIds : q < r => restorePhase[q] # "new"
    BY <1>1, <1>3, PhaseOf DEF RestoreBackup, InsertRestore, NextRestore, TypeOK, restorePhase
  <2>3. restorePhase' = [restorePhase EXCEPT ![r] = "waiting"]
    BY <1>1, <1>3, PhaseOf DEF RestoreBackup, InsertRestore, TypeOK, restorePhase
  <2>4. restorePlace' = [restorePlace EXCEPT ![r] = brow[b].srv]
    BY <1>1, <1>3 DEF RestoreBackup, InsertRestore, TypeOK, restorePlace
  <2> QED  BY <2>1, <2>2, <2>3, <2>4 DEF RestoreQueue!Enqueue
<1>4. ASSUME NEW s \in Servers, NEW r \in RestoreIds, Oldest(rstatus, rrow, s, r),
             rstatus' = [rstatus EXCEPT ![r] = "assigned"], rrow' = rrow
      PROVE  RestoreQueue!Take(r)
  <2>1. restorePhase[r] = "waiting" /\ restorePlace[r] = s
    BY <1>4, PhaseOf DEF Oldest, restorePhase, restorePlace
  <2>2. \A q \in RestoreIds :
            q < r /\ restorePlace[q] = restorePlace[r] => restorePhase[q] # "waiting"
    BY <1>1, <1>4, <2>1, PhaseOf DEF Oldest, TypeOK, restorePhase, restorePlace
  <2>3. restorePhase' = [restorePhase EXCEPT ![r] = "taken"]
    BY <1>1, <1>4, PhaseOf DEF RestoreWork, TypeOK, restorePhase
  <2>4. restorePlace' = restorePlace
    BY <1>1, <1>4 DEF Oldest, TypeOK, restorePlace
  <2> QED  BY <2>1, <2>2, <2>3, <2>4 DEF RestoreQueue!Take
<1>5. ASSUME NEW r \in RestoreIds, NEW st \in RestoreWork \cup Terminal,
             rstatus[r] \in RestoreWork, rstatus' = [rstatus EXCEPT ![r] = st],
             rrow' = rrow
      PROVE  RestoreQueue!End(r) \/ UNCHANGED <<restorePhase, restorePlace>>
  <2>1. restorePhase[r] = "taken"
    BY <1>5, PhaseOf DEF restorePhase
  <2>2. restorePhase' = [restorePhase EXCEPT ![r] = Phase(st)]
    BY <1>1, <1>5 DEF TypeOK, restorePhase
  <2>3. restorePlace' = restorePlace
    BY <1>1, <1>5 DEF TypeOK, restorePlace, RestoreWork, Terminal
  <2>4. CASE st \in Terminal
    BY <2>1, <2>2, <2>3, <2>4, PhaseOf DEF RestoreQueue!End
  <2>5. CASE st \in RestoreWork
    BY <2>1, <2>2, <2>3, <2>5, PhaseOf DEF restorePhase
  <2> QED  BY <2>4, <2>5
<1> QED  BY <1>2, <1>3, <1>4, <1>5, RestoreMoves DEF RestoreQueue!Next

\* The two job tables, as the dashboard and the agents use them, implement the
\* job queue: ClaimNext...ForServer hands every row out once, oldest first, and
\* no report comes for a row that was not handed out or has ended.
THEOREM QueuesImplemented == Spec => ImplementsQueues
<1>1. Init => BackupQueue!Init /\ RestoreQueue!Init
  BY PhaseOf DEF Init, BackupQueue!Init, RestoreQueue!Init, backupPhase, backupPlace,
                 restorePhase, restorePlace, NoBackup
<1>2. JobInv /\ [Next]_vars => [BackupQueue!Next]_<<backupPhase, backupPlace>>
  BY BackupQueueStep
<1>3. JobInv /\ [Next]_vars => [RestoreQueue!Next]_<<restorePhase, restorePlace>>
  BY RestoreQueueStep
<1> QED
  BY JobInit, JobStep, <1>1, <1>2, <1>3, PTL
     DEF Spec, ImplementsQueues, BackupQueue!Spec, RestoreQueue!Spec

-----------------------------------------------------------------------------
(* What a step may do to the rows, containers, files, loops and databases.  *)
(* The invariants below need only these, and none of the actions.           *)

\* Rows are neither deleted nor given other columns.
LEMMA RowsKept ==
    ASSUME JobInv, [Next]_vars
    PROVE  /\ \A b \in BackupIds : bstatus[b] # "none" =>
                  bstatus'[b] # "none" /\ brow'[b] = brow[b]
           /\ \A r \in RestoreIds : rstatus[r] # "none" =>
                  rstatus'[r] # "none" /\ rrow'[r] = rrow[r]
<1>1. TypeOK
  BY DEF JobInv
<1>2. \A b \in BackupIds : bstatus[b] # "none" => bstatus'[b] # "none" /\ brow'[b] = brow[b]
  <2>1. ASSUME NEW v \in Services, NEW a \in BackupIds, CreateBackup(v, a),
               NEW b \in BackupIds, bstatus[b] # "none"
        PROVE  bstatus'[b] # "none" /\ brow'[b] = brow[b]
    BY <1>1, <2>1 DEF CreateBackup, InsertBackup, NextBackup, TypeOK
  <2>2. ASSUME NEW a \in BackupIds, NEW st \in BackupWork \cup Terminal,
               bstatus' = [bstatus EXCEPT ![a] = st], brow' = brow,
               NEW b \in BackupIds, bstatus[b] # "none"
        PROVE  bstatus'[b] # "none" /\ brow'[b] = brow[b]
    BY <1>1, <2>2 DEF BackupWork, Terminal, TypeOK
  <2>3. "assigned" \in BackupWork
    BY DEF BackupWork
  <2> QED  BY <2>1, <2>2, <2>3, BackupMoves
<1>3. \A r \in RestoreIds : rstatus[r] # "none" => rstatus'[r] # "none" /\ rrow'[r] = rrow[r]
  <2>1. ASSUME NEW b \in BackupIds, NEW q \in RestoreIds, RestoreBackup(b, q),
               NEW r \in RestoreIds, rstatus[r] # "none"
        PROVE  rstatus'[r] # "none" /\ rrow'[r] = rrow[r]
    BY <1>1, <2>1 DEF RestoreBackup, InsertRestore, NextRestore, TypeOK
  <2>2. ASSUME NEW q \in RestoreIds, NEW st \in RestoreWork \cup Terminal,
               rstatus' = [rstatus EXCEPT ![q] = st], rrow' = rrow,
               NEW r \in RestoreIds, rstatus[r] # "none"
        PROVE  rstatus'[r] # "none" /\ rrow'[r] = rrow[r]
    BY <1>1, <2>2 DEF RestoreWork, Terminal, TypeOK
  <2>3. "assigned" \in RestoreWork
    BY DEF RestoreWork
  <2> QED  BY <2>1, <2>2, <2>3, RestoreMoves
<1> QED  BY <1>2, <1>3

\* A container keeps its service label and its host.
LEMMA ContainersKept ==
    ASSUME JobInv, [Next]_vars, NEW c \in ContainerIds, cont[c] \in Container
    PROVE  cont'[c] \in Container /\ cont'[c].svc = cont[c].svc /\ cont'[c].host = cont[c].host
<1>1. TypeOK
  BY DEF JobInv
<1>2. ASSUME NEW h \in Hosts, NEW v \in Services, NEW d \in ContainerIds, StartDatabase(h, v, d)
      PROVE  cont'[c] = cont[c]
  <2>1. NoContainer \notin Container
    BY DEF Container, NoContainer
  <2> QED  BY <1>1, <1>2, <2>1 DEF StartDatabase, TypeOK
<1>3. ASSUME NEW d \in ContainerIds, StopDatabase(d)
      PROVE  /\ cont'[c] \in Container
             /\ cont'[c].svc = cont[c].svc /\ cont'[c].host = cont[c].host
  <2>1. CASE c = d
    BY <1>1, <1>3, <2>1 DEF StopDatabase, TypeOK, Container
  <2>2. CASE c # d
    BY <1>1, <1>3, <2>2 DEF StopDatabase, TypeOK
  <2> QED  BY <2>1, <2>2
<1>4. ASSUME NEW h \in Hosts,
             \/ LoopStep(h) \/ Crash(h) \/ DiskError(h)
             \/ \E s \in Servers : Reinstall(h, s) \/ Reregister(h, s)
      PROVE  cont' = cont
  <2>1. CASE LoopStep(h)
    <3>1. UNCHANGED dockerVars
      BY <2>1, Zenon DEF LoopStep, PollBackupJob, PollRestoreJob, FindDatabase, PgDump,
                         Verify, FindTarget, Psql
    <3> QED  BY <3>1 DEF dockerVars
  <2>2. CASE Crash(h) \/ DiskError(h) \/ \E s \in Servers : Reinstall(h, s) \/ Reregister(h, s)
    BY <2>2 DEF Crash, DiskError, Reinstall, Stop, Reregister, dockerVars
  <2> QED  BY <1>4, <2>1, <2>2
<1>5. ASSUME \/ \E v \in Services, b \in BackupIds : CreateBackup(v, b)
             \/ \E b \in BackupIds, r \in RestoreIds : RestoreBackup(b, r)
             \/ \E d \in ContainerIds : DatabaseRunning(d)
             \/ \E d \in ContainerIds, t \in Tables : Write(d, t)
             \/ UNCHANGED vars
      PROVE  cont' = cont
  BY <1>5 DEF CreateBackup, RestoreBackup, DatabaseRunning, Write, vars, dockerVars
<1> QED  BY <1>2, <1>3, <1>4, <1>5 DEF Next

\* A file is changed by the loop that holds its backup: emptied, removed or cut
\* off, or filled with what the container it dumps holds.
LEMMA FilesMove ==
    ASSUME JobInv, [Next]_vars, NEW g \in Hosts, NEW b \in BackupIds
    PROVE  \/ files'[g][b] = files[g][b]
           \/ /\ HasBackup(g) /\ loop[g].job = b
              /\ \/ files'[g][b] \in {NoFile, EmptyFile}
                 \/ /\ loop[g].pc = "dump"
                    /\ files'[g][b] = [whole |-> TRUE, data |-> data[loop[g].at]]
<1>1. TypeOK
  BY DEF JobInv
<1>2. ASSUME NEW h \in Hosts, NEW f, HasBackup(h),
             files' = [files EXCEPT ![h][loop[h].job] = f]
      PROVE  \/ files'[g][b] = files[g][b]
             \/ h = g /\ loop[g].job = b /\ files'[g][b] = f
  <2>1. files \in [Hosts -> [BackupIds -> Artifact \cup {NoFile}]]
    BY <1>1 DEF TypeOK
  <2> QED  BY <1>2, <2>1
<1>3. ASSUME NEW h \in Hosts, FindDatabase(h) \/ PgDump(h) \/ Verify(h) \/ DiskError(h)
      PROVE  /\ HasBackup(h)
             /\ \/ files' = files
                \/ \E f \in {NoFile, EmptyFile} : files' = [files EXCEPT ![h][loop[h].job] = f]
                \/ /\ loop[h].pc = "dump"
                   /\ files' = [files EXCEPT ![h][loop[h].job] =
                                   [whole |-> TRUE, data |-> data[loop[h].at]]]
  BY <1>3 DEF FindDatabase, PgDump, Verify, DiskError, HasBackup
<1>4. ASSUME NEW h \in Hosts, FindDatabase(h) \/ PgDump(h) \/ Verify(h) \/ DiskError(h)
      PROVE  \/ files'[g][b] = files[g][b]
             \/ /\ HasBackup(g) /\ loop[g].job = b
                /\ \/ files'[g][b] \in {NoFile, EmptyFile}
                   \/ /\ loop[g].pc = "dump"
                      /\ files'[g][b] = [whole |-> TRUE, data |-> data[loop[g].at]]
  <2>1. CASE files' = files
    BY <2>1
  <2>2. ASSUME NEW f \in {NoFile, EmptyFile}, files' = [files EXCEPT ![h][loop[h].job] = f]
        PROVE  \/ files'[g][b] = files[g][b]
               \/ HasBackup(g) /\ loop[g].job = b /\ files'[g][b] \in {NoFile, EmptyFile}
    BY <1>2, <1>3, <1>4, <2>2
  <2>3. CASE /\ loop[h].pc = "dump"
             /\ files' = [files EXCEPT ![h][loop[h].job] =
                             [whole |-> TRUE, data |-> data[loop[h].at]]]
    BY <1>2, <1>3, <1>4, <2>3
  <2> QED  BY <1>3, <1>4, <2>1, <2>2, <2>3
<1>5. ASSUME NEW h \in Hosts,
             \/ PollBackupJob(h) \/ PollRestoreJob(h) \/ FindTarget(h) \/ Psql(h) \/ Crash(h)
             \/ \E s \in Servers : Reinstall(h, s) \/ Reregister(h, s)
      PROVE  files' = files
  <2>1. CASE PollBackupJob(h) \/ PollRestoreJob(h)
    BY <2>1, Zenon DEF PollBackupJob, PollRestoreJob
  <2>2. CASE FindTarget(h) \/ Psql(h)
    BY <2>2, Zenon DEF FindTarget, Psql
  <2>3. CASE Crash(h) \/ \E s \in Servers : Reinstall(h, s) \/ Reregister(h, s)
    BY <2>3 DEF Crash, Reinstall, Stop, Reregister
  <2> QED  BY <1>5, <2>1, <2>2, <2>3
<1>6. ASSUME \/ \E v \in Services, a \in BackupIds : CreateBackup(v, a)
             \/ \E a \in BackupIds, r \in RestoreIds : RestoreBackup(a, r)
             \/ \E h \in Hosts, v \in Services, c \in ContainerIds : StartDatabase(h, v, c)
             \/ \E c \in ContainerIds : DatabaseRunning(c) \/ StopDatabase(c)
             \/ \E c \in ContainerIds, t \in Tables : Write(c, t)
             \/ UNCHANGED vars
      PROVE  files' = files
  BY <1>6 DEF CreateBackup, RestoreBackup, StartDatabase, DatabaseRunning, StopDatabase, Write,
              vars
<1> QED  BY <1>4, <1>5, <1>6 DEF Next, LoopStep

\* A loop keeps its place, drops its job, claims a queued job, moves on with the
\* one it has, or picks a running container of its job's service on its host.
LEMMA LoopsMove ==
    ASSUME JobInv, [Next]_vars, NEW h \in Hosts
    PROVE  \/ loop'[h] = loop[h]
           \/ loop'[h].pc \in {"poll", "pollRestore", "target"}
           \/ /\ loop'[h].pc = "find" /\ loop'[h].job \in BackupIds
              /\ bstatus[loop'[h].job] = "queued"
           \/ /\ loop'[h].pc \in {"dump", "verify"}
              /\ HasBackup(h) /\ loop'[h].job = loop[h].job
              /\ loop'[h].pc = "dump" => loop'[h].at \in Running(h, brow[loop[h].job].svc)
           \/ /\ loop'[h].pc = "psql"
              /\ loop[h].pc = "target" /\ loop'[h].job = loop[h].job
              /\ loop'[h].at \in Running(h, rrow[loop[h].job].svc)
<1>1. loop \in [Hosts -> Loop]
  BY DEF JobInv, TypeOK
<1> DEFINE Moved(g) ==
      /\ loop' = [loop EXCEPT ![g] = loop'[g]]
      /\ \/ loop'[g].pc \in {"poll", "pollRestore", "target"}
         \/ /\ loop'[g].pc = "find" /\ loop'[g].job \in BackupIds
            /\ bstatus[loop'[g].job] = "queued"
         \/ /\ loop'[g].pc \in {"dump", "verify"}
            /\ HasBackup(g) /\ loop'[g].job = loop[g].job
            /\ loop'[g].pc = "dump" => loop'[g].at \in Running(g, brow[loop[g].job].svc)
         \/ /\ loop'[g].pc = "psql"
            /\ loop[g].pc = "target" /\ loop'[g].job = loop[g].job
            /\ loop'[g].at \in Running(g, rrow[loop[g].job].svc)
<1>2. ASSUME NEW g \in Hosts, NEW pc, NEW job, NEW c, Goto(g, pc, job, c)
      PROVE  /\ loop' = [loop EXCEPT ![g] = loop'[g]]
             /\ loop'[g].pc = pc /\ loop'[g].job = job /\ loop'[g].at = c
  BY <1>1, <1>2 DEF Goto
<1>3. ASSUME NEW g \in Hosts, Return(g)
      PROVE  loop' = [loop EXCEPT ![g] = loop'[g]] /\ loop'[g].pc = "poll"
  BY <1>1, <1>3 DEF Return, Idle
<1>4. ASSUME NEW g \in Hosts, PollBackupJob(g) PROVE loop' = loop \/ Moved(g)
  <2>1. CASE Goto(g, "pollRestore", NoId, NoId)
    BY <1>2, <2>1
  <2>2. ASSUME NEW b \in BackupIds, bstatus[b] = "queued", Goto(g, "find", b, NoId)
        PROVE  Moved(g)
    BY <1>2, <2>2
  <2> QED  BY <1>4, <2>1, <2>2 DEF PollBackupJob, Oldest
<1>5. ASSUME NEW g \in Hosts, PollRestoreJob(g) PROVE Moved(g)
  <2>1. ASSUME NEW r \in RestoreIds, Goto(g, "target", r, NoId) PROVE Moved(g)
    BY <1>2, <2>1
  <2>2. CASE Return(g)
    BY <1>3, <2>2
  <2>3. Return(g) \/ \E r \in RestoreIds : Goto(g, "target", r, NoId)
    BY <1>5, Zenon DEF PollRestoreJob
  <2> QED  BY <2>1, <2>2, <2>3
<1>6. ASSUME NEW g \in Hosts, FindDatabase(g) PROVE Moved(g)
  <2>1. ASSUME NEW c \in Running(g, brow[loop[g].job].svc), Goto(g, "dump", loop[g].job, c)
        PROVE  Moved(g)
    BY <1>2, <1>6, <2>1 DEF FindDatabase, HasBackup
  <2>2. CASE Return(g)
    BY <1>3, <2>2
  <2>3. \/ Return(g)
        \/ \E c \in Running(g, brow[loop[g].job].svc) : Goto(g, "dump", loop[g].job, c)
    BY <1>6, Zenon DEF FindDatabase, FailBackup
  <2> QED  BY <2>1, <2>2, <2>3
<1>7. ASSUME NEW g \in Hosts, PgDump(g) \/ Verify(g) PROVE Moved(g)
  <2>0. HasBackup(g)
    BY <1>7 DEF PgDump, Verify, HasBackup
  <2>1. CASE Goto(g, "verify", loop[g].job, NoId)
    BY <1>2, <2>0, <2>1
  <2>2. CASE Return(g)
    BY <1>3, <2>2
  <2>3. Return(g) \/ Goto(g, "verify", loop[g].job, NoId)
    BY <1>7, Zenon DEF PgDump, Verify, FailBackup
  <2> QED  BY <2>1, <2>2, <2>3
<1>8. ASSUME NEW g \in Hosts, FindTarget(g) PROVE Moved(g)
  <2>1. ASSUME NEW c \in Running(g, rrow[loop[g].job].svc), Goto(g, "psql", loop[g].job, c)
        PROVE  Moved(g)
    BY <1>2, <1>8, <2>1 DEF FindTarget
  <2>2. CASE Return(g)
    BY <1>3, <2>2
  <2>3. \/ Return(g)
        \/ \E c \in Running(g, rrow[loop[g].job].svc) : Goto(g, "psql", loop[g].job, c)
    BY <1>8, Zenon DEF FindTarget, FailRestore
  <2> QED  BY <2>1, <2>2, <2>3
<1>9. ASSUME NEW g \in Hosts, Psql(g) \/ Crash(g) \/ \E s \in Servers : Reinstall(g, s)
      PROVE  Moved(g)
  <2>1. Return(g)
    BY <1>9, Zenon DEF Psql, FailRestore, Crash, Reinstall, Stop
  <2> QED  BY <1>3, <2>1
<1>10. ASSUME \/ \E g \in Hosts : DiskError(g) \/ \E s \in Servers : Reregister(g, s)
              \/ \E v \in Services, b \in BackupIds : CreateBackup(v, b)
              \/ \E b \in BackupIds, r \in RestoreIds : RestoreBackup(b, r)
              \/ \E g \in Hosts, v \in Services, c \in ContainerIds : StartDatabase(g, v, c)
              \/ \E c \in ContainerIds : DatabaseRunning(c) \/ StopDatabase(c)
              \/ \E c \in ContainerIds, t \in Tables : Write(c, t)
              \/ UNCHANGED vars
       PROVE  loop' = loop
  BY <1>10 DEF DiskError, Reregister, CreateBackup, RestoreBackup, StartDatabase,
               DatabaseRunning, StopDatabase, Write, vars
<1>11. loop' = loop \/ \E g \in Hosts : Moved(g)
  <2> HIDE DEF Moved
  <2> QED  BY <1>4, <1>5, <1>6, <1>7, <1>8, <1>9, <1>10 DEF Next, LoopStep
<1>12. CASE loop' = loop
  BY <1>12
<1>13. ASSUME NEW g \in Hosts, Moved(g), g # h PROVE loop'[h] = loop[h]
  BY <1>1, <1>13
<1>14. CASE Moved(h)
  BY <1>14
<1> QED
  <2> HIDE DEF Moved
  <2> QED  BY <1>11, <1>12, <1>13, <1>14

\* What a database holds was there, was written by its own application, or comes
\* from the artifact of a restore that runs in it.
LEMMA DataMoves ==
    ASSUME JobInv, [Next]_vars, NEW c \in ContainerIds, NEW x \in data'[c]
    PROVE  \/ x \in data[c]
           \/ cont[c].up /\ x[1] = cont[c].svc
           \/ \E h \in Hosts : /\ loop[h].pc = "psql" /\ loop[h].at = c
                               /\ x \in files[h][rrow[loop[h].job].bak].data
<1>1. data \in [ContainerIds -> Contents]
  BY DEF JobInv, TypeOK
<1>2. ASSUME NEW h \in Hosts, loop[h].pc = "psql", NEW new, loop[h].at \in ContainerIds,
             new \subseteq files[h][rrow[loop[h].job].bak].data,
             data' = [data EXCEPT ![loop[h].at] = @ \cup new]
      PROVE  x \in data[c] \/ (loop[h].at = c /\ x \in files[h][rrow[loop[h].job].bak].data)
  BY <1>1, <1>2
<1>3. ASSUME NEW h \in Hosts, loop[h].pc = "psql", Partly(h, loop[h].at)
      PROVE  x \in data[c] \/ (loop[h].at = c /\ x \in files[h][rrow[loop[h].job].bak].data)
  <2>1. loop[h].at \in ContainerIds
    BY <1>3, PsqlTyped
  <2>2. PICK done \in SUBSET (files[h][rrow[loop[h].job].bak].data \ data[loop[h].at]) :
               data' = [data EXCEPT ![loop[h].at] = @ \cup done]
    BY <1>3 DEF Partly
  <2> QED  BY <1>2, <1>3, <2>1, <2>2
<1>4. ASSUME NEW h \in Hosts, Psql(h)
      PROVE  /\ loop[h].pc = "psql"
             /\ x \in data[c] \/ (loop[h].at = c /\ x \in files[h][rrow[loop[h].job].bak].data)
  <2>1. loop[h].pc = "psql"
    BY <1>4, Zenon DEF Psql
  <2>2. loop[h].at \in ContainerIds
    BY <2>1, PsqlTyped
  <2>3. \/ Partly(h, loop[h].at)
        \/ data' = [data EXCEPT ![loop[h].at] = @ \cup files[h][rrow[loop[h].job].bak].data]
    BY <1>4, Zenon DEF Psql
  <2>4. CASE Partly(h, loop[h].at)
    BY <1>3, <2>1, <2>4
  <2>5. CASE data' = [data EXCEPT ![loop[h].at] =
                          @ \cup files[h][rrow[loop[h].job].bak].data]
    BY <1>2, <2>1, <2>2, <2>5
  <2> QED  BY <2>1, <2>3, <2>4, <2>5
<1>5. ASSUME NEW h \in Hosts, Stop(h)
      PROVE  \/ x \in data[c]
             \/ /\ loop[h].pc = "psql" /\ loop[h].at = c
                /\ x \in files[h][rrow[loop[h].job].bak].data
  <2>1. data' = data \/ (loop[h].pc = "psql" /\ Partly(h, loop[h].at))
    BY <1>5, Zenon DEF Stop
  <2> QED  BY <1>3, <2>1
<1>6. ASSUME NEW d \in ContainerIds, NEW t \in Tables, Write(d, t)
      PROVE  x \in data[c] \/ (cont[c].up /\ x[1] = cont[c].svc)
  BY <1>1, <1>6 DEF Write
<1>7. ASSUME NEW h \in Hosts,
             \/ PollBackupJob(h) \/ FindDatabase(h) \/ PgDump(h) \/ Verify(h)
             \/ PollRestoreJob(h) \/ FindTarget(h)
      PROVE  data' = data
  BY <1>7, Zenon DEF PollBackupJob, FindDatabase, PgDump, Verify, PollRestoreJob, FindTarget
<1>8. ASSUME \/ \E g \in Hosts : DiskError(g) \/ \E s \in Servers : Reregister(g, s)
             \/ \E v \in Services, b \in BackupIds : CreateBackup(v, b)
             \/ \E b \in BackupIds, r \in RestoreIds : RestoreBackup(b, r)
             \/ \E g \in Hosts, v \in Services, d \in ContainerIds : StartDatabase(g, v, d)
             \/ \E d \in ContainerIds : DatabaseRunning(d) \/ StopDatabase(d)
             \/ UNCHANGED vars
      PROVE  data' = data
  BY <1>8 DEF DiskError, Reregister, CreateBackup, RestoreBackup, StartDatabase,
              DatabaseRunning, StopDatabase, vars
<1> QED
  BY <1>4, <1>5, <1>6, <1>7, <1>8 DEF Next, LoopStep, Crash, Reinstall

-----------------------------------------------------------------------------
(* Data stays with its service *)

\* A loop dumps and restores in containers of its job's service on its own host,
\* and a restore is of a backup of its own service.
Matched ==
    /\ \A h \in Hosts :
           /\ loop[h].pc = "dump" => cont[loop[h].at].svc = brow[loop[h].job].svc
           /\ loop[h].pc = "psql" => /\ cont[loop[h].at].svc = rrow[loop[h].job].svc
                                     /\ cont[loop[h].at].host = h
    /\ \A r \in RestoreIds : rstatus[r] # "none" => rrow[r].svc = brow[rrow[r].bak].svc

\* Databases and artifacts hold their own service's data; there is none in a
\* container that was not started or for a backup that was not inserted.
DataOwned ==
    /\ \A c \in ContainerIds, x \in Services \X Tables :
           x \in data[c] => cont[c] \in Container /\ cont[c].svc = x[1]
    /\ \A h \in Hosts, b \in BackupIds : files[h][b] # NoFile =>
           /\ bstatus[b] # "none"
           /\ \A x \in Services \X Tables : x \in files[h][b].data => brow[b].svc = x[1]

\* What holds of the loops that dump or restore.
LEMMA LoopsTyped ==
    ASSUME JobInv, NEW h \in Hosts
    PROVE  /\ HasBackup(h) => /\ loop[h].job \in BackupIds
                              /\ bstatus[loop[h].job] \in BackupWork
                              /\ bstatus[loop[h].job] # "none"
           /\ HasRestore(h) => /\ loop[h].job \in RestoreIds
                               /\ rstatus[loop[h].job] \in RestoreWork
                               /\ rstatus[loop[h].job] # "none"
                               /\ rrow[loop[h].job].bak \in BackupIds
                               /\ bstatus[rrow[loop[h].job].bak] = "succeeded"
           /\ loop[h].pc \in {"dump", "psql"} => /\ loop[h].at \in ContainerIds
                                                 /\ cont[loop[h].at] \in Container
<1>1. HasBackup(h) => /\ loop[h].job \in BackupIds
                      /\ bstatus[loop[h].job] \in BackupWork
                      /\ bstatus[loop[h].job] # "none"
  BY DEF JobInv, TypeOK, Held, BackupWork
<1>2. HasRestore(h) => /\ loop[h].job \in RestoreIds
                       /\ rstatus[loop[h].job] \in RestoreWork
                       /\ rstatus[loop[h].job] # "none"
  BY DEF JobInv, TypeOK, Held, RestoreWork
<1>3. HasRestore(h) => rrow[loop[h].job].bak \in BackupIds
  BY <1>2 DEF JobInv, TypeOK, RestoreRow
<1>4. HasRestore(h) => bstatus[rrow[loop[h].job].bak] = "succeeded"
  BY <1>2 DEF JobInv, Sources
<1>5. loop[h].pc \in {"dump", "psql"} => /\ loop[h].at \in ContainerIds
                                         /\ cont[loop[h].at] \in Container
  BY DEF JobInv, TypeOK, Loop
<1> QED  BY <1>1, <1>2, <1>3, <1>4, <1>5

\* Containers are looked up by service and host, and neither they nor the rows
\* change their service.
LEMMA MatchedStep ==
    ASSUME JobInv, Matched, [Next]_vars
    PROVE  Matched'
<1>1. ASSUME NEW h \in Hosts, NEW v, NEW c \in Running(h, v)
      PROVE  /\ c \in ContainerIds /\ cont[c] \in Container
             /\ cont'[c].svc = v /\ cont'[c].host = h
  <2>1. c \in ContainerIds /\ cont[c].up /\ cont[c].svc = v /\ cont[c].host = h
    BY <1>1 DEF Running
  <2>2. cont[c] \in Container
    BY <2>1, UpIsContainer DEF JobInv
  <2> QED  BY <2>1, <2>2, ContainersKept
<1>2. ASSUME NEW h \in Hosts, loop'[h].pc = "dump"
      PROVE  cont'[loop'[h].at].svc = brow'[loop'[h].job].svc
  <2>1. CASE loop'[h] = loop[h]
    <3>1. HasBackup(h) /\ loop[h].pc = "dump"
      BY <1>2, <2>1 DEF HasBackup
    <3>2. brow'[loop[h].job] = brow[loop[h].job]
      BY <3>1, LoopsTyped, RowsKept
    <3>3. cont'[loop[h].at].svc = cont[loop[h].at].svc
      BY <3>1, LoopsTyped, ContainersKept
    <3> QED  BY <2>1, <3>1, <3>2, <3>3 DEF Matched
  <2>2. CASE /\ HasBackup(h) /\ loop'[h].job = loop[h].job
             /\ loop'[h].at \in Running(h, brow[loop[h].job].svc)
    BY <1>1, <2>2, LoopsTyped, RowsKept
  <2> QED  BY <1>2, <2>1, <2>2, LoopsMove
<1>3. ASSUME NEW h \in Hosts, loop'[h].pc = "psql"
      PROVE  cont'[loop'[h].at].svc = rrow'[loop'[h].job].svc /\ cont'[loop'[h].at].host = h
  <2>1. CASE loop'[h] = loop[h]
    <3>1. HasRestore(h) /\ loop[h].pc = "psql"
      BY <1>3, <2>1 DEF HasRestore
    <3>2. rrow'[loop[h].job] = rrow[loop[h].job]
      BY <3>1, LoopsTyped, RowsKept
    <3>3. /\ cont'[loop[h].at].svc = cont[loop[h].at].svc
          /\ cont'[loop[h].at].host = cont[loop[h].at].host
      BY <3>1, LoopsTyped, ContainersKept
    <3> QED  BY <2>1, <3>1, <3>2, <3>3 DEF Matched
  <2>2. CASE /\ loop[h].pc = "target" /\ loop'[h].job = loop[h].job
             /\ loop'[h].at \in Running(h, rrow[loop[h].job].svc)
    <3>1. HasRestore(h)
      BY <2>2 DEF HasRestore
    <3> QED  BY <1>1, <2>2, <3>1, LoopsTyped, RowsKept
  <2> QED  BY <1>3, <2>1, <2>2, LoopsMove
<1>4. ASSUME NEW r \in RestoreIds, rstatus'[r] # "none"
      PROVE  rrow'[r].svc = brow'[rrow'[r].bak].svc
  <2>1. CASE rstatus[r] # "none"
    <3>1. rrow[r].bak \in BackupIds /\ bstatus[rrow[r].bak] # "none"
      BY <2>1 DEF JobInv, TypeOK, RestoreRow, Sources
    <3>2. rrow'[r] = rrow[r] /\ brow'[rrow[r].bak] = brow[rrow[r].bak]
      BY <2>1, <3>1, RowsKept
    <3> QED  BY <2>1, <3>2 DEF Matched
  <2>2. CASE rstatus[r] = "none"
    <3>1. rstatus \in [RestoreIds -> RestoreStatus \cup {"none"}]
      BY DEF JobInv, TypeOK
    <3>2. PICK b \in BackupIds, q \in RestoreIds : RestoreBackup(b, q)
      BY <1>4, <2>2, <3>1, RestoreMoves DEF Oldest, RestoreWork
    <3>3. r = q /\ rrow'[r] = [bak |-> b, svc |-> brow[b].svc, srv |-> brow[b].srv]
      BY <1>4, <2>2, <3>1, <3>2 DEF RestoreBackup, InsertRestore, JobInv, TypeOK
    <3>4. brow' = brow
      BY <3>2 DEF RestoreBackup, backupVars
    <3> QED  BY <3>3, <3>4
  <2> QED  BY <2>1, <2>2
<1> QED  BY <1>2, <1>3, <1>4 DEF Matched

\* So what is dumped or restored is the job's own service's.
LEMMA DataOwnedStep ==
    ASSUME JobInv, Matched, DataOwned, [Next]_vars
    PROVE  DataOwned'
<1>1. ASSUME NEW c \in ContainerIds, NEW x \in Services \X Tables, x \in data'[c]
      PROVE  cont'[c] \in Container /\ cont'[c].svc = x[1]
  <2>1. cont[c] \in Container /\ cont[c].svc = x[1]
    <3>1. CASE x \in data[c]
      BY <3>1 DEF DataOwned
    <3>2. CASE cont[c].up /\ x[1] = cont[c].svc
      BY <3>2, UpIsContainer DEF JobInv
    <3>3. ASSUME NEW h \in Hosts, loop[h].pc = "psql", loop[h].at = c,
                 x \in files[h][rrow[loop[h].job].bak].data
          PROVE  cont[c] \in Container /\ cont[c].svc = x[1]
      <4>1. HasRestore(h)
        BY <3>3 DEF HasRestore
      <4>2. files[h][rrow[loop[h].job].bak] # NoFile
        BY <3>3 DEF JobInv, Open
      <4>3. brow[rrow[loop[h].job].bak].svc = x[1]
        BY <3>3, <4>1, <4>2, LoopsTyped DEF DataOwned
      <4>4. rrow[loop[h].job].svc = brow[rrow[loop[h].job].bak].svc
        BY <4>1, LoopsTyped DEF Matched
      <4> QED  BY <3>3, <4>3, <4>4, LoopsTyped DEF Matched
    <3> QED  BY <1>1, <3>1, <3>2, <3>3, DataMoves
  <2> QED  BY <2>1, ContainersKept
<1>2. ASSUME NEW h \in Hosts, NEW b \in BackupIds, files'[h][b] # NoFile
      PROVE  /\ bstatus'[b] # "none"
             /\ \A x \in Services \X Tables : x \in files'[h][b].data => brow'[b].svc = x[1]
  <2>1. /\ bstatus[b] # "none"
        /\ \A x \in Services \X Tables : x \in files'[h][b].data => brow[b].svc = x[1]
    <3>1. CASE files'[h][b] = files[h][b]
      BY <1>2, <3>1 DEF DataOwned
    <3>2. CASE HasBackup(h) /\ loop[h].job = b /\ files'[h][b] \in {NoFile, EmptyFile}
      BY <1>2, <3>2, LoopsTyped DEF EmptyFile
    <3>3. CASE /\ HasBackup(h) /\ loop[h].job = b /\ loop[h].pc = "dump"
               /\ files'[h][b] = [whole |-> TRUE, data |-> data[loop[h].at]]
      <4>1. bstatus[b] # "none" /\ loop[h].at \in ContainerIds
        BY <3>3, LoopsTyped
      <4>2. files'[h][b].data = data[loop[h].at]
        BY <3>3
      <4>3. brow[b].svc = cont[loop[h].at].svc
        BY <3>3 DEF Matched
      <4> QED  BY <4>1, <4>2, <4>3 DEF DataOwned
    <3> QED  BY <3>1, <3>2, <3>3, FilesMove
  <2> QED  BY <2>1, RowsKept
<1> QED  BY <1>1, <1>2 DEF DataOwned

\* No dump, restore, crash in mid-restore or re-registration brings one service's
\* data into another service's database or artifact (findRunningByService, the
\* artifact path of executeBackup, InsertRestore).
THEOREM DataStaysOwn == Spec => []OwnDataOnly
<1>1. Init => Matched /\ DataOwned
  BY DEF Init, Matched, DataOwned, Idle
<1>2. JobInv /\ Matched /\ [Next]_vars => Matched'
  BY MatchedStep
<1>3. JobInv /\ Matched /\ DataOwned /\ [Next]_vars => DataOwned'
  BY DataOwnedStep
<1>4. DataOwned => OwnDataOnly
  BY DEF DataOwned, OwnDataOnly
<1> QED  BY <1>1, <1>2, <1>3, <1>4, JobInit, JobStep, PTL DEF Spec

-----------------------------------------------------------------------------
(* A successful restore wrote the verified artifact *)

\* A backup's only file is on the host whose loop claimed it: no file before the
\* claim, none on another host, and none that is not whole once it has succeeded.
OneCopy ==
    /\ \A b \in BackupIds, g \in Hosts :
           files[g][b] # NoFile => bstatus[b] \notin {"none", "queued"}
    /\ \A g, h \in Hosts : HasBackup(h) /\ g # h => files[g][loop[h].job] = NoFile
    /\ \A b \in BackupIds, g \in Hosts :
           bstatus[b] = "succeeded" => files[g][b] = NoFile \/ files[g][b].whole

\* RestoreTruthful, with what keeps it true: the container exists.
Landed ==
    \A r \in RestoreIds : rstatus[r] = "succeeded" =>
        /\ landed[r].at \in ContainerIds
        /\ cont[landed[r].at] \in Container
        /\ cont[landed[r].at].svc = rrow[r].svc
        /\ files[cont[landed[r].at].host][rrow[r].bak] =
               [whole |-> TRUE, data |-> landed[r].data]

\* Only the verification ends a backup as succeeded, in the loop that holds it.
LEMMA VerifiedByHolder ==
    ASSUME JobInv, [Next]_vars, NEW b \in BackupIds,
           bstatus[b] # "succeeded", bstatus'[b] = "succeeded"
    PROVE  \E h \in Hosts : /\ HasBackup(h) /\ loop[h].job = b
                            /\ files[h][b].whole /\ files' = files
<1>1. TypeOK
  BY DEF JobInv
<1>2. ASSUME NEW h \in Hosts, NEW st \in BackupStatus, NEW path \in BOOLEAN, HasBackup(h),
             ReportBackupJob(h, loop[h].job, st, path)
      PROVE  st = "succeeded" /\ b = loop[h].job
  BY <1>1, <1>2, LoopsTyped, BackupReported
<1>3. {"dumping", "verifying", "succeeded", "failed"} \subseteq BackupStatus
  BY DEF BackupStatus
<1>4. ASSUME NEW h \in Hosts, FindDatabase(h) PROVE FALSE
  <2>1. HasBackup(h)
    BY <1>4 DEF FindDatabase, HasBackup
  <2>2. PICK st \in {"dumping", "failed"} : ReportBackupJob(h, loop[h].job, st, FALSE)
    BY <1>4, Zenon DEF FindDatabase, FailBackup
  <2> QED  BY <1>2, <1>3, <2>1, <2>2
<1>5. ASSUME NEW h \in Hosts, PgDump(h) PROVE FALSE
  <2>1. HasBackup(h)
    BY <1>5 DEF PgDump, HasBackup
  <2>2. \/ ReportBackupJob(h, loop[h].job, "verifying", TRUE)
        \/ ReportBackupJob(h, loop[h].job, "failed", FALSE)
    BY <1>5, Zenon DEF PgDump, FailBackup
  <2> QED  BY <1>2, <1>3, <2>1, <2>2
<1>6. ASSUME NEW h \in Hosts, Verify(h)
      PROVE  HasBackup(h) /\ loop[h].job = b /\ files[h][b].whole /\ files' = files
  <2>1. HasBackup(h) /\ files' = files
    BY <1>6 DEF Verify, HasBackup
  <2>2. \/ ReportBackupJob(h, loop[h].job, "failed", FALSE)
        \/ /\ files[h][loop[h].job].whole
           /\ ReportBackupJob(h, loop[h].job, "succeeded", TRUE)
    BY <1>6, Zenon DEF Verify, FailBackup
  <2> QED  BY <1>2, <1>3, <2>1, <2>2
<1>7. ASSUME NEW h \in Hosts, PollBackupJob(h) PROVE FALSE
  BY <1>1, <1>7 DEF PollBackupJob, TypeOK
<1>8. ASSUME \E v \in Services, a \in BackupIds : CreateBackup(v, a) PROVE FALSE
  BY <1>1, <1>8 DEF CreateBackup, InsertBackup, TypeOK
<1>9. ASSUME NEW h \in Hosts, PollRestoreJob(h) \/ FindTarget(h) \/ Psql(h)
      PROVE  bstatus' = bstatus
  <2>1. UNCHANGED backupVars
    BY <1>9, Zenon DEF PollRestoreJob, FindTarget, Psql
  <2> QED  BY <2>1 DEF backupVars
<1>10. ASSUME NEW h \in Hosts,
              Crash(h) \/ DiskError(h) \/ \E s \in Servers : Reinstall(h, s) \/ Reregister(h, s)
       PROVE  bstatus' = bstatus
  BY <1>10 DEF Crash, DiskError, Reinstall, Stop, Reregister, backupVars
<1>11. ASSUME \/ \E a \in BackupIds, r \in RestoreIds : RestoreBackup(a, r)
              \/ \E h \in Hosts, v \in Services, c \in ContainerIds : StartDatabase(h, v, c)
              \/ \E c \in ContainerIds : DatabaseRunning(c) \/ StopDatabase(c)
              \/ \E c \in ContainerIds, t \in Tables : Write(c, t)
              \/ UNCHANGED vars
       PROVE  bstatus' = bstatus
  BY <1>11 DEF RestoreBackup, StartDatabase, DatabaseRunning, StopDatabase, Write, vars,
               backupVars
<1> QED
  BY <1>4, <1>5, <1>6, <1>7, <1>8, <1>9, <1>10, <1>11 DEF Next, LoopStep

\* Only a completed psql ends a restore as succeeded, and it leaves the record of
\* what it wrote and where; that record is not touched again.
LEMMA LandedByPsql ==
    ASSUME JobInv, [Next]_vars, NEW r \in RestoreIds
    PROVE  /\ rstatus[r] = "succeeded" => landed'[r] = landed[r]
           /\ rstatus[r] # "succeeded" /\ rstatus'[r] = "succeeded" =>
                  \E h \in Hosts :
                      /\ loop[h].pc = "psql" /\ loop[h].job = r
                      /\ landed'[r] = [at |-> loop[h].at, data |-> files[h][rrow[r].bak].data]
<1>1. TypeOK
  BY DEF JobInv
<1>2. ASSUME NEW h \in Hosts, NEW st \in RestoreStatus, HasRestore(h),
             ReportRestoreJob(h, loop[h].job, st)
      PROVE  rstatus'[r] = rstatus[r] \/ (rstatus'[r] = st /\ r = loop[h].job)
  BY <1>1, <1>2, LoopsTyped, RestoreReported
<1>3. {"restoring", "succeeded", "failed"} \subseteq RestoreStatus
  BY DEF RestoreStatus
<1>4. ASSUME NEW h \in Hosts, Psql(h), loop[h].pc = "psql", HasRestore(h)
      PROVE  /\ rstatus[r] = "succeeded" => landed'[r] = landed[r]
             /\ rstatus[r] # "succeeded" /\ rstatus'[r] = "succeeded" =>
                    /\ loop[h].job = r
                    /\ landed'[r] = [at |-> loop[h].at, data |-> files[h][rrow[r].bak].data]
  <2>1. loop[h].job \in RestoreIds /\ rstatus[loop[h].job] # "succeeded"
    BY <1>4, LoopsTyped DEF RestoreWork
  <2>2. CASE landed' = landed /\ ReportRestoreJob(h, loop[h].job, "failed")
    BY <1>2, <1>3, <1>4, <2>2
  <2>3. CASE /\ ReportRestoreJob(h, loop[h].job, "succeeded")
             /\ landed' = [landed EXCEPT ![loop[h].job] =
                    [at |-> loop[h].at, data |-> files[h][rrow[loop[h].job].bak].data]]
    <3>1. landed \in [RestoreIds -> [at : ContainerIds \cup {NoId}, data : Contents]]
      BY <1>1 DEF TypeOK
    <3>2. /\ r # loop[h].job => landed'[r] = landed[r]
          /\ r = loop[h].job =>
                 landed'[r] = [at |-> loop[h].at, data |-> files[h][rrow[r].bak].data]
      BY <2>1, <2>3, <3>1
    <3>3. rstatus'[r] = rstatus[r] \/ r = loop[h].job
      BY <1>2, <1>3, <1>4, <2>3
    <3> QED  BY <2>1, <3>2, <3>3
  <2> QED  BY <1>4, <2>2, <2>3, Zenon DEF Psql, FailRestore
<1>5. ASSUME NEW h \in Hosts, FindTarget(h)
      PROVE  landed' = landed /\ (rstatus'[r] = "succeeded" => rstatus[r] = "succeeded")
  <2>1. HasRestore(h) /\ landed' = landed
    BY <1>5 DEF FindTarget, HasRestore
  <2>2. \/ ReportRestoreJob(h, loop[h].job, "restoring")
        \/ ReportRestoreJob(h, loop[h].job, "failed")
    BY <1>5, Zenon DEF FindTarget, FailRestore
  <2> QED  BY <1>2, <1>3, <2>1, <2>2
<1>6. ASSUME NEW h \in Hosts, PollRestoreJob(h)
      PROVE  landed' = landed /\ (rstatus'[r] = "succeeded" => rstatus[r] = "succeeded")
  BY <1>1, <1>6 DEF PollRestoreJob, TypeOK
<1>7. ASSUME \E b \in BackupIds, q \in RestoreIds : RestoreBackup(b, q)
      PROVE  landed' = landed /\ (rstatus'[r] = "succeeded" => rstatus[r] = "succeeded")
  BY <1>1, <1>7 DEF RestoreBackup, InsertRestore, TypeOK
<1>8. ASSUME NEW h \in Hosts, PollBackupJob(h) \/ FindDatabase(h) \/ PgDump(h) \/ Verify(h)
      PROVE  landed' = landed /\ rstatus' = rstatus
  <2>1. landed' = landed /\ UNCHANGED restoreVars
    BY <1>8, Zenon DEF PollBackupJob, FindDatabase, PgDump, Verify
  <2> QED  BY <2>1 DEF restoreVars
<1>9. ASSUME NEW h \in Hosts,
             Crash(h) \/ DiskError(h) \/ \E s \in Servers : Reinstall(h, s) \/ Reregister(h, s)
      PROVE  landed' = landed /\ rstatus' = rstatus
  BY <1>9 DEF Crash, DiskError, Reinstall, Stop, Reregister, restoreVars
<1>10. ASSUME \/ \E v \in Services, a \in BackupIds : CreateBackup(v, a)
              \/ \E h \in Hosts, v \in Services, c \in ContainerIds : StartDatabase(h, v, c)
              \/ \E c \in ContainerIds : DatabaseRunning(c) \/ StopDatabase(c)
              \/ \E c \in ContainerIds, t \in Tables : Write(c, t)
              \/ UNCHANGED vars
       PROVE  landed' = landed /\ rstatus' = rstatus
  BY <1>10 DEF CreateBackup, StartDatabase, DatabaseRunning, StopDatabase, Write, vars,
               restoreVars
<1>11. ASSUME NEW h \in Hosts, Psql(h) PROVE loop[h].pc = "psql" /\ HasRestore(h)
  <2>1. loop[h].pc = "psql"
    BY <1>11, Zenon DEF Psql
  <2> QED  BY <2>1 DEF HasRestore
<1> QED
  BY <1>4, <1>5, <1>6, <1>7, <1>8, <1>9, <1>10, <1>11 DEF Next, LoopStep

\* A row that was claimed is not queued again.
LEMMA ClaimedOnce ==
    ASSUME JobInv, [Next]_vars, NEW b \in BackupIds, bstatus[b] \notin {"none", "queued"}
    PROVE  bstatus'[b] \notin {"none", "queued"}
<1>1. bstatus \in [BackupIds -> BackupStatus \cup {"none"}]
  BY DEF JobInv, TypeOK
<1>2. ASSUME NEW v \in Services, NEW a \in BackupIds, CreateBackup(v, a)
      PROVE  bstatus'[b] = bstatus[b]
  BY <1>1, <1>2 DEF CreateBackup, InsertBackup, NextBackup
<1>3. ASSUME NEW a \in BackupIds, NEW st \in BackupWork \cup Terminal,
             bstatus' = [bstatus EXCEPT ![a] = st]
      PROVE  bstatus'[b] \notin {"none", "queued"}
  BY <1>1, <1>3 DEF BackupWork, Terminal
<1>4. "assigned" \in BackupWork
  BY DEF BackupWork
<1> QED  BY <1>2, <1>3, <1>4, BackupMoves

\* A backup is claimed once and only its holder touches its file.
LEMMA OneCopyStep ==
    ASSUME JobInv, OneCopy, [Next]_vars
    PROVE  OneCopy'
<1>1. ASSUME NEW b \in BackupIds, NEW g \in Hosts, files'[g][b] # NoFile
      PROVE  bstatus'[b] \notin {"none", "queued"}
  <2>1. bstatus[b] \notin {"none", "queued"}
    <3>1. CASE files'[g][b] = files[g][b]
      BY <1>1, <3>1 DEF OneCopy
    <3>2. CASE HasBackup(g) /\ loop[g].job = b
      BY <3>2, LoopsTyped DEF BackupWork
    <3> QED  BY <3>1, <3>2, FilesMove
  <2> QED  BY <2>1, ClaimedOnce
<1>2. ASSUME NEW g \in Hosts, NEW h \in Hosts, HasBackup(h)', g # h
      PROVE  files'[g][loop'[h].job] = NoFile
  <2>1. CASE HasBackup(h) /\ loop'[h].job = loop[h].job
    <3>1. loop[h].job \in BackupIds
      BY <2>1, LoopsTyped
    <3>2. ~(HasBackup(g) /\ loop[g].job = loop[h].job)
      BY <1>2, <2>1 DEF JobInv, Exclusive
    <3>3. files[g][loop[h].job] = NoFile
      BY <1>2, <2>1 DEF OneCopy
    <3>4. files'[g][loop[h].job] = files[g][loop[h].job]
      BY <3>1, <3>2, FilesMove
    <3> QED  BY <2>1, <3>3, <3>4
  <2>2. CASE loop'[h].job \in BackupIds /\ bstatus[loop'[h].job] = "queued"
    <3>1. ~(HasBackup(g) /\ loop[g].job = loop'[h].job)
      BY <2>2, LoopsTyped DEF BackupWork
    <3>2. files[g][loop'[h].job] = NoFile
      BY <2>2 DEF OneCopy
    <3> QED  BY <2>2, <3>1, <3>2, FilesMove
  <2> QED  BY <1>2, <2>1, <2>2, LoopsMove DEF HasBackup
<1>3. ASSUME NEW b \in BackupIds, NEW g \in Hosts, bstatus'[b] = "succeeded"
      PROVE  files'[g][b] = NoFile \/ files'[g][b].whole
  <2>1. CASE bstatus[b] = "succeeded"
    BY <2>1, ArtifactsOwned DEF OneCopy
  <2>2. CASE bstatus[b] # "succeeded"
    <3>1. PICK h \in Hosts : /\ HasBackup(h) /\ loop[h].job = b
                             /\ files[h][b].whole /\ files' = files
      BY <1>3, <2>2, VerifiedByHolder
    <3> QED  BY <3>1 DEF OneCopy
  <2> QED  BY <2>1, <2>2
<1> QED  BY <1>1, <1>2, <1>3 DEF OneCopy

\* psql reads the one file of a succeeded backup, which is whole.
LEMMA LandedStep ==
    ASSUME JobInv, Matched, OneCopy, Landed, [Next]_vars
    PROVE  Landed'
<1> SUFFICES ASSUME NEW r \in RestoreIds, rstatus'[r] = "succeeded"
             PROVE  /\ landed'[r].at \in ContainerIds
                    /\ cont'[landed'[r].at] \in Container
                    /\ cont'[landed'[r].at].svc = rrow'[r].svc
                    /\ files'[cont'[landed'[r].at].host][rrow'[r].bak] =
                           [whole |-> TRUE, data |-> landed'[r].data]
  BY DEF Landed
<1>1. /\ rstatus[r] # "none" => /\ rrow[r].bak \in BackupIds /\ rrow'[r] = rrow[r]
                                /\ bstatus[rrow[r].bak] = "succeeded"
                                /\ \A g \in Hosts : files'[g][rrow[r].bak] = files[g][rrow[r].bak]
  <2>1. rstatus[r] # "none" => rrow[r].bak \in BackupIds /\ bstatus[rrow[r].bak] = "succeeded"
    BY DEF JobInv, TypeOK, RestoreRow, Sources
  <2> QED  BY <2>1, RowsKept, ArtifactsOwned
<1>2. ASSUME NEW c \in ContainerIds, cont[c] \in Container
      PROVE  /\ cont'[c] \in Container /\ cont[c].host \in Hosts
             /\ cont'[c].svc = cont[c].svc /\ cont'[c].host = cont[c].host
  BY <1>2, ContainersKept DEF Container
<1>3. CASE rstatus[r] = "succeeded"
  <2>1. landed'[r] = landed[r]
    BY <1>3, LandedByPsql
  <2>2. /\ landed[r].at \in ContainerIds /\ cont[landed[r].at] \in Container
        /\ cont[landed[r].at].svc = rrow[r].svc
        /\ files[cont[landed[r].at].host][rrow[r].bak] =
               [whole |-> TRUE, data |-> landed[r].data]
    BY <1>3 DEF Landed
  <2> QED  BY <1>1, <1>2, <1>3, <2>1, <2>2
<1>4. CASE rstatus[r] # "succeeded"
  <2>1. PICK h \in Hosts :
            /\ loop[h].pc = "psql" /\ loop[h].job = r
            /\ landed'[r] = [at |-> loop[h].at, data |-> files[h][rrow[r].bak].data]
    BY <1>4, LandedByPsql
  <2>2. /\ rstatus[r] # "none"
        /\ loop[h].at \in ContainerIds /\ cont[loop[h].at] \in Container
    BY <2>1, LoopsTyped DEF HasRestore
  <2>3. cont[loop[h].at].svc = rrow[r].svc /\ cont[loop[h].at].host = h
    BY <2>1 DEF Matched
  <2>4. files[h][rrow[r].bak] \in Artifact
    BY <2>1, PsqlTyped
  <2>5. files[h][rrow[r].bak] # NoFile
    BY <2>1 DEF JobInv, Open
  <2>6. files[h][rrow[r].bak].whole
    BY <1>1, <2>2, <2>5 DEF OneCopy
  <2>7. files[h][rrow[r].bak] = [whole |-> TRUE, data |-> files[h][rrow[r].bak].data]
    BY <2>4, <2>6 DEF Artifact
  <2>8. landed'[r].at = loop[h].at /\ landed'[r].data = files[h][rrow[r].bak].data
    BY <2>1
  <2> QED  BY <1>1, <1>2, <2>2, <2>3, <2>7, <2>8
<1> QED  BY <1>3, <1>4

\* A restore reported as succeeded wrote the whole verified artifact into a
\* container of the backup's service, whatever moved or crashed in between
\* (executeRestore opens the file without looking at it: that it is whole follows
\* from one claim per backup and from RestoreBackup taking succeeded backups only).
THEOREM RestoresTruthful == Spec => []RestoreTruthful
<1>1. Init => Matched /\ OneCopy /\ Landed
  BY DEF Init, Matched, OneCopy, Landed, Idle, HasBackup
<1>2. JobInv /\ Matched /\ [Next]_vars => Matched'
  BY MatchedStep
<1>3. JobInv /\ OneCopy /\ [Next]_vars => OneCopy'
  BY OneCopyStep
<1>4. JobInv /\ Matched /\ OneCopy /\ Landed /\ [Next]_vars => Landed'
  BY LandedStep
<1>5. Landed => RestoreTruthful
  BY BackupsAssumption DEF Landed, RestoreTruthful
<1> QED  BY <1>1, <1>2, <1>3, <1>4, <1>5, JobInit, JobStep, PTL DEF Spec
=============================================================================
