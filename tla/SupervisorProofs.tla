-------------------------- MODULE SupervisorProofs --------------------------
(***************************************************************************)
(* Proofs about Supervisor: its jobs, its sessions and its files, for any  *)
(* number of them, of process ids, restarts and file operations.           *)
(***************************************************************************)
EXTENDS Supervisor, TLAPS

(* Jobs                                                                    *)

\* Process p is job j's, if j has one.
OnlyProcess(j, p) == \A q \in Pids : proc[q] = j => q = p

\* A job has one process at most; before its creation it has nothing.
OwnersInv ==
  /\ \A p \in Pids : proc[p] \in Jobs => OnlyProcess(proc[p], p)
  /\ \A j \in Jobs :
       (\A i \in 1..Len(created) : created[i] # j)
         => jobs[j] = NoRecord /\ watched[j] = NoRecord /\ ~OwnAlive(j)

\* The start in progress has a pending record and no handlers yet, and only
\* the child it holds.
BusyInv ==
  busy # NotBusy =>
    /\ jobs[busy.job].status = "pending" /\ watched[busy.job] = NoRecord
    /\ busy.step = "spawn" => ~OwnAlive(busy.job)
    /\ busy.step = "save" => OnlyProcess(busy.job, busy.pid)

\* Handlers, and records that claim a live process, know which one it is.
\* A pending record, or one cancelled while pending, may not.
KnownInv ==
  \A j \in Jobs :
    /\ watched[j] # NoRecord => OnlyProcess(j, watched[j].pid)
    /\ jobs[j].status \in {"running", "detached", "adopted"}
         => OnlyProcess(j, jobs[j].pid)

JobsInv == JobsTypeOK /\ OwnersInv /\ BusyInv /\ KnownInv /\ FinishedIsDead

\* There is no job at the start.
LEMMA JobsStart == Init => JobsInv
BY BoundsAssumption, OwnersAssumption
DEF Init, JobsInit, JobsInv, JobsTypeOK, OwnersInv, BusyInv, KnownInv,
    FinishedIsDead, OnlyProcess, OwnAlive, NoRecord, NotBusy

LEMMA JobsKept == JobsInv /\ UNCHANGED jobVars => JobsInv'
BY DEF jobVars, JobsInv, JobsTypeOK, OwnersInv, BusyInv, KnownInv,
       FinishedIsDead, OnlyProcess, OwnAlive

\* Job j's process in a later state is one it has now.
NoNewProcess == \A p \in Pids : proc'[p] \in Jobs => proc'[p] = proc[p]

\* A step that starts no process and keeps every record and handler.
LEMMA JobsProcesses ==
  ASSUME JobsInv, JobsTypeOK', NoNewProcess,
         UNCHANGED <<jobs, watched, created>>, busy' = busy \/ busy' = NotBusy
  PROVE  JobsInv'
<1>1. \A j \in Jobs : (OwnAlive(j))' => OwnAlive(j)
  BY DEF NoNewProcess, OwnAlive, JobsInv, JobsTypeOK
<1>2. OwnersInv'
  BY <1>1 DEF NoNewProcess, JobsInv, OwnersInv, OnlyProcess
<1>3. KnownInv' /\ FinishedIsDead'
  BY <1>1 DEF NoNewProcess, JobsInv, KnownInv, OnlyProcess, FinishedIsDead
<1>4. BusyInv'
  <2>1. SUFFICES ASSUME busy' = busy, busy # NotBusy PROVE BusyInv'
    BY DEF BusyInv
  <2>2. busy.job \in Jobs
    BY <2>1 DEF JobsInv, JobsTypeOK
  <2> QED
    BY <1>1, <2>1, <2>2 DEF NoNewProcess, JobsInv, BusyInv, OnlyProcess
<1> QED
  BY <1>2, <1>3, <1>4 DEF JobsInv

\* What may be written to the record of job j, in progress or not.
Writable(j, r) ==
  /\ r \in Record \cup {NoRecord}
  /\ r.status \in {"running", "detached", "adopted"} => OnlyProcess(j, r.pid)
  /\ r.status \in {"completed", "failed", "lost"} => ~OwnAlive(j)

\* A step that writes records of known jobs, outside a start, and starts no
\* process.
LEMMA JobsWritten ==
  ASSUME JobsInv, JobsTypeOK', NoNewProcess, busy = NotBusy, busy' = NotBusy,
         created' = created,
         \A j \in Jobs : watched'[j] = watched[j] \/ watched'[j] = NoRecord,
         \A j \in Jobs : jobs'[j] = jobs[j]
                         \/ /\ Writable(j, jobs'[j])
                            /\ jobs[j] # NoRecord \/ watched[j] # NoRecord
  PROVE  JobsInv'
<1>1. \A j \in Jobs : (OwnAlive(j))' => OwnAlive(j)
  BY DEF NoNewProcess, OwnAlive, JobsInv, JobsTypeOK
<1>2. OwnersInv'
  BY <1>1 DEF NoNewProcess, JobsInv, OwnersInv, OnlyProcess
<1>3. KnownInv'
  BY DEF NoNewProcess, JobsInv, KnownInv, OnlyProcess, Writable
<1>4. FinishedIsDead'
  BY <1>1 DEF JobsInv, FinishedIsDead, Writable
<1>5. BusyInv'
  BY DEF BusyInv
<1> QED
  BY <1>2, <1>3, <1>4, <1>5 DEF JobsInv

LEMMA JobsCreate ==
  ASSUME JobsInv, NEW j \in Jobs, NEW detached \in BOOLEAN,
         createJob(j, detached)
  PROVE  JobsInv'
<1> DEFINE r == [status |-> "pending", detached |-> detached, pid |-> NoPid]
<1>1. /\ up /\ jobs' = [jobs EXCEPT ![j] = r] /\ created' = Append(created, j)
      /\ busy' = [step |-> "spawn", job |-> j]
      /\ UNCHANGED <<watched, proc, up, restarts, unsaved>>
      /\ \A i \in 1..Len(created) : created[i] # j
  BY DEF createJob, Idle
<1>2. r \in Record /\ r.status = "pending"
  BY DEF Record, JobStatus
<1> HIDE DEF r
<1>3. /\ JobsTypeOK /\ jobs[j] = NoRecord /\ watched[j] = NoRecord
      /\ ~OwnAlive(j)
  BY <1>1 DEF JobsInv, OwnersInv
<1>4. created' \in Seq(Jobs) /\ Len(created') = Len(created) + 1
      /\ (\A i \in 1..Len(created) : created'[i] = created[i])
      /\ created'[Len(created) + 1] = j
  BY <1>1, <1>3 DEF JobsTypeOK
<1>5. JobsTypeOK'
  BY <1>1, <1>2, <1>3, <1>4 DEF JobsTypeOK
<1>6. OwnersInv'
  <2>1. \A k \in Jobs : (\A i \in 1..Len(created') : created'[i] # k) =>
          k # j /\ \A i \in 1..Len(created) : created[i] # k
    <3>1. Len(created) \in Nat
      BY <1>3 DEF JobsTypeOK
    <3>2. \A i \in 1..Len(created) : i \in 1..Len(created')
      BY <1>4, <3>1
    <3>3. Len(created) + 1 \in 1..Len(created')
      BY <1>4, <3>1
    <3> QED
      BY <1>4, <3>2, <3>3
  <2> QED
    BY <1>1, <1>3, <2>1
    DEF JobsInv, OwnersInv, OnlyProcess, OwnAlive, JobsTypeOK
<1>7. BusyInv'
  <2>1. busy'.job = j /\ busy'.step = "spawn" /\ jobs'[j] = r
    BY <1>1, <1>3 DEF JobsTypeOK
  <2>2. watched'[j] = NoRecord /\ ~(OwnAlive(j))'
    BY <1>1, <1>3 DEF OwnAlive
  <2> QED
    BY <1>2, <2>1, <2>2 DEF BusyInv, OwnAlive
<1>8. KnownInv' /\ FinishedIsDead'
  BY <1>1, <1>2, <1>3
  DEF JobsInv, JobsTypeOK, KnownInv, FinishedIsDead, OnlyProcess, OwnAlive
<1> QED
  BY <1>5, <1>6, <1>7, <1>8 DEF JobsInv

LEMMA JobsSpawn == JobsInv /\ spawn => JobsInv'
<1> SUFFICES ASSUME JobsInv, spawn PROVE JobsInv'
  OBVIOUS
<1>0. /\ JobsTypeOK /\ up /\ busy # NotBusy /\ busy.step = "spawn"
      /\ busy.job \in Jobs /\ ~OwnAlive(busy.job)
      /\ jobs[busy.job].status = "pending" /\ watched[busy.job] = NoRecord
      /\ UNCHANGED <<jobs, created, watched, up, restarts, unsaved>>
  BY DEF spawn, JobsInv, JobsTypeOK, BusyInv, NotBusy
<1>1. ASSUME NEW p \in Pids, proc[p] = "free",
             proc' = [proc EXCEPT ![p] = busy.job],
             busy' = [step |-> "save", job |-> busy.job, pid |-> p]
      PROVE  JobsInv'
  <2>1. /\ busy' \in [step : {"save"}, job : Jobs, pid : Pids \cup {NoPid}]
        /\ busy'.job = busy.job /\ busy'.pid = p /\ busy'.step = "save"
    BY <1>0, <1>1
  <2>2. JobsTypeOK'
    BY <1>0, <1>1, <2>1 DEF JobsTypeOK
  <2>3. \A q \in Pids : proc'[q] = IF q = p THEN busy.job ELSE proc[q]
    BY <1>0, <1>1 DEF JobsTypeOK
  <2>4. \A q \in Pids : proc[q] # busy.job
    BY <1>0 DEF OwnAlive
  <2>5. /\ OnlyProcess(busy.job, p)'
        /\ \A j \in Jobs : j # busy.job =>
             /\ (OwnAlive(j))' <=> OwnAlive(j)
             /\ \A q : OnlyProcess(j, q)' <=> OnlyProcess(j, q)
    BY <1>1, <2>3, <2>4, OwnersAssumption DEF OnlyProcess, OwnAlive
  <2>6. OwnersInv'
    <3>1. \A j \in Jobs : (\A i \in 1..Len(created') : created'[i] # j) =>
            j # busy.job /\ \A i \in 1..Len(created) : created[i] # j
      BY <1>0 DEF JobsInv, OwnersInv, NoRecord
    <3>2. \A q \in Pids : proc'[q] \in Jobs => OnlyProcess(proc[q], q)' \/ q = p
      BY <2>3, <2>4, <2>5 DEF JobsInv, OwnersInv
    <3> QED
      BY <1>0, <2>3, <2>5, <3>1, <3>2 DEF JobsInv, OwnersInv, OnlyProcess
  <2>7. BusyInv'
    BY <1>0, <2>1, <2>5 DEF BusyInv, OnlyProcess
  <2>8. KnownInv'
    BY <1>0, <2>3 DEF JobsInv, KnownInv, OnlyProcess
  <2>9. FinishedIsDead'
    BY <1>0, <2>5 DEF JobsInv, FinishedIsDead
  <2> QED
    BY <2>2, <2>6, <2>7, <2>8, <2>9 DEF JobsInv
<1>2. ASSUME proc' = proc,
             busy' = [step |-> "save", job |-> busy.job, pid |-> NoPid]
      PROVE  JobsInv'
  <2>1. /\ busy' \in [step : {"save"}, job : Jobs, pid : Pids \cup {NoPid}]
        /\ busy'.job = busy.job /\ busy'.step = "save"
    BY <1>0, <1>2
  <2>2. JobsTypeOK'
    BY <1>0, <1>2, <2>1 DEF JobsTypeOK
  <2>3. BusyInv'
    BY <1>0, <1>2, <2>1 DEF BusyInv, OnlyProcess, OwnAlive
  <2> QED
    BY <1>0, <1>2, <2>2, <2>3
    DEF JobsInv, OwnersInv, KnownInv, FinishedIsDead, OnlyProcess, OwnAlive
<1>3. ASSUME proc' = proc, busy' = NotBusy PROVE JobsInv'
  <2>1. JobsTypeOK' /\ NoNewProcess
    BY <1>0, <1>3 DEF JobsTypeOK, NoNewProcess
  <2> QED
    BY <1>0, <1>3, <2>1, JobsProcesses
<1> QED
  BY <1>1, <1>2, <1>3 DEF spawn

\* The record and the handlers come to know the child.
LEMMA JobsSave == JobsInv /\ saveStarted => JobsInv'
<1> SUFFICES ASSUME JobsInv, saveStarted PROVE JobsInv'
  OBVIOUS
<1> DEFINE j == busy.job
           r == [status |-> IF jobs[j].detached THEN "detached" ELSE "running",
                 detached |-> jobs[j].detached, pid |-> busy.pid]
<1>1. /\ up /\ busy.step = "save" /\ busy # NotBusy
      /\ jobs' = [jobs EXCEPT ![j] = r] /\ watched' = [watched EXCEPT ![j] = r]
      /\ busy' = NotBusy /\ UNCHANGED <<created, proc, up, restarts, unsaved>>
  BY DEF saveStarted, NotBusy
<1>2. /\ JobsTypeOK /\ j \in Jobs /\ busy.pid \in Pids \cup {NoPid}
      /\ jobs[j].status = "pending" /\ OnlyProcess(j, busy.pid)
  BY <1>1 DEF JobsInv, JobsTypeOK, BusyInv
<1>3. jobs[j] \in Record
  BY <1>2 DEF JobsTypeOK, NoRecord
<1>4. r \in Record /\ r.pid = busy.pid /\ r.status \in {"detached", "running"}
  BY <1>2, <1>3 DEF Record, JobStatus
<1> HIDE DEF r
<1>5. JobsTypeOK'
  BY <1>1, <1>2, <1>4 DEF JobsTypeOK
<1>6. \E i \in 1..Len(created) : created[i] = j
  BY <1>2, <1>3 DEF JobsInv, OwnersInv, NoRecord
<1> HIDE DEF j
<1>7. OwnersInv'
  <2>1. \A k \in Jobs : k # j => jobs'[k] = jobs[k] /\ watched'[k] = watched[k]
    BY <1>1, <1>2 DEF JobsTypeOK
  <2> QED
    BY <1>1, <1>6, <2>1 DEF JobsInv, OwnersInv, OnlyProcess, OwnAlive
<1>8. KnownInv' /\ FinishedIsDead'
  <2>1. \A k \in Jobs :
          /\ jobs'[k] = IF k = j THEN r ELSE jobs[k]
          /\ watched'[k] = IF k = j THEN r ELSE watched[k]
    BY <1>1, <1>2 DEF JobsTypeOK
  <2> QED
    BY <1>1, <1>2, <1>4, <2>1
    DEF JobsInv, KnownInv, FinishedIsDead, OnlyProcess, OwnAlive
<1>9. BusyInv'
  BY <1>1 DEF BusyInv
<1> QED
  BY <1>5, <1>7, <1>8, <1>9 DEF JobsInv

LEMMA JobsSaveFails == JobsInv /\ saveStartedFails => JobsInv'
<1> SUFFICES ASSUME JobsInv, saveStartedFails PROVE JobsInv'
  OBVIOUS
<1>1. JobsTypeOK' /\ NoNewProcess
  BY DEF saveStartedFails, JobsInv, JobsTypeOK, NoNewProcess
<1> QED
  BY <1>1, JobsProcesses DEF saveStartedFails

\* The handlers' record, whatever is in the file, when the child is gone.
LEMMA JobsFinalize ==
  ASSUME JobsInv, NEW j \in Jobs, NEW status \in {"completed", "failed"},
         watched[j] # NoRecord, ~OwnAlive(j), busy = NotBusy,
         finalize(j, status), UNCHANGED <<created, busy, proc, up, restarts>>
  PROVE  JobsInv'
<1> DEFINE r == [watched[j] EXCEPT !.status = status]
<1>1. /\ jobs' = [jobs EXCEPT ![j] = r] \/ jobs' = jobs
      /\ watched' = [watched EXCEPT ![j] = NoRecord] /\ JobsTypeOK
      /\ unsaved' = unsaved \/ unsaved' = unsaved \cup {j}
  BY DEF finalize, JobsInv
<1>2. watched[j] \in Record
  BY <1>1 DEF JobsTypeOK
<1>3. r \in Record /\ r.status = status
  BY <1>2 DEF Record, JobStatus
<1> HIDE DEF r
<1>4. JobsTypeOK'
  BY <1>1, <1>3 DEF JobsTypeOK
<1>5. /\ jobs'[j] = jobs[j] \/ Writable(j, jobs'[j])
      /\ \A k \in Jobs : k # j => jobs'[k] = jobs[k]
      /\ \A k \in Jobs : watched'[k] = watched[k] \/ watched'[k] = NoRecord
  BY <1>1, <1>3 DEF Writable, JobsTypeOK
<1> QED
  BY <1>1, <1>4, <1>5, JobsWritten DEF NoNewProcess

LEMMA JobsClosed ==
  ASSUME JobsInv, NEW j \in Jobs, childError(j) \/ childClose(j)
  PROVE  JobsInv'
<1>1. CASE childError(j)
  <2>1. /\ watched[j] # NoRecord /\ watched[j].pid = NoPid /\ busy = NotBusy
        /\ finalize(j, "failed")
        /\ UNCHANGED <<created, busy, proc, up, restarts>>
    BY <1>1 DEF childError, Idle
  <2>2. ~OwnAlive(j)
    BY <2>1, PidsAssumption DEF JobsInv, KnownInv, OnlyProcess, OwnAlive
  <2> QED
    BY <2>1, <2>2, JobsFinalize
<1>2. CASE childClose(j)
  <2>1. /\ watched[j] # NoRecord /\ ~OwnAlive(j) /\ busy = NotBusy
        /\ UNCHANGED <<created, busy, proc, up, restarts>>
    BY <1>2 DEF childClose, Idle
  <2>2. ASSUME NEW status \in {"completed", "failed"}, finalize(j, status)
        PROVE  JobsInv'
    BY <2>1, <2>2, JobsFinalize
  <2>3. CASE /\ watched' = [watched EXCEPT ![j] = NoRecord]
             /\ UNCHANGED <<jobs, unsaved>>
    <3>1. JobsTypeOK' /\ NoNewProcess
      BY <2>1, <2>3 DEF JobsInv, JobsTypeOK, NoNewProcess
    <3>2. \A k \in Jobs : watched'[k] = watched[k] \/ watched'[k] = NoRecord
      BY <2>3 DEF JobsInv, JobsTypeOK
    <3> QED
      BY <2>1, <2>3, <3>1, <3>2, JobsWritten
  <2> QED
    BY <1>2, <2>2, <2>3 DEF childClose
<1> QED
  BY <1>1, <1>2

\* The status field of a record.
LEMMA StatusWritten ==
  ASSUME NEW r \in Record, NEW status \in JobStatus
  PROVE  /\ [r EXCEPT !.status = status] \in Record
         /\ [r EXCEPT !.status = status].status = status
         /\ [r EXCEPT !.status = status].pid = r.pid
BY DEF Record

LEMMA JobsCancel ==
  ASSUME JobsInv, NEW j \in Jobs, cancelJob(j)
  PROVE  JobsInv'
<1> DEFINE r == [jobs[j] EXCEPT !.status = "cancelled"]
<1>1. /\ jobs[j] # NoRecord /\ busy = NotBusy
      /\ jobs' = [jobs EXCEPT ![j] = r]
      /\ UNCHANGED <<created, busy, watched, up, restarts, unsaved>> /\ JobsTypeOK
      /\ \/ /\ jobs[j].pid # NoPid
            /\ proc' = [proc EXCEPT ![jobs[j].pid] = "free"]
         \/ proc' = proc
  BY DEF cancelJob, Idle, JobsInv
<1>2. r \in Record /\ r.status = "cancelled"
  <2>1. jobs[j] \in Record /\ "cancelled" \in JobStatus
    BY <1>1 DEF JobsTypeOK, JobStatus
  <2> QED
    BY <2>1, StatusWritten
<1> HIDE DEF r
<1>3. proc' \in [Pids -> Jobs \cup {"free", "foreign"}] /\ NoNewProcess
  BY <1>1, OwnersAssumption DEF JobsTypeOK, NoNewProcess
<1>4. JobsTypeOK'
  BY <1>1, <1>2, <1>3 DEF JobsTypeOK
<1>5. Writable(j, jobs'[j]) /\ \A k \in Jobs : k # j => jobs'[k] = jobs[k]
  BY <1>1, <1>2 DEF Writable, JobsTypeOK
<1> QED
  BY <1>1, <1>3, <1>4, <1>5, JobsWritten

\* A record that knows its process and does not find it alive.
LEMMA NotProbed ==
  ASSUME JobsInv, NEW j \in Jobs, jobs[j].status \in {"running", "detached"},
         ~Probed(jobs[j])
  PROVE  ~OwnAlive(j)
BY OwnersAssumption, PidsAssumption
DEF JobsInv, KnownInv, OnlyProcess, OwnAlive, Probed

LEMMA JobsAdopt ==
  ASSUME JobsInv, NEW j \in Jobs, adoptDetachedJob(j)
  PROVE  JobsInv'
<1> DEFINE status == IF Probed(jobs[j]) THEN "adopted" ELSE "completed"
           r == [jobs[j] EXCEPT !.status = status]
<1>1. /\ busy = NotBusy /\ jobs[j].status = "detached"
      /\ jobs' = [jobs EXCEPT ![j] = r]
      /\ UNCHANGED <<created, busy, watched, proc, up, restarts, unsaved>> /\ JobsTypeOK
  BY DEF adoptDetachedJob, Idle, JobsInv
<1>2. jobs[j] \in Record /\ jobs[j] # NoRecord
  BY <1>1 DEF JobsTypeOK, NoRecord
<1>3. status \in {"adopted", "completed"} /\ (status = "completed" => ~OwnAlive(j))
  BY <1>1, NotProbed
<1> HIDE DEF status
<1>4. r \in Record /\ r.status = status /\ r.pid = jobs[j].pid
  <2>1. status \in JobStatus
    BY <1>3 DEF JobStatus
  <2> QED
    BY <1>2, <2>1, StatusWritten
<1> HIDE DEF r
<1>5. JobsTypeOK'
  BY <1>1, <1>4 DEF JobsTypeOK
<1>6. OnlyProcess(j, jobs[j].pid)
  BY <1>1 DEF JobsInv, KnownInv
<1>7. Writable(j, jobs'[j]) /\ \A k \in Jobs : k # j => jobs'[k] = jobs[k]
  BY <1>1, <1>3, <1>4, <1>6 DEF Writable, JobsTypeOK
<1> QED
  BY <1>1, <1>2, <1>5, <1>7, JobsWritten DEF NoNewProcess

LEMMA JobsPrune == JobsInv /\ pruneJobs => JobsInv'
<1> SUFFICES ASSUME JobsInv, pruneJobs PROVE JobsInv'
  OBVIOUS
<1>1. /\ busy = NotBusy
      /\ jobs' = [j \in Jobs |-> IF Prunable(j) THEN NoRecord ELSE jobs[j]]
      /\ UNCHANGED <<created, busy, watched, proc, up, restarts, unsaved>> /\ JobsTypeOK
  BY DEF pruneJobs, Idle, JobsInv
<1>2. \A j \in Jobs : Prunable(j) => jobs[j] # NoRecord
  BY DEF Prunable, Terminal, NoRecord
<1>3. \A j \in Jobs : Writable(j, NoRecord)
  BY DEF Writable, NoRecord
<1>4. JobsTypeOK' /\ NoNewProcess
  BY <1>1 DEF JobsTypeOK, NoNewProcess
<1> QED
  BY <1>1, <1>2, <1>3, <1>4, JobsWritten

\* Deaths of the service and of the host.
LEMMA JobsDown == JobsInv /\ (crash \/ reboot) => JobsInv'
<1> SUFFICES ASSUME JobsInv, crash \/ reboot PROVE JobsInv'
  OBVIOUS
<1>1. /\ up' = FALSE /\ restarts < MaxRestarts /\ restarts' = restarts + 1
      /\ busy' = NotBusy /\ watched' = [j \in Jobs |-> NoRecord]
      /\ proc' = proc \/ proc' = [p \in Pids |-> "free"]
      /\ UNCHANGED <<jobs, created>> /\ JobsTypeOK /\ unsaved' = {}
  BY DEF crash, reboot, JobsInv
<1>2. JobsTypeOK'
  <2>1. restarts' \in 0..MaxRestarts
    BY <1>1, BoundsAssumption DEF JobsTypeOK
  <2>2. /\ proc' \in [Pids -> Jobs \cup {"free", "foreign"}]
        /\ watched' \in [Jobs -> Record \cup {NoRecord}]
    BY <1>1 DEF JobsTypeOK
  <2> QED
    BY <1>1, <2>1, <2>2 DEF JobsTypeOK
<1>3. \A j \in Jobs : (OwnAlive(j))' => OwnAlive(j)
  BY <1>1, OwnersAssumption DEF OwnAlive
<1>4. \A p \in Pids : proc'[p] \in Jobs => proc'[p] = proc[p]
  BY <1>1, OwnersAssumption
<1>5. OwnersInv'
  BY <1>1, <1>3, <1>4 DEF JobsInv, OwnersInv, OnlyProcess
<1>6. KnownInv' /\ FinishedIsDead'
  BY <1>1, <1>3, <1>4
  DEF JobsInv, KnownInv, FinishedIsDead, OnlyProcess
<1>7. BusyInv'
  BY <1>1 DEF BusyInv
<1> QED
  BY <1>2, <1>5, <1>6, <1>7 DEF JobsInv

\* What recover() concludes: a job is taken for lost, completed or failed
\* only when its own process is gone, since any process with the id counts.
LEMMA JobsRecover ==
  ASSUME JobsInv, NEW S \in SUBSET Jobs, recover(S), busy = NotBusy,
         up' \in BOOLEAN, restarts' \in 0..MaxRestarts, unsaved' = unsaved,
         UNCHANGED <<created, busy, watched, proc>>
  PROVE  JobsInv'
<1>1. JobsTypeOK /\ \A j \in Jobs : jobs'[j] =
        IF j \in S /\ jobs[j] # NoRecord
        THEN [jobs[j] EXCEPT !.status = Recovered(jobs[j])] ELSE jobs[j]
  BY DEF recover, JobsInv
<1>2. ASSUME NEW j \in Jobs, jobs[j] # NoRecord, jobs'[j] # jobs[j]
      PROVE  Writable(j, jobs'[j])
  <2> DEFINE status == Recovered(jobs[j])
  <2>1. jobs[j] \in Record /\ jobs'[j] = [jobs[j] EXCEPT !.status = status]
    BY <1>1, <1>2 DEF JobsTypeOK
  <2>2. \/ /\ jobs[j].status = "running"
           /\ status = IF Probed(jobs[j]) THEN "adopted" ELSE "lost"
        \/ /\ jobs[j].status = "detached"
           /\ status \in {"failed", "completed"} => ~Probed(jobs[j])
           /\ status \in {"failed", "completed", "detached"}
        \/ status = jobs[j].status
    BY <2>1
    DEF Recovered, RecoveredRunning, RecoveredDetached, Probed
  <2> HIDE DEF status
  <2>3. status \in JobStatus
    BY <2>1, <2>2 DEF Record, JobStatus
  <2>4. /\ jobs'[j] \in Record /\ jobs'[j].status = status
        /\ jobs'[j].pid = jobs[j].pid
    BY <2>1, <2>3, StatusWritten
  <2>5. status \in {"running", "detached", "adopted"} =>
          OnlyProcess(j, jobs[j].pid)
    BY <2>2 DEF JobsInv, KnownInv
  <2>6. status \in {"completed", "failed", "lost"} => ~OwnAlive(j)
    BY <2>2, NotProbed DEF JobsInv, FinishedIsDead
  <2> QED
    BY <2>4, <2>5, <2>6 DEF Writable
<1>3. jobs' \in [Jobs -> Record \cup {NoRecord}]
  <2>1. \A j \in Jobs : jobs'[j] \in Record \cup {NoRecord}
    BY <1>1, <1>2 DEF JobsTypeOK, Writable
  <2> QED
    BY <2>1 DEF recover
<1>4. JobsTypeOK' /\ NoNewProcess
  BY <1>1, <1>3 DEF JobsTypeOK, NoNewProcess
<1>5. \A j \in Jobs : jobs'[j] = jobs[j]
                      \/ (Writable(j, jobs'[j]) /\ jobs[j] # NoRecord)
  BY <1>1, <1>2
<1> QED
  BY <1>4, <1>5, JobsWritten

LEMMA JobsHost == JobsInv /\ HostStep => JobsInv'
<1> SUFFICES ASSUME JobsInv, HostStep PROVE JobsInv'
  OBVIOUS
<1>1. PICK p \in Pids : processExit(p) \/ foreignStart(p)
  BY DEF HostStep
<1>2. /\ \E o \in {"free", "foreign"} : proc' = [proc EXCEPT ![p] = o]
      /\ UNCHANGED <<jobs, created, busy, watched, up, restarts, unsaved>>
      /\ JobsTypeOK
  BY <1>1 DEF processExit, foreignStart, JobsInv
<1>3. JobsTypeOK' /\ NoNewProcess
  BY <1>2, OwnersAssumption DEF JobsTypeOK, NoNewProcess
<1> QED
  BY <1>2, <1>3, JobsProcesses

LEMMA JobsHandled == JobsInv /\ JobHandler => JobsInv'
BY JobsCreate, JobsSpawn, JobsSave, JobsSaveFails, JobsClosed, JobsCancel,
   JobsAdopt, JobsPrune
DEF JobHandler

LEMMA JobsInductive == JobsInv /\ [Next]_vars => JobsInv'
<1> SUFFICES ASSUME JobsInv, [Next]_vars PROVE JobsInv'
  OBVIOUS
<1>1. JobsTypeOK /\ (~up => busy = NotBusy) /\ Jobs \in SUBSET Jobs
  BY DEF JobsInv, JobsTypeOK
<1>2. CASE startService
  <2>1. /\ ~up /\ up' = TRUE /\ recover(Jobs) /\ restarts' \in 0..MaxRestarts
        /\ UNCHANGED <<created, busy, watched, proc, unsaved>>
    BY <1>1, <1>2 DEF startService, start, JobsTypeOK
  <2> QED
    BY <1>1, <2>1, JobsRecover
<1>3. CASE startServiceDies
  <2>1. PICK S \in SUBSET Jobs : startDies(S)
    BY <1>1, <1>3 DEF startServiceDies
  <2>2. /\ ~up /\ up' \in BOOLEAN /\ recover(S) /\ restarts' \in 0..MaxRestarts
        /\ UNCHANGED <<created, busy, watched, proc, unsaved>>
    BY <1>1, <2>1, BoundsAssumption DEF startDies, JobsTypeOK
  <2> QED
    BY <1>1, <2>2, JobsRecover
<1>4. CASE serviceDies
  BY <1>4, JobsDown DEF serviceDies
<1>5. CASE jobHandler \/ hostStep
  BY <1>5, JobsHandled, JobsHost, JobsKept DEF jobHandler, hostStep
<1>6. CASE ptyHandler \/ beginFile \/ continueFile \/ UNCHANGED vars
  BY <1>6, JobsKept DEF ptyHandler, beginFile, continueFile, vars
<1> QED
  BY <1>2, <1>3, <1>4, <1>5, <1>6 DEF Next

\* A job recorded as completed, failed or lost has no process left, through
\* any number of restarts, reboots and reused process ids.
THEOREM SupervisorFinishedIsDead == Spec => []FinishedIsDead
<1>1. JobsInv => FinishedIsDead
  BY DEF JobsInv
<1> QED
  BY <1>1, JobsStart, JobsInductive, PTL DEF Spec

----------------------------------------------------------------------------
(* Sessions                                                                *)

PtyTypes ==
  /\ up \in BOOLEAN
  /\ sessions \in [Sessions -> Pty!Status]
  /\ pane \in [Sessions -> Pty!Pane]
  /\ opening \in {Pty!NotOpening} \cup [step : {"pipe", "save"}, session : Sessions]

\* The session being created has no record yet, and a pipe exactly from
\* pipe-pane on, which toggles.
OpeningInv ==
  opening # Pty!NotOpening =>
    /\ sessions[opening.session] = "none"
    /\ pane[opening.session] \in
         {"none", IF opening.step = "pipe" THEN "running" ELSE "piped"}

PtyInv == PtyTypes /\ OpeningInv /\ OutputCaptured

\* There is no session at the start.
LEMMA PtyStart == Init => PtyInv
BY DEF Init, JobsInit, Pty!PtyInit, PtyInv, PtyTypes, OpeningInv,
       OutputCaptured, Pty!Status, Pty!Pane

LEMMA PtyKept == PtyInv /\ UNCHANGED <<up, ptyVars>> => PtyInv'
BY DEF ptyVars, PtyInv, PtyTypes, OpeningInv, OutputCaptured

\* Once the service is down nothing is asked of the panes.
LEMMA PtyDown ==
  ASSUME PtyInv, up' = FALSE, PtyTypes', opening' = Pty!NotOpening
  PROVE  PtyInv'
BY DEF PtyInv, OpeningInv, OutputCaptured

\* create(), input(), resize() and close().
LEMMA PtyHandled == PtyInv /\ Pty!PtyHandler /\ up' = up => PtyInv'
<1> SUFFICES ASSUME PtyInv, Pty!PtyHandler, up' = up PROVE PtyInv'
  OBVIOUS
<1> DEFINE Opening == [step : {"pipe", "save"}, session : Sessions]
<1>0. /\ PtyTypes /\ OpeningInv /\ OutputCaptured
      /\ opening.step \in {"pipe", "save"} =>
           opening \in Opening /\ opening # Pty!NotOpening
      /\ opening # Pty!NotOpening => opening \in Opening
  BY DEF PtyInv, PtyTypes, Pty!NotOpening
<1>1. ASSUME NEW s \in Sessions, Pty!create(s) PROVE PtyInv'
  <2>1. /\ opening' = [step |-> "pipe", session |-> s]
        /\ pane' = [pane EXCEPT ![s] = "running"] /\ sessions' = sessions
        /\ sessions[s] = "none"
    BY <1>1 DEF Pty!create, Pty!Exists
  <2>2. opening' \in Opening /\ opening'.step = "pipe" /\ opening'.session = s
    BY <2>1
  <2>3. PtyTypes'
    BY <1>0, <2>1, <2>2 DEF PtyTypes, Pty!Pane
  <2>4. OpeningInv'
    BY <1>0, <2>1, <2>2 DEF PtyTypes, OpeningInv
  <2>5. OutputCaptured'
    BY <1>0, <2>1 DEF PtyTypes, OutputCaptured
  <2> QED
    BY <2>3, <2>4, <2>5 DEF PtyInv
<1>2. ASSUME Pty!openPipe PROVE PtyInv'
  <2>1. /\ opening \in Opening /\ opening # Pty!NotOpening
        /\ opening.step = "pipe" /\ pane[opening.session] # "none"
        /\ opening' = [opening EXCEPT !.step = "save"] /\ sessions' = sessions
        /\ pane' = [pane EXCEPT ![opening.session] =
                      Pty!PipeToggled(pane[opening.session])]
    BY <1>0, <1>2 DEF Pty!openPipe
  <2>2. /\ opening' \in Opening /\ opening'.step = "save"
        /\ opening'.session = opening.session /\ opening.session \in Sessions
    BY <2>1
  <2>3. sessions[opening.session] = "none" /\ pane[opening.session] = "running"
    BY <1>0, <2>1 DEF OpeningInv
  <2>4. pane' = [pane EXCEPT ![opening.session] = "piped"]
    BY <2>1, <2>3 DEF Pty!PipeToggled
  <2>5. PtyTypes'
    BY <1>0, <2>1, <2>2, <2>4 DEF PtyTypes, Pty!Pane
  <2>6. OpeningInv'
    BY <1>0, <2>1, <2>2, <2>3, <2>4 DEF PtyTypes, OpeningInv
  <2>7. OutputCaptured'
    BY <1>0, <2>1, <2>3, <2>4 DEF PtyTypes, OutputCaptured
  <2> QED
    BY <2>5, <2>6, <2>7 DEF PtyInv
<1>3. ASSUME Pty!savePtySession PROVE PtyInv'
  <2>1. /\ opening \in Opening /\ opening # Pty!NotOpening
        /\ opening.step = "save" /\ opening' = Pty!NotOpening /\ pane' = pane
        /\ sessions' = [sessions EXCEPT ![opening.session] = "active"]
    BY <1>0, <1>3 DEF Pty!savePtySession
  <2>2. opening.session \in Sessions /\ pane[opening.session] \in {"none", "piped"}
    BY <1>0, <2>1 DEF OpeningInv
  <2>3. PtyTypes'
    BY <1>0, <2>1, <2>2 DEF PtyTypes, Pty!Status
  <2>4. OutputCaptured'
    BY <1>0, <2>1, <2>2 DEF PtyTypes, OutputCaptured
  <2> QED
    BY <2>1, <2>3, <2>4 DEF PtyInv, OpeningInv
<1>4. ASSUME Pty!createFails PROVE PtyInv'
  BY <1>0, <1>4
  DEF Pty!createFails, PtyInv, PtyTypes, OpeningInv, OutputCaptured
<1>5. ASSUME NEW s \in Sessions, Pty!ensureActive(s) PROVE PtyInv'
  <2>1. /\ opening = Pty!NotOpening /\ opening' = opening /\ pane' = pane
        /\ sessions' = [sessions EXCEPT ![s] = "lost"]
    BY <1>5 DEF Pty!ensureActive
  <2>2. PtyTypes' /\ OutputCaptured'
    BY <1>0, <2>1 DEF PtyTypes, Pty!Status, OutputCaptured
  <2> QED
    BY <2>1, <2>2 DEF PtyInv, OpeningInv
<1>6. ASSUME NEW s \in Sessions, Pty!close(s) PROVE PtyInv'
  <2>1. /\ opening = Pty!NotOpening /\ opening' = opening
        /\ pane' \in {pane, [pane EXCEPT ![s] = "none"]}
        /\ sessions' = [sessions EXCEPT ![s] = "closed"]
    BY <1>6 DEF Pty!close
  <2>2. PtyTypes' /\ OutputCaptured'
    BY <1>0, <2>1 DEF PtyTypes, Pty!Status, Pty!Pane, OutputCaptured
  <2> QED
    BY <2>1, <2>2 DEF PtyInv, OpeningInv
<1> QED
  BY <1>1, <1>2, <1>3, <1>4, <1>5, <1>6 DEF Pty!PtyHandler

LEMMA PtyExits ==
  ASSUME PtyInv, NEW s \in Sessions, Pty!paneExit(s), up' = up
  PROVE  PtyInv'
<1>1. /\ pane' = [pane EXCEPT ![s] = "none"]
      /\ UNCHANGED <<up, sessions, opening>> /\ PtyTypes
  BY DEF Pty!paneExit, PtyInv
<1>2. PtyTypes'
  BY <1>1 DEF PtyTypes, Pty!Pane
<1>3. OutputCaptured'
  BY <1>1 DEF PtyInv, PtyTypes, OutputCaptured
<1>4. OpeningInv'
  <2>1. SUFFICES ASSUME opening # Pty!NotOpening PROVE OpeningInv'
    BY <1>1 DEF OpeningInv
  <2>2. opening.session \in Sessions
    BY <1>1, <2>1 DEF PtyTypes
  <2> QED
    BY <1>1, <2>1, <2>2 DEF PtyInv, PtyTypes, OpeningInv
<1> QED
  BY <1>2, <1>3, <1>4 DEF PtyInv

\* recoverSessions() pipes every session it leaves active.
LEMMA PtyRecovered ==
  ASSUME PtyInv, Pty!recoverSessions, up' = TRUE, opening = Pty!NotOpening
  PROVE  PtyInv'
<1>1. PICK f \in [Sessions -> Pty!Status \X Pty!Pane] :
        /\ \A s \in Sessions :
             f[s] \in IF sessions[s] = "active" THEN Pty!Recovered(pane[s])
                      ELSE {<<sessions[s], pane[s]>>}
        /\ sessions' = [s \in Sessions |-> f[s][1]]
        /\ pane' = [s \in Sessions |-> f[s][2]]
  BY DEF Pty!recoverSessions, Pty!recoverTo
<1>2. opening' = opening
  BY DEF Pty!recoverSessions, Pty!recoverTo
<1>3. PtyTypes'
  BY <1>1, <1>2 DEF PtyInv, PtyTypes
<1>4. ASSUME NEW s \in Sessions, sessions'[s] = "active", pane'[s] # "none"
      PROVE  pane'[s] = "piped"
  <2>1. f[s][1] = "active" /\ pane'[s] = f[s][2]
    BY <1>1, <1>4
  <2>2. sessions[s] = "active"
    BY <1>1, <2>1
  <2>3. f[s] \in Pty!Recovered(pane[s])
    BY <1>1, <2>2
  <2> QED
    BY <2>1, <2>3
    DEF Pty!Recovered, Pty!Repiped, Pty!PipeToggled, Pty!PipeClosed
<1> QED
  BY <1>2, <1>3, <1>4 DEF PtyInv, OpeningInv, OutputCaptured

\* Wherever it died, the next one starts over.
LEMMA PtyHalfRecovered ==
  ASSUME PtyInv, Pty!recoverSessionsDies, up' = FALSE,
         opening = Pty!NotOpening
  PROVE  PtyInv'
<1>1. PICK f \in [Sessions -> Pty!Status \X Pty!Pane] :
        /\ sessions' = [s \in Sessions |-> f[s][1]]
        /\ pane' = [s \in Sessions |-> f[s][2]]
  BY DEF Pty!recoverSessionsDies, Pty!recoverTo
<1>2. opening' = opening
  BY DEF Pty!recoverSessionsDies, Pty!recoverTo
<1>3. PtyTypes'
  BY <1>1, <1>2 DEF PtyInv, PtyTypes
<1> QED
  BY <1>2, <1>3, PtyDown

\* No create() is in progress while the service is down.
DownInv == up \in BOOLEAN /\ (~up => opening = Pty!NotOpening)

LEMMA DownInductive ==
  /\ Init => DownInv
  /\ DownInv /\ [Next]_vars => DownInv'
<1>1. Init => DownInv
  BY DEF Init, JobsInit, DownInv
<1>2. ASSUME DownInv, [Next]_vars PROVE DownInv'
  <2>1. CASE up' = up /\ opening' = opening
    BY <1>2, <2>1 DEF DownInv
  <2>2. CASE ptyHandler
    BY <1>2, <2>2
    DEF ptyHandler, jobVars, DownInv, Pty!PtyHandler, Pty!openPipe,
        Pty!savePtySession, Pty!createFails, Pty!create, Pty!ensureActive,
        Pty!close
  <2>3. CASE serviceDies
    BY <1>2, <2>3
    DEF serviceDies, crash, reboot, Pty!ptyCrash, Pty!ptyReboot, DownInv
  <2>4. CASE startService
    BY <1>2, <2>4
    DEF startService, start, Pty!recoverSessions, Pty!recoverTo, DownInv
  <2>5. CASE ~(ptyHandler \/ serviceDies \/ startService)
    <3>1. CASE startServiceDies
      BY <2>1, <3>1
      DEF startServiceDies, startDies, ptyVars, Pty!recoverSessionsDies,
          Pty!recoverTo
    <3>2. CASE jobHandler
      BY <2>1, <3>2
      DEF jobHandler, ptyVars, JobHandler, createJob, spawn, saveStarted,
          saveStartedFails, childError, childClose, cancelJob,
          adoptDetachedJob, pruneJobs
    <3>3. CASE hostStep
      BY <2>1, <3>3
      DEF hostStep, HostStep, processExit, foreignStart, ptyVars, jobVars,
          Pty!paneExit
    <3>4. CASE beginFile \/ continueFile \/ UNCHANGED vars
      BY <2>1, <3>4 DEF beginFile, continueFile, jobVars, ptyVars, vars
    <3> QED
      BY <1>2, <2>5, <3>1, <3>2, <3>3, <3>4 DEF Next
  <2> QED
    BY <2>2, <2>3, <2>4, <2>5
<1> QED
  BY <1>1, <1>2

LEMMA PtyInductive == PtyInv /\ DownInv /\ [Next]_vars => PtyInv'
<1> SUFFICES ASSUME PtyInv, DownInv, [Next]_vars PROVE PtyInv'
  OBVIOUS
<1>1. CASE jobHandler
  <2>1. up' = up /\ UNCHANGED ptyVars
    BY <1>1
    DEF jobHandler, ptyVars, JobHandler, createJob, spawn, saveStarted,
        saveStartedFails, childError, childClose, cancelJob,
        adoptDetachedJob, pruneJobs
  <2> QED
    BY <2>1, PtyKept
<1>2. CASE ptyHandler
  BY <1>2, PtyHandled DEF ptyHandler, jobVars
<1>3. CASE beginFile \/ continueFile \/ UNCHANGED vars
  BY <1>3, PtyKept DEF beginFile, continueFile, jobVars, vars
<1>4. CASE hostStep
  BY <1>4, PtyKept, PtyExits
  DEF hostStep, HostStep, processExit, foreignStart, jobVars
<1>5. CASE serviceDies
  <2>1. PtyTypes'
    BY <1>5
    DEF serviceDies, crash, reboot, Pty!ptyCrash, Pty!ptyReboot, PtyInv,
        PtyTypes, Pty!Pane
  <2> QED
    BY <1>5, <2>1, PtyDown
    DEF serviceDies, crash, reboot, Pty!ptyCrash, Pty!ptyReboot
<1>6. CASE startService
  BY <1>6, PtyRecovered DEF startService, start, DownInv
<1>7. CASE startServiceDies
  BY <1>7, PtyKept, PtyHalfRecovered DEF startServiceDies, startDies, DownInv
<1> QED
  BY <1>1, <1>2, <1>3, <1>4, <1>5, <1>6, <1>7 DEF Next

\* While the service runs, what a live session writes is captured, however
\* create() failed and wherever earlier recoveries died: the toggling
\* pipe-pane always finds the pane without a pipe.
THEOREM SupervisorOutputCaptured == Spec => []OutputCaptured
<1>1. PtyInv => OutputCaptured
  BY DEF PtyInv
<1> QED
  BY <1>1, PtyStart, DownInductive, PtyInductive, PTL DEF Spec

----------------------------------------------------------------------------
(* Files                                                                   *)

FileTypes ==
  /\ file \in [Paths -> Files!Contents] /\ acked \in [Paths -> Files!Contents]
  /\ disk \in [Paths -> SUBSET Files!Contents]
  /\ fop \in {Files!NoFileOp}
           \cup [step : {"write", "rename", "directory"}, path : Paths,
                 data : Data, durable : BOOLEAN]
           \cup [step : {"bytes"}, path : Paths, data : Files!Contents]
  /\ parent \in [Paths -> {"missing", "fresh", "kept"}]
  /\ torn \subseteq Paths /\ unkept \subseteq Paths
  /\ fileOps \in 0..MaxFileOps

\* What a power loss may leave in a path: its content among others, no
\* mixture unless it was written in place, and after an answered durable
\* replace under directories that are on disk only that content.
DiskInv ==
  \A p \in Paths :
    /\ file[p] \in disk[p]
    /\ p \notin torn => Torn \notin disk[p]
    /\ acked[p] # Absent /\ p \notin unkept =>
         /\ file[p] = acked[p]
         /\ parent[p] = "kept" => disk[p] = {acked[p]}

FilesInv == FileTypes /\ DiskInv /\ (fop.step = "bytes" => fop.path \in torn)

\* Nothing was written yet.
LEMMA FilesStart == Init => FilesInv
BY MaxStartedAssumption, ContentsAssumption
DEF Init, Files!FilesInit, FilesInv, FileTypes, DiskInv, Files!Contents,
    Files!NoFileOp

LEMMA FilesKept == FilesInv /\ UNCHANGED fileVars => FilesInv'
BY DEF fileVars, FilesInv, FileTypes, DiskInv

\* No parent directory is synced.
NoneSynced == \A p \in Paths : parent'[p] = "kept" => parent[p] = "kept"

LEMMA FilesParents ==
  ASSUME FileTypes, NEW p \in Paths,
         \/ Files!createParents(p) \/ parent' = parent
         \/ parent' = [parent EXCEPT ![p] = "missing"]
  PROVE  NoneSynced /\ parent' \in [Paths -> {"missing", "fresh", "kept"}]
BY DEF FileTypes, NoneSynced, Files!createParents

\* The operation in progress ends, or goes on without touching a path.
LEMMA FilesOperation ==
  ASSUME FilesInv, FileTypes', NoneSynced,
         UNCHANGED <<file, disk, torn, acked, unkept>>, fop'.step # "bytes"
  PROVE  FilesInv'
BY DEF FilesInv, DiskInv, NoneSynced

\* A write of c to path p, which may land as one of `landing'.
LEMMA FilesPut ==
  ASSUME FilesInv, NEW p \in Paths, NEW c \in Files!Contents,
         NEW landing \in SUBSET Files!Contents,
         c \in landing, Torn \in landing => p \in torn',
         Files!put(p, c, landing), NoneSynced,
         torn \subseteq torn', torn' \subseteq Paths,
         fop' = fop \/ fop'.step # "bytes" \/ fop'.path \in torn',
         FileTypes => FileTypes'
  PROVE  FilesInv'
<1>1. /\ FileTypes /\ DiskInv /\ FileTypes'
      /\ file' = [file EXCEPT ![p] = c]
      /\ disk' = [disk EXCEPT ![p] = @ \cup landing]
      /\ acked' = [acked EXCEPT ![p] = Absent] /\ unkept' = unkept
  BY DEF FilesInv, Files!put
<1>2. ASSUME NEW q \in Paths
      PROVE  /\ file'[q] \in disk'[q]
             /\ q \notin torn' => Torn \notin disk'[q]
             /\ acked'[q] # Absent /\ q \notin unkept' =>
                  /\ file'[q] = acked'[q]
                  /\ parent'[q] = "kept" => disk'[q] = {acked'[q]}
  BY <1>1 DEF FileTypes, DiskInv, NoneSynced
<1>3. fop'.step = "bytes" => fop'.path \in torn'
  BY DEF FilesInv
<1> QED
  BY <1>1, <1>2, <1>3 DEF FilesInv, DiskInv

\* The types after a write.
LEMMA FilesPutTypes ==
  ASSUME FileTypes, NEW p \in Paths, NEW c \in Files!Contents,
         NEW landing \in SUBSET Files!Contents,
         Files!put(p, c, landing), torn' \subseteq Paths,
         parent' \in [Paths -> {"missing", "fresh", "kept"}],
         fileOps' \in 0..MaxFileOps,
         fop' \in {Files!NoFileOp}
           \cup [step : {"write", "rename", "directory"}, path : Paths,
                 data : Data, durable : BOOLEAN]
           \cup [step : {"bytes"}, path : Paths, data : Files!Contents]
  PROVE  FileTypes'
BY DEF FileTypes, Files!put, Files!Contents

\* Bytes written in place: the path is torn first.
LEMMA FilesInPlace ==
  ASSUME FilesInv, NEW p \in Paths, NEW d \in Files!Contents,
         Files!writeInPlace(p, d)
  PROVE  FilesInv'
<1>1. /\ fop' = [step |-> "bytes", path |-> p, data |-> d]
      /\ fileOps' = fileOps + 1 /\ fileOps < MaxFileOps
      /\ Files!put(p, Torn, {Torn}) /\ torn' = torn \cup {p}
      /\ Files!createParents(p)
  BY DEF Files!writeInPlace, Files!begin
<1>4. NoneSynced /\ parent' \in [Paths -> {"missing", "fresh", "kept"}]
  BY <1>1, FilesParents DEF FilesInv
<1>2. FileTypes /\ FileTypes'
  <2>1. FileTypes /\ fileOps' \in 0..MaxFileOps /\ torn' \subseteq Paths
    BY <1>1, MaxStartedAssumption DEF FilesInv, FileTypes
  <2>2. Torn \in Files!Contents /\ {Torn} \in SUBSET Files!Contents
    BY DEF Files!Contents
  <2>3. fop' \in [step : {"bytes"}, path : Paths, data : Files!Contents]
    BY <1>1
  <2> QED
    BY <1>1, <1>4, <2>1, <2>2, <2>3, FilesPutTypes
<1>3. /\ Torn \in Files!Contents /\ {Torn} \in SUBSET Files!Contents
      /\ torn \subseteq torn' /\ torn' \subseteq Paths /\ p \in torn'
      /\ fop'.path \in torn'
  BY <1>1, <1>2 DEF Files!Contents, FileTypes
<1> QED
  BY <1>1, <1>2, <1>3, <1>4, FilesPut

\* rename(): the destination holds a mixture only if the source did.
LEMMA FilesMove ==
  ASSUME FilesInv, NEW from \in Paths, NEW to \in Paths, NEW o \in BOOLEAN,
         Files!move(from, to, o)
  PROVE  FilesInv'
<1>1. /\ from # to /\ fop' = fop /\ fop = Files!NoFileOp
      /\ fileOps' = fileOps + 1 /\ fileOps < MaxFileOps
      /\ file' = [file EXCEPT ![to] = file[from], ![from] = Absent]
      /\ disk' = [disk EXCEPT ![to] = @ \cup disk[from] \cup {file[from]},
                              ![from] = @ \cup {Absent}]
      /\ torn' = IF from \in torn THEN torn \cup {to} ELSE torn
      /\ acked' = [acked EXCEPT ![to] = Absent, ![from] = Absent]
      /\ unkept' = unkept /\ Files!createParents(to)
  BY DEF Files!move
<1>2. /\ FileTypes /\ DiskInv /\ NoneSynced
      /\ parent' \in [Paths -> {"missing", "fresh", "kept"}]
  BY <1>1, FilesParents DEF FilesInv
<1>3. FileTypes'
  <2>1. fileOps' \in 0..MaxFileOps /\ torn' \subseteq Paths
    BY <1>1, <1>2, MaxStartedAssumption DEF FileTypes
  <2>2. /\ file' \in [Paths -> Files!Contents]
        /\ acked' \in [Paths -> Files!Contents]
        /\ disk' \in [Paths -> SUBSET Files!Contents]
    BY <1>1, <1>2 DEF FileTypes, Files!Contents
  <2> QED
    BY <1>1, <1>2, <2>1, <2>2 DEF FileTypes, Files!Contents
<1>4. ASSUME NEW q \in Paths
      PROVE  /\ file'[q] \in disk'[q]
             /\ q \notin torn' => Torn \notin disk'[q]
             /\ acked'[q] # Absent /\ q \notin unkept' =>
                  /\ file'[q] = acked'[q]
                  /\ parent'[q] = "kept" => disk'[q] = {acked'[q]}
  <2>1. CASE q = from
    BY <1>1, <1>2, <2>1, ContentsAssumption DEF FileTypes, DiskInv
  <2>2. CASE q = to
    <3>1. file'[q] = file[from] /\ acked'[q] = Absent
          /\ disk'[q] = disk[to] \cup disk[from] \cup {file[from]}
      BY <1>1, <1>2, <2>2 DEF FileTypes
    <3>2. q \notin torn' => from \notin torn /\ to \notin torn
      BY <1>1, <2>2
    <3> QED
      BY <1>2, <3>1, <3>2 DEF DiskInv
  <2>3. CASE q # from /\ q # to
    BY <1>1, <1>2, <2>3 DEF FileTypes, DiskInv, NoneSynced
  <2> QED
    BY <2>1, <2>2, <2>3
<1> QED
  BY <1>1, <1>3, <1>4 DEF FilesInv, DiskInv, Files!NoFileOp

LEMMA FilesBegin == FilesInv /\ Files!beginFileOperation => FilesInv'
<1> SUFFICES ASSUME FilesInv, NEW p \in Paths,
      \/ \E d \in Data, durable \in BOOLEAN, e \in {"any"} \cup Files!Contents :
           Files!replace(p, d, e, durable)
      \/ \E d \in Data : Files!write(p, d) \/ Files!patch(p, d)
      \/ \E q \in Paths, o \in BOOLEAN : Files!copy(p, q, o) \/ Files!move(p, q, o)
      \/ \E recursive \in BOOLEAN : Files!remove(p, recursive)
    PROVE FilesInv'
  BY DEF Files!beginFileOperation
<1>0. FileTypes
  BY DEF FilesInv
<1>1. ASSUME NEW d \in Data, NEW durable \in BOOLEAN,
             NEW e \in {"any"} \cup Files!Contents,
             Files!replace(p, d, e, durable)
      PROVE  FilesInv'
  <2>1. /\ fop' = [step |-> "write", path |-> p, data |-> d, durable |-> durable]
        /\ fileOps' \in 0..MaxFileOps
        /\ UNCHANGED <<file, disk, torn, acked, unkept>>
        /\ NoneSynced /\ parent' \in [Paths -> {"missing", "fresh", "kept"}]
    BY <1>0, <1>1, FilesParents, MaxStartedAssumption
    DEF Files!replace, Files!begin, FileTypes
  <2>2. fop' \in [step : {"write", "rename", "directory"}, path : Paths,
                  data : Data, durable : BOOLEAN]
    BY <2>1
  <2>3. FileTypes'
    BY <1>0, <2>1, <2>2 DEF FileTypes, Files!Contents
  <2> QED
    BY <2>1, <2>3, FilesOperation
<1>2. ASSUME NEW d \in Data, Files!write(p, d) \/ Files!patch(p, d)
      PROVE  FilesInv'
  BY <1>2, FilesInPlace DEF Files!write, Files!patch, Files!Contents
<1>3. ASSUME NEW q \in Paths, NEW o \in BOOLEAN, Files!copy(p, q, o)
      PROVE  FilesInv'
  BY <1>0, <1>3, FilesInPlace DEF Files!copy, FileTypes
<1>4. ASSUME NEW q \in Paths, NEW o \in BOOLEAN, Files!move(p, q, o)
      PROVE  FilesInv'
  BY <1>4, FilesMove
<1>5. ASSUME NEW recursive \in BOOLEAN, Files!remove(p, recursive)
      PROVE  FilesInv'
  <2>1. /\ Files!put(p, Absent, {Absent}) /\ fop' = fop /\ torn' = torn
        /\ fileOps' = fileOps + 1 /\ fileOps < MaxFileOps
        /\ NoneSynced /\ parent' \in [Paths -> {"missing", "fresh", "kept"}]
    BY <1>0, <1>5, FilesParents DEF Files!remove
  <2>2. Absent \in Files!Contents /\ {Absent} \in SUBSET Files!Contents
        /\ Torn \notin {Absent} /\ torn' \subseteq Paths
        /\ fileOps' \in 0..MaxFileOps
    BY <1>0, <2>1, ContentsAssumption, MaxStartedAssumption
    DEF Files!Contents, FileTypes
  <2>3. FileTypes'
    BY <1>0, <2>1, <2>2, FilesPutTypes DEF FileTypes
  <2> QED
    BY <1>0, <2>1, <2>2, <2>3, FilesPut
<1> QED
  BY <1>1, <1>2, <1>3, <1>4, <1>5

LEMMA FilesContinue == FilesInv /\ Files!continueFileOperation => FilesInv'
<1> SUFFICES ASSUME FilesInv, Files!continueFileOperation PROVE FilesInv'
  OBVIOUS
<1> DEFINE Replacing == [step : {"write", "rename", "directory"}, path : Paths,
                         data : Data, durable : BOOLEAN]
           Writing == [step : {"bytes"}, path : Paths, data : Files!Contents]
<1>0. /\ FileTypes
      /\ fop.step \in {"write", "rename", "directory"} => fop \in Replacing
      /\ fop.step = "bytes" => fop \in Writing /\ fop.path \in torn
      /\ Files!NoFileOp.step = "none"
  BY DEF FilesInv, FileTypes, Files!NoFileOp
<1>1. ASSUME Files!writeTemporary PROVE FilesInv'
  <2>1. /\ fop \in Replacing /\ fop' = [fop EXCEPT !.step = "rename"]
        /\ UNCHANGED <<file, disk, fileOps, parent, torn, acked, unkept>>
    BY <1>0, <1>1 DEF Files!writeTemporary
  <2>2. fop' \in Replacing /\ fop'.step = "rename"
    BY <2>1
  <2>3. FileTypes'
    BY <1>0, <2>1, <2>2 DEF FileTypes, Files!Contents
  <2> QED
    BY <2>1, <2>2, <2>3, FilesOperation DEF NoneSynced
<1>2. ASSUME Files!renameTemporary PROVE FilesInv'
  <2> DEFINE landing == {fop.data} \cup IF fop.durable THEN {} ELSE {Torn}
  <2>1. /\ fop \in Replacing
        /\ Files!put(fop.path, fop.data, landing)
        /\ torn' = IF fop.durable THEN torn ELSE torn \cup {fop.path}
        /\ fop' = IF fop.durable THEN [fop EXCEPT !.step = "directory"]
                  ELSE Files!NoFileOp
        /\ UNCHANGED <<fileOps, parent>>
    BY <1>0, <1>2 DEF Files!renameTemporary
  <2>2. /\ fop.path \in Paths /\ fop.data \in Files!Contents
        /\ landing \in SUBSET Files!Contents /\ fop.data \in landing
        /\ Torn \in landing => fop.path \in torn'
    BY <2>1, ContentsAssumption DEF Files!Contents
  <2>3. /\ torn \subseteq torn' /\ torn' \subseteq Paths
        /\ fop' \in Replacing \cup {Files!NoFileOp} /\ fop'.step # "bytes"
    BY <1>0, <2>1 DEF FileTypes, Files!NoFileOp
  <2> HIDE DEF landing
  <2>4. FileTypes'
    BY <1>0, <2>1, <2>2, <2>3, FilesPutTypes DEF FileTypes
  <2> QED
    BY <2>1, <2>2, <2>3, <2>4, FilesPut DEF NoneSynced
<1>3. ASSUME Files!syncDirectory PROVE FilesInv'
  <2> DEFINE p == fop.path
  <2>1. /\ fop \in Replacing /\ fop' = Files!NoFileOp
        /\ UNCHANGED <<file, fileOps, parent>> /\ DiskInv
        /\ p \in Paths /\ fop.data \in Files!Contents /\ fop.data # Torn
    BY <1>0, <1>3, ContentsAssumption
    DEF Files!syncDirectory, FilesInv, Files!Contents
  <2>2. CASE file[p] = fop.data
    <3>1. /\ acked' = [acked EXCEPT ![p] = fop.data]
          /\ unkept' = unkept \ {p}
          /\ \/ /\ parent[p] = "kept" /\ torn' = torn \ {p}
                /\ disk' = [disk EXCEPT ![p] = {fop.data}]
             \/ parent[p] # "kept" /\ UNCHANGED <<disk, torn>>
      BY <1>3, <2>2 DEF Files!syncDirectory
    <3> HIDE DEF p
    <3>2. FileTypes'
      BY <1>0, <2>1, <3>1 DEF FileTypes, Files!Contents
    <3>3. ASSUME NEW q \in Paths
          PROVE  /\ file'[q] \in disk'[q]
                 /\ q \notin torn' => Torn \notin disk'[q]
                 /\ acked'[q] # Absent /\ q \notin unkept' =>
                      /\ file'[q] = acked'[q]
                      /\ parent'[q] = "kept" => disk'[q] = {acked'[q]}
      <4>1. CASE q = p
        BY <1>0, <2>1, <2>2, <3>1, <4>1 DEF FileTypes, DiskInv
      <4>2. CASE q # p
        BY <1>0, <2>1, <3>1, <4>2 DEF FileTypes, DiskInv
      <4> QED
        BY <4>1, <4>2
    <3> QED
      BY <1>0, <2>1, <3>2, <3>3 DEF FilesInv, DiskInv
  <2>3. CASE file[p] # fop.data
    <3>1. UNCHANGED <<disk, torn, acked, unkept>>
      BY <1>3, <2>3 DEF Files!syncDirectory
    <3>2. FileTypes'
      BY <1>0, <2>1, <3>1 DEF FileTypes, Files!Contents, Files!NoFileOp
    <3> QED
      BY <1>0, <2>1, <3>1, <3>2, FilesOperation DEF NoneSynced
  <2> QED
    BY <2>2, <2>3
<1>4. ASSUME Files!lastBytes PROVE FilesInv'
  <2>1. /\ fop \in Writing /\ fop.path \in torn /\ fop' = Files!NoFileOp
        /\ Files!put(fop.path, fop.data, {fop.data})
        /\ UNCHANGED <<fileOps, parent, torn>>
    BY <1>0, <1>4 DEF Files!lastBytes
  <2>2. /\ fop.path \in Paths /\ fop.data \in Files!Contents
        /\ {fop.data} \in SUBSET Files!Contents /\ fop'.step # "bytes"
        /\ torn' \subseteq Paths /\ fop.path \in torn'
    BY <1>0, <2>1 DEF FileTypes
  <2>3. FileTypes'
    BY <1>0, <2>1, <2>2, FilesPutTypes DEF FileTypes
  <2> QED
    BY <2>1, <2>2, <2>3, FilesPut DEF NoneSynced
<1>5. ASSUME Files!operationThrows PROVE FilesInv'
  <2>1. /\ fop' = Files!NoFileOp
        /\ UNCHANGED <<file, disk, fileOps, parent, torn, acked, unkept>>
    BY <1>5 DEF Files!operationThrows
  <2>2. FileTypes'
    BY <1>0, <2>1 DEF FileTypes, Files!Contents, Files!NoFileOp
  <2> QED
    BY <1>0, <2>1, <2>2, FilesOperation DEF NoneSynced
<1> QED
  BY <1>1, <1>2, <1>3, <1>4, <1>5 DEF Files!continueFileOperation

\* Other programs, and deaths of the service and of the host.
LEMMA FilesHost ==
  ASSUME FilesInv,
         \/ \E p \in Paths, d \in Data \cup {Torn} : Files!outsideWrites(p, d)
         \/ Files!fileCrash \/ Files!fileReboot
  PROVE  FilesInv'
<1>0. FileTypes /\ DiskInv /\ Files!NoFileOp.step = "none"
  BY DEF FilesInv, Files!NoFileOp
<1>1. ASSUME NEW p \in Paths, NEW d \in Data \cup {Torn},
             Files!outsideWrites(p, d)
      PROVE  FilesInv'
  <2>1. /\ Files!put(p, d, {Torn, d}) /\ torn' = torn \cup {p} /\ fop' = fop
        /\ fileOps' \in 0..MaxFileOps
        /\ NoneSynced /\ parent' \in [Paths -> {"missing", "fresh", "kept"}]
    BY <1>0, <1>1, FilesParents, MaxStartedAssumption
    DEF Files!outsideWrites, FileTypes
  <2>2. /\ d \in Files!Contents /\ {Torn, d} \in SUBSET Files!Contents
        /\ torn \subseteq torn' /\ torn' \subseteq Paths /\ p \in torn'
    BY <1>0, <2>1 DEF Files!Contents, FileTypes
  <2>3. FileTypes'
    BY <1>0, <2>1, <2>2, FilesPutTypes DEF FileTypes
  <2> QED
    BY <2>1, <2>2, <2>3, FilesPut
<1>2. ASSUME Files!fileCrash PROVE FilesInv'
  <2>1. /\ fop' = Files!NoFileOp
        /\ UNCHANGED <<file, disk, fileOps, parent, torn, acked, unkept>>
    BY <1>2 DEF Files!fileCrash
  <2>2. FileTypes'
    BY <1>0, <2>1 DEF FileTypes, Files!Contents, Files!NoFileOp
  <2> QED
    BY <1>0, <2>1, <2>2, FilesOperation DEF NoneSynced
<1>3. ASSUME Files!fileReboot PROVE FilesInv'
  <2>1. PICK gone \in SUBSET {p \in Paths : parent[p] # "kept"} :
          /\ file' \in [Paths -> Files!Contents]
          /\ \A p \in Paths :
               IF p \in gone THEN file'[p] = Absent ELSE file'[p] \in disk[p]
          /\ parent' = [p \in Paths |-> IF p \in gone THEN "missing" ELSE "kept"]
    BY <1>3 DEF Files!fileReboot
  <2>2. /\ disk' = [p \in Paths |-> {file'[p]}] /\ fop' = Files!NoFileOp
        /\ unkept' = unkept \cup {p \in Paths : parent[p] # "kept"}
        /\ UNCHANGED <<fileOps, torn, acked>>
    BY <1>3 DEF Files!fileReboot
  <2>3. FileTypes'
    BY <1>0, <2>1, <2>2 DEF FileTypes, Files!Contents, Files!NoFileOp
  <2>4. ASSUME NEW p \in Paths
        PROVE  /\ file'[p] \in disk'[p] /\ disk'[p] = {file'[p]}
               /\ p \notin torn' => Torn \notin disk'[p]
               /\ acked'[p] # Absent /\ p \notin unkept' => file'[p] = acked'[p]
    BY <1>0, <2>1, <2>2, ContentsAssumption DEF FileTypes, DiskInv
  <2>5. DiskInv'
    BY <2>4 DEF DiskInv
  <2> QED
    BY <1>0, <2>2, <2>3, <2>5 DEF FilesInv
<1> QED
  BY <1>1, <1>2, <1>3

LEMMA FilesInductive == FilesInv /\ [Next]_vars => FilesInv'
BY FilesKept, FilesBegin, FilesContinue, FilesHost
DEF Next, vars, jobHandler, ptyHandler, beginFile, continueFile, hostStep,
    serviceDies, startService, startServiceDies

\* No throw, death or power loss leaves a mixture in a path that is only
\* replaced durably, and an answered replace stays until the next write,
\* unless directories created for it were never synced before a power loss.
THEOREM SupervisorReplacedWhole == Spec => []ReplacedWhole
<1>1. FilesInv => ReplacedWhole
  BY DEF FilesInv, FileTypes, DiskInv, ReplacedWhole, Files!ReplacedWhole
<1> QED
  BY <1>1, FilesStart, FilesInductive, PTL DEF Spec

----------------------------------------------------------------------------
(* Types                                                                   *)

\* One handler is in progress at a time.
AloneInv == busy = NotBusy \/ opening = Pty!NotOpening

LEMMA AloneInductive ==
  /\ Init => AloneInv
  /\ AloneInv /\ [Next]_vars => AloneInv'
<1>1. Init => AloneInv
  BY DEF Init, JobsInit, AloneInv
<1>2. ASSUME AloneInv, [Next]_vars PROVE AloneInv'
  <2>1. CASE jobHandler \/ ptyHandler
    BY <2>1 DEF jobHandler, ptyHandler, jobVars, ptyVars, AloneInv
  <2>2. CASE serviceDies
    BY <2>2 DEF serviceDies, crash, reboot, AloneInv
  <2>3. CASE startService \/ startServiceDies
    BY <1>2, <2>3
    DEF startService, start, startServiceDies, startDies, ptyVars,
        Pty!recoverSessions, Pty!recoverSessionsDies, Pty!recoverTo, AloneInv
  <2>4. CASE beginFile \/ continueFile \/ hostStep \/ UNCHANGED vars
    BY <1>2, <2>4
    DEF beginFile, continueFile, hostStep, HostStep, processExit,
        foreignStart, Pty!paneExit, jobVars, ptyVars, vars, AloneInv
  <2> QED
    BY <1>2, <2>1, <2>2, <2>3, <2>4 DEF Next
<1> QED
  BY <1>1, <1>2

\* Records, processes, panes, files and the handlers in progress keep their
\* types, and no two handlers are in progress at once.
THEOREM SupervisorTypeOK == Spec => []TypeOK
<1>1. JobsInv /\ PtyInv /\ FilesInv /\ AloneInv => TypeOK
  BY DEF JobsInv, PtyInv, PtyTypes, FilesInv, FileTypes, AloneInv, TypeOK
<1> QED
  BY <1>1, JobsStart, JobsInductive, PtyStart, DownInductive, PtyInductive,
     FilesStart, FilesInductive, AloneInductive, PTL
  DEF Spec
=============================================================================
