----------------------------- MODULE JobManager -----------------------------
(***************************************************************************)
(* Jobs of the supervisor (src/jobs/manager.ts) and their records          *)
(* (src/state/store.ts): start, exit, cancellation, retention, and what a  *)
(* restarted service concludes about the processes it finds.               *)
(*                                                                         *)
(* A handler runs to its end before the next event of the process, but     *)
(* child processes exit, and process ids are reused, at any time.  Records *)
(* are replaced atomically; the service may die between two of them.       *)
(***************************************************************************)
EXTENDS Integers, Sequences, FiniteSets

CONSTANTS
  Jobs,          \* job ids
  Pids,          \* process (group) ids of the host
  NoPid,         \* undefined
  MaxRetention,  \* maxRetentionJobs
  MaxRestarts    \* bound on deaths of the service

ASSUME PidsAssumption == NoPid \notin Pids
ASSUME OwnersAssumption == {"free", "foreign"} \cap Jobs = {}
ASSUME BoundsAssumption == MaxRetention \in Nat /\ MaxRestarts \in Nat

JobStatus == {"pending", "running", "adopted", "completed", "failed",
              "cancelled", "detached", "lost"}
NoRecord == [status |-> "none"]   \* there is no record file
Record == [status : JobStatus, detached : BOOLEAN, pid : Pids \cup {NoPid}]

VARIABLES
  jobs,      \* jobs/<id>.json
  created,   \* job ids in creation order
  busy,      \* the start in progress: its job record and step
  watched,   \* the record captured by a child's close and error handlers
  proc,      \* who owns each process id: a job, "foreign" or "free"
  up,        \* the service runs
  restarts,  \* deaths of the service so far
  unsaved    \* jobs whose last record this service failed to write

jobVars == <<jobs, created, busy, watched, proc, up, restarts, unsaved>>

NotBusy == [step |-> "none"]
Idle == up /\ busy = NotBusy

JobsInit ==
  /\ jobs = [j \in Jobs |-> NoRecord]
  /\ created = <<>>
  /\ busy = NotBusy
  /\ watched = [j \in Jobs |-> NoRecord]
  /\ proc = [p \in Pids |-> "free"]
  /\ up = TRUE
  /\ restarts = 0
  /\ unsaved = {}

\* The job's own process is alive.
OwnAlive(j) == \E p \in Pids : proc[p] = j

----------------------------------------------------------------------------
(* exec / shell and startProcess                                           *)

createJob(j, detached) ==
  /\ Idle
  /\ \A i \in 1..Len(created) : created[i] # j
  /\ jobs' = [jobs EXCEPT ![j] = [status |-> "pending",
                                  detached |-> detached, pid |-> NoPid]]
  /\ created' = Append(created, j)
  /\ busy' = [step |-> "spawn", job |-> j]
  /\ UNCHANGED <<watched, proc, up, restarts, unsaved>>

\* A child is started, or cannot be (child.pid is undefined and an error
\* event follows), or spawn() throws and the record stays pending.
spawn ==
  /\ up /\ busy.step = "spawn"
  /\ \/ \E p \in Pids :
          /\ proc[p] = "free"
          /\ proc' = [proc EXCEPT ![p] = busy.job]
          /\ busy' = [step |-> "save", job |-> busy.job, pid |-> p]
     \/ /\ busy' = [step |-> "save", job |-> busy.job, pid |-> NoPid]
        /\ UNCHANGED proc
     \/ /\ busy' = NotBusy
        /\ UNCHANGED proc
  /\ UNCHANGED <<jobs, created, watched, up, restarts, unsaved>>

\* saveJob with the process identity; the handlers are attached.
saveStarted ==
  LET j == busy.job
      record == [status |-> IF jobs[j].detached THEN "detached"
                            ELSE "running",
                 detached |-> jobs[j].detached, pid |-> busy.pid]
  IN  /\ up /\ busy.step = "save"
      /\ jobs' = [jobs EXCEPT ![j] = record]
      /\ watched' = [watched EXCEPT ![j] = record]
      /\ busy' = NotBusy
      /\ UNCHANGED <<created, proc, up, restarts, unsaved>>

\* saveJob throws: the child lives on with a pending record.
saveStartedFails ==
  /\ up /\ busy.step = "save"
  /\ busy' = NotBusy
  /\ UNCHANGED <<jobs, created, watched, proc, up, restarts, unsaved>>

\* Mutant: only a clean exit is finalized.
finalizeClean(j, status) ==
  /\ jobs' = [jobs EXCEPT ![j] =
                IF status = "completed" THEN [watched[j] EXCEPT !.status = status]
                ELSE jobs[j]]
  /\ watched' = [watched EXCEPT ![j] = NoRecord]
  /\ UNCHANGED unsaved

\* finalize(): writes the record the handlers captured at the start, over
\* whatever the file says now, also when it was pruned.  An error of
\* saveJob is swallowed and the write is not tried again.
finalize(j, status) ==
  /\ \/ /\ jobs' = [jobs EXCEPT ![j] = [watched[j] EXCEPT !.status = status]]
        /\ UNCHANGED unsaved
     \/ /\ unsaved' = unsaved \cup {j}
        /\ UNCHANGED jobs
  /\ watched' = [watched EXCEPT ![j] = NoRecord]

\* child.on('error'): the process was never started.
childError(j) ==
  /\ Idle
  /\ watched[j] # NoRecord /\ watched[j].pid = NoPid
  /\ finalize(j, "failed")
  /\ UNCHANGED <<created, busy, proc, up, restarts>>

\* child.on('close'), with exit code zero or not; a detached job ignores it.
childClose(j) ==
  /\ Idle
  /\ watched[j] # NoRecord /\ watched[j].pid # NoPid
  /\ ~OwnAlive(j)
  /\ \/ /\ ~watched[j].detached
        /\ \E status \in {"completed", "failed"} : finalize(j, status)
     \/ /\ watched[j].detached
        /\ watched' = [watched EXCEPT ![j] = NoRecord]
        /\ UNCHANGED <<jobs, unsaved>>
  /\ UNCHANGED <<created, busy, proc, up, restarts>>

----------------------------------------------------------------------------
(* cancelJob, adoptDetachedJob, pruneJobs                                  *)

\* The signal goes to the recorded process group, whoever has it now; the
\* process may survive it.  No status is refused.
cancelJob(j) ==
  LET p == jobs[j].pid
  IN  /\ Idle
      /\ jobs[j] # NoRecord
      /\ \/ p # NoPid /\ proc[p] # "free" /\ proc' = [proc EXCEPT ![p] = "free"]
         \/ UNCHANGED proc
      /\ jobs' = [jobs EXCEPT ![j].status = "cancelled"]
      /\ UNCHANGED <<created, busy, watched, up, restarts, unsaved>>

\* processAlive(identity), then kill(pid, 0): any process with that id.
Probed(record) == record.pid # NoPid /\ proc[record.pid] # "free"

\* The record of a detached job, as adoptDetachedJob leaves it.
adoptDetachedJob(j) ==
  /\ Idle
  /\ jobs[j].status = "detached" /\ jobs[j].pid # NoPid
  /\ jobs' = [jobs EXCEPT ![j].status =
                IF Probed(jobs[j]) THEN "adopted" ELSE "completed"]
  /\ UNCHANGED <<created, busy, watched, proc, up, restarts, unsaved>>

Terminal == {"completed", "failed", "cancelled"}

\* pruneJobs ends every dispatch, after an await: of the terminal records
\* the newest MaxRetention are kept.
Prunable(j) ==
  /\ jobs[j].status \in Terminal
  /\ \E i \in 1..Len(created) :
       /\ created[i] = j
       /\ Cardinality({k \in (i + 1)..Len(created) :
                         jobs[created[k]].status \in Terminal})
            >= MaxRetention

pruneJobs ==
  /\ Idle
  /\ \E j \in Jobs : Prunable(j)
  /\ jobs' = [j \in Jobs |-> IF Prunable(j) THEN NoRecord ELSE jobs[j]]
  /\ UNCHANGED <<created, busy, watched, proc, up, restarts, unsaved>>

----------------------------------------------------------------------------
(* Restarts                                                                *)

\* The service dies; its children live on in their own process groups, or
\* systemd kills its control group (processExit).
crash ==
  /\ up /\ restarts < MaxRestarts
  /\ up' = FALSE
  /\ restarts' = restarts + 1
  /\ busy' = NotBusy
  /\ watched' = [j \in Jobs |-> NoRecord]
  /\ unsaved' = {}
  /\ UNCHANGED <<jobs, created, proc>>

reboot ==
  /\ up /\ restarts < MaxRestarts
  /\ up' = FALSE
  /\ restarts' = restarts + 1
  /\ busy' = NotBusy
  /\ watched' = [j \in Jobs |-> NoRecord]
  /\ unsaved' = {}
  /\ proc' = [p \in Pids |-> "free"]
  /\ UNCHANGED <<jobs, created>>

\* Mutant: a job of an earlier service is given up without a look.
RecoveredRunningAsLost(record) == "lost"

\* recoverRunningJobs
RecoveredRunning(record) == IF Probed(record) THEN "adopted" ELSE "lost"

\* recoverDetachedJobs
RecoveredDetached(record) ==
  CASE record.pid = NoPid -> "failed"
    [] Probed(record) -> "detached"
    [] OTHER -> "completed"

Recovered(record) ==
  CASE record.status = "running" -> RecoveredRunning(record)
    [] record.status = "detached" -> RecoveredDetached(record)
    [] OTHER -> record.status

\* The records S are examined and saved.
recover(S) ==
  jobs' = [j \in Jobs |->
             IF j \in S /\ jobs[j] # NoRecord
             THEN [jobs[j] EXCEPT !.status = Recovered(jobs[j])]
             ELSE jobs[j]]

\* start(): recover() before the socket is listened on.
start ==
  /\ ~up
  /\ up' = TRUE
  /\ recover(Jobs)
  /\ UNCHANGED <<created, busy, watched, proc, restarts, unsaved>>

\* The service dies again, having recovered the records S.
startDies(S) ==
  /\ ~up /\ restarts < MaxRestarts
  /\ restarts' = restarts + 1
  /\ recover(S)
  /\ UNCHANGED <<created, busy, watched, proc, up, unsaved>>

----------------------------------------------------------------------------
(* The host                                                                *)

processExit(p) ==
  /\ proc[p] # "free"
  /\ proc' = [proc EXCEPT ![p] = "free"]
  /\ UNCHANGED <<jobs, created, busy, watched, up, restarts, unsaved>>

foreignStart(p) ==
  /\ proc[p] = "free"
  /\ proc' = [proc EXCEPT ![p] = "foreign"]
  /\ UNCHANGED <<jobs, created, busy, watched, up, restarts, unsaved>>

HostStep == \E p \in Pids : processExit(p) \/ foreignStart(p)

JobHandler ==
  \/ spawn \/ saveStarted \/ saveStartedFails \/ pruneJobs
  \/ \E j \in Jobs :
       \/ \E detached \in BOOLEAN : createJob(j, detached)
       \/ childError(j) \/ childClose(j) \/ cancelJob(j) \/ adoptDetachedJob(j)

----------------------------------------------------------------------------
(* Properties                                                              *)

JobsTypeOK ==
  /\ jobs \in [Jobs -> Record \cup {NoRecord}]
  /\ created \in Seq(Jobs)
  /\ busy \in {NotBusy} \cup [step : {"spawn"}, job : Jobs]
              \cup [step : {"save"}, job : Jobs, pid : Pids \cup {NoPid}]
  /\ watched \in [Jobs -> Record \cup {NoRecord}]
  /\ proc \in [Pids -> Jobs \cup {"free", "foreign"}]
  /\ up \in BOOLEAN
  /\ restarts \in 0..MaxRestarts
  /\ unsaved \subseteq Jobs
  /\ ~up => busy = NotBusy

\* A job recorded as completed, failed or lost has no process left, however
\* many restarts, reboots and reused process ids the record went through: a
\* caller may start the work again without doing it twice.
FinishedIsDead ==
  \A j \in Jobs :
    jobs[j].status \in {"completed", "failed", "lost"} => ~OwnAlive(j)

\* A running job whose process has ended does not stay recorded as running,
\* also if the service dies before it hears of the exit.  The one exception
\* is a failing write of the last record, which the code swallows: then the
\* record stays running for as long as this service lives, and the next one
\* resolves it.
RunningResolves ==
  \A j \in Jobs :
    (jobs[j].status = "running" /\ ~OwnAlive(j))
      ~> (jobs[j].status # "running" \/ j \in unsaved)
=============================================================================
