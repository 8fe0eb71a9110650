-------------------------- MODULE RehearsalRunner ---------------------------
(***************************************************************************)
(* FixedNspawnRehearsalRunner (src/rehearsal/nspawn-runner.ts): one ZFS    *)
(* clone and one systemd-nspawn machine per run, a guest that certifies    *)
(* itself (HostCertification), cleanup, and a signed receipt.  Runners are *)
(* separate processes, each with one plan; every host command is a step    *)
(* that may take effect and still be reported as failed (a timeout, a      *)
(* kill, too much output), and a runner may die at any step.  Datasets and *)
(* machines are found by name, so others may hold a run's names.           *)
(***************************************************************************)
EXTENDS HostCertification

CONSTANTS
  Runners,     \* runner processes
  RunIds,      \* run ids, each with its signed plan
  NoFile,      \* the lock path does not exist
  NoReceipt,   \* no receipt.json
  MaxForeign,  \* bound on datasets and machines of others
  MaxDeaths    \* bound on processes that die

VARIABLES
  runnerLock,  \* the inode the lock path names: its creator, bytes written
  at,          \* where each runner is
  job,         \* its RunState and what its last command reported
  dataset,     \* the dataset named runsDataset/<run id>: whose it is
  mounted,     \* that dataset is mounted
  machine,     \* the machine with the run's name: whose it is
  evidence,    \* evidenceRoot/<run id> exists
  guest,       \* what the guest did
  receipt,     \* receipt.json of the run
  foreign,     \* names taken by others so far
  deaths       \* processes that died so far

rehearsalVars == <<runnerLock, at, job, dataset, mounted, machine, evidence,
                   guest, receipt, foreign>>
hostSide == <<dataset, mounted, machine, evidence, guest, receipt, foreign,
              deaths>>

RunnerRunning ==
  {"lock", "writeLock", "examine", "rename", "preflight", "inventory",
   "initialize", "clone", "inspectClone", "mount", "boot", "booted", "verify",
   "capture", "machines", "showMachine", "terminate", "cleanClone", "unmount",
   "destroy", "recheck", "finalize", "release", "unlink"}
RunnerEnded == {"returned", "refused", "dead"}

\* Whose a name is; "late" is a machine of others that took the name when a
\* runner had seen its own under it and was about to terminate it.
Owner == {"none", "own", "foreign", "late"}
MachineCleanup == {"not_started", "stopped", "manual_recovery_required"}
CloneCleanup == {"not_created", "destroyed", "manual_recovery_required"}

RunState ==
  [run : RunIds, tries : 0..2, ok : BOOLEAN, cloneAttempted : BOOLEAN,
   cloneOwned : BOOLEAN, bootAttempted : BOOLEAN, error : BOOLEAN,
   machine : MachineCleanup, clone : CloneCleanup]

NewRun(r) ==
  [run |-> r, tries |-> 0, ok |-> TRUE, cloneAttempted |-> FALSE,
   cloneOwned |-> FALSE, bootAttempted |-> FALSE, error |-> FALSE,
   machine |-> "not_started", clone |-> "not_created"]

Receipt == [outcome : {"passed", "failed"}, machine : MachineCleanup,
            clone : CloneCleanup, result : Results]

RehearsalInit ==
  /\ runnerLock = NoFile
  /\ at = [p \in Runners |-> "idle"]
  /\ job \in [Runners -> {NewRun(r) : r \in RunIds}]
  /\ dataset = [r \in RunIds |-> "none"]
  /\ mounted = [r \in RunIds |-> FALSE]
  /\ machine = [r \in RunIds |-> "none"]
  /\ evidence = [r \in RunIds |-> FALSE]
  /\ guest = [r \in RunIds |-> NotBooted]
  /\ receipt = [r \in RunIds |-> NoReceipt]
  /\ foreign = 0

goto(p, next) == at' = [at EXCEPT ![p] = next]

\* The locals of run() end with it.
forget(gone) ==
  job' = [p \in Runners |-> IF p \in gone THEN NewRun(job[p].run) ELSE job[p]]
Run(p) == job[p].run

----------------------------------------------------------------------------
(* withLock                                                                *)

startRun(p) ==
  /\ at[p] = "idle"
  /\ goto(p, "lock")
  /\ UNCHANGED <<runnerLock, job, hostSide>>

\* createOnce: O_EXCL, or a record that differs from this one.
createLock(p) ==
  /\ at[p] = "lock"
  /\ runnerLock' = IF runnerLock = NoFile
                   THEN [by |-> p, written |-> FALSE] ELSE runnerLock
  /\ goto(p, IF runnerLock = NoFile THEN "writeLock" ELSE "examine")
  /\ UNCHANGED <<job, hostSide>>

\* The bytes go to the inode p created; a failing write is rethrown and
\* leaves the file.
writeLockRecord(p) ==
  /\ at[p] = "writeLock"
  /\ \/ /\ runnerLock' = IF runnerLock # NoFile /\ runnerLock.by = p
                         THEN [runnerLock EXCEPT !.written = TRUE]
                         ELSE runnerLock
        /\ goto(p, "preflight")
     \/ goto(p, "refused") /\ UNCHANGED runnerLock
  /\ job' = [job EXCEPT ![p].tries = 0]
  /\ UNCHANGED hostSide

\* liveLock: a complete record of a process that still runs.
liveLock == runnerLock.written /\ at[runnerLock.by] \in RunnerRunning

examineLock(p) ==
  /\ at[p] = "examine"
  /\ goto(p, IF runnerLock = NoFile \/ liveLock THEN "refused" ELSE "rename")
  /\ UNCHANGED <<runnerLock, job, hostSide>>

\* renameSync and unlinkSync of what the path names now; ENOENT is thrown.
renameStaleLock(p) ==
  /\ at[p] = "rename"
  /\ runnerLock' = NoFile
  /\ job' = [job EXCEPT ![p].tries = @ + 1]
  /\ goto(p, IF runnerLock = NoFile \/ job[p].tries + 1 = 2
             THEN "refused" ELSE "lock")
  /\ UNCHANGED hostSide

\* The finally block: compare the token, then unlink.
compareToken(p) ==
  /\ at[p] = "release"
  /\ goto(p, IF runnerLock # NoFile /\ runnerLock.by = p /\ runnerLock.written
             THEN "unlink" ELSE "returned")
  /\ UNCHANGED <<runnerLock, job, hostSide>>

unlinkOwnLock(p) ==
  /\ at[p] = "unlink"
  /\ runnerLock' = NoFile
  /\ goto(p, "returned")
  /\ UNCHANGED <<job, hostSide>>

withLock(p) ==
  \/ createLock(p) \/ writeLockRecord(p) \/ examineLock(p)
  \/ renameStaleLock(p) \/ compareToken(p) \/ unlinkOwnLock(p)

----------------------------------------------------------------------------
(* preflight and initializeRun                                             *)

\* The run's paths; any other check of the plan, the inputs and the host may
\* refuse as well.
preflightPaths(p) ==
  /\ at[p] = "preflight"
  /\ \/ goto(p, IF evidence[Run(p)] THEN "release" ELSE "inventory")
     \/ goto(p, "release")
  /\ UNCHANGED <<runnerLock, job, hostSide>>

\* listRunDatasets and listMachines: the run's names must be free; then the
\* reserves of the host.
preflightNames(p) ==
  LET r == Run(p)
  IN  /\ at[p] = "inventory"
      /\ \/ goto(p, IF dataset[r] = "none" /\ machine[r] = "none"
                    THEN "initialize" ELSE "release")
         \/ goto(p, "release")
      /\ UNCHANGED <<runnerLock, job, hostSide>>

\* Mutant: mkdirSync with { recursive: true }.
initializeRunAnyway(p) ==
  /\ at[p] = "initialize"
  /\ goto(p, "clone")
  /\ evidence' = [evidence EXCEPT ![Run(p)] = TRUE]
  /\ UNCHANGED <<runnerLock, job, dataset, mounted, machine, guest, receipt,
                 foreign, deaths>>

\* mkdirSync of the evidence directory is exclusive; it, or a create-once
\* record, may throw, which leaves run() without a cleanup.
initializeRun(p) ==
  /\ at[p] = "initialize"
  /\ goto(p, IF evidence[Run(p)] THEN "release" ELSE "clone")
     \/ goto(p, "release")
  /\ evidence' = [evidence EXCEPT ![Run(p)] = TRUE]
  /\ UNCHANGED <<runnerLock, job, dataset, mounted, machine, guest, receipt,
                 foreign, deaths>>

----------------------------------------------------------------------------
(* clone, mountAndVerify, boot                                             *)

\* The executor reports an exit code, a signal, a timeout or too much output:
\* a command that took effect may be reported as failed.
Executed == {run \in [lands : BOOLEAN, ok : BOOLEAN] : run.ok => run.lands}

\* zfs clone with the run id and plan digest as properties.
cloneDataset(p) ==
  LET r == Run(p)
  IN  /\ at[p] = "clone"
      /\ \E run \in Executed :
           /\ run.lands => dataset[r] = "none"
           /\ dataset' = IF run.lands THEN [dataset EXCEPT ![r] = "own"]
                         ELSE dataset
           /\ job' = [job EXCEPT ![p].ok = run.ok, ![p].cloneAttempted = TRUE]
      /\ goto(p, "inspectClone")
      /\ UNCHANGED <<runnerLock, mounted, machine, evidence, guest, receipt,
                     foreign, deaths>>

\* Mutant: a dataset with the run's name is the run's.
isNamedClone(r) == dataset[r] # "none"

\* Origin, run id and plan digest of the dataset are the plan's.
isOwnedClone(r) == dataset[r] = "own"

\* inspectClone may fail itself; state.error ends the try block.
inspectNewClone(p) ==
  /\ at[p] = "inspectClone"
  /\ \E seen \in BOOLEAN :
       LET owned == seen /\ isOwnedClone(Run(p))
           good == owned /\ job[p].ok
       IN  /\ job' = [job EXCEPT ![p].cloneOwned = owned, ![p].error = ~good]
           /\ goto(p, IF good THEN "mount" ELSE "capture")
  /\ UNCHANGED <<runnerLock, hostSide>>

\* zfs mount, then the checks of the image files.
mountAndVerify(p) ==
  /\ at[p] = "mount"
  /\ \E run \in Executed :
       /\ mounted' = [mounted EXCEPT ![Run(p)] = @ \/ run.lands]
       /\ job' = [job EXCEPT ![p].error = ~run.ok]
       /\ goto(p, IF run.ok THEN "boot" ELSE "capture")
  /\ UNCHANGED <<runnerLock, dataset, machine, evidence, guest, receipt,
                 foreign, deaths>>

\* Less than a minute to the deadline, a name that is taken or a failing
\* spawn is an error; else the machine runs the image.
boot(p) ==
  LET r == Run(p)
  IN  /\ at[p] = "boot"
      /\ \/ /\ machine[r] = "none"
            /\ machine' = [machine EXCEPT ![r] = "own"]
            /\ job' = [job EXCEPT ![p].bootAttempted = TRUE]
            /\ goto(p, "booted")
         \/ /\ job' = [job EXCEPT ![p].bootAttempted = TRUE,
                                  ![p].error = TRUE]
            /\ goto(p, "capture")
            /\ UNCHANGED machine
      /\ UNCHANGED <<runnerLock, dataset, mounted, evidence, guest, receipt,
                     foreign, deaths>>

\* systemd-nspawn ends: the machine is gone, or a kill after the timeout left
\* it running.
bootEnds(p) ==
  LET r == Run(p)
  IN  /\ at[p] = "booted"
      /\ \E ok \in BOOLEAN :
           /\ ok => machine[r] # "own"
           /\ job' = [job EXCEPT ![p].error = ~ok]
           /\ goto(p, IF ok THEN "verify" ELSE "capture")
           /\ \/ UNCHANGED machine
              \/ ~ok /\ machine[r] = "own"
                 /\ machine' = [machine EXCEPT ![r] = "none"]
      /\ UNCHANGED <<runnerLock, dataset, mounted, evidence, guest, receipt,
                     foreign, deaths>>

\* verifyCertificationResult: missing, not bound to the plan, or failed.
verifyCertificationResult(p) ==
  /\ at[p] = "verify"
  /\ job' = [job EXCEPT ![p].error = guest[Run(p)].result # "passed"]
  /\ goto(p, "capture")
  /\ UNCHANGED <<runnerLock, hostSide>>

\* capturePostRunEvidence: only for an owned clone; keeps the first error.
capturePostRunEvidence(p) ==
  /\ at[p] = "capture"
  /\ \/ UNCHANGED job
     \/ job[p].cloneOwned /\ job' = [job EXCEPT ![p].error = TRUE]
  /\ goto(p, "machines")
  /\ UNCHANGED <<runnerLock, hostSide>>

----------------------------------------------------------------------------
(* cleanup                                                                 *)

Manual == "manual_recovery_required"

\* listMachines; a failing command asks for manual recovery.
listMachines(p) ==
  LET listed == machine[Run(p)] # "none"
  IN  /\ at[p] = "machines"
      /\ \/ /\ job' = [job EXCEPT ![p].machine =
                         IF job[p].bootAttempted THEN "stopped"
                         ELSE "not_started"]
            /\ goto(p, IF listed THEN "showMachine" ELSE "cleanClone")
         \/ /\ job' = [job EXCEPT ![p].machine = Manual]
            /\ goto(p, "cleanClone")
      /\ UNCHANGED <<runnerLock, hostSide>>

\* machinectl show: only a machine whose root is the run's is terminated.
showMachine(p) ==
  /\ at[p] = "showMachine"
  /\ \/ /\ machine[Run(p)] = "own"
        /\ goto(p, "terminate")
        /\ UNCHANGED job
     \/ /\ job' = [job EXCEPT ![p].machine = Manual]
        /\ goto(p, "cleanClone")
  /\ UNCHANGED <<runnerLock, hostSide>>

\* machinectl terminate of the name, and the machine list once more.
terminateMachine(p) ==
  LET r == Run(p)
  IN  /\ at[p] = "terminate"
      /\ \E lands, ok \in BOOLEAN :
           /\ machine' = IF lands THEN [machine EXCEPT ![r] = "none"]
                         ELSE machine
           /\ job' = [job EXCEPT ![p].machine =
                        IF ok /\ machine'[r] = "none" THEN @ ELSE Manual]
      /\ goto(p, "cleanClone")
      /\ UNCHANGED <<runnerLock, dataset, mounted, evidence, guest, receipt,
                     foreign, deaths>>

\* inspectClone before anything is destroyed.
inspectForCleanup(p) ==
  LET r == Run(p)
      kept == ~isOwnedClone(r) \/ job[p].machine = Manual
      gone == IF job[p].cloneAttempted THEN "destroyed" ELSE "not_created"
  IN  /\ at[p] = "cleanClone"
      /\ \/ /\ dataset[r] = "none"
            /\ job' = [job EXCEPT ![p].clone = gone]
            /\ goto(p, "finalize")
         \/ /\ dataset[r] # "none" /\ ~kept
            /\ goto(p, IF mounted[r] THEN "unmount" ELSE "destroy")
            /\ UNCHANGED job
         \/ /\ job' = [job EXCEPT ![p].clone = Manual]
            /\ goto(p, "finalize")
      /\ UNCHANGED <<runnerLock, hostSide>>

unmountClone(p) ==
  /\ at[p] = "unmount"
  /\ \E run \in Executed :
       /\ mounted' = [mounted EXCEPT ![Run(p)] = @ /\ ~run.lands]
       /\ job' = IF run.ok THEN job ELSE [job EXCEPT ![p].clone = Manual]
       /\ goto(p, IF run.ok THEN "destroy" ELSE "finalize")
  /\ UNCHANGED <<runnerLock, dataset, machine, evidence, guest, receipt,
                 foreign, deaths>>

\* zfs destroy -r of the name.
destroyClone(p) ==
  /\ at[p] = "destroy"
  /\ \E lands, ok \in BOOLEAN :
       /\ dataset' = IF lands THEN [dataset EXCEPT ![Run(p)] = "none"]
                     ELSE dataset
       /\ job' = IF ok THEN job ELSE [job EXCEPT ![p].clone = Manual]
       /\ goto(p, IF ok THEN "recheck" ELSE "finalize")
  /\ UNCHANGED <<runnerLock, mounted, machine, evidence, guest, receipt,
                 foreign, deaths>>

\* inspectClone after the destroy.
recheckClone(p) ==
  /\ at[p] = "recheck"
  /\ \/ /\ dataset[Run(p)] = "none"
        /\ job' = [job EXCEPT ![p].clone = "destroyed"]
     \/ job' = [job EXCEPT ![p].clone = Manual]
  /\ goto(p, "finalize")
  /\ UNCHANGED <<runnerLock, hostSide>>

\* The error of an incomplete cleanup, the evidence inventory, the signed
\* receipt; an inventory that fails leaves no receipt.
finalizeReceipt(p) ==
  LET r == Run(p)
      failed == job[p].error \/ Manual \in {job[p].machine, job[p].clone}
  IN  /\ at[p] = "finalize"
      /\ \/ /\ receipt[r] = NoReceipt
            /\ receipt' = [receipt EXCEPT ![r] =
                 [outcome |-> IF failed THEN "failed" ELSE "passed",
                  machine |-> job[p].machine, clone |-> job[p].clone,
                  result |-> guest[r].result]]
         \/ UNCHANGED receipt
      /\ goto(p, "release")
      /\ forget({p})
      /\ UNCHANGED <<runnerLock, dataset, mounted, machine, evidence, guest,
                     foreign, deaths>>

rehearse(p) ==
  \/ preflightPaths(p) \/ preflightNames(p) \/ initializeRun(p)
  \/ cloneDataset(p) \/ inspectNewClone(p) \/ mountAndVerify(p)
  \/ boot(p) \/ bootEnds(p) \/ verifyCertificationResult(p)
  \/ capturePostRunEvidence(p) \/ listMachines(p) \/ showMachine(p)
  \/ terminateMachine(p) \/ inspectForCleanup(p) \/ unmountClone(p)
  \/ destroyClone(p) \/ recheckClone(p) \/ finalizeReceipt(p)

----------------------------------------------------------------------------
(* The host                                                                *)

\* The guest works on, whatever became of its runner, and powers off, with
\* or without a result.
guestRuns(r) ==
  /\ machine[r] = "own"
  /\ \/ /\ guest' \in {[guest EXCEPT ![r] = g] : g \in GuestSteps(guest[r])}
        /\ UNCHANGED machine
     \/ /\ machine' = [machine EXCEPT ![r] = "none"]
        /\ UNCHANGED guest
  /\ UNCHANGED <<runnerLock, at, job, dataset, mounted, evidence, receipt,
                 foreign, deaths>>

\* Others take a free name at any time, also that of a machine that ended
\* between show and terminate.
foreignTakes(r) ==
  /\ foreign < MaxForeign
  /\ foreign' = foreign + 1
  /\ \/ /\ dataset[r] = "none"
        /\ dataset' = [dataset EXCEPT ![r] = "foreign"]
        /\ UNCHANGED machine
     \/ /\ machine[r] = "none"
        /\ machine' = [machine EXCEPT ![r] =
             IF \E p \in Runners : at[p] = "terminate" /\ Run(p) = r
             THEN "late" ELSE "foreign"]
        /\ UNCHANGED dataset
  /\ UNCHANGED <<runnerLock, at, job, mounted, evidence, guest, receipt,
                 deaths>>

runnerDies(p) ==
  /\ at[p] \in RunnerRunning
  /\ deaths < MaxDeaths
  /\ deaths' = deaths + 1
  /\ goto(p, "dead")
  /\ forget({p})
  /\ UNCHANGED <<runnerLock, dataset, mounted, machine, evidence, guest,
                 receipt, foreign>>

\* The host goes down: every machine is gone and a clone is not mounted again
\* (canmount=noauto); the lock file, under /var/lib, stays.
RehearsalReboot ==
  /\ at' = [p \in Runners |-> IF at[p] \in RunnerRunning THEN "dead" ELSE at[p]]
  /\ mounted' = [r \in RunIds |-> FALSE]
  /\ machine' = [r \in RunIds |-> "none"]
  /\ forget({p \in Runners : at[p] \in RunnerRunning})
  /\ UNCHANGED <<runnerLock, dataset, evidence, guest, receipt, foreign>>

----------------------------------------------------------------------------
(* Properties                                                              *)

\* The lock, the runners, the host's names and the receipts have their types.
RehearsalTypeOK ==
  /\ runnerLock \in [by : Runners, written : BOOLEAN] \cup {NoFile}
  /\ at \in [Runners -> {"idle"} \cup RunnerRunning \cup RunnerEnded]
  /\ job \in [Runners -> RunState]
  /\ dataset \in [RunIds -> Owner]
  /\ mounted \in [RunIds -> BOOLEAN]
  /\ machine \in [RunIds -> Owner]
  /\ evidence \in [RunIds -> BOOLEAN]
  /\ guest \in [RunIds -> Guest]
  /\ receipt \in [RunIds -> Receipt \cup {NoReceipt}]
  /\ foreign \in 0..MaxForeign
  /\ deaths \in 0..MaxDeaths

\* A receipt stays true: what it says is gone has left nothing of the run
\* behind, evidence of a stopped machine no longer changes, and a passed run
\* was certified by a guest that met every check and ran every suite and
\* cycle, whatever two runners, late commands and deaths did.
ReceiptTruthful ==
  \A r \in RunIds :
    LET said == receipt[r]
    IN  said # NoReceipt =>
          /\ said.clone # "manual_recovery_required" => dataset[r] # "own"
          /\ said.machine # "manual_recovery_required" =>
               machine[r] # "own" /\ said.result = guest[r].result
          /\ said.outcome = "passed" =>
               /\ said.machine = "stopped" /\ said.clone = "destroyed"
               /\ guest[r].result = "passed" /\ ~guest[r].missed
               /\ guest[r].cycle = Cycles

\* No step of a runner destroys a dataset or terminates a machine of somebody
\* else that has the run's name, whenever it took it and whatever commands
\* failed before.  The one exception is a machine that took the name between
\* machinectl show and terminate, which go by the name: a "late" one.
SparesForeign ==
  (\E p \in Runners : at'[p] # at[p] /\ at'[p] # "dead") =>
    \A r \in RunIds :
      /\ dataset[r] = "foreign" => dataset'[r] = "foreign"
      /\ machine[r] = "foreign" => machine'[r] = "foreign"
=============================================================================
