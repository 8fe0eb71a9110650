--------------------------- MODULE ControllerLock ---------------------------
(***************************************************************************)
(* ControllerStore.withGlobalLock (src/controller/storage.ts): the         *)
(* exclusive lock file of the fixed controller.  Every file system call    *)
(* is a step; the processes are separate controller invocations, which     *)
(* run once and may die at any step.  A lock file that was renamed away    *)
(* lives on as an inode its creator still writes to, so the lock path is   *)
(* modelled by the inode it names.                                         *)
(***************************************************************************)
EXTENDS Integers

CONSTANTS
  Procs,     \* controller processes (pid, start time and token)
  NoFile,    \* the lock path does not exist
  MaxDeaths  \* bound on processes that die inside the call

ASSUME NoFileAssumption == NoFile \notin [by : Procs, written : BOOLEAN]
ASSUME MaxDeathsAssumption == MaxDeaths \in Nat

MaxAttempts == 2

VARIABLES
  path,      \* the inode the lock path names: its creator, bytes written
  pc,        \* where each process is in withGlobalLock
  attempt,   \* its loop counter
  deaths     \* processes that died so far

vars == <<path, pc, attempt, deaths>>

Running == {"open", "write", "examine", "rename", "exists", "action",
            "release", "unlink"}
Ended == {"returned", "refused", "failed", "dead"}
Pc == {"idle"} \cup Running \cup Ended

Inode == [by : Procs, written : BOOLEAN]

Init ==
  /\ path = NoFile
  /\ pc = [p \in Procs |-> "idle"]
  /\ attempt = [p \in Procs |-> 0]
  /\ deaths = 0

\* Mutant: a complete record counts as live without a look at the process.
isCompleteLock == path # NoFile /\ path.written

\* isLiveLock of what readJson returns: a complete record of a process that
\* still runs with the recorded start time.  An empty file does not parse.
isLiveLock ==
  path # NoFile /\ path.written /\ pc[path.by] \in Running

enter(p) ==
  /\ pc[p] = "idle"
  /\ pc' = [pc EXCEPT ![p] = "open"]
  /\ UNCHANGED <<path, attempt, deaths>>

\* openSync with O_CREAT | O_EXCL, or EEXIST.
openLock(p) ==
  /\ pc[p] = "open"
  /\ \/ /\ path = NoFile
        /\ path' = [by |-> p, written |-> FALSE]
        /\ pc' = [pc EXCEPT ![p] = "write"]
     \/ /\ path # NoFile
        /\ pc' = [pc EXCEPT ![p] = "examine"]
        /\ UNCHANGED path
  /\ UNCHANGED <<attempt, deaths>>

\* writeSync and fsyncSync reach the inode p created, wherever it is now.
writeLock(p) ==
  /\ pc[p] = "write"
  /\ path' = IF path # NoFile /\ path.by = p
             THEN [path EXCEPT !.written = TRUE] ELSE path
  /\ pc' = [pc EXCEPT ![p] = "exists"]
  /\ UNCHANGED <<attempt, deaths>>

\* An I/O error of the write leaves an empty file, one of fsyncSync, closeSync
\* or fsyncDirectory a complete one: rethrown, the file stays.
writeFails(p) ==
  /\ pc[p] = "write"
  /\ \/ UNCHANGED path
     \/ path' = IF path # NoFile /\ path.by = p
                THEN [path EXCEPT !.written = TRUE] ELSE path
  /\ pc' = [pc EXCEPT ![p] = "failed"]
  /\ UNCHANGED <<attempt, deaths>>

\* readJson and isLiveLock: a live lock throws controller_lock_busy.
examine(p) ==
  /\ pc[p] = "examine"
  /\ pc' = [pc EXCEPT ![p] = IF isLiveLock THEN "refused" ELSE "rename"]
  /\ UNCHANGED <<path, attempt, deaths>>

\* renameSync and unlinkSync of whatever the path names now; ENOENT throws.
renameStale(p) ==
  /\ pc[p] = "rename"
  /\ path' = NoFile
  /\ attempt' = [attempt EXCEPT ![p] = @ + 1]
  /\ pc' = [pc EXCEPT ![p] =
              IF path = NoFile THEN "refused"
              ELSE IF attempt[p] + 1 < MaxAttempts THEN "open" ELSE "exists"]
  /\ UNCHANGED deaths

\* An I/O error of the rename, or of the unlink or directory sync after it.
renameFails(p) ==
  /\ pc[p] = "rename"
  /\ path' \in {path, NoFile}
  /\ pc' = [pc EXCEPT ![p] = "failed"]
  /\ UNCHANGED <<attempt, deaths>>

\* The test after the loop: the path exists, whoever created it.
checkExists(p) ==
  /\ pc[p] = "exists"
  /\ pc' = [pc EXCEPT ![p] = IF path = NoFile THEN "refused" ELSE "action"]
  /\ UNCHANGED <<path, attempt, deaths>>

finishAction(p) ==
  /\ pc[p] = "action"
  /\ pc' = [pc EXCEPT ![p] = "release"]
  /\ UNCHANGED <<path, attempt, deaths>>

\* Mutant: the token comparison is inverted.
readTokenInverted(p) ==
  /\ pc[p] = "release"
  /\ pc' = [pc EXCEPT ![p] =
              IF path # NoFile /\ path.by # p /\ path.written
              THEN "unlink" ELSE "returned"]
  /\ UNCHANGED <<path, attempt, deaths>>

\* The finally block: compare the token, then unlink the path.
readToken(p) ==
  /\ pc[p] = "release"
  /\ pc' = [pc EXCEPT ![p] =
              IF path # NoFile /\ path.by = p /\ path.written
              THEN "unlink" ELSE "returned"]
  /\ UNCHANGED <<path, attempt, deaths>>

unlinkLock(p) ==
  /\ pc[p] = "unlink"
  /\ path' = NoFile
  /\ pc' = [pc EXCEPT ![p] = "returned"]
  /\ UNCHANGED <<attempt, deaths>>

\* The finally block swallows an I/O error of its read or its unlink: the
\* call ends and its lock file stays.
releaseFails(p) ==
  /\ pc[p] \in {"release", "unlink"}
  /\ pc' = [pc EXCEPT ![p] = "failed"]
  /\ UNCHANGED <<path, attempt, deaths>>

die(p) ==
  /\ pc[p] \in Running
  /\ deaths < MaxDeaths
  /\ deaths' = deaths + 1
  /\ pc' = [pc EXCEPT ![p] = "dead"]
  /\ UNCHANGED <<path, attempt>>

withGlobalLock(p) ==
  openLock(p) \/ writeLock(p) \/ examine(p) \/ renameStale(p)
    \/ checkExists(p) \/ finishAction(p) \/ readToken(p) \/ unlinkLock(p)

lockFails(p) == writeFails(p) \/ renameFails(p) \/ releaseFails(p)

Next ==
  \E p \in Procs : enter(p) \/ withGlobalLock(p) \/ lockFails(p) \/ die(p)

\* A process that has entered keeps running until it returns or dies.
Spec == Init /\ [][Next]_vars /\ \A p \in Procs : WF_vars(withGlobalLock(p))

----------------------------------------------------------------------------
(* Properties                                                              *)

\* Types; a process inside the loop has an attempt left.
TypeOK ==
  /\ path \in Inode \cup {NoFile}
  /\ pc \in [Procs -> Pc]
  /\ attempt \in [Procs -> 0..MaxAttempts]
  /\ deaths \in 0..MaxDeaths
  /\ \A p \in Procs :
       pc[p] \in {"idle", "open", "examine", "rename"}
         => attempt[p] < MaxAttempts

\* "Another fixed controller action is active" refuses the second caller:
\* two processes never run their actions at the same time.
MutualExclusion ==
  \A p, q \in Procs : pc[p] = "action" /\ pc[q] = "action" => p = q

\* A call that runs with no other in progress gets to its action, whatever
\* empty or complete lock file dead, failed or displaced callers left behind,
\* unless an I/O error ends it or another call starts.
LoneCallActs ==
  \A p \in Procs :
    /\ pc[p] = "open" /\ attempt[p] = 0
    /\ \A q \in Procs \ {p} : pc[q] \notin Running
    ~> \/ pc[p] \in {"action", "failed", "dead"}
       \/ \E q \in Procs \ {p} : pc[q] \in Running

\* A call that returned or was refused leaves no complete lock file of its
\* own behind, even when others moved the path under it: only one that died
\* or met an I/O error on its lock file does.
NoLeakedLock ==
  path # NoFile /\ path.written =>
    pc[path.by] \in Running \cup {"dead", "failed"}
=============================================================================
