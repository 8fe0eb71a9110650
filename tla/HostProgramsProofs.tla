------------------------ MODULE HostProgramsProofs -------------------------
(***************************************************************************)
(* Proofs about the controller's global lock alone (ControllerLock), and   *)
(* about all root programs of the host, for any number of calls, installs, *)
(* runners, releases, run ids, deaths and foreign names.                   *)
(***************************************************************************)
EXTENDS HostPrograms, TLAPS

(* The global lock                                                         *)

\* Where the creator of the inode at the lock path can be.
OwnerInv ==
  path # NoFile =>
    pc[path.by] \in IF path.written
                    THEN {"exists", "action", "release", "unlink", "failed",
                          "dead"}
                    ELSE {"write", "failed", "dead"}

LockInv == TypeOK /\ OwnerInv

\* The lock path is absent initially.
LEMMA InitLock == Init => LockInv
BY MaxDeathsAssumption
DEF Init, LockInv, TypeOK, OwnerInv, Pc, Running, Ended, MaxAttempts

\* A step of one process that keeps the inode at the path.
LEMMA SamePath ==
  ASSUME LockInv, TypeOK', path' = path, NEW p \in Procs, NEW c \in Pc,
         pc' = [pc EXCEPT ![p] = c],
         \/ c \in {"failed", "dead"}
         \/ path = NoFile
         \/ path.by # p
         \/ path.written /\ c \in {"exists", "action", "release", "unlink"}
         \/ ~path.written /\ c = "write"
  PROVE  LockInv'
BY DEF LockInv, TypeOK, OwnerInv, Inode

\* Each step of withGlobalLock preserves the invariant: a process leaves the
\* section either through the unlink of its own record or after someone else
\* has already moved it away.
LEMMA LockInductive == LockInv /\ [Next]_vars => LockInv'
<1> SUFFICES ASSUME LockInv, [Next]_vars PROVE LockInv'
  OBVIOUS
<1>0. /\ path \in Inode \cup {NoFile} /\ pc \in [Procs -> Pc]
      /\ attempt \in [Procs -> 0..MaxAttempts] /\ deaths \in 0..MaxDeaths
      /\ MaxAttempts = 2
      /\ \A p \in Procs :
           pc[p] \in {"idle", "open", "examine", "rename"}
             => attempt[p] < MaxAttempts
  BY DEF LockInv, TypeOK, MaxAttempts
<1>1. ASSUME NEW p \in Procs, enter(p)
      PROVE  LockInv'
  <2>1. TypeOK'
    BY <1>0, <1>1 DEF enter, TypeOK, Pc, Running
  <2>2. path = NoFile \/ path.by # p
    BY <1>1 DEF enter, LockInv, OwnerInv
  <2> QED
    BY <1>1, <2>1, <2>2, SamePath DEF enter, Pc, Running
<1>2. ASSUME NEW p \in Procs, openLock(p) PROVE LockInv'
  <2>1. CASE path = NoFile
    <3>1. path' = [by |-> p, written |-> FALSE] /\ pc'[p] = "write"
          /\ pc' = [pc EXCEPT ![p] = "write"] /\ UNCHANGED <<attempt, deaths>>
      BY <1>0, <1>2, <2>1 DEF openLock
    <3>2. TypeOK'
      BY <1>0, <3>1 DEF TypeOK, Pc, Running, Inode
    <3> QED
      BY <3>1, <3>2 DEF LockInv, OwnerInv
  <2>2. CASE path # NoFile
    <3>1. path' = path /\ pc' = [pc EXCEPT ![p] = "examine"]
          /\ UNCHANGED <<attempt, deaths>>
      BY <1>2, <2>2 DEF openLock
    <3>2. TypeOK'
      BY <1>0, <1>2, <3>1 DEF TypeOK, Pc, Running, openLock
    <3>3. path.by # p
      BY <1>2, <2>2 DEF openLock, LockInv, OwnerInv
    <3> QED
      BY <3>1, <3>2, <3>3, SamePath DEF Pc, Running
  <2> QED
    BY <2>1, <2>2
<1>3. ASSUME NEW p \in Procs, writeLock(p) PROVE LockInv'
  <2>1. pc' = [pc EXCEPT ![p] = "exists"] /\ UNCHANGED <<attempt, deaths>>
    BY <1>3 DEF writeLock
  <2>2. CASE path # NoFile /\ path.by = p
    <3>1. path' \in Inode /\ path'.by = p /\ path'.written
      BY <1>0, <1>3, <2>2 DEF writeLock, Inode
    <3>2. TypeOK'
      BY <1>0, <2>1, <3>1 DEF TypeOK, Pc, Running
    <3> QED
      BY <1>0, <2>1, <3>1, <3>2 DEF LockInv, OwnerInv
  <2>3. CASE ~(path # NoFile /\ path.by = p)
    <3>1. path' = path
      BY <1>3, <2>3 DEF writeLock
    <3>2. TypeOK'
      BY <1>0, <2>1, <3>1 DEF TypeOK, Pc, Running
    <3> QED
      BY <2>1, <2>3, <3>1, <3>2, SamePath DEF Pc, Running
  <2> QED
    BY <2>2, <2>3
<1>4. ASSUME NEW p \in Procs,
             releaseFails(p) \/ examine(p) \/ checkExists(p) \/ finishAction(p)
             \/ readToken(p) \/ die(p)
      PROVE  LockInv'
  <2>1. PICK c \in {"refused", "rename", "action", "release", "unlink",
                    "returned", "failed", "dead"} :
          pc' = [pc EXCEPT ![p] = c] /\ (c = "rename" => pc[p] = "examine")
    BY <1>4 DEF releaseFails, examine, checkExists, finishAction, readToken, die
  <2>2. path' = path /\ attempt' = attempt /\ deaths' \in 0..MaxDeaths
    BY <1>0, <1>4, MaxDeathsAssumption
    DEF releaseFails, examine, checkExists, finishAction, readToken, die
  <2>3. c \in Pc
    BY <2>1 DEF Pc, Running, Ended
  <2>4. TypeOK'
    BY <1>0, <2>1, <2>2, <2>3 DEF TypeOK
  <2>5. \/ c \in {"failed", "dead"}
        \/ path = NoFile
        \/ path.by # p
        \/ path.written /\ c \in {"exists", "action", "release", "unlink"}
        \/ ~path.written /\ c = "write"
    BY <1>0, <1>4, <2>1
    DEF releaseFails, examine, checkExists, finishAction, readToken, die,
        LockInv, OwnerInv
  <2> QED
    BY <2>1, <2>2, <2>3, <2>4, <2>5, SamePath
<1>5. ASSUME NEW p \in Procs, renameStale(p) PROVE LockInv'
  BY <1>0, <1>5 DEF renameStale, LockInv, TypeOK, OwnerInv, Pc, Running, Ended
<1>6. ASSUME NEW p \in Procs, unlinkLock(p) PROVE LockInv'
  BY <1>0, <1>6 DEF unlinkLock, LockInv, TypeOK, OwnerInv, Pc, Running, Ended
<1>7. ASSUME NEW p \in Procs, writeFails(p) PROVE LockInv'
  <2>1. /\ pc' = [pc EXCEPT ![p] = "failed"] /\ UNCHANGED <<attempt, deaths>>
        /\ path' = path \/ (path # NoFile /\ path' \in Inode /\ path'.by = p)
    BY <1>0, <1>7 DEF writeFails, Inode
  <2>2. TypeOK'
    BY <1>0, <2>1 DEF TypeOK, Pc, Ended
  <2> QED
    BY <1>0, <2>1, <2>2 DEF LockInv, OwnerInv, Inode
<1>8. ASSUME NEW p \in Procs, renameFails(p) PROVE LockInv'
  <2>1. /\ pc' = [pc EXCEPT ![p] = "failed"] /\ UNCHANGED <<attempt, deaths>>
        /\ path' = path \/ path' = NoFile
    BY <1>8 DEF renameFails
  <2>2. TypeOK'
    BY <1>0, <2>1 DEF TypeOK, Pc, Ended
  <2> QED
    BY <1>0, <2>1, <2>2 DEF LockInv, OwnerInv, Inode
<1>9. CASE UNCHANGED vars
  BY <1>9 DEF vars, LockInv, TypeOK, OwnerInv
<1> QED
  BY <1>1, <1>2, <1>3, <1>4, <1>5, <1>6, <1>7, <1>8, <1>9
  DEF Next, withGlobalLock, lockFails

\* The lock path, the processes and their loop counters keep their types; in
\* particular the retry loop never runs a third time.
THEOREM LockTypeOK == Spec => []TypeOK
<1>1. LockInv => TypeOK
  BY DEF LockInv
<1> QED
  BY <1>1, InitLock, LockInductive, PTL DEF Spec

\* No process that returned or was refused leaves a complete record of its
\* own at the lock path, so a lock that looks complete has an owner that runs,
\* died or met an I/O error, for any number of racing and dying processes.
THEOREM LockNoLeak == Spec => []NoLeakedLock
<1>1. LockInv => NoLeakedLock
  BY DEF LockInv, OwnerInv, NoLeakedLock, Running
<1> QED
  BY <1>1, InitLock, LockInductive, PTL DEF Spec

----------------------------------------------------------------------------

(* Installs of the controller                                              *)

\* An install that links has read its release back as complete, and the
\* release it expects was the current one, which was complete.
LinkInv ==
  /\ \A i \in Installs : installing[i] \in {"slot", "previous", "current"} =>
       releases[record[i].release] = "complete"
  /\ \A i \in Installs :
       \/ record[i].expected = NoRelease
       \/ /\ record[i].expected \in ControllerReleases
          /\ releases[record[i].expected] = "complete"
          /\ current # NoRelease

InstallInv == Bootstrap!BootstrapTypeOK /\ LinksComplete /\ LinkInv

\* There is no release at the start.
LEMMA InstallInit == HostInit => InstallInv
BY AbsentAssumption
DEF HostInit, Bootstrap!BootstrapInit, InstallInv, LinkInv,
    Bootstrap!BootstrapTypeOK, LinksComplete, Bootstrap!LinksComplete,
    Bootstrap!Link, Bootstrap!Slot, Bootstrap!Record,
    Bootstrap!InstallRunning

\* What is complete stays complete: a directory is created once, and only its
\* creator writes to it.
LEMMA InstallPreserved ==
  ASSUME InstallInv, NEW i \in Installs,
         \/ \E r \in Bootstrap!Record :
              Bootstrap!beginInstall(i, r, NoActiveProductGuard)
         \/ Bootstrap!install(i)
         \/ Bootstrap!installThrows(i)
         \/ Bootstrap!installDies(i)
  PROVE  InstallInv'
<1>0. /\ Bootstrap!BootstrapTypeOK /\ LinksComplete /\ LinkInv
      /\ record[i] \in Bootstrap!Record
      /\ record[i].release \in ControllerReleases
  BY DEF InstallInv, Bootstrap!BootstrapTypeOK, Bootstrap!Record
<1>1. ASSUME NEW r \in Bootstrap!Record,
             Bootstrap!beginInstall(i, r, NoActiveProductGuard)
      PROVE  InstallInv'
  <2>1. r.expected = current /\ current \in Bootstrap!Link
    BY <1>0, <1>1 DEF Bootstrap!beginInstall, Bootstrap!BootstrapTypeOK
  <2>2. current = NoRelease \/ releases[current] = "complete"
    BY <1>0 DEF LinksComplete, Bootstrap!LinksComplete
  <2>3. Bootstrap!BootstrapTypeOK' /\ LinksComplete'
    BY <1>0, <1>1
    DEF Bootstrap!beginInstall, Bootstrap!advance, Bootstrap!BootstrapTypeOK,
        Bootstrap!InstallRunning, LinksComplete, Bootstrap!LinksComplete
  <2>4. LinkInv'
    BY <1>0, <1>1, <2>1, <2>2
    DEF Bootstrap!beginInstall, Bootstrap!advance, Bootstrap!BootstrapTypeOK,
        LinkInv, Bootstrap!Link
  <2> QED
    BY <2>3, <2>4 DEF InstallInv
<1>2. CASE Bootstrap!createReleaseDirectory(i)
  BY <1>0, <1>2
  DEF Bootstrap!createReleaseDirectory, Bootstrap!advance, InstallInv,
      Bootstrap!BootstrapTypeOK, Bootstrap!InstallRunning, Bootstrap!Link,
      LinksComplete, Bootstrap!LinksComplete, LinkInv
<1>3. CASE Bootstrap!copyDeclaredFiles(i)
  <2>1. UNCHANGED <<record, current, previous, slots>>
        /\ \E next \in {"readback", "refused"} :
             installing' = [installing EXCEPT ![i] = next]
    BY <1>3 DEF Bootstrap!copyDeclaredFiles, Bootstrap!advance
  <2>2. /\ releases' \in [ControllerReleases ->
                            {"absent", "partial", "complete"}]
        /\ \A r \in ControllerReleases :
             releases[r] = "complete" => releases'[r] = "complete"
    BY <1>0, <1>3 DEF Bootstrap!copyDeclaredFiles, Bootstrap!BootstrapTypeOK
  <2>3. Bootstrap!BootstrapTypeOK'
    BY <1>0, <2>1, <2>2
    DEF Bootstrap!BootstrapTypeOK, Bootstrap!InstallRunning
  <2>4. LinksComplete'
    BY <1>0, <2>1, <2>2
    DEF Bootstrap!BootstrapTypeOK, Bootstrap!Link, Bootstrap!Slot,
        LinksComplete, Bootstrap!LinksComplete
  <2>5. LinkInv'
    BY <1>0, <2>1, <2>2
    DEF Bootstrap!BootstrapTypeOK, Bootstrap!Record, LinkInv
  <2> QED
    BY <2>3, <2>4, <2>5 DEF InstallInv
<1>4. CASE Bootstrap!readbackRelease(i)
  BY <1>0, <1>4
  DEF Bootstrap!readbackRelease, Bootstrap!advance, InstallInv,
      Bootstrap!BootstrapTypeOK, Bootstrap!InstallRunning, Bootstrap!Link,
      LinksComplete, Bootstrap!LinksComplete, LinkInv
<1>5. CASE Bootstrap!linkSlot(i)
  <2>1. record[i].slot \in Bootstrap!Slot
    BY <1>0 DEF Bootstrap!Record
  <2> QED
    BY <1>0, <1>5, <2>1
    DEF Bootstrap!linkSlot, Bootstrap!advance, InstallInv,
        Bootstrap!BootstrapTypeOK, Bootstrap!InstallRunning, Bootstrap!Link,
        Bootstrap!Slot, LinksComplete, Bootstrap!LinksComplete, LinkInv
<1>6. CASE Bootstrap!linkPrevious(i)
  <2>1. record[i].expected \in Bootstrap!Link
    BY <1>0 DEF Bootstrap!Record
  <2> QED
    BY <1>0, <1>6, <2>1
    DEF Bootstrap!linkPrevious, Bootstrap!advance, InstallInv,
        Bootstrap!BootstrapTypeOK, Bootstrap!InstallRunning, Bootstrap!Link,
        LinksComplete, Bootstrap!LinksComplete, LinkInv
<1>7. CASE Bootstrap!linkCurrent(i)
  <2>1. record[i].release # NoRelease
    BY <1>0, AbsentAssumption
  <2> QED
    BY <1>0, <1>7, <2>1
    DEF Bootstrap!linkCurrent, Bootstrap!advance, InstallInv,
        Bootstrap!BootstrapTypeOK, Bootstrap!InstallRunning, Bootstrap!Link,
        LinksComplete, Bootstrap!LinksComplete, LinkInv
<1>8. CASE Bootstrap!installThrows(i) \/ Bootstrap!installDies(i)
  BY <1>0, <1>8
  DEF Bootstrap!installThrows, Bootstrap!installDies, Bootstrap!advance,
      InstallInv, Bootstrap!BootstrapTypeOK, Bootstrap!InstallRunning,
      LinksComplete, Bootstrap!LinksComplete, LinkInv
<1> QED
  BY <1>1, <1>2, <1>3, <1>4, <1>5, <1>6, <1>7, <1>8 DEF Bootstrap!install

\* No other program writes the controller's releases; a reboot only ends
\* installs.
LEMMA InstallInductive == InstallInv /\ [HostNext]_hostVars => InstallInv'
<1> SUFFICES ASSUME InstallInv, [HostNext]_hostVars PROVE InstallInv'
  OBVIOUS
<1>1. CASE installStep
  BY <1>1, InstallPreserved DEF installStep
<1>2. CASE hostReboots
  BY <1>2
  DEF hostReboots, InstallInv, Bootstrap!BootstrapTypeOK, LinksComplete,
      Bootstrap!LinksComplete, LinkInv, Bootstrap!InstallRunning
<1>3. CASE UNCHANGED bootstrapVars
  BY <1>3
  DEF bootstrapVars, InstallInv, Bootstrap!BootstrapTypeOK, LinksComplete,
      Bootstrap!LinksComplete, LinkInv
<1>4. controllerStep \/ hostStep \/ rehearsalStep \/ UNCHANGED hostVars =>
        UNCHANGED bootstrapVars
  BY DEF controllerStep, hostStep, rehearsalStep, hostVars,
         othersOfController, startController, lockStep, callStep,
         controllerFails, controllerDies
<1> QED
  BY <1>1, <1>2, <1>3, <1>4 DEF HostNext

\* However installs of the controller race, throw, die or meet a reboot,
\* current, previous and the slots name complete releases, and a fallback
\* implies a current release.
THEOREM HostLinksComplete == HostSpec => []LinksComplete
<1>1. InstallInv => LinksComplete
  BY DEF InstallInv
<1> QED
  BY <1>1, InstallInit, InstallInductive, PTL DEF HostSpec

----------------------------------------------------------------------------
(* Rehearsal runs                                                          *)

\* A runner that has created the evidence directory of its run and has not
\* finished with it.
Cleaning == {"cleanClone", "unmount", "destroy", "recheck", "finalize"}
Judged == {"capture", "machines", "showMachine", "terminate"} \cup Cleaning
Working == {"clone", "inspectClone", "mount", "boot", "booted", "verify"}
             \cup Judged

RunnerTypes ==
  /\ at \in [Runners -> {"idle"} \cup Rehearsal!RunnerRunning
                          \cup Rehearsal!RunnerEnded]
  /\ job \in [Runners -> Rehearsal!RunState]
  /\ \A p \in Runners : at[p] \in {"idle", "lock", "examine", "rename"} =>
       job[p].tries < 2

NameTypes ==
  /\ dataset \in [RunIds -> Rehearsal!Owner]
  /\ mounted \in [RunIds -> BOOLEAN]
  /\ machine \in [RunIds -> Rehearsal!Owner]
  /\ evidence \in [RunIds -> BOOLEAN]
  /\ guest \in [RunIds -> Rehearsal!Guest]
  /\ receipt \in [RunIds -> Rehearsal!Receipt \cup {NoReceipt}]

\* What a runner knows of its run, by where it is.
Knows(p) ==
  LET j == job[p]
      r == j.run
  IN  /\ at[p] \in Working => evidence[r] /\ receipt[r] = NoReceipt
      /\ at[p] \in Working \ {"clone"} => j.cloneAttempted
      /\ at[p] \in {"booted", "verify"} => j.bootAttempted
      /\ at[p] \in Judged /\ ~j.error =>
           j.bootAttempted /\ guest[r].result = "passed"
      /\ at[p] \in {"showMachine", "terminate"} \cup Cleaning =>
           (j.bootAttempted /\ j.machine # Rehearsal!Manual =>
              j.machine = "stopped")
      /\ at[p] = "terminate" => machine[r] # "foreign"
      /\ at[p] \in Cleaning /\ j.machine # Rehearsal!Manual =>
           machine[r] # "own"
      /\ at[p] \in {"unmount", "destroy"} => dataset[r] = "own"
      /\ at[p] = "finalize" /\ j.clone # Rehearsal!Manual =>
           dataset[r] # "own" /\ j.clone = "destroyed"

\* The exclusive mkdir of the evidence directory: one runner per run.
OneRunner ==
  \A p, q \in Runners :
    at[p] \in Working /\ at[q] \in Working /\ job[p].run = job[q].run => p = q

\* A guest that passes met every check: what it missed shows in a failed
\* command, in its privileges or in a source it did not materialize.
Certified(g) ==
  /\ g.stage \in {"start", "assertions"} => ~g.missed
  /\ g.stage \notin {"poweroff", "result"} /\ g.missed =>
       \/ g.failed
       \/ ~g.privileged
       \/ ~g.baby /\ g.stage \notin {"cache", "baby"}
       \/ ~g.gateway /\ g.stage \notin {"cache", "baby", "gateway"}
  /\ g.stage = "result" /\ ~g.failed /\ g.privileged =>
       ~g.missed /\ g.cycle = Rehearsal!Cycles
  /\ g.result = "passed" =>
       g.stage = "poweroff" /\ ~g.missed /\ g.cycle = Rehearsal!Cycles

\* A receipt has its evidence directory and is true.
Truthful(r) ==
  LET said == receipt[r]
  IN  said # NoReceipt =>
        /\ evidence[r]
        /\ said.clone # Rehearsal!Manual => dataset[r] # "own"
        /\ said.machine # Rehearsal!Manual =>
             machine[r] # "own" /\ said.result = guest[r].result
        /\ said.outcome = "passed" =>
             /\ said.machine = "stopped" /\ said.clone = "destroyed"
             /\ guest[r].result = "passed"

RunInv ==
  /\ RunnerTypes /\ NameTypes
  /\ OneRunner
  /\ \A p \in Runners : Knows(p)
  /\ \A r \in RunIds : Certified(guest[r]) /\ Truthful(r)

\* Nothing has run at the start.
LEMMA RunInit == HostInit => RunInv
<1> SUFFICES ASSUME HostInit PROVE RunInv
  OBVIOUS
<1>1. RunnerTypes
  <2>1. \A r \in RunIds : /\ Rehearsal!NewRun(r) \in Rehearsal!RunState
                          /\ Rehearsal!NewRun(r).tries = 0
    BY DEF Rehearsal!NewRun, Rehearsal!RunState, Rehearsal!MachineCleanup,
           Rehearsal!CloneCleanup
  <2>2. job \in [Runners -> {Rehearsal!NewRun(r) : r \in RunIds}]
    BY DEF HostInit, Rehearsal!RehearsalInit
  <2>3. \A p \in Runners : job[p] \in Rehearsal!RunState /\ job[p].tries = 0
    BY <2>1, <2>2
  <2>4. job \in [Runners -> Rehearsal!RunState]
    BY <2>2, <2>3
  <2> QED
    BY <2>3, <2>4 DEF HostInit, Rehearsal!RehearsalInit, RunnerTypes
<1>2. NameTypes /\ \A r \in RunIds : Certified(guest[r]) /\ Truthful(r)
  BY DEF HostInit, Rehearsal!RehearsalInit, NameTypes, Rehearsal!NotBooted,
         Rehearsal!Guest, Rehearsal!Owner, Rehearsal!Stages, Rehearsal!Results,
         Rehearsal!Cycles, Certified, Truthful
<1>3. \A p \in Runners : at[p] = "idle"
  BY DEF HostInit, Rehearsal!RehearsalInit
<1>4. OneRunner /\ \A p \in Runners : Knows(p)
  BY <1>3 DEF OneRunner, Knows, Working, Judged, Cleaning
<1> QED
  BY <1>1, <1>2, <1>4 DEF RunInv

\* A certified guest stays certified, and one that passed is off.
LEMMA GuestStep ==
  ASSUME NEW g \in Rehearsal!Guest, Certified(g),
         NEW h \in Rehearsal!GuestSteps(g)
  PROVE  h \in Rehearsal!Guest /\ Certified(h) /\ g.result # "passed"
<1>0. g.stage \in Rehearsal!Stages /\ g.stage # "poweroff"
  BY DEF Rehearsal!GuestSteps, Rehearsal!Guest
<1>1. CASE g.stage = "start"
  <2>1. h \in Rehearsal!startMain(g)
    BY <1>1 DEF Rehearsal!GuestSteps
  <2> QED
    BY <1>1, <2>1 DEF Rehearsal!startMain, Rehearsal!Guest, Certified,
                      Rehearsal!Stages, Rehearsal!Results
<1>2. CASE h \in Rehearsal!fatalFailure(g)
  BY <1>0, <1>2 DEF Rehearsal!fatalFailure, Rehearsal!leaveTry,
     Rehearsal!Guest, Certified, Rehearsal!Stages
<1>3. CASE g.stage = "assertions" /\ h \in Rehearsal!hostAssertions(g)
  <2>1. PICK c \in Rehearsal!Readback :
          h = [Rehearsal!runCommand(g, c.ok) EXCEPT
                 !.stage = "cache", !.privileged = c.exact,
                 !.missed = @ \/ ~c.exact]
    BY <1>3 DEF Rehearsal!hostAssertions
  <2>2. h \in Rehearsal!Guest
    BY <2>1 DEF Rehearsal!runCommand, Rehearsal!Guest, Rehearsal!Stages,
           Rehearsal!Readback
  <2> QED
    BY <1>3, <2>1, <2>2 DEF Rehearsal!runCommand, Rehearsal!Guest, Certified,
           Rehearsal!Readback
<1>4. CASE g.stage = "cache" /\ h \in Rehearsal!materializeDependencyCache(g)
  BY <1>4 DEF Rehearsal!materializeDependencyCache, Rehearsal!runCommand,
     Rehearsal!Guest, Certified, Rehearsal!Stages
<1>5. CASE g.stage = "baby" /\ h \in Rehearsal!materializeBaby(g)
  <2>1. PICK c \in Rehearsal!Readback :
          h = [Rehearsal!materializeSource(g, c) EXCEPT
                 !.stage = "gateway", !.baby = c.exact]
    BY <1>5 DEF Rehearsal!materializeBaby
  <2>2. h \in Rehearsal!Guest
    BY <2>1 DEF Rehearsal!materializeSource,
           Rehearsal!runCommand, Rehearsal!Guest, Rehearsal!Stages,
           Rehearsal!Readback
  <2> QED
    BY <1>5, <2>1, <2>2 DEF Rehearsal!materializeSource,
           Rehearsal!runCommand, Rehearsal!Guest, Certified,
           Rehearsal!Readback
<1>6. CASE g.stage = "gateway" /\ h \in Rehearsal!materializeGateway(g)
  <2>1. PICK c \in Rehearsal!Readback :
          h = [Rehearsal!materializeSource(g, c) EXCEPT
                 !.stage = "babySuite", !.gateway = c.exact]
    BY <1>6 DEF Rehearsal!materializeGateway
  <2>2. h \in Rehearsal!Guest
    BY <2>1 DEF Rehearsal!materializeSource,
           Rehearsal!runCommand, Rehearsal!Guest, Rehearsal!Stages,
           Rehearsal!Readback
  <2> QED
    BY <1>6, <2>1, <2>2 DEF Rehearsal!materializeSource,
           Rehearsal!runCommand, Rehearsal!Guest, Certified
<1>7. CASE g.stage = "babySuite" /\ h \in Rehearsal!runBabySuite(g)
  <2>1. PICK ok \in BOOLEAN :
          h = [(IF g.baby /\ g.cache THEN Rehearsal!runCommand(g, ok)
                ELSE Rehearsal!recordSkipped(g)) EXCEPT !.stage = "gatewaySuite"]
    BY <1>7 DEF Rehearsal!runBabySuite
  <2>2. h \in Rehearsal!Guest
    BY <2>1 DEF Rehearsal!recordSkipped,
           Rehearsal!runCommand, Rehearsal!Guest, Rehearsal!Stages
  <2> QED
    BY <1>7, <2>1, <2>2 DEF Rehearsal!recordSkipped,
           Rehearsal!runCommand, Rehearsal!Guest, Certified
<1>8. CASE g.stage = "gatewaySuite" /\ h \in Rehearsal!runGatewaySuite(g)
  <2>1. PICK ok \in BOOLEAN :
          h = [(IF g.gateway /\ g.cache THEN Rehearsal!runCommand(g, ok)
                ELSE Rehearsal!recordSkipped(g)) EXCEPT !.stage = "cycles"]
    BY <1>8 DEF Rehearsal!runGatewaySuite
  <2>2. h \in Rehearsal!Guest
    BY <2>1 DEF Rehearsal!recordSkipped,
           Rehearsal!runCommand, Rehearsal!Guest, Rehearsal!Stages
  <2> QED
    BY <1>8, <2>1, <2>2 DEF Rehearsal!recordSkipped,
           Rehearsal!runCommand, Rehearsal!Guest, Certified
<1>9. CASE g.stage = "cycles" /\ h \in Rehearsal!runProductionShapedCycles(g)
  <2>1. CASE ~(g.baby /\ g.gateway /\ g.cache)
    <3>1. h = Rehearsal!leaveTry(Rehearsal!recordSkipped(g))
      BY <1>9, <2>1 DEF Rehearsal!runProductionShapedCycles
    <3> QED
      BY <1>9, <3>1 DEF Rehearsal!leaveTry, Rehearsal!recordSkipped,
         Rehearsal!Guest, Rehearsal!Stages, Certified
  <2>2. CASE g.baby /\ g.gateway /\ g.cache /\ g.cycle < Rehearsal!Cycles
    <3>1. h \in Rehearsal!runProductionShapedCycle(g)
      BY <1>9, <2>2 DEF Rehearsal!runProductionShapedCycles
    <3>0. g.cycle + 1 \in 0..Rehearsal!Cycles
      BY <2>2 DEF Rehearsal!Guest, Rehearsal!Cycles
    <3>2. CASE h = [Rehearsal!recordSkipped(g) EXCEPT !.cycle = @ + 1]
      BY <1>9, <2>2, <3>0, <3>2
      DEF Rehearsal!recordSkipped, Rehearsal!Guest, Certified
    <3>3. ASSUME NEW ok \in BOOLEAN,
                 h = [Rehearsal!runCommand(g, ok) EXCEPT !.cycle = @ + 1]
          PROVE  h \in Rehearsal!Guest /\ Certified(h) /\ g.result # "passed"
      BY <1>9, <2>2, <3>0, <3>3
      DEF Rehearsal!runCommand, Rehearsal!Guest, Certified
    <3> QED
      BY <3>1, <3>2, <3>3 DEF Rehearsal!runProductionShapedCycle
  <2>3. CASE /\ g.baby /\ g.gateway /\ g.cache
             /\ ~(g.cycle < Rehearsal!Cycles)
    <3>1. h = Rehearsal!leaveTry(g)
      BY <1>9, <2>3 DEF Rehearsal!runProductionShapedCycles
    <3>2. g.cycle = Rehearsal!Cycles
      BY <2>3 DEF Rehearsal!Guest, Rehearsal!Cycles
    <3> QED
      BY <1>9, <2>3, <3>1, <3>2
      DEF Rehearsal!leaveTry, Rehearsal!Guest, Rehearsal!Stages, Certified
  <2> QED
    BY <2>1, <2>2, <2>3
<1>10. CASE g.stage = "result" /\ h \in Rehearsal!emitResult(g)
  <2>1. PICK counted \in BOOLEAN :
          h = [g EXCEPT !.stage = "poweroff", !.privileged = FALSE,
                        !.failed = FALSE,
                        !.result = IF ~g.failed /\ g.privileged /\ counted
                                   THEN "passed" ELSE "failed"]
    BY <1>10 DEF Rehearsal!emitResult
  <2>2. h \in Rehearsal!Guest
    BY <2>1 DEF Rehearsal!Results, Rehearsal!Guest, Rehearsal!Stages
  <2> QED
    BY <1>10, <2>1, <2>2 DEF Rehearsal!Results, Rehearsal!Guest, Certified
<1> QED
  BY <1>0, <1>1, <1>2, <1>3, <1>4, <1>5, <1>6, <1>7, <1>8, <1>9, <1>10
  DEF Rehearsal!GuestSteps, Rehearsal!Stages

\* The names of a run are as they were.
SameNames(r) ==
  /\ dataset'[r] = dataset[r] /\ machine'[r] = machine[r]
  /\ receipt'[r] = receipt[r] /\ (evidence[r] => evidence'[r])

\* A step of one runner: only a runner that works on a run touches its names,
\* and it is the only one that does.
LEMMA RunnerMoves ==
  ASSUME RunInv, NEW p \in Runners, RunnerTypes', NameTypes', guest' = guest,
         \A q \in Runners \ {p} : at'[q] = at[q] /\ job'[q] = job[q],
         job'[p].run = job[p].run,
         \A r \in RunIds : r # job[p].run \/ at[p] \notin Working => SameNames(r),
         evidence[job[p].run] => evidence'[job[p].run],
         at[p] \in Working \/ at'[p] \notin Working \/ ~evidence[job[p].run],
         Knows(p)',
         Truthful(job[p].run)'
  PROVE  RunInv'
<1>0. /\ RunnerTypes /\ NameTypes /\ OneRunner
      /\ \A q \in Runners : Knows(q) /\ job[q].run \in RunIds
      /\ \A r \in RunIds : Certified(guest[r]) /\ Truthful(r)
  BY DEF RunInv, RunnerTypes, Rehearsal!RunState
<1>1. ASSUME NEW q \in Runners, q # p, at'[q] \in Working,
             at[p] \in Working \/ at'[p] \in Working
      PROVE  job[q].run # job[p].run
  <2>1. at[q] \in Working /\ evidence[job[q].run]
    BY <1>0, <1>1 DEF Knows
  <2> QED
    BY <1>0, <1>1, <2>1 DEF OneRunner
<1>2. OneRunner'
  BY <1>0, <1>1 DEF OneRunner
<1>3. ASSUME NEW q \in Runners PROVE Knows(q)'
  <2>1. CASE q = p
    BY <2>1
  <2>2. CASE q # p /\ at'[q] \notin Working
    BY <2>2 DEF Knows, Working, Judged, Cleaning
  <2>3. CASE q # p /\ at'[q] \in Working
    <3>1. SameNames(job[q].run)
      BY <1>0, <1>1, <2>3
    <3>2. at'[q] = at[q] /\ job'[q] = job[q] /\ Knows(q)
      BY <1>0, <2>3
    <3> QED
      BY <3>1, <3>2 DEF Knows, SameNames
  <2> QED
    BY <2>1, <2>2, <2>3
<1>4. ASSUME NEW r \in RunIds PROVE Truthful(r)'
  <2>1. CASE r = job[p].run
    BY <2>1
  <2>2. CASE r # job[p].run
    <3>1. SameNames(r) /\ Truthful(r)
      BY <1>0, <2>2
    <3> QED
      BY <3>1 DEF Truthful, SameNames
  <2> QED
    BY <2>1, <2>2
<1>5. \A r \in RunIds : Certified(guest[r])'
  BY <1>0 DEF Certified
<1> QED
  BY <1>2, <1>3, <1>4, <1>5 DEF RunInv

\* A runner that does not work on its run, before it or at its end.
LEMMA RunnerWaits ==
  ASSUME RunInv, NEW p \in Runners, RunnerTypes', NameTypes', guest' = guest,
         \A q \in Runners \ {p} : at'[q] = at[q] /\ job'[q] = job[q],
         job'[p].run = job[p].run,
         at'[p] \notin Working,
         \A r \in RunIds : SameNames(r)
  PROVE  RunInv'
<1>1. job[p].run \in RunIds
  BY DEF RunInv, RunnerTypes, Rehearsal!RunState
<1>2. Knows(p)'
  BY DEF Knows, Working, Judged, Cleaning
<1>3. Truthful(job[p].run)'
  <2>1. \A r \in RunIds : Truthful(r) /\ SameNames(r)
    BY DEF RunInv
  <2>2. \A r \in RunIds : Truthful(r)'
    BY <2>1 DEF Truthful, SameNames
  <2> QED
    BY <1>1, <2>2
<1>4. evidence[job[p].run] => evidence'[job[p].run]
  BY <1>1 DEF SameNames
<1> QED
  BY <1>2, <1>3, <1>4, RunnerMoves

\* The lock, the preflight and a death.
LEMMA WaitingSteps ==
  ASSUME RunInv, NEW p \in Runners,
         \/ Rehearsal!startRun(p) \/ Rehearsal!withLock(p)
         \/ Rehearsal!preflightPaths(p) \/ Rehearsal!preflightNames(p)
         \/ Rehearsal!runnerDies(p)
  PROVE  RunInv'
<1>0. RunnerTypes /\ NameTypes
  BY DEF RunInv
<1>1. UNCHANGED <<dataset, mounted, machine, evidence, guest, receipt>>
  BY DEF Rehearsal!startRun, Rehearsal!withLock, Rehearsal!createLock,
     Rehearsal!writeLockRecord, Rehearsal!examineLock,
     Rehearsal!renameStaleLock, Rehearsal!compareToken,
     Rehearsal!unlinkOwnLock, Rehearsal!preflightPaths,
     Rehearsal!preflightNames, Rehearsal!runnerDies, Rehearsal!hostSide
<1>2. NameTypes' /\ \A r \in RunIds : SameNames(r)
  BY <1>0, <1>1 DEF NameTypes, SameNames
<1>3. ASSUME Rehearsal!startRun(p) \/ Rehearsal!createLock(p)
             \/ Rehearsal!examineLock(p) \/ Rehearsal!compareToken(p)
             \/ Rehearsal!unlinkOwnLock(p) \/ Rehearsal!preflightPaths(p)
             \/ Rehearsal!preflightNames(p)
      PROVE  RunInv'
  <2>1. job' = job
    BY <1>3 DEF Rehearsal!startRun, Rehearsal!createLock,
       Rehearsal!examineLock, Rehearsal!compareToken,
       Rehearsal!unlinkOwnLock, Rehearsal!preflightPaths,
       Rehearsal!preflightNames
  <2>2. PICK c \in {"lock", "writeLock", "examine", "refused", "rename",
                    "unlink", "returned", "release", "inventory",
                    "initialize"} :
          /\ at' = [at EXCEPT ![p] = c]
          /\ c \in {"lock", "examine", "rename"} =>
               at[p] \in {"idle", "lock", "examine"}
    BY <1>3 DEF Rehearsal!startRun, Rehearsal!createLock,
       Rehearsal!examineLock, Rehearsal!compareToken,
       Rehearsal!unlinkOwnLock, Rehearsal!preflightPaths,
       Rehearsal!preflightNames, Rehearsal!goto
  <2>3. RunnerTypes'
    BY <1>0, <2>1, <2>2
    DEF RunnerTypes, Rehearsal!RunnerRunning, Rehearsal!RunnerEnded
  <2>4. at'[p] \notin Working /\ \A q \in Runners \ {p} : at'[q] = at[q]
    BY <1>0, <2>2 DEF RunnerTypes, Working, Judged, Cleaning
  <2> QED
    BY <1>1, <1>2, <2>1, <2>3, <2>4, RunnerWaits
<1>4. ASSUME Rehearsal!writeLockRecord(p) \/ Rehearsal!renameStaleLock(p)
      PROVE  RunInv'
  <2>1. PICK n \in 0..2 :
          /\ job' = [job EXCEPT ![p].tries = n]
          /\ \/ at' \in {[at EXCEPT ![p] = c] : c \in {"preflight", "refused"}}
             \/ at' = [at EXCEPT ![p] = "lock"] /\ n < 2
    <3>1. job[p].tries \in Nat
      BY <1>0 DEF RunnerTypes, Rehearsal!RunState
    <3>2. CASE Rehearsal!writeLockRecord(p)
      BY <3>2 DEF Rehearsal!writeLockRecord, Rehearsal!goto
    <3>3. CASE Rehearsal!renameStaleLock(p)
      <4>1. job[p].tries + 1 \in 0..2
        BY <1>0, <3>1, <3>3 DEF Rehearsal!renameStaleLock, RunnerTypes
      <4>2. /\ job' = [job EXCEPT ![p].tries = job[p].tries + 1]
            /\ \/ at' = [at EXCEPT ![p] = "refused"]
               \/ at' = [at EXCEPT ![p] = "lock"] /\ job[p].tries + 1 # 2
        BY <1>0, <3>3 DEF Rehearsal!renameStaleLock, Rehearsal!goto
      <4>3. job[p].tries + 1 # 2 => job[p].tries + 1 < 2
        BY <4>1
      <4>4. at' = [at EXCEPT ![p] = "refused"] =>
              at' \in {[at EXCEPT ![p] = c] : c \in {"preflight", "refused"}}
        OBVIOUS
      <4> WITNESS job[p].tries + 1 \in 0..2
      <4> QED
        BY <4>2, <4>3, <4>4
    <3> QED
      BY <1>4, <3>2, <3>3
  <2>2. RunnerTypes' /\ job'[p].run = job[p].run
    BY <1>0, <2>1
    DEF RunnerTypes, Rehearsal!RunnerRunning, Rehearsal!RunnerEnded,
        Rehearsal!RunState
  <2>3. /\ at'[p] \notin Working
        /\ \A q \in Runners \ {p} : at'[q] = at[q] /\ job'[q] = job[q]
    BY <1>0, <2>1 DEF RunnerTypes, Working, Judged, Cleaning
  <2> QED
    BY <1>1, <1>2, <2>2, <2>3, RunnerWaits
<1>5. ASSUME Rehearsal!runnerDies(p) PROVE RunInv'
  <2>1. /\ at' = [at EXCEPT ![p] = "dead"]
        /\ job' = [q \in Runners |-> IF q = p THEN Rehearsal!NewRun(job[q].run)
                                     ELSE job[q]]
    BY <1>5 DEF Rehearsal!runnerDies, Rehearsal!goto, Rehearsal!forget
  <2>2. /\ Rehearsal!NewRun(job[p].run) \in Rehearsal!RunState
        /\ Rehearsal!NewRun(job[p].run).run = job[p].run
    BY <1>0 DEF RunnerTypes, Rehearsal!NewRun, Rehearsal!RunState,
       Rehearsal!MachineCleanup, Rehearsal!CloneCleanup
  <2>3. RunnerTypes'
    BY <1>0, <2>1, <2>2 DEF RunnerTypes, Rehearsal!RunnerEnded
  <2>4. /\ at'[p] \notin Working /\ job'[p].run = job[p].run
        /\ \A q \in Runners \ {p} : at'[q] = at[q] /\ job'[q] = job[q]
    BY <1>0, <2>1, <2>2 DEF RunnerTypes, Working, Judged, Cleaning
  <2> QED
    BY <1>1, <1>2, <2>3, <2>4, RunnerWaits
<1> QED
  BY <1>3, <1>4, <1>5 DEF Rehearsal!withLock

\* Where a runner goes after it has left the lock behind.
Onward == Working \cup {"release"}

\* A step of the runner that works on a run, or of one that starts to: it is
\* left to show what the runner knows afterwards.
LEMMA RunnerWorks ==
  ASSUME RunInv, NEW p \in Runners, NEW c \in Onward, NEW j \in Rehearsal!RunState,
         \/ at[p] \in Working /\ evidence' = evidence
         \/ /\ at[p] = "initialize" /\ ~evidence[job[p].run]
            /\ evidence' = [evidence EXCEPT ![job[p].run] = TRUE]
            /\ UNCHANGED <<dataset, machine>>,
         at' = [at EXCEPT ![p] = c], job' = [job EXCEPT ![p] = j],
         j.run = job[p].run,
         dataset' \in [RunIds -> Rehearsal!Owner],
         machine' \in [RunIds -> Rehearsal!Owner],
         mounted' \in [RunIds -> BOOLEAN],
         \A r \in RunIds : r # job[p].run =>
           dataset'[r] = dataset[r] /\ machine'[r] = machine[r],
         UNCHANGED <<guest, receipt>>,
         Knows(p)'
  PROVE  RunInv'
<1>0. /\ RunnerTypes /\ NameTypes
      /\ Knows(p) /\ job[p].run \in RunIds /\ Truthful(job[p].run)
  BY DEF RunInv, RunnerTypes, Rehearsal!RunState
<1>1. RunnerTypes'
  BY <1>0 DEF RunnerTypes, Onward, Working, Judged, Cleaning,
              Rehearsal!RunnerRunning
<1>2. NameTypes'
  BY <1>0 DEF NameTypes
<1>3. \A q \in Runners \ {p} : at'[q] = at[q] /\ job'[q] = job[q]
  BY <1>0 DEF RunnerTypes
<1>4. job'[p].run = job[p].run
  BY <1>0 DEF RunnerTypes
<1>5. ASSUME NEW r \in RunIds, r # job[p].run \/ at[p] \notin Working
      PROVE  SameNames(r)
  BY <1>0, <1>5 DEF SameNames, NameTypes
<1>6. evidence[job[p].run] => evidence'[job[p].run]
  BY <1>0 DEF NameTypes
<1>7. receipt[job[p].run] = NoReceipt
  BY <1>0 DEF Knows, Truthful
<1>8. Truthful(job[p].run)'
  BY <1>4, <1>7 DEF Truthful
<1> QED
  BY <1>1, <1>2, <1>3, <1>4, <1>5, <1>6, <1>8, RunnerMoves

\* The mkdir of the evidence directory is what lets a runner work.
LEMMA InitializeStep ==
  ASSUME RunInv, NEW p \in Runners, Rehearsal!initializeRun(p)
  PROVE  RunInv'
<1>0. RunnerTypes /\ NameTypes /\ job[p].run \in RunIds /\ Truthful(job[p].run)
  BY DEF RunInv, RunnerTypes, Rehearsal!RunState
<1>1. /\ at[p] = "initialize" /\ job' = job
      /\ evidence' = [evidence EXCEPT ![job[p].run] = TRUE]
      /\ UNCHANGED <<dataset, mounted, machine, guest, receipt>>
  BY DEF Rehearsal!initializeRun, Rehearsal!Run
<1>2. CASE at' = [at EXCEPT ![p] = "release"]
  <2>1. RunnerTypes' /\ NameTypes'
    BY <1>0, <1>1, <1>2 DEF RunnerTypes, NameTypes, Rehearsal!RunnerRunning
  <2>2. \A r \in RunIds : SameNames(r)
    BY <1>0, <1>1 DEF SameNames, NameTypes
  <2>3. at'[p] \notin Working /\ \A q \in Runners \ {p} : at'[q] = at[q]
    BY <1>0, <1>2 DEF RunnerTypes, Working, Judged, Cleaning
  <2> QED
    BY <1>1, <2>1, <2>2, <2>3, RunnerWaits
<1>3. CASE at' = [at EXCEPT ![p] = "clone"] /\ ~evidence[job[p].run]
  <2>1. receipt[job[p].run] = NoReceipt
    BY <1>0, <1>3 DEF Truthful
  <2>2. at'[p] = "clone" /\ evidence'[job[p].run] /\ job'[p] = job[p]
        /\ receipt'[job[p].run] = NoReceipt
    BY <1>0, <1>1, <1>3, <2>1 DEF RunnerTypes, NameTypes
  <2>3. Knows(p)'
    BY <2>2 DEF Knows, Working, Judged, Cleaning
  <2>4. job[p] \in Rehearsal!RunState /\ job' = [job EXCEPT ![p] = job[p]]
    BY <1>0, <1>1 DEF RunnerTypes
  <2>5. "clone" \in Onward
    BY DEF Onward, Working
  <2> QED
    BY <1>0, <1>1, <1>3, <2>3, <2>4, <2>5, RunnerWorks DEF NameTypes
<1> QED
  BY <1>2, <1>3 DEF Rehearsal!initializeRun, Rehearsal!goto, Rehearsal!Run

\* A step that only asks.
LEMMA RunnerAsks ==
  ASSUME RunInv, NEW p \in Runners, at[p] \in Working,
         NEW c \in Onward, NEW j \in Rehearsal!RunState, j.run = job[p].run,
         at' = [at EXCEPT ![p] = c], job' = [job EXCEPT ![p] = j],
         UNCHANGED Rehearsal!hostSide,
         Knows(p)'
  PROVE  RunInv'
<1>1. NameTypes
  BY DEF RunInv
<1>2. UNCHANGED <<dataset, mounted, machine, evidence, guest, receipt>>
  BY DEF Rehearsal!hostSide
<1> QED
  BY <1>1, <1>2, RunnerWorks DEF NameTypes

\* What the runner asks before its guest runs and after it ended.
LEMMA AskingSteps ==
  ASSUME RunInv, NEW p \in Runners,
         \/ Rehearsal!inspectNewClone(p)
         \/ Rehearsal!verifyCertificationResult(p)
         \/ Rehearsal!capturePostRunEvidence(p)
         \/ Rehearsal!listMachines(p) \/ Rehearsal!showMachine(p)
         \/ Rehearsal!inspectForCleanup(p) \/ Rehearsal!recheckClone(p)
  PROVE  RunInv'
<1>0. RunnerTypes /\ NameTypes /\ Knows(p) /\ job[p] \in Rehearsal!RunState
      /\ job[p].run \in RunIds
  BY DEF RunInv, RunnerTypes, Rehearsal!RunState
<1>a. UNCHANGED Rehearsal!hostSide
      /\ UNCHANGED <<dataset, machine, evidence, guest, receipt>>
  BY DEF Rehearsal!inspectNewClone, Rehearsal!verifyCertificationResult,
     Rehearsal!capturePostRunEvidence, Rehearsal!listMachines,
     Rehearsal!showMachine, Rehearsal!inspectForCleanup,
     Rehearsal!recheckClone, Rehearsal!hostSide
<1>b. at[p] \in Working
  BY DEF Rehearsal!inspectNewClone, Rehearsal!verifyCertificationResult,
     Rehearsal!capturePostRunEvidence, Rehearsal!listMachines,
     Rehearsal!showMachine, Rehearsal!inspectForCleanup,
     Rehearsal!recheckClone, Working, Judged, Cleaning
<1>c. evidence[job[p].run] /\ receipt[job[p].run] = NoReceipt
  BY <1>0, <1>b DEF Knows
<1>1. CASE Rehearsal!inspectNewClone(p)
  <2>1. PICK owned \in BOOLEAN, good \in BOOLEAN :
          /\ job' = [job EXCEPT ![p].cloneOwned = owned, ![p].error = ~good]
          /\ at' = [at EXCEPT ![p] = IF good THEN "mount" ELSE "capture"]
    BY <1>1 DEF Rehearsal!inspectNewClone, Rehearsal!goto
  <2> DEFINE j == [job[p] EXCEPT !.cloneOwned = owned, !.error = ~good]
             c == IF good THEN "mount" ELSE "capture"
  <2>2. j \in Rehearsal!RunState /\ j.run = job[p].run
        /\ j.cloneAttempted = job[p].cloneAttempted
        /\ (c = "capture" => j.error)
    BY <1>0 DEF Rehearsal!RunState
  <2>3. job' = [job EXCEPT ![p] = j] /\ job'[p] = j /\ at'[p] = c
    BY <1>0, <2>1 DEF RunnerTypes
  <2>4. job[p].cloneAttempted
    BY <1>0, <1>1 DEF Rehearsal!inspectNewClone, Knows, Working
  <2>5. Knows(p)'
    BY <1>a, <1>c, <2>2, <2>3, <2>4 DEF Knows, Working, Judged, Cleaning
  <2> QED
    BY <1>a, <1>b, <2>1, <2>2, <2>3, <2>5, RunnerAsks
    DEF Onward, Working, Judged
<1>2. CASE Rehearsal!verifyCertificationResult(p)
  <2> DEFINE bad == guest[job[p].run].result # "passed"
             j == [job[p] EXCEPT !.error = bad]
  <2>1. /\ at[p] = "verify" /\ at' = [at EXCEPT ![p] = "capture"]
        /\ job' = [job EXCEPT ![p] = j]
    BY <1>2 DEF Rehearsal!verifyCertificationResult, Rehearsal!goto,
                Rehearsal!Run
  <2>2. /\ j \in Rehearsal!RunState /\ j.run = job[p].run /\ j.error = bad
        /\ j.cloneAttempted = job[p].cloneAttempted
        /\ j.bootAttempted = job[p].bootAttempted
    BY <1>0 DEF Rehearsal!RunState
  <2>3. job'[p] = j /\ at'[p] = "capture"
    BY <1>0, <2>1 DEF RunnerTypes
  <2>4. job[p].cloneAttempted /\ job[p].bootAttempted
    BY <1>0, <2>1 DEF Knows, Working
  <2>5. Knows(p)'
    BY <1>a, <1>c, <2>2, <2>3, <2>4 DEF Knows, Working, Judged, Cleaning
  <2> QED
    BY <1>a, <1>b, <2>1, <2>2, <2>5, RunnerAsks DEF Onward, Working, Judged
<1>3. CASE Rehearsal!capturePostRunEvidence(p)
  <2>1. PICK e \in BOOLEAN :
          /\ at[p] = "capture" /\ at' = [at EXCEPT ![p] = "machines"]
          /\ job' = [job EXCEPT ![p] = [job[p] EXCEPT !.error = e]]
          /\ job[p].error => e
    <3>1. job[p] = [job[p] EXCEPT !.error = job[p].error]
          /\ job[p].error \in BOOLEAN
      BY <1>0 DEF Rehearsal!RunState
    <3>2. job = [job EXCEPT ![p] = [job[p] EXCEPT !.error = job[p].error]]
      BY <1>0, <3>1 DEF RunnerTypes
    <3> QED
      BY <1>3, <3>1, <3>2
      DEF Rehearsal!capturePostRunEvidence, Rehearsal!goto
  <2> DEFINE j == [job[p] EXCEPT !.error = e]
  <2>2. /\ j \in Rehearsal!RunState /\ j.run = job[p].run /\ j.error = e
        /\ j.cloneAttempted = job[p].cloneAttempted
        /\ j.bootAttempted = job[p].bootAttempted
    BY <1>0 DEF Rehearsal!RunState
  <2>3. job'[p] = j /\ at'[p] = "machines"
    BY <1>0, <2>1 DEF RunnerTypes
  <2>4. /\ job[p].cloneAttempted
        /\ ~job[p].error => /\ job[p].bootAttempted
                            /\ guest[job[p].run].result = "passed"
    BY <1>0, <2>1 DEF Knows, Working, Judged
  <2>5. Knows(p)'
    BY <1>a, <1>c, <2>1, <2>2, <2>3, <2>4 DEF Knows, Working, Judged, Cleaning
  <2> QED
    BY <1>a, <1>b, <2>1, <2>2, <2>5, RunnerAsks DEF Onward, Working, Judged
<1>4. CASE Rehearsal!listMachines(p)
  <2>1. PICK m \in Rehearsal!MachineCleanup, c \in {"showMachine", "cleanClone"} :
          /\ at[p] = "machines" /\ at' = [at EXCEPT ![p] = c]
          /\ job' = [job EXCEPT ![p] = [job[p] EXCEPT !.machine = m]]
          /\ job[p].bootAttempted /\ m # Rehearsal!Manual => m = "stopped"
          /\ c = "cleanClone" /\ m # Rehearsal!Manual =>
               machine[job[p].run] # "own"
    <3>1. CASE job' = [job EXCEPT ![p].machine = Rehearsal!Manual]
               /\ at' = [at EXCEPT ![p] = "cleanClone"]
      BY <1>4, <3>1 DEF Rehearsal!listMachines, Rehearsal!Manual,
         Rehearsal!MachineCleanup
    <3>2. CASE /\ job' = [job EXCEPT ![p].machine =
                            IF job[p].bootAttempted THEN "stopped"
                            ELSE "not_started"]
               /\ at' = [at EXCEPT ![p] =
                           IF machine[job[p].run] # "none" THEN "showMachine"
                           ELSE "cleanClone"]
      BY <1>4, <3>2 DEF Rehearsal!listMachines, Rehearsal!Manual,
         Rehearsal!MachineCleanup
    <3> QED
      BY <1>4, <3>1, <3>2
      DEF Rehearsal!listMachines, Rehearsal!goto, Rehearsal!Run
  <2> DEFINE j == [job[p] EXCEPT !.machine = m]
  <2>2. /\ j \in Rehearsal!RunState /\ j.run = job[p].run /\ j.machine = m
        /\ j.cloneAttempted = job[p].cloneAttempted
        /\ j.bootAttempted = job[p].bootAttempted /\ j.error = job[p].error
    BY <1>0 DEF Rehearsal!RunState
  <2>3. job'[p] = j /\ at'[p] = c
    BY <1>0, <2>1 DEF RunnerTypes
  <2>4. /\ job[p].cloneAttempted
        /\ ~job[p].error => /\ job[p].bootAttempted
                            /\ guest[job[p].run].result = "passed"
    BY <1>0, <2>1 DEF Knows, Working, Judged
  <2>5. Knows(p)'
    BY <1>a, <1>c, <2>1, <2>2, <2>3, <2>4 DEF Knows, Working, Judged, Cleaning
  <2> QED
    BY <1>a, <1>b, <2>1, <2>2, <2>5, RunnerAsks
    DEF Onward, Working, Judged, Cleaning
<1>5. CASE Rehearsal!showMachine(p)
  <2>1. PICK m \in Rehearsal!MachineCleanup, c \in {"terminate", "cleanClone"} :
          /\ at[p] = "showMachine" /\ at' = [at EXCEPT ![p] = c]
          /\ job' = [job EXCEPT ![p] = [job[p] EXCEPT !.machine = m]]
          /\ \/ c = "cleanClone" /\ m = Rehearsal!Manual
             \/ /\ c = "terminate" /\ m = job[p].machine
                /\ machine[job[p].run] = "own"
    <3>1. job[p] = [job[p] EXCEPT !.machine = job[p].machine]
          /\ job[p].machine \in Rehearsal!MachineCleanup
      BY <1>0 DEF Rehearsal!RunState
    <3>2. job = [job EXCEPT ![p] = [job[p] EXCEPT !.machine = job[p].machine]]
      BY <1>0, <3>1 DEF RunnerTypes
    <3>3. Rehearsal!Manual \in Rehearsal!MachineCleanup
      BY DEF Rehearsal!Manual, Rehearsal!MachineCleanup
    <3> QED
      BY <1>5, <3>1, <3>2, <3>3
      DEF Rehearsal!showMachine, Rehearsal!goto, Rehearsal!Run
  <2> DEFINE j == [job[p] EXCEPT !.machine = m]
  <2>2. /\ j \in Rehearsal!RunState /\ j.run = job[p].run /\ j.machine = m
        /\ j.cloneAttempted = job[p].cloneAttempted
        /\ j.bootAttempted = job[p].bootAttempted /\ j.error = job[p].error
    BY <1>0 DEF Rehearsal!RunState
  <2>3. job'[p] = j /\ at'[p] = c
    BY <1>0, <2>1 DEF RunnerTypes
  <2>4. /\ job[p].cloneAttempted
        /\ ~job[p].error => /\ job[p].bootAttempted
                            /\ guest[job[p].run].result = "passed"
        /\ job[p].bootAttempted /\ job[p].machine # Rehearsal!Manual =>
             job[p].machine = "stopped"
    BY <1>0, <2>1 DEF Knows, Working, Judged
  <2>5. Knows(p)'
    BY <1>a, <1>c, <2>1, <2>2, <2>3, <2>4 DEF Knows, Working, Judged, Cleaning
  <2> QED
    BY <1>a, <1>b, <2>1, <2>2, <2>5, RunnerAsks
    DEF Onward, Working, Judged, Cleaning
<1>6. CASE Rehearsal!inspectForCleanup(p) \/ Rehearsal!recheckClone(p)
  <2>0. job[p].cloneAttempted /\ at[p] \in {"cleanClone", "recheck"}
    BY <1>0, <1>6 DEF Rehearsal!inspectForCleanup, Rehearsal!recheckClone,
       Knows, Working, Judged, Cleaning
  <2>1. PICK k \in Rehearsal!CloneCleanup, c \in {"unmount", "destroy", "finalize"} :
          /\ at' = [at EXCEPT ![p] = c]
          /\ job' = [job EXCEPT ![p] = [job[p] EXCEPT !.clone = k]]
          /\ \/ c = "finalize" /\ k = Rehearsal!Manual
             \/ /\ c = "finalize" /\ k = "destroyed"
                /\ dataset[job[p].run] = "none"
             \/ c \in {"unmount", "destroy"} /\ dataset[job[p].run] = "own"
    <3>1. job[p] = [job[p] EXCEPT !.clone = job[p].clone]
          /\ job[p].clone \in Rehearsal!CloneCleanup
      BY <1>0 DEF Rehearsal!RunState
    <3>2. job = [job EXCEPT ![p] = [job[p] EXCEPT !.clone = job[p].clone]]
      BY <1>0, <3>1 DEF RunnerTypes
    <3>3. {Rehearsal!Manual, "destroyed"} \subseteq Rehearsal!CloneCleanup
      BY DEF Rehearsal!Manual, Rehearsal!CloneCleanup
    <3>4. CASE Rehearsal!recheckClone(p)
      BY <3>3, <3>4 DEF Rehearsal!recheckClone, Rehearsal!goto, Rehearsal!Run
    <3>5. CASE Rehearsal!inspectForCleanup(p)
      <4>1. \/ /\ dataset[job[p].run] = "none"
               /\ job' = [job EXCEPT ![p].clone = "destroyed"]
               /\ at' = [at EXCEPT ![p] = "finalize"]
            \/ /\ dataset[job[p].run] = "own" /\ job' = job
               /\ at' \in {[at EXCEPT ![p] = x] : x \in {"unmount", "destroy"}}
            \/ /\ job' = [job EXCEPT ![p].clone = Rehearsal!Manual]
               /\ at' = [at EXCEPT ![p] = "finalize"]
        BY <2>0, <3>5 DEF Rehearsal!inspectForCleanup, Rehearsal!goto,
           Rehearsal!Run, Rehearsal!isOwnedClone
      <4> QED
        BY <3>1, <3>2, <3>3, <4>1
    <3> QED
      BY <1>6, <3>4, <3>5
  <2> DEFINE j == [job[p] EXCEPT !.clone = k]
  <2>2. /\ j \in Rehearsal!RunState /\ j.run = job[p].run /\ j.clone = k
        /\ j.cloneAttempted = job[p].cloneAttempted
        /\ j.bootAttempted = job[p].bootAttempted /\ j.error = job[p].error
        /\ j.machine = job[p].machine
    BY <1>0 DEF Rehearsal!RunState
  <2>3. job'[p] = j /\ at'[p] = c
    BY <1>0, <2>1 DEF RunnerTypes
  <2>4. /\ ~job[p].error => /\ job[p].bootAttempted
                            /\ guest[job[p].run].result = "passed"
        /\ job[p].bootAttempted /\ job[p].machine # Rehearsal!Manual =>
             job[p].machine = "stopped"
        /\ job[p].machine # Rehearsal!Manual => machine[job[p].run] # "own"
    BY <1>0, <2>0 DEF Knows, Working, Judged, Cleaning
  <2>5. Knows(p)'
    BY <1>a, <1>c, <2>0, <2>1, <2>2, <2>3, <2>4
    DEF Knows, Working, Judged, Cleaning
  <2> QED
    BY <1>a, <1>b, <2>1, <2>2, <2>5, RunnerAsks
    DEF Onward, Working, Judged, Cleaning
<1> QED
  BY <1>1, <1>2, <1>3, <1>4, <1>5, <1>6

\* The clone is made, mounted and booted.
LEMMA BuildingSteps ==
  ASSUME RunInv, NEW p \in Runners,
         \/ Rehearsal!cloneDataset(p) \/ Rehearsal!mountAndVerify(p)
         \/ Rehearsal!boot(p) \/ Rehearsal!bootEnds(p)
  PROVE  RunInv'
<1>0. RunnerTypes /\ NameTypes /\ Knows(p) /\ job[p] \in Rehearsal!RunState
      /\ job[p].run \in RunIds
  BY DEF RunInv, RunnerTypes, Rehearsal!RunState
<1>a. UNCHANGED <<evidence, guest, receipt>>
  BY DEF Rehearsal!cloneDataset, Rehearsal!mountAndVerify, Rehearsal!boot,
     Rehearsal!bootEnds
<1>b. at[p] \in Working
  BY DEF Rehearsal!cloneDataset, Rehearsal!mountAndVerify, Rehearsal!boot,
     Rehearsal!bootEnds, Working
<1>c. evidence[job[p].run] /\ receipt[job[p].run] = NoReceipt
  BY <1>0, <1>b DEF Knows
<1>d. \A x \in {"inspectClone", "boot", "booted", "verify", "capture"} :
        x \in Onward
  BY DEF Onward, Working, Judged
<1>1. CASE Rehearsal!cloneDataset(p)
  <2>1. PICK run \in Rehearsal!Executed :
          /\ at' = [at EXCEPT ![p] = "inspectClone"]
          /\ dataset' = IF run.lands THEN [dataset EXCEPT ![job[p].run] = "own"]
                        ELSE dataset
          /\ job' = [job EXCEPT ![p] = [job[p] EXCEPT !.ok = run.ok,
                                                      !.cloneAttempted = TRUE]]
          /\ UNCHANGED <<mounted, machine>>
    BY <1>1 DEF Rehearsal!cloneDataset, Rehearsal!goto, Rehearsal!Run
  <2> DEFINE j == [job[p] EXCEPT !.ok = run.ok, !.cloneAttempted = TRUE]
  <2>2. run.ok \in BOOLEAN
    BY DEF Rehearsal!Executed
  <2>3. j \in Rehearsal!RunState /\ j.run = job[p].run /\ j.cloneAttempted
    BY <1>0, <2>2 DEF Rehearsal!RunState
  <2>4. job'[p] = j /\ at'[p] = "inspectClone"
    BY <1>0, <2>1 DEF RunnerTypes
  <2>5. Knows(p)'
    BY <1>a, <1>c, <2>3, <2>4 DEF Knows, Working, Judged, Cleaning
  <2>6. /\ dataset' \in [RunIds -> Rehearsal!Owner]
        /\ \A r \in RunIds : r # job[p].run => dataset'[r] = dataset[r]
    BY <1>0, <2>1 DEF NameTypes, Rehearsal!Owner
  <2> QED
    BY <1>0, <1>a, <1>b, <1>d, <2>1, <2>3, <2>5, <2>6, RunnerWorks
    DEF NameTypes
<1>2. CASE Rehearsal!mountAndVerify(p)
  <2>1. PICK ok \in BOOLEAN :
          /\ at[p] = "mount"
          /\ at' = [at EXCEPT ![p] = IF ok THEN "boot" ELSE "capture"]
          /\ job' = [job EXCEPT ![p] = [job[p] EXCEPT !.error = ~ok]]
    BY <1>2 DEF Rehearsal!mountAndVerify, Rehearsal!goto, Rehearsal!Executed
  <2> DEFINE j == [job[p] EXCEPT !.error = ~ok]
             c == IF ok THEN "boot" ELSE "capture"
  <2>2. /\ j \in Rehearsal!RunState /\ j.run = job[p].run
        /\ j.cloneAttempted = job[p].cloneAttempted /\ (c = "capture" => j.error)
    BY <1>0 DEF Rehearsal!RunState
  <2>3. job'[p] = j /\ at'[p] = c /\ job[p].cloneAttempted
    BY <1>0, <2>1 DEF RunnerTypes, Knows, Working
  <2>4. Knows(p)'
    BY <1>a, <1>c, <2>2, <2>3 DEF Knows, Working, Judged, Cleaning
  <2>5. mounted' \in [RunIds -> BOOLEAN] /\ UNCHANGED <<dataset, machine>>
    BY <1>0, <1>2 DEF Rehearsal!mountAndVerify, Rehearsal!Run, NameTypes,
       Rehearsal!Executed
  <2> QED
    BY <1>0, <1>a, <1>b, <1>d, <2>1, <2>2, <2>4, <2>5, RunnerWorks
    DEF NameTypes
<1>3. CASE Rehearsal!boot(p)
  <2>1. PICK e \in BOOLEAN :
          /\ at[p] = "boot"
          /\ at' = [at EXCEPT ![p] = IF e THEN "capture" ELSE "booted"]
          /\ job' = [job EXCEPT ![p] = [job[p] EXCEPT !.bootAttempted = TRUE,
                                          !.error = e \/ job[p].error]]
          /\ machine' = IF e THEN machine
                        ELSE [machine EXCEPT ![job[p].run] = "own"]
          /\ UNCHANGED <<dataset, mounted>>
    <3>1. job[p].error \in BOOLEAN
      BY <1>0 DEF Rehearsal!RunState
    <3>2. [job[p] EXCEPT !.bootAttempted = TRUE] =
            [job[p] EXCEPT !.bootAttempted = TRUE,
                           !.error = FALSE \/ job[p].error]
      BY <1>0, <3>1 DEF Rehearsal!RunState
    <3> QED
      BY <1>3, <3>2 DEF Rehearsal!boot, Rehearsal!goto, Rehearsal!Run
  <2> DEFINE j == [job[p] EXCEPT !.bootAttempted = TRUE,
                                 !.error = e \/ job[p].error]
             c == IF e THEN "capture" ELSE "booted"
  <2>2. /\ j \in Rehearsal!RunState /\ j.run = job[p].run /\ j.bootAttempted
        /\ j.cloneAttempted = job[p].cloneAttempted /\ (c = "capture" => j.error)
    BY <1>0 DEF Rehearsal!RunState
  <2>3. job'[p] = j /\ at'[p] = c /\ job[p].cloneAttempted
    BY <1>0, <2>1 DEF RunnerTypes, Knows, Working
  <2>4. Knows(p)'
    BY <1>a, <1>c, <2>2, <2>3 DEF Knows, Working, Judged, Cleaning
  <2>5. /\ machine' \in [RunIds -> Rehearsal!Owner]
        /\ \A r \in RunIds : r # job[p].run => machine'[r] = machine[r]
    BY <1>0, <2>1 DEF NameTypes, Rehearsal!Owner
  <2> QED
    BY <1>0, <1>a, <1>b, <1>d, <2>1, <2>2, <2>4, <2>5, RunnerWorks
    DEF NameTypes
<1>4. CASE Rehearsal!bootEnds(p)
  <2>1. PICK ok \in BOOLEAN :
          /\ at[p] = "booted"
          /\ at' = [at EXCEPT ![p] = IF ok THEN "verify" ELSE "capture"]
          /\ job' = [job EXCEPT ![p] = [job[p] EXCEPT !.error = ~ok]]
          /\ machine' \in {machine, [machine EXCEPT ![job[p].run] = "none"]}
          /\ UNCHANGED <<dataset, mounted>>
    BY <1>4 DEF Rehearsal!bootEnds, Rehearsal!goto, Rehearsal!Run
  <2> DEFINE j == [job[p] EXCEPT !.error = ~ok]
             c == IF ok THEN "verify" ELSE "capture"
  <2>2. /\ j \in Rehearsal!RunState /\ j.run = job[p].run
        /\ j.bootAttempted = job[p].bootAttempted
        /\ j.cloneAttempted = job[p].cloneAttempted /\ (c = "capture" => j.error)
    BY <1>0 DEF Rehearsal!RunState
  <2>3. /\ job'[p] = j /\ at'[p] = c
        /\ job[p].cloneAttempted /\ job[p].bootAttempted
    BY <1>0, <2>1 DEF RunnerTypes, Knows, Working
  <2>4. Knows(p)'
    BY <1>a, <1>c, <2>2, <2>3 DEF Knows, Working, Judged, Cleaning
  <2>5. /\ machine' \in [RunIds -> Rehearsal!Owner]
        /\ \A r \in RunIds : r # job[p].run => machine'[r] = machine[r]
    BY <1>0, <2>1 DEF NameTypes, Rehearsal!Owner
  <2> QED
    BY <1>0, <1>a, <1>b, <1>d, <2>1, <2>2, <2>4, <2>5, RunnerWorks
    DEF NameTypes
<1> QED
  BY <1>1, <1>2, <1>3, <1>4

\* The machine is terminated, the clone unmounted and destroyed.
LEMMA DestroyingSteps ==
  ASSUME RunInv, NEW p \in Runners,
         \/ Rehearsal!terminateMachine(p) \/ Rehearsal!unmountClone(p)
         \/ Rehearsal!destroyClone(p)
  PROVE  RunInv'
<1>0. RunnerTypes /\ NameTypes /\ Knows(p) /\ job[p] \in Rehearsal!RunState
      /\ job[p].run \in RunIds
  BY DEF RunInv, RunnerTypes, Rehearsal!RunState
<1>a. UNCHANGED <<evidence, guest, receipt>>
  BY DEF Rehearsal!terminateMachine, Rehearsal!unmountClone,
     Rehearsal!destroyClone
<1>b. at[p] \in Working /\ at[p] \in Judged /\ at[p] # "clone"
  BY DEF Rehearsal!terminateMachine, Rehearsal!unmountClone,
     Rehearsal!destroyClone, Working, Judged, Cleaning
<1>c. /\ evidence[job[p].run] /\ receipt[job[p].run] = NoReceipt
      /\ job[p].cloneAttempted
      /\ ~job[p].error => /\ job[p].bootAttempted
                          /\ guest[job[p].run].result = "passed"
  BY <1>0, <1>b DEF Knows
<1>d. /\ Rehearsal!Manual \in Rehearsal!MachineCleanup
      /\ Rehearsal!Manual \in Rehearsal!CloneCleanup
      /\ job[p].machine \in Rehearsal!MachineCleanup
      /\ job[p].clone \in Rehearsal!CloneCleanup
      /\ \A x \in Cleaning : x \in Onward
  BY <1>0 DEF Rehearsal!Manual, Rehearsal!MachineCleanup,
     Rehearsal!CloneCleanup, Rehearsal!RunState, Onward, Working, Judged
<1>1. CASE Rehearsal!terminateMachine(p)
  <2>1. PICK m \in {Rehearsal!Manual, job[p].machine} :
          /\ at[p] = "terminate" /\ at' = [at EXCEPT ![p] = "cleanClone"]
          /\ job' = [job EXCEPT ![p] = [job[p] EXCEPT !.machine = m]]
          /\ machine' \in {machine, [machine EXCEPT ![job[p].run] = "none"]}
          /\ m = Rehearsal!Manual \/ machine'[job[p].run] = "none"
          /\ UNCHANGED <<dataset, mounted>>
    BY <1>1 DEF Rehearsal!terminateMachine, Rehearsal!goto, Rehearsal!Run
  <2> DEFINE j == [job[p] EXCEPT !.machine = m]
  <2>2. /\ j \in Rehearsal!RunState /\ j.run = job[p].run /\ j.machine = m
        /\ j.cloneAttempted = job[p].cloneAttempted
        /\ j.bootAttempted = job[p].bootAttempted /\ j.error = job[p].error
    BY <1>0, <1>d DEF Rehearsal!RunState
  <2>3. /\ job'[p] = j /\ at'[p] = "cleanClone"
        /\ job[p].bootAttempted /\ job[p].machine # Rehearsal!Manual =>
             job[p].machine = "stopped"
    BY <1>0, <2>1 DEF RunnerTypes, Knows
  <2>4. Knows(p)'
    BY <1>a, <1>c, <2>1, <2>2, <2>3 DEF Knows, Working, Judged, Cleaning
  <2>5. /\ machine' \in [RunIds -> Rehearsal!Owner]
        /\ \A r \in RunIds : r # job[p].run => machine'[r] = machine[r]
    BY <1>0, <2>1 DEF NameTypes, Rehearsal!Owner
  <2> QED
    BY <1>0, <1>a, <1>b, <1>d, <2>1, <2>2, <2>4, <2>5, RunnerWorks
    DEF NameTypes, Cleaning
<1>2. CASE Rehearsal!unmountClone(p) \/ Rehearsal!destroyClone(p)
  <2>0. /\ job[p].bootAttempted /\ job[p].machine # Rehearsal!Manual =>
             job[p].machine = "stopped"
        /\ job[p].machine # Rehearsal!Manual => machine[job[p].run] # "own"
        /\ dataset[job[p].run] = "own"
    BY <1>0, <1>2 DEF Rehearsal!unmountClone, Rehearsal!destroyClone, Knows,
       Cleaning
  <2>1. PICK k \in {Rehearsal!Manual, job[p].clone},
             c \in {"destroy", "recheck", "finalize"} :
          /\ at' = [at EXCEPT ![p] = c]
          /\ job' = [job EXCEPT ![p] = [job[p] EXCEPT !.clone = k]]
          /\ dataset' \in {dataset, [dataset EXCEPT ![job[p].run] = "none"]}
          /\ c = "destroy" => dataset' = dataset
          /\ c = "finalize" => k = Rehearsal!Manual
          /\ machine' = machine
    <3>1. job = [job EXCEPT ![p] = [job[p] EXCEPT !.clone = job[p].clone]]
      BY <1>0 DEF RunnerTypes, Rehearsal!RunState
    <3>2. CASE Rehearsal!unmountClone(p)
      BY <3>1, <3>2 DEF Rehearsal!unmountClone, Rehearsal!goto
    <3>3. CASE Rehearsal!destroyClone(p)
      BY <3>1, <3>3 DEF Rehearsal!destroyClone, Rehearsal!goto, Rehearsal!Run
    <3> QED
      BY <1>2, <3>2, <3>3
  <2> DEFINE j == [job[p] EXCEPT !.clone = k]
  <2>2. /\ j \in Rehearsal!RunState /\ j.run = job[p].run /\ j.clone = k
        /\ j.cloneAttempted = job[p].cloneAttempted
        /\ j.bootAttempted = job[p].bootAttempted /\ j.error = job[p].error
        /\ j.machine = job[p].machine
    BY <1>0, <1>d DEF Rehearsal!RunState
  <2>3. job'[p] = j /\ at'[p] = c
    BY <1>0, <2>1 DEF RunnerTypes
  <2>4. Knows(p)'
    <3>1. /\ job'[p].run = job[p].run /\ job'[p].cloneAttempted
          /\ job'[p].bootAttempted = job[p].bootAttempted
          /\ job'[p].error = job[p].error
          /\ job'[p].machine = job[p].machine /\ job'[p].clone = k
      BY <1>c, <2>2, <2>3
    <3>2. CASE c = "destroy"
      BY <1>a, <1>c, <2>0, <2>1, <2>3, <3>1, <3>2
      DEF Knows, Working, Judged, Cleaning
    <3>3. CASE c = "recheck"
      BY <1>a, <1>c, <2>0, <2>1, <2>3, <3>1, <3>3
      DEF Knows, Working, Judged, Cleaning
    <3>4. CASE c = "finalize"
      BY <1>a, <1>c, <2>0, <2>1, <2>3, <3>1, <3>4
      DEF Knows, Working, Judged, Cleaning
    <3> QED
      BY <3>2, <3>3, <3>4
  <2>5. /\ dataset' \in [RunIds -> Rehearsal!Owner]
        /\ \A r \in RunIds : r # job[p].run => dataset'[r] = dataset[r]
    BY <1>0, <2>1 DEF NameTypes, Rehearsal!Owner
  <2>6. mounted' \in [RunIds -> BOOLEAN]
    BY <1>0, <1>2 DEF Rehearsal!unmountClone, Rehearsal!destroyClone,
       Rehearsal!Run, Rehearsal!Executed, NameTypes
  <2> QED
    BY <1>0, <1>a, <1>b, <1>d, <2>1, <2>2, <2>4, <2>5, <2>6, RunnerWorks
    DEF NameTypes, Cleaning
<1> QED
  BY <1>1, <1>2

\* The receipt says what the runner knows.
LEMMA FinalizeStep ==
  ASSUME RunInv, NEW p \in Runners, Rehearsal!finalizeReceipt(p)
  PROVE  RunInv'
<1> DEFINE j == job[p]
           r == job[p].run
           said == [outcome |-> IF \/ j.error
                                   \/ Rehearsal!Manual \in {j.machine, j.clone}
                                THEN "failed" ELSE "passed",
                    machine |-> j.machine, clone |-> j.clone,
                    result |-> guest[r].result]
<1>0. RunnerTypes /\ NameTypes /\ Knows(p) /\ j \in Rehearsal!RunState
      /\ r \in RunIds
  BY DEF RunInv, RunnerTypes, Rehearsal!RunState
<1>1. /\ at[p] = "finalize" /\ at' = [at EXCEPT ![p] = "release"]
      /\ job' = [q \in Runners |-> IF q = p THEN Rehearsal!NewRun(job[q].run)
                                   ELSE job[q]]
      /\ receipt' \in {receipt, [receipt EXCEPT ![r] = said]}
      /\ UNCHANGED <<dataset, mounted, machine, evidence, guest>>
  BY DEF Rehearsal!finalizeReceipt, Rehearsal!goto, Rehearsal!forget,
         Rehearsal!Run
<1>2. /\ Rehearsal!NewRun(r) \in Rehearsal!RunState
      /\ Rehearsal!NewRun(r).run = r
  BY <1>0 DEF Rehearsal!NewRun, Rehearsal!RunState,
     Rehearsal!MachineCleanup, Rehearsal!CloneCleanup
<1>3. RunnerTypes'
  BY <1>0, <1>1, <1>2 DEF RunnerTypes, Rehearsal!RunnerRunning
<1>4. said \in Rehearsal!Receipt
  BY <1>0 DEF Rehearsal!Receipt, Rehearsal!RunState, NameTypes,
     Rehearsal!Guest
<1>5. NameTypes'
  BY <1>0, <1>1, <1>4 DEF NameTypes
<1>6. /\ evidence[r]
      /\ ~j.error => j.bootAttempted /\ guest[r].result = "passed"
      /\ j.bootAttempted /\ j.machine # Rehearsal!Manual => j.machine = "stopped"
      /\ j.machine # Rehearsal!Manual => machine[r] # "own"
      /\ j.clone # Rehearsal!Manual => dataset[r] # "own" /\ j.clone = "destroyed"
  BY <1>0, <1>1 DEF Knows, Working, Judged, Cleaning
<1>7. at'[p] \notin Working /\ job'[p].run = r
      /\ \A q \in Runners \ {p} : at'[q] = at[q] /\ job'[q] = job[q]
  BY <1>0, <1>1, <1>2 DEF RunnerTypes, Working, Judged, Cleaning
<1>8. Knows(p)'
  BY <1>7 DEF Knows, Working, Judged, Cleaning
<1>9. Truthful(r)
  BY <1>0 DEF RunInv
<1>10. Truthful(job[p].run)'
  <2>1. CASE receipt' = receipt
    BY <1>1, <1>7, <1>9, <2>1 DEF Truthful
  <2>2. CASE receipt' = [receipt EXCEPT ![r] = said]
    <3>1. receipt'[r] = said
      BY <1>0, <2>2 DEF NameTypes
    <3>2. /\ said.clone = j.clone /\ said.machine = j.machine
          /\ said.result = guest[r].result
          /\ said.outcome = "passed" =>
               ~j.error /\ j.machine # Rehearsal!Manual
               /\ j.clone # Rehearsal!Manual
      OBVIOUS
    <3> QED
      BY <1>1, <1>6, <1>7, <3>1, <3>2 DEF Truthful
  <2> QED
    BY <1>1, <2>1, <2>2
<1>11. \A s \in RunIds : s # r \/ at[p] \notin Working => SameNames(s)
  BY <1>0, <1>1 DEF SameNames, NameTypes, Working, Judged, Cleaning
<1> QED
  BY <1>1, <1>3, <1>5, <1>7, <1>8, <1>10, <1>11, RunnerMoves
  DEF Working, Judged, Cleaning

\* A guest that has passed is off, and one that still runs has no receipt
\* that says its machine is gone.
LEMMA GuestRunsStep ==
  ASSUME RunInv, NEW r \in RunIds, Rehearsal!guestRuns(r)
  PROVE  RunInv'
<1>0. RunnerTypes /\ NameTypes /\ guest[r] \in Rehearsal!Guest
      /\ Certified(guest[r])
  BY DEF RunInv, NameTypes
<1>1. /\ machine[r] = "own"
      /\ UNCHANGED <<at, job, dataset, mounted, evidence, receipt>>
  BY DEF Rehearsal!guestRuns
<1>2. CASE machine' = [machine EXCEPT ![r] = "none"] /\ guest' = guest
  <2>1. NameTypes' /\ \A s \in RunIds : machine'[s] # machine[s] =>
                                          machine'[s] = "none"
    BY <1>0, <1>1, <1>2 DEF NameTypes, Rehearsal!Owner
  <2>2. RunnerTypes' /\ OneRunner'
    BY <1>1 DEF RunInv, RunnerTypes, OneRunner
  <2>3. ASSUME NEW p \in Runners PROVE Knows(p)'
    <3>1. Knows(p) /\ job[p].run \in RunIds
      BY DEF RunInv, RunnerTypes, Rehearsal!RunState
    <3> QED
      BY <1>1, <1>2, <2>1, <3>1 DEF Knows
  <2>4. ASSUME NEW s \in RunIds PROVE Certified(guest[s])' /\ Truthful(s)'
    <3>1. Certified(guest[s]) /\ Truthful(s)
      BY DEF RunInv
    <3> QED
      BY <1>1, <1>2, <2>1, <3>1 DEF Certified, Truthful
  <2> QED
    BY <2>1, <2>2, <2>3, <2>4 DEF RunInv
<1>3. ASSUME NEW g \in Rehearsal!GuestSteps(guest[r]),
             guest' = [guest EXCEPT ![r] = g], machine' = machine
      PROVE  RunInv'
  <2>1. g \in Rehearsal!Guest /\ Certified(g) /\ guest[r].result # "passed"
    BY <1>0, GuestStep
  <2>2. NameTypes' /\ RunnerTypes' /\ OneRunner'
    BY <1>0, <1>1, <1>3, <2>1 DEF RunInv, NameTypes, RunnerTypes, OneRunner
  <2>3. /\ \A s \in RunIds : s # r => guest'[s] = guest[s]
        /\ guest'[r] = g
    BY <1>0, <1>3 DEF NameTypes
  <2>4. ASSUME NEW p \in Runners PROVE Knows(p)'
    <3>1. Knows(p) /\ job[p].run \in RunIds
      BY DEF RunInv, RunnerTypes, Rehearsal!RunState
    <3>2. CASE job[p].run = r
      <4>1. at[p] \in Judged => job[p].error
        BY <2>1, <3>1, <3>2 DEF Knows
      <4>2. job[p].error \in BOOLEAN
        BY <1>0 DEF RunnerTypes, Rehearsal!RunState
      <4> QED
        BY <1>1, <1>3, <3>1, <4>1, <4>2 DEF Knows
    <3>3. CASE job[p].run # r
      BY <1>1, <1>3, <2>3, <3>1, <3>3 DEF Knows
    <3> QED
      BY <3>2, <3>3
  <2>5. ASSUME NEW s \in RunIds PROVE Certified(guest[s])' /\ Truthful(s)'
    <3>1. Certified(guest[s]) /\ Truthful(s)
      BY DEF RunInv
    <3>2. CASE s # r
      BY <1>1, <1>3, <2>3, <3>1, <3>2 DEF Certified, Truthful
    <3>3. CASE s = r
      <4>1. Certified(guest[s])'
        BY <2>1, <2>3, <3>3 DEF Certified
      <4>2. receipt[s] # NoReceipt =>
              /\ receipt[s].machine = Rehearsal!Manual
              /\ receipt[s].outcome # "passed"
        BY <1>1, <2>1, <3>1, <3>3 DEF Truthful, Rehearsal!Manual
      <4> QED
        BY <1>1, <1>3, <3>1, <3>3, <4>1, <4>2 DEF Truthful
    <3> QED
      BY <3>2, <3>3
  <2> QED
    BY <2>2, <2>4, <2>5 DEF RunInv
<1> QED
  BY <1>2, <1>3 DEF Rehearsal!guestRuns

\* Others take a name that is free, so nothing a runner or a receipt relies
\* on is lost.
LEMMA ForeignStep ==
  ASSUME RunInv, NEW r \in RunIds, Rehearsal!foreignTakes(r)
  PROVE  RunInv'
<1>0. RunnerTypes /\ NameTypes
  BY DEF RunInv
<1>1. /\ UNCHANGED <<at, job, mounted, evidence, guest, receipt>>
      /\ \/ /\ dataset[r] = "none" /\ machine' = machine
            /\ dataset' = [dataset EXCEPT ![r] = "foreign"]
         \/ /\ \E c \in {"foreign", "late"} : machine' = [machine EXCEPT ![r] = c]
            /\ \A p \in Runners : at[p] = "terminate" /\ job[p].run = r
                 => machine' = [machine EXCEPT ![r] = "late"]
            /\ dataset' = dataset
  BY DEF Rehearsal!foreignTakes, Rehearsal!Run
<1>2. /\ NameTypes' /\ RunnerTypes' /\ OneRunner'
      /\ \A s \in RunIds : Certified(guest[s])'
  BY <1>0, <1>1
  DEF RunInv, NameTypes, RunnerTypes, OneRunner, Rehearsal!Owner, Certified
<1>3. /\ \A s \in RunIds : dataset[s] # "own" => dataset'[s] # "own"
      /\ \A s \in RunIds : dataset[s] = "own" => dataset'[s] = "own"
      /\ \A s \in RunIds : machine[s] # "own" => machine'[s] # "own"
      /\ \A p \in Runners : at[p] = "terminate" =>
           machine'[job[p].run] \in {"late", machine[job[p].run]}
  <2>1. \A p \in Runners : job[p].run \in RunIds
    BY <1>0 DEF RunnerTypes, Rehearsal!RunState
  <2> QED
    BY <1>0, <1>1, <2>1 DEF NameTypes
<1>4. ASSUME NEW p \in Runners PROVE Knows(p)'
  <2>1. Knows(p) /\ job[p].run \in RunIds
    BY DEF RunInv, RunnerTypes, Rehearsal!RunState
  <2> QED
    BY <1>1, <1>3, <2>1 DEF Knows
<1>5. ASSUME NEW s \in RunIds PROVE Truthful(s)'
  <2>1. Truthful(s)
    BY DEF RunInv
  <2> QED
    BY <1>1, <1>3, <2>1 DEF Truthful
<1> QED
  BY <1>2, <1>4, <1>5 DEF RunInv

\* A reboot ends every runner and every machine.
LEMMA RebootStep ==
  ASSUME RunInv, Rehearsal!RehearsalReboot
  PROVE  RunInv'
<1>0. RunnerTypes /\ NameTypes
  BY DEF RunInv
<1>1. /\ at' = [p \in Runners |-> IF at[p] \in Rehearsal!RunnerRunning
                                  THEN "dead" ELSE at[p]]
      /\ job' = [p \in Runners |-> IF at[p] \in Rehearsal!RunnerRunning
                                   THEN Rehearsal!NewRun(job[p].run)
                                   ELSE job[p]]
      /\ mounted' = [r \in RunIds |-> FALSE]
      /\ machine' = [r \in RunIds |-> "none"]
      /\ UNCHANGED <<dataset, evidence, guest, receipt>>
  BY DEF Rehearsal!RehearsalReboot, Rehearsal!forget
<1>2. \A p \in Runners : at'[p] \notin Working
  BY <1>0, <1>1
  DEF RunnerTypes, Working, Judged, Cleaning, Rehearsal!RunnerRunning,
      Rehearsal!RunnerEnded
<1>3. \A r \in RunIds : Rehearsal!NewRun(r) \in Rehearsal!RunState
  BY DEF Rehearsal!NewRun, Rehearsal!RunState, Rehearsal!MachineCleanup,
         Rehearsal!CloneCleanup
<1>4. \A p \in Runners : job[p] \in Rehearsal!RunState /\ job[p].run \in RunIds
  BY <1>0 DEF RunnerTypes, Rehearsal!RunState
<1>5. RunnerTypes'
  <2>1. \A p \in Runners : job'[p] \in Rehearsal!RunState
    BY <1>1, <1>3, <1>4
  <2>2. job' \in [Runners -> Rehearsal!RunState]
    BY <1>1, <2>1
  <2> QED
    BY <1>0, <1>1, <2>2
    DEF RunnerTypes, Rehearsal!RunnerRunning, Rehearsal!RunnerEnded
<1>6. NameTypes'
  BY <1>0, <1>1 DEF NameTypes, Rehearsal!Owner
<1>7. OneRunner' /\ \A p \in Runners : Knows(p)'
  BY <1>2 DEF OneRunner, Knows, Working, Judged, Cleaning
<1>8. ASSUME NEW r \in RunIds PROVE Certified(guest[r])' /\ Truthful(r)'
  <2>1. Certified(guest[r]) /\ Truthful(r)
    BY DEF RunInv
  <2> QED
    BY <1>1, <2>1 DEF Certified, Truthful
<1> QED
  BY <1>5, <1>6, <1>7, <1>8 DEF RunInv

\* Every step of the host keeps what the runners rely on.
LEMMA RunInductive == RunInv /\ [HostNext]_hostVars => RunInv'
<1> SUFFICES ASSUME RunInv, [HostNext]_hostVars PROVE RunInv'
  OBVIOUS
<1>1. CASE rehearsalStep
  BY <1>1, WaitingSteps, InitializeStep, AskingSteps, BuildingSteps,
     DestroyingSteps, FinalizeStep, GuestRunsStep, ForeignStep
  DEF rehearsalStep, Rehearsal!rehearse
<1>2. CASE hostReboots
  BY <1>2, RebootStep DEF hostReboots
<1>3. CASE UNCHANGED rehearsalVars
  <2>1. UNCHANGED <<at, job, dataset, mounted, machine, evidence, guest,
                    receipt>>
    BY <1>3 DEF rehearsalVars
  <2>2. RunnerTypes' /\ NameTypes' /\ OneRunner'
    BY <2>1 DEF RunInv, RunnerTypes, NameTypes, OneRunner
  <2>3. (\A p \in Runners : Knows(p))'
    BY <2>1 DEF RunInv, Knows
  <2>4. (\A r \in RunIds : Certified(guest[r]) /\ Truthful(r))'
    BY <2>1 DEF RunInv, Certified, Truthful
  <2> QED
    BY <2>2, <2>3, <2>4 DEF RunInv
<1>4. controllerStep \/ hostStep \/ installStep \/ UNCHANGED hostVars =>
        UNCHANGED rehearsalVars
  BY DEF controllerStep, hostStep, installStep, hostVars,
         othersOfController, startController, lockStep, callStep,
         controllerFails, controllerDies
<1> QED
  BY <1>1, <1>2, <1>3, <1>4 DEF HostNext

\* For any number of runners, runs, deaths and foreign names, a signed receipt
\* stays true: what it says is gone is gone, and a passed run was certified
\* by a guest that missed nothing.
THEOREM HostReceiptTruthful == HostSpec => []ReceiptTruthful
<1>1. RunInv => ReceiptTruthful
  BY DEF RunInv, Truthful, Certified, ReceiptTruthful,
         Rehearsal!ReceiptTruthful, Rehearsal!Manual
<1> QED
  BY <1>1, RunInit, RunInductive, PTL DEF HostSpec

\* A runner takes down only what it has seen to be its own and what nobody
\* else can have replaced since.
LEMMA RunnerSpares ==
  ASSUME RunInv, NEW p \in Runners, Rehearsal!rehearse(p), NEW r \in RunIds
  PROVE  /\ dataset[r] = "foreign" => dataset'[r] = "foreign"
         /\ machine[r] = "foreign" => machine'[r] = "foreign"
<1>0. NameTypes /\ Knows(p)
  BY DEF RunInv
<1>1. CASE Rehearsal!cloneDataset(p)
  BY <1>0, <1>1 DEF Rehearsal!cloneDataset, Rehearsal!Run, NameTypes
<1>2. CASE Rehearsal!destroyClone(p)
  <2>1. dataset[job[p].run] = "own"
    BY <1>0, <1>2 DEF Rehearsal!destroyClone, Knows
  <2> QED
    BY <1>0, <1>2, <2>1 DEF Rehearsal!destroyClone, Rehearsal!Run, NameTypes
<1>3. CASE Rehearsal!boot(p) \/ Rehearsal!bootEnds(p)
  BY <1>0, <1>3
  DEF Rehearsal!boot, Rehearsal!bootEnds, Rehearsal!Run, NameTypes
<1>4. CASE Rehearsal!terminateMachine(p)
  <2>1. machine[job[p].run] # "foreign"
    BY <1>0, <1>4 DEF Rehearsal!terminateMachine, Knows
  <2> QED
    BY <1>0, <1>4, <2>1
    DEF Rehearsal!terminateMachine, Rehearsal!Run, NameTypes
<1>5. CASE UNCHANGED <<dataset, machine>>
  BY <1>5
<1> QED
  BY <1>1, <1>2, <1>3, <1>4, <1>5
  DEF Rehearsal!rehearse, Rehearsal!preflightPaths, Rehearsal!preflightNames,
      Rehearsal!initializeRun, Rehearsal!inspectNewClone,
      Rehearsal!mountAndVerify, Rehearsal!verifyCertificationResult,
      Rehearsal!capturePostRunEvidence, Rehearsal!listMachines,
      Rehearsal!showMachine, Rehearsal!inspectForCleanup,
      Rehearsal!unmountClone, Rehearsal!recheckClone,
      Rehearsal!finalizeReceipt, Rehearsal!hostSide

\* For any number of runners, runs and foreign names, no step of a runner
\* destroys a dataset or terminates a machine of somebody else, except one
\* that took the name between the runner's show and its terminate.
THEOREM HostForeignUntouched == HostSpec => ForeignUntouched
<1>1. RunInv /\ [HostNext]_hostVars => [Rehearsal!SparesForeign]_hostVars
  <2> SUFFICES ASSUME RunInv, HostNext,
                      NEW q \in Runners, at'[q] # at[q], at'[q] # "dead",
                      NEW r \in RunIds
               PROVE  /\ dataset[r] = "foreign" => dataset'[r] = "foreign"
                      /\ machine[r] = "foreign" => machine'[r] = "foreign"
    BY DEF Rehearsal!SparesForeign
  <2>1. CASE UNCHANGED at
    BY <2>1
  <2>2. CASE hostReboots
    BY <2>2 DEF hostReboots, Rehearsal!RehearsalReboot
  <2>3. ASSUME NEW p \in Runners,
               \/ Rehearsal!startRun(p) \/ Rehearsal!withLock(p)
               \/ Rehearsal!runnerDies(p)
        PROVE  UNCHANGED <<dataset, machine>>
    BY <2>3 DEF Rehearsal!startRun, Rehearsal!withLock, Rehearsal!createLock,
       Rehearsal!writeLockRecord, Rehearsal!examineLock,
       Rehearsal!renameStaleLock, Rehearsal!compareToken,
       Rehearsal!unlinkOwnLock, Rehearsal!runnerDies, Rehearsal!hostSide
  <2>4. CASE rehearsalStep
    BY <2>1, <2>3, <2>4, RunnerSpares
    DEF rehearsalStep, Rehearsal!guestRuns, Rehearsal!foreignTakes
  <2>5. controllerStep \/ hostStep \/ installStep => UNCHANGED at
    BY DEF controllerStep, hostStep, installStep, rehearsalVars,
           othersOfController, startController, lockStep, callStep,
           controllerFails, controllerDies
  <2> QED
    BY <2>1, <2>2, <2>4, <2>5 DEF HostNext
<1> QED
  BY <1>1, RunInit, RunInductive, PTL DEF HostSpec, ForeignUntouched

----------------------------------------------------------------------------
(* Controller calls                                                        *)

\* The other programs of the host and its reboots keep the lock invariant.
LEMMA HostLockInductive == LockInv /\ [HostNext]_hostVars => LockInv'
<1> SUFFICES ASSUME LockInv, [HostNext]_hostVars PROVE LockInv'
  OBVIOUS
<1>0. deaths \in 0..MaxDeaths /\ MaxDeaths \in Nat
  BY MaxDeathsAssumption DEF LockInv, TypeOK
<1>1. ASSUME NEW p \in Procs,
             \/ startController(p) \/ lockStep(p) \/ controllerFails(p)
             \/ controllerDies(p)
      PROVE  Next
  BY <1>1 DEF startController, lockStep, controllerFails, controllerDies, Next
<1>2. CASE hostReboots
  BY <1>0, <1>2
  DEF hostReboots, LockInv, TypeOK, OwnerInv, Pc, Running, Ended
<1>3. ASSUME UNCHANGED <<path, pc, attempt>>, deaths' \in 0..MaxDeaths
      PROVE  LockInv'
  BY <1>3 DEF LockInv, TypeOK, OwnerInv
<1>4. ASSUME \/ \E p \in Procs : callStep(p)
             \/ hostStep \/ UNCHANGED hostVars
      PROVE  UNCHANGED <<path, pc, attempt, deaths>>
  BY <1>4 DEF callStep, hostStep, hostVars, lockVars
<1>5. ASSUME installStep
      PROVE  UNCHANGED <<path, pc, attempt>> /\ deaths' \in 0..MaxDeaths
  BY <1>0, <1>5
  DEF installStep, lockVars, Bootstrap!beginInstall, Bootstrap!install,
      Bootstrap!createReleaseDirectory, Bootstrap!copyDeclaredFiles,
      Bootstrap!readbackRelease, Bootstrap!linkSlot, Bootstrap!linkPrevious,
      Bootstrap!linkCurrent, Bootstrap!installThrows, Bootstrap!installDies
<1>6. ASSUME rehearsalStep
      PROVE  UNCHANGED <<path, pc, attempt>> /\ deaths' \in 0..MaxDeaths
  <2>1. ASSUME NEW p \in Runners, Rehearsal!runnerDies(p)
        PROVE  deaths' \in 0..MaxDeaths
    BY <1>0, <2>1 DEF Rehearsal!runnerDies
  <2>2. ASSUME NEW p \in Runners,
               \/ Rehearsal!startRun(p) \/ Rehearsal!withLock(p)
               \/ Rehearsal!rehearse(p)
        PROVE  deaths' = deaths
    BY <2>2 DEF Rehearsal!startRun, Rehearsal!withLock, Rehearsal!createLock,
       Rehearsal!writeLockRecord, Rehearsal!examineLock,
       Rehearsal!renameStaleLock, Rehearsal!compareToken,
       Rehearsal!unlinkOwnLock, Rehearsal!hostSide, Rehearsal!rehearse,
       Rehearsal!preflightPaths, Rehearsal!preflightNames,
       Rehearsal!initializeRun, Rehearsal!cloneDataset,
       Rehearsal!inspectNewClone, Rehearsal!mountAndVerify, Rehearsal!boot,
       Rehearsal!bootEnds, Rehearsal!verifyCertificationResult,
       Rehearsal!capturePostRunEvidence, Rehearsal!listMachines,
       Rehearsal!showMachine, Rehearsal!terminateMachine,
       Rehearsal!inspectForCleanup, Rehearsal!unmountClone,
       Rehearsal!destroyClone, Rehearsal!recheckClone,
       Rehearsal!finalizeReceipt
  <2>3. ASSUME NEW r \in RunIds,
               Rehearsal!guestRuns(r) \/ Rehearsal!foreignTakes(r)
        PROVE  deaths' = deaths
    BY <2>3 DEF Rehearsal!guestRuns, Rehearsal!foreignTakes
  <2> QED
    BY <1>0, <1>6, <2>1, <2>2, <2>3 DEF rehearsalStep, lockVars
<1>7. Next => LockInv'
  BY LockInductive
<1> QED
  BY <1>0, <1>1, <1>2, <1>3, <1>4, <1>5, <1>6, <1>7 DEF HostNext, controllerStep

\* On the whole host, too, no call that returned or was refused leaves its
\* lock, whatever restores run under the lock and installs, rehearsals and
\* reboots beside it.
THEOREM HostNoLeakedLock == HostSpec => []NoLeakedLock
<1>1. HostInit => LockInv
  BY InitLock DEF HostInit
<1>2. LockInv => NoLeakedLock
  BY DEF LockInv, OwnerInv, NoLeakedLock, Running
<1> QED
  BY <1>1, <1>2, HostLockInductive, PTL DEF HostSpec

\* The stages of a restore, by what it has done when it gets there.
CaddyWritten ==
  {<<"readback", "caddy">>, Recovery!At("runtime"), Recovery!At("start")}
GatewayLinked ==
  CaddyWritten \cup {<<"remove", "caddy">>, <<"write", "caddy">>}
GatewayWritten ==
  GatewayLinked \cup {<<"readback", "gateway">>, <<"pointers", "gateway">>}
BabyLinked ==
  GatewayWritten \cup {<<"remove", "gateway">>, <<"write", "gateway">>}
BabyWritten ==
  BabyLinked \cup {<<"readback", "baby">>, <<"pointers", "baby">>}
GatewayStopped ==
  BabyWritten \cup {Recovery!At("stopBaby"), <<"remove", "baby">>,
                    <<"write", "baby">>}

\* What is restored before a stage stays restored: the gateway is stopped, and
\* only the baby service can be started again by its socket.
RestoredTo(s) ==
  /\ s \in GatewayStopped => serving["gateway"] = "none"
  /\ s \in BabyWritten =>
       content["baby"] = snapshot["baby"] \/ serving["baby"] # "none"
  /\ s \in BabyLinked => link["baby"] = "known"
  /\ s \in GatewayWritten => content["gateway"] = snapshot["gateway"]
  /\ s \in GatewayLinked => link["gateway"] = "known"
  /\ s \in CaddyWritten => content["caddy"] = snapshot["caddy"]

InRestore(p) == stage[p] \notin {Recovery!Idle, Recovery!Done}

HostTypes == Recovery!RecoveryTypeOK /\ pc \in [Procs -> Pc]

\* A restore is a call under the lock, of a guard that is overdue, so no
\* candidate is activated any more, and unless two calls were past the lock
\* it is the only one.
RestoreInv ==
  /\ HostTypes
  /\ overlapped \in BOOLEAN
  /\ outcome # "none" => phase = "armed" /\ overdue
  /\ \A p, q \in Procs :
       ~overlapped /\ pc[p] = "action" /\ pc[q] = "action" => p = q
  /\ \A p \in Procs : InRestore(p) =>
       /\ pc[p] = "action" /\ phase = "armed" /\ overdue
       /\ ~overlapped => RestoredTo(stage[p])

\* No call is in progress at the start.
LEMMA RestoreInit == HostInit => RestoreInv
<1>1. HostInit => HostTypes
  <2>1. 0 \in Recovery!Content
    BY HostBoundsAssumption DEF Recovery!Content
  <2>2. HostInit => pc \in [Procs -> Pc]
    BY DEF HostInit, Init, Pc
  <2>3. HostInit => Recovery!RecoveryTypeOK
    BY <2>1
    DEF HostInit, Recovery!RecoveryInit, Recovery!RecoveryTypeOK,
        Recovery!Outcome, Recovery!Release
  <2> QED
    BY <2>2, <2>3 DEF HostTypes
<1>2. HostInit => \A p \in Procs : pc[p] = "idle" /\ ~InRestore(p)
  BY DEF HostInit, Init, Recovery!RecoveryInit, InRestore
<1>3. HostInit => overlapped \in BOOLEAN /\ outcome = "none"
  BY DEF HostInit, Recovery!RecoveryInit
<1> QED
  BY <1>1, <1>2, <1>3 DEF RestoreInv

\* The stages in their order.
LEMMA StageOrder ==
  /\ Recovery!At("validate") \notin GatewayStopped
  /\ Recovery!At("stopGateway") \notin GatewayStopped
  /\ Recovery!At("verify") \notin GatewayStopped
  /\ Recovery!Rolled \notin GatewayStopped
  /\ Recovery!Failed \notin GatewayStopped
  /\ Recovery!Idle \notin GatewayStopped /\ Recovery!Done \notin GatewayStopped
  /\ Recovery!At("stopBaby") \in GatewayStopped \ BabyWritten
  /\ <<"remove", "baby">> \in GatewayStopped \ BabyWritten
  /\ <<"write", "baby">> \in GatewayStopped \ BabyWritten
  /\ <<"readback", "baby">> \in BabyWritten \ BabyLinked
  /\ <<"pointers", "baby">> \in BabyWritten \ BabyLinked
  /\ <<"remove", "gateway">> \in BabyLinked \ GatewayWritten
  /\ <<"write", "gateway">> \in BabyLinked \ GatewayWritten
  /\ <<"readback", "gateway">> \in GatewayWritten \ GatewayLinked
  /\ <<"pointers", "gateway">> \in GatewayWritten \ GatewayLinked
  /\ <<"remove", "caddy">> \in GatewayLinked \ CaddyWritten
  /\ <<"write", "caddy">> \in GatewayLinked \ CaddyWritten
  /\ <<"readback", "caddy">> \in CaddyWritten
  /\ Recovery!At("runtime") \in CaddyWritten
  /\ Recovery!At("start") \in CaddyWritten
  /\ CaddyWritten \subseteq GatewayLinked
  /\ GatewayLinked \subseteq GatewayWritten
  /\ GatewayWritten \subseteq BabyLinked
  /\ BabyLinked \subseteq BabyWritten
  /\ BabyWritten \subseteq GatewayStopped
BY DEF Recovery!At, Recovery!Rolled, Recovery!Failed, Recovery!Recording,
       Recovery!Idle, Recovery!Done, GatewayStopped, BabyWritten, BabyLinked,
       GatewayWritten, GatewayLinked, CaddyWritten

\* One step of a restore.
LEMMA RestoreStep ==
  ASSUME RestoreInv, NEW p \in Procs, Recovery!restoreSnapshot(p),
         RestoredTo(stage[p])
  PROVE  RestoredTo(stage[p])'
<1>0. /\ Recovery!RecoveryTypeOK
      /\ {"baby", "gateway"} \subseteq Recovery!Products
      /\ {"baby", "gateway", "caddy"} \subseteq Recovery!Groups
  BY DEF RestoreInv, HostTypes, Recovery!Products, Recovery!Groups
<1>1. \A s : stage' = [stage EXCEPT ![p] = s] => stage'[p] = s
  BY <1>0 DEF Recovery!RecoveryTypeOK
<1>2. CASE Recovery!validateSnapshot(p)
  BY <1>1, <1>2, StageOrder
  DEF Recovery!validateSnapshot, Recovery!goto, RestoredTo
<1>3. CASE Recovery!stopGateway(p)
  BY <1>0, <1>1, <1>3, StageOrder
  DEF Recovery!stopGateway, Recovery!goto, RestoredTo,
      Recovery!RecoveryTypeOK
<1>4. CASE Recovery!stopBaby(p)
  BY <1>0, <1>1, <1>4, StageOrder
  DEF Recovery!stopBaby, Recovery!goto, RestoredTo, Recovery!RecoveryTypeOK
<1>5. ASSUME NEW g \in Recovery!Groups, Recovery!removeTarget(p, g)
      PROVE  RestoredTo(stage[p])'
  BY <1>0, <1>1, <1>5, StageOrder
  DEF Recovery!removeTarget, Recovery!goto, RestoredTo,
      Recovery!RecoveryTypeOK, Recovery!Groups, Recovery!Products
<1>6. ASSUME NEW g \in Recovery!Groups, Recovery!writeTarget(p, g)
      PROVE  RestoredTo(stage[p])'
  BY <1>0, <1>1, <1>6, StageOrder
  DEF Recovery!writeTarget, Recovery!goto, RestoredTo,
      Recovery!RecoveryTypeOK, Recovery!Groups, Recovery!Products
<1>7. ASSUME NEW g \in Recovery!Groups, Recovery!readbackTarget(p, g)
      PROVE  RestoredTo(stage[p])'
  BY <1>0, <1>1, <1>7, StageOrder
  DEF Recovery!readbackTarget, Recovery!goto, RestoredTo,
      Recovery!AfterGroup, Recovery!Groups, Recovery!Products
<1>8. ASSUME NEW g \in Recovery!Products, Recovery!restorePointers(p, g)
      PROVE  RestoredTo(stage[p])'
  BY <1>0, <1>1, <1>8, StageOrder
  DEF Recovery!restorePointers, Recovery!goto, RestoredTo,
      Recovery!AfterGroup, Recovery!RecoveryTypeOK, Recovery!Products
<1>9. CASE Recovery!recreateRuntime(p)
  BY <1>0, <1>1, <1>9, StageOrder
  DEF Recovery!recreateRuntime, Recovery!goto, RestoredTo
<1>10. CASE Recovery!startKnownGood(p)
  BY <1>1, <1>10, StageOrder
  DEF Recovery!startKnownGood, Recovery!goto, RestoredTo
<1>11. CASE Recovery!verifyKnownGood(p) \/ Recovery!restoreThrows(p)
            \/ Recovery!recordRestore(p)
  BY <1>1, <1>11, StageOrder
  DEF Recovery!verifyKnownGood, Recovery!restoreThrows,
      Recovery!recordRestore, Recovery!goto, RestoredTo
<1> QED
  BY <1>2, <1>3, <1>4, <1>5, <1>6, <1>7, <1>8, <1>9, <1>10, <1>11
  DEF Recovery!restoreSnapshot

\* The deployment and the services keep the types, and so does a restore.
LEMMA RecoveryTypes ==
  ASSUME Recovery!RecoveryTypeOK,
         \/ Recovery!deploymentStep \/ Recovery!serviceStep
         \/ \E p \in Procs : Recovery!beginCall(p) \/ Recovery!restoreSnapshot(p)
  PROVE  Recovery!RecoveryTypeOK'
<1> DEFINE Stage == Recovery!RestoreStages
                      \cup {Recovery!Idle, Recovery!Done, Recovery!Rolled,
                            Recovery!Failed}
<1>0. MaxVersion \in Nat
  BY HostBoundsAssumption
<1>1. CASE Recovery!deploymentStep
  <2>1. \A g \in Recovery!Products : content[g] < MaxVersion =>
          content[g] + 1 \in Recovery!Content
    BY <1>0 DEF Recovery!RecoveryTypeOK, Recovery!Content, Recovery!Partial,
       Recovery!Groups
  <2>2. ASSUME NEW q \in Recovery!Products, Recovery!activateCandidate(q)
        PROVE  Recovery!RecoveryTypeOK'
    BY <2>1, <2>2 DEF Recovery!activateCandidate, Recovery!RecoveryTypeOK,
       Recovery!Release, Recovery!Groups
  <2>3. ASSUME NEW g \in Recovery!Groups, Recovery!captureTarget(g)
        PROVE  Recovery!RecoveryTypeOK'
    BY <2>3 DEF Recovery!captureTarget, Recovery!RecoveryTypeOK
  <2>4. CASE Recovery!persistSnapshot \/ Recovery!captureFails
             \/ Recovery!armGuard \/ Recovery!deadlinePasses
    BY <2>4 DEF Recovery!persistSnapshot, Recovery!captureFails,
       Recovery!armGuard, Recovery!deadlinePasses, Recovery!RecoveryTypeOK
  <2> QED
    BY <1>1, <2>2, <2>3, <2>4 DEF Recovery!deploymentStep
<1>2. CASE Recovery!serviceStep
  <2>1. ASSUME NEW q \in Recovery!Products, Recovery!serviceWrites(q)
        PROVE  Recovery!RecoveryTypeOK'
    <3>1. content[q] + 1 \in Recovery!Content
      BY <1>0, <2>1 DEF Recovery!serviceWrites, Recovery!Content
    <3> QED
      BY <2>1, <3>1 DEF Recovery!serviceWrites, Recovery!RecoveryTypeOK,
         Recovery!Groups
  <2>2. CASE Recovery!socketActivates
    BY <2>2 DEF Recovery!socketActivates, Recovery!RecoveryTypeOK,
       Recovery!Products
  <2> QED
    BY <1>2, <2>1, <2>2 DEF Recovery!serviceStep
<1>3. ASSUME NEW p \in Procs, Recovery!beginCall(p) \/ Recovery!restoreSnapshot(p)
      PROVE  Recovery!RecoveryTypeOK'
  <2>0. \A s \in Stage : [stage EXCEPT ![p] = s] \in [Procs -> Stage]
    BY DEF Recovery!RecoveryTypeOK
  <2>1. /\ \A x \in {"validate", "stopGateway", "stopBaby", "runtime", "start",
                     "verify"} : Recovery!At(x) \in Stage
        /\ \A x \in {"remove", "write", "readback", "pointers"} :
             \A g \in Recovery!Groups : <<x, g>> \in Stage
        /\ Recovery!Products \subseteq Recovery!Groups
        /\ {"baby", "gateway"} \subseteq Recovery!Products
        /\ "caddy" \in Recovery!Groups
        /\ Recovery!Partial \in Recovery!Content
    BY DEF Recovery!RestoreStages, Recovery!At, Recovery!Groups,
       Recovery!Products, Recovery!Content
  <2>2. \A g \in Recovery!Groups : Recovery!AfterGroup(g) \in Stage
    BY <2>1 DEF Recovery!AfterGroup, Recovery!Groups, Recovery!Products
  <2>3. stage' \in [Procs -> Stage]
    <3>1. CASE Recovery!beginCall(p)
      BY <2>0, <2>1, <3>1 DEF Recovery!beginCall, Recovery!goto
    <3>2. ASSUME NEW g \in Recovery!Groups,
                 \/ Recovery!removeTarget(p, g) \/ Recovery!writeTarget(p, g)
                 \/ Recovery!readbackTarget(p, g)
          PROVE  stage' \in [Procs -> Stage]
      BY <2>0, <2>1, <2>2, <3>2 DEF Recovery!removeTarget,
         Recovery!writeTarget, Recovery!readbackTarget, Recovery!goto
    <3>3. ASSUME NEW g \in Recovery!Products, Recovery!restorePointers(p, g)
          PROVE  stage' \in [Procs -> Stage]
      BY <2>0, <2>1, <2>2, <3>3 DEF Recovery!restorePointers, Recovery!goto
    <3>4. CASE \/ Recovery!validateSnapshot(p) \/ Recovery!stopGateway(p)
               \/ Recovery!stopBaby(p) \/ Recovery!recreateRuntime(p)
               \/ Recovery!startKnownGood(p) \/ Recovery!verifyKnownGood(p)
               \/ Recovery!restoreThrows(p) \/ Recovery!recordRestore(p)
      BY <2>0, <2>1, <3>4
      DEF Recovery!validateSnapshot, Recovery!stopGateway,
          Recovery!stopBaby, Recovery!recreateRuntime,
          Recovery!startKnownGood, Recovery!verifyKnownGood,
          Recovery!restoreThrows, Recovery!recordRestore, Recovery!goto
    <3> QED
      BY <1>3, <3>1, <3>2, <3>3, <3>4 DEF Recovery!restoreSnapshot
  <2>4. content' \in [Recovery!Groups -> Recovery!Content]
    BY <1>3, <2>1 DEF Recovery!beginCall, Recovery!restoreSnapshot,
       Recovery!removeTarget, Recovery!writeTarget, Recovery!readbackTarget,
       Recovery!restorePointers, Recovery!validateSnapshot,
       Recovery!stopGateway, Recovery!stopBaby, Recovery!recreateRuntime,
       Recovery!startKnownGood, Recovery!verifyKnownGood,
       Recovery!restoreThrows, Recovery!recordRestore, Recovery!RecoveryTypeOK
  <2>5. /\ link' \in [Recovery!Products -> Recovery!Release]
        /\ serving' \in [Recovery!Products -> Recovery!Release \cup {"none"}]
    BY <1>3, <2>1 DEF Recovery!beginCall, Recovery!restoreSnapshot,
       Recovery!removeTarget, Recovery!writeTarget, Recovery!readbackTarget,
       Recovery!restorePointers, Recovery!validateSnapshot,
       Recovery!stopGateway, Recovery!stopBaby, Recovery!recreateRuntime,
       Recovery!startKnownGood, Recovery!verifyKnownGood,
       Recovery!restoreThrows, Recovery!recordRestore,
       Recovery!RecoveryTypeOK, Recovery!Release
  <2>6. /\ UNCHANGED <<phase, overdue, taken, snapshot>>
        /\ outcome' = outcome \/ Recovery!recordRestore(p)
    BY <1>3 DEF Recovery!beginCall, Recovery!restoreSnapshot,
       Recovery!removeTarget, Recovery!writeTarget, Recovery!readbackTarget,
       Recovery!restorePointers, Recovery!validateSnapshot,
       Recovery!stopGateway, Recovery!stopBaby, Recovery!recreateRuntime,
       Recovery!startKnownGood, Recovery!verifyKnownGood,
       Recovery!restoreThrows, Recovery!recordRestore
  <2>7. outcome' \in Recovery!Outcome
    <3>1. /\ Recovery!Rolled[2] = "rolled_back"
          /\ Recovery!Failed[2] = "rollback_failed"
      BY DEF Recovery!Rolled, Recovery!Failed, Recovery!Recording
    <3> QED
      BY <2>6, <3>1 DEF Recovery!recordRestore, Recovery!RecoveryTypeOK,
         Recovery!Outcome
  <2> QED
    BY <2>3, <2>4, <2>5, <2>6, <2>7 DEF Recovery!RecoveryTypeOK
<1> QED
  BY <1>1, <1>2, <1>3

\* A call and its restore step.
LEMMA CallStep ==
  ASSUME RestoreInv, NEW p \in Procs, callStep(p)
  PROVE  RestoreInv'
<1>0. /\ HostTypes /\ pc[p] = "action" /\ UNCHANGED <<pc, overlapped>>
      /\ Recovery!beginCall(p) \/ Recovery!restoreSnapshot(p)
  BY DEF RestoreInv, callStep, lockVars
<1>1. HostTypes'
  BY <1>0, RecoveryTypes DEF HostTypes
<1>2. \A q \in Procs : q # p => stage'[q] = stage[q]
  BY <1>0 DEF HostTypes, Recovery!RecoveryTypeOK, Recovery!beginCall,
     Recovery!restoreSnapshot, Recovery!removeTarget, Recovery!writeTarget,
     Recovery!readbackTarget, Recovery!restorePointers,
     Recovery!validateSnapshot, Recovery!stopGateway, Recovery!stopBaby,
     Recovery!recreateRuntime, Recovery!startKnownGood,
     Recovery!verifyKnownGood, Recovery!restoreThrows,
     Recovery!recordRestore, Recovery!goto
<1>3. UNCHANGED <<phase, overdue>>
  BY <1>0 DEF Recovery!beginCall, Recovery!restoreSnapshot,
     Recovery!removeTarget, Recovery!writeTarget, Recovery!readbackTarget,
     Recovery!restorePointers, Recovery!validateSnapshot,
     Recovery!stopGateway, Recovery!stopBaby, Recovery!recreateRuntime,
     Recovery!startKnownGood, Recovery!verifyKnownGood,
     Recovery!restoreThrows, Recovery!recordRestore
<1>4. CASE Recovery!beginCall(p)
  <2>1. /\ stage[p] = Recovery!Idle /\ outcome' = outcome
        /\ stage'[p] \in {Recovery!At("validate"), Recovery!Done}
        /\ stage'[p] = Recovery!At("validate") => phase = "armed" /\ overdue
    <3>1. Recovery!At("validate") # Recovery!Done
      BY DEF Recovery!At, Recovery!Done
    <3>2. stage'[p] = IF \/ phase = "armed" /\ overdue /\ outcome = "none"
                         \/ outcome = "rollback_failed" /\ p \notin Sandboxed
                      THEN Recovery!At("validate") ELSE Recovery!Done
      BY <1>0, <1>4 DEF Recovery!beginCall, Recovery!goto, HostTypes,
         Recovery!RecoveryTypeOK
    <3>3. outcome = "rollback_failed" => phase = "armed" /\ overdue
      BY DEF RestoreInv
    <3> QED
      BY <1>4, <3>1, <3>2, <3>3 DEF Recovery!beginCall
  <2>2. RestoredTo(stage[p])'
    BY <2>1, StageOrder DEF RestoredTo
  <2>3. ASSUME NEW q \in Procs, InRestore(q)'
        PROVE  /\ pc'[q] = "action" /\ phase' = "armed" /\ overdue'
               /\ ~overlapped' => RestoredTo(stage[q])'
    <3>1. CASE q = p
      BY <1>0, <1>3, <2>1, <2>2, <2>3, <3>1 DEF InRestore
    <3>2. CASE q # p
      <4>1. InRestore(q)
        BY <1>2, <2>3, <3>2 DEF InRestore
      <4>2. pc[q] = "action" /\ phase = "armed" /\ overdue /\ overlapped
        BY <1>0, <3>2, <4>1 DEF RestoreInv
      <4> QED
        BY <1>0, <1>3, <4>2
    <3> QED
      BY <3>1, <3>2
  <2> QED
    BY <1>0, <1>1, <1>3, <2>1, <2>3 DEF RestoreInv
<1>5. CASE Recovery!restoreSnapshot(p)
  <2>1. /\ \A x \in {"validate", "stopGateway", "stopBaby", "runtime", "start",
                     "verify"} :
             Recovery!At(x) \notin {Recovery!Idle, Recovery!Done}
        /\ \A x \in {"remove", "write", "readback", "pointers"} :
             \A g : <<x, g>> \notin {Recovery!Idle, Recovery!Done}
        /\ Recovery!Rolled \notin {Recovery!Idle, Recovery!Done}
        /\ Recovery!Failed \notin {Recovery!Idle, Recovery!Done}
    BY DEF Recovery!Idle, Recovery!Done, Recovery!At, Recovery!Rolled,
       Recovery!Failed, Recovery!Recording
  <2>2. InRestore(p)
    <3>1. CASE Recovery!restoreThrows(p)
      BY <2>1, <3>1 DEF Recovery!restoreThrows, Recovery!Restoring,
         Recovery!RestoreStages, Recovery!At, InRestore
    <3>2. ASSUME NEW g \in Recovery!Groups \cup Recovery!Products,
                 \/ Recovery!removeTarget(p, g) \/ Recovery!writeTarget(p, g)
                 \/ Recovery!readbackTarget(p, g)
                 \/ Recovery!restorePointers(p, g)
          PROVE  InRestore(p)
      BY <2>1, <3>2 DEF Recovery!removeTarget, Recovery!writeTarget,
         Recovery!readbackTarget, Recovery!restorePointers, InRestore
    <3>3. CASE \/ Recovery!validateSnapshot(p) \/ Recovery!stopGateway(p)
               \/ Recovery!stopBaby(p) \/ Recovery!recreateRuntime(p)
               \/ Recovery!startKnownGood(p) \/ Recovery!verifyKnownGood(p)
               \/ Recovery!recordRestore(p)
      BY <2>1, <3>3 DEF Recovery!validateSnapshot, Recovery!stopGateway,
         Recovery!stopBaby, Recovery!recreateRuntime,
         Recovery!startKnownGood, Recovery!verifyKnownGood,
         Recovery!recordRestore, InRestore
    <3> QED
      BY <1>5, <3>1, <3>2, <3>3 DEF Recovery!restoreSnapshot
  <2>3. phase = "armed" /\ overdue /\ (~overlapped => RestoredTo(stage[p]))
    BY <2>2 DEF RestoreInv
  <2>4. ~overlapped => RestoredTo(stage[p])'
    BY <1>5, <2>3, RestoreStep
  <2>5. ASSUME NEW q \in Procs, InRestore(q)'
        PROVE  /\ pc'[q] = "action" /\ phase' = "armed" /\ overdue'
               /\ ~overlapped' => RestoredTo(stage[q])'
    <3>1. CASE q = p
      BY <1>0, <1>3, <2>3, <2>4, <3>1
    <3>2. CASE q # p
      <4>1. InRestore(q)
        BY <1>2, <2>5, <3>2 DEF InRestore
      <4>2. pc[q] = "action" /\ phase = "armed" /\ overdue /\ overlapped
        BY <1>0, <3>2, <4>1 DEF RestoreInv
      <4> QED
        BY <1>0, <1>3, <4>2
    <3> QED
      BY <3>1, <3>2
  <2> QED
    BY <1>0, <1>1, <1>3, <2>3, <2>5 DEF RestoreInv
<1> QED
  BY <1>0, <1>4, <1>5

\* Steps of the lock: no call leaves its action while it restores, and the
\* second call that passes the lock is remembered.
LEMMA LockSteps ==
  ASSUME RestoreInv, NEW p \in Procs,
         startController(p) \/ lockStep(p) \/ controllerFails(p)
  PROVE  RestoreInv'
<1>0. HostTypes /\ UNCHANGED recoveryVars
  BY DEF RestoreInv, startController, lockStep, controllerFails
<1>1. UNCHANGED <<phase, overdue, outcome, taken, snapshot, content, link,
                  serving, stage>>
  BY <1>0 DEF recoveryVars
<1>2. PICK c \in Pc : pc' = [pc EXCEPT ![p] = c] /\
                      (c = "action" => lockStep(p) \/ pc[p] = "action")
  BY <1>0 DEF startController, enter, lockStep, withGlobalLock, openLock,
     writeLock, examine, renameStale, checkExists, finishAction, readToken,
     unlinkLock, controllerFails, lockFails, writeFails, renameFails,
     releaseFails, Pc, Running, Ended
<1>3. HostTypes'
  BY <1>0, <1>1, <1>2 DEF HostTypes, Recovery!RecoveryTypeOK
<1>4. overlapped' \in BOOLEAN /\ (overlapped => overlapped')
  BY DEF RestoreInv, startController, lockStep, controllerFails
<1>5. ASSUME NEW a \in Procs, NEW b \in Procs,
             ~overlapped', pc'[a] = "action", pc'[b] = "action"
      PROVE  a = b
  <2>1. CASE lockStep(p)
    BY <1>5, <2>1 DEF lockStep, Overlaps
  <2>2. CASE ~lockStep(p)
    <3>1. \A q \in Procs : pc'[q] = "action" => pc[q] = "action"
      BY <1>0, <1>2, <2>2 DEF HostTypes
    <3> QED
      BY <1>4, <1>5, <3>1 DEF RestoreInv
  <2> QED
    BY <2>1, <2>2
<1>6. ASSUME NEW q \in Procs, InRestore(q) PROVE pc'[q] = "action"
  <2>1. pc[q] = "action" /\ stage[q] # Recovery!Done
    BY <1>6 DEF RestoreInv, InRestore
  <2>2. CASE q = p
    BY <2>1, <2>2 DEF startController, enter, lockStep, controllerFails,
       lockFails, writeFails, renameFails, releaseFails
  <2>3. CASE q # p
    BY <1>0, <1>2, <2>1, <2>3 DEF HostTypes
  <2> QED
    BY <2>2, <2>3
<1>7. ASSUME NEW q \in Procs, InRestore(q)'
      PROVE  /\ pc'[q] = "action" /\ phase' = "armed" /\ overdue'
             /\ ~overlapped' => RestoredTo(stage[q])'
  <2>1. InRestore(q)
    BY <1>1, <1>7 DEF InRestore
  <2>2. phase = "armed" /\ overdue /\ (~overlapped => RestoredTo(stage[q]))
    BY <2>1 DEF RestoreInv
  <2>3. RestoredTo(stage[q]) => RestoredTo(stage[q])'
    BY <1>1 DEF RestoredTo
  <2> QED
    BY <1>1, <1>4, <1>6, <2>1, <2>2, <2>3
<1> QED
  BY <1>1, <1>3, <1>4, <1>5, <1>7 DEF RestoreInv

\* A death and a reboot end the calls they hit.
LEMMA EndingSteps ==
  ASSUME RestoreInv, (\E p \in Procs : controllerDies(p)) \/ hostReboots
  PROVE  RestoreInv'
<1>0. HostTypes
  BY DEF RestoreInv
<1>1. PICK gone \in SUBSET Procs :
        /\ \A q \in Procs : pc[q] = "action" => q \in gone \/ pc'[q] = "action"
        /\ \A q \in Procs : pc'[q] = "action" => pc[q] = "action"
        /\ \A q \in Procs : stage'[q] = IF q \in gone THEN Recovery!Done
                                        ELSE stage[q]
        /\ serving' = serving \/ \A q \in Procs : pc[q] = "action" => q \in gone
  <2>1. ASSUME NEW p \in Procs, controllerDies(p)
        PROVE  /\ \A q \in Procs :
                    pc[q] = "action" => q \in {p} \/ pc'[q] = "action"
               /\ \A q \in Procs : pc'[q] = "action" => pc[q] = "action"
               /\ \A q \in Procs : stage'[q] = IF q \in {p} THEN Recovery!Done
                                               ELSE stage[q]
               /\ serving' = serving
    BY <1>0, <2>1 DEF controllerDies, die, HostTypes, Recovery!RecoveryTypeOK
  <2>2. ASSUME hostReboots
        PROVE  LET down == {q \in Procs : pc[q] \in Running}
               IN  /\ \A q \in Procs : pc[q] = "action" => q \in down
                   /\ \A q \in Procs : pc'[q] = "action" => pc[q] = "action"
                   /\ \A q \in Procs :
                        stage'[q] = IF q \in down THEN Recovery!Done
                                    ELSE stage[q]
    BY <2>2 DEF hostReboots, Running
  <2>3. \A p \in Procs : {p} \in SUBSET Procs
    OBVIOUS
  <2>4. {q \in Procs : pc[q] \in Running} \in SUBSET Procs
    OBVIOUS
  <2> QED
    BY <2>1, <2>2, <2>3, <2>4
<1>2. /\ UNCHANGED <<overdue, outcome, snapshot, content, link, overlapped>>
      /\ phase = "armed" => phase' = "armed"
  BY DEF controllerDies, hostReboots
<1>3. HostTypes'
  <2>1. stage' \in [Procs -> Recovery!RestoreStages
                      \cup {Recovery!Idle, Recovery!Done, Recovery!Rolled,
                            Recovery!Failed}]
    BY <1>0 DEF controllerDies, hostReboots, HostTypes,
       Recovery!RecoveryTypeOK
  <2>2. pc' \in [Procs -> Pc]
    BY <1>0 DEF controllerDies, die, hostReboots, HostTypes, Pc, Ended
  <2>3. serving' \in [Recovery!Products -> Recovery!Release \cup {"none"}]
    BY <1>0 DEF controllerDies, hostReboots, Recovery!servicesReboot,
       HostTypes, Recovery!RecoveryTypeOK
  <2>4. /\ phase' \in {"none", "capture", "saved", "armed"}
        /\ taken' \subseteq Recovery!Groups
    BY <1>0 DEF controllerDies, hostReboots, HostTypes,
       Recovery!RecoveryTypeOK
  <2> QED
    BY <1>0, <1>2, <2>1, <2>2, <2>3, <2>4
    DEF HostTypes, Recovery!RecoveryTypeOK
<1>4. ASSUME NEW q \in Procs, InRestore(q)'
      PROVE  /\ pc'[q] = "action" /\ phase' = "armed" /\ overdue'
             /\ ~overlapped' => RestoredTo(stage[q])'
  <2>1. q \notin gone /\ stage'[q] = stage[q] /\ InRestore(q)
    BY <1>1, <1>4 DEF InRestore
  <2>2. /\ pc[q] = "action" /\ phase = "armed" /\ overdue
        /\ ~overlapped => RestoredTo(stage[q])
    BY <2>1 DEF RestoreInv
  <2>3. serving' = serving /\ pc'[q] = "action"
    BY <1>1, <2>1, <2>2
  <2>4. RestoredTo(stage[q]) => RestoredTo(stage[q])'
    BY <1>2, <2>1, <2>3 DEF RestoredTo
  <2> QED
    BY <1>2, <2>2, <2>3, <2>4
<1> QED
  BY <1>1, <1>2, <1>3, <1>4 DEF RestoreInv

\* The deployment does nothing once its guard is overdue; a running service
\* writes only where no restore has been yet, except the baby service.
LEMMA HostSteps ==
  ASSUME RestoreInv, hostStep
  PROVE  RestoreInv'
<1>0. /\ HostTypes /\ UNCHANGED <<pc, overlapped>>
      /\ Recovery!deploymentStep \/ Recovery!serviceStep
  BY DEF RestoreInv, hostStep, lockVars
<1>1. HostTypes'
  BY <1>0, RecoveryTypes DEF HostTypes
<1>2. /\ UNCHANGED <<outcome, stage>>
      /\ phase = "armed" /\ overdue => phase' = "armed" /\ overdue'
  BY <1>0 DEF Recovery!deploymentStep, Recovery!captureTarget,
     Recovery!persistSnapshot, Recovery!captureFails, Recovery!armGuard,
     Recovery!activateCandidate, Recovery!deadlinePasses,
     Recovery!serviceStep, Recovery!serviceWrites, Recovery!socketActivates
<1>3. ASSUME NEW q \in Procs, InRestore(q)'
      PROVE  /\ pc'[q] = "action" /\ phase' = "armed" /\ overdue'
             /\ ~overlapped' => RestoredTo(stage[q])'
  <2>1. InRestore(q)
    BY <1>2, <1>3 DEF InRestore
  <2>2. /\ pc[q] = "action" /\ phase = "armed" /\ overdue
        /\ ~overlapped => RestoredTo(stage[q])
    BY <2>1 DEF RestoreInv
  <2>3. Recovery!serviceStep
    BY <1>0, <2>2 DEF Recovery!deploymentStep, Recovery!captureTarget,
       Recovery!persistSnapshot, Recovery!captureFails, Recovery!armGuard,
       Recovery!activateCandidate, Recovery!deadlinePasses
  <2>4. ASSUME RestoredTo(stage[q]) PROVE RestoredTo(stage[q])'
    <3>1. CASE Recovery!serviceWrites("baby")
      BY <1>0, <1>2, <2>4, <3>1 DEF RestoredTo, Recovery!serviceWrites,
         HostTypes, Recovery!RecoveryTypeOK
    <3>2. CASE Recovery!serviceWrites("gateway")
      <4>1. stage[q] \notin GatewayWritten
        BY <2>4, <3>2, StageOrder DEF RestoredTo, Recovery!serviceWrites
      <4> QED
        BY <1>0, <1>2, <2>4, <3>2, <4>1 DEF RestoredTo,
           Recovery!serviceWrites, HostTypes, Recovery!RecoveryTypeOK
    <3>3. CASE Recovery!socketActivates
      <4>1. link["baby"] # "none"
        BY <1>0 DEF HostTypes, Recovery!RecoveryTypeOK, Recovery!Release,
           Recovery!Products
      <4> QED
        BY <1>0, <1>2, <2>4, <3>3, <4>1 DEF RestoredTo,
           Recovery!socketActivates, HostTypes, Recovery!RecoveryTypeOK,
           Recovery!Products
    <3> QED
      BY <2>3, <3>1, <3>2, <3>3 DEF Recovery!serviceStep, Recovery!Products
  <2> QED
    BY <1>0, <1>2, <2>2, <2>4
<1> QED
  BY <1>0, <1>1, <1>2, <1>3 DEF RestoreInv

\* Installs and rehearsals leave the calls alone.
LEMMA RestoreInductive == RestoreInv /\ [HostNext]_hostVars => RestoreInv'
<1> SUFFICES ASSUME RestoreInv, [HostNext]_hostVars PROVE RestoreInv'
  OBVIOUS
<1>1. CASE controllerStep
  BY <1>1, LockSteps, CallStep, EndingSteps DEF controllerStep
<1>2. CASE hostStep
  BY <1>2, HostSteps
<1>3. CASE hostReboots
  BY <1>3, EndingSteps
<1>4. CASE installStep \/ rehearsalStep \/ UNCHANGED hostVars
  <2>1. UNCHANGED <<pc, overlapped, phase, overdue, outcome, taken, snapshot,
                    content, link, serving, stage>>
    BY <1>4 DEF installStep, rehearsalStep, hostVars, lockVars, recoveryVars
  <2>2. HostTypes' /\ \A q \in Procs : /\ InRestore(q)' <=> InRestore(q)
                                       /\ RestoredTo(stage[q])' <=>
                                            RestoredTo(stage[q])
    BY <2>1 DEF RestoreInv, HostTypes, Recovery!RecoveryTypeOK, InRestore,
       RestoredTo
  <2> QED
    BY <2>1, <2>2 DEF RestoreInv
<1> QED
  BY <1>1, <1>2, <1>3, <1>4 DEF HostNext

\* For any number of calls, deaths, reboots and versions: a restore starts the
\* gateway only on the exact snapshot, as long as the lock has excluded other
\* calls and up to what a baby service started by its socket writes.
THEOREM HostKnownGoodStartsExact == HostSpec => KnownGoodStartsExact
<1>1. RestoreInv =>
        \A p \in Procs : stage[p] = Recovery!At("start") =>
          Recovery!ExactHost \/ overlapped
  <2> SUFFICES ASSUME RestoreInv, NEW p \in Procs,
                      stage[p] = Recovery!At("start"), ~overlapped
               PROVE  Recovery!ExactHost
    BY DEF RestoreInv
  <2>1. InRestore(p)
    BY DEF InRestore, Recovery!At, Recovery!Idle, Recovery!Done
  <2>2. RestoredTo(Recovery!At("start"))
    BY <2>1 DEF RestoreInv
  <2> QED
    BY <2>2, StageOrder DEF RestoredTo, Recovery!ExactHost, Recovery!Products
<1>2. RestoreInv /\ [HostNext]_hostVars =>
        [\A p \in Procs :
           stage[p] = Recovery!At("start") /\ stage'[p] = Recovery!At("verify")
             => Recovery!ExactHost \/ overlapped]_hostVars
  BY <1>1
<1> QED
  BY <1>2, RestoreInit, RestoreInductive, PTL DEF HostSpec, KnownGoodStartsExact
=============================================================================
