---------------------------- MODULE HostPrograms ----------------------------
(***************************************************************************)
(* The root programs of one host: controller calls, which take the global  *)
(* lock (ControllerLock) and restore a snapshot (HostRecovery), installs   *)
(* of the controller itself (ControllerBootstrap), which look at the guard *)
(* and take no lock, and rehearsal runs (RehearsalRunner), which have a    *)
(* lock, names and directories of their own.  Each may die alone; a reboot *)
(* takes all of them.                                                      *)
(***************************************************************************)
EXTENDS ControllerLock

CONSTANTS
  Sandboxed, MaxVersion,
  Installs, ControllerReleases, NoRelease,
  Runners, RunIds, NoReceipt, MaxForeign

ASSUME SandboxedAssumption == Sandboxed \subseteq Procs
ASSUME HostBoundsAssumption ==
  MaxVersion \in Nat /\ MaxForeign \in Nat
ASSUME AbsentAssumption ==
  /\ ControllerReleases # {} /\ NoRelease \notin ControllerReleases
  /\ NoFile \notin [by : Runners, written : BOOLEAN]

VARIABLES
  phase, overdue, outcome, taken, snapshot, content, link, serving, stage,
  installing, record, releases, current, previous, slots,
  runnerLock, at, job, dataset, mounted, machine, evidence, guest, receipt,
  foreign,
  overlapped   \* two controller calls have been past the lock at once

Recovery == INSTANCE HostRecovery
Bootstrap == INSTANCE ControllerBootstrap
Rehearsal == INSTANCE RehearsalRunner

lockVars == <<path, pc, attempt>>
recoveryVars == <<phase, overdue, outcome, taken, snapshot, content, link,
                  serving, stage>>
bootstrapVars == <<installing, record, releases, current, previous, slots>>
rehearsalVars == <<runnerLock, at, job, dataset, mounted, machine, evidence,
                   guest, receipt, foreign>>
hostVars == <<lockVars, deaths, recoveryVars,
              bootstrapVars, rehearsalVars, overlapped>>

HostInit ==
  /\ Init
  /\ Recovery!RecoveryInit /\ Bootstrap!BootstrapInit
  /\ Rehearsal!RehearsalInit
  /\ overlapped = FALSE

Overlaps ==
  \E p, q \in Procs : p # q /\ pc'[p] = "action" /\ pc'[q] = "action"

othersOfController ==
  UNCHANGED <<bootstrapVars, rehearsalVars>>

\* A lock step; the action of a call ends when its restore has.
lockStep(p) ==
  /\ withGlobalLock(p)
  /\ pc[p] = "action" => stage[p] = Recovery!Done
  /\ overlapped' = (overlapped \/ Overlaps)
  /\ UNCHANGED recoveryVars /\ othersOfController

callStep(p) ==
  /\ pc[p] = "action"
  /\ Recovery!beginCall(p) \/ Recovery!restoreSnapshot(p)
  /\ UNCHANGED <<lockVars, deaths, overlapped>> /\ othersOfController

controllerFails(p) ==
  /\ lockFails(p)
  /\ UNCHANGED <<recoveryVars, overlapped>> /\ othersOfController

controllerDies(p) ==
  /\ die(p)
  /\ stage' = [stage EXCEPT ![p] = Recovery!Done]
  /\ UNCHANGED <<phase, overdue, outcome, taken, snapshot, content, link,
                 serving, overlapped>>
  /\ othersOfController

startController(p) ==
  /\ enter(p)
  /\ UNCHANGED <<recoveryVars, overlapped>> /\ othersOfController

hostStep ==
  /\ Recovery!deploymentStep \/ Recovery!serviceStep
  /\ UNCHANGED <<lockVars, deaths, overlapped>> /\ othersOfController

\* assertNoActiveProductGuard: no guard without a terminal record.
NoActiveProductGuard == phase # "armed" \/ outcome # "none"

installStep ==
  /\ \E i \in Installs :
       \/ \E r \in Bootstrap!Record :
            Bootstrap!beginInstall(i, r, NoActiveProductGuard)
       \/ Bootstrap!install(i)
       \/ Bootstrap!installThrows(i)
       \/ Bootstrap!installDies(i)
  /\ UNCHANGED <<lockVars, recoveryVars, rehearsalVars,
                 overlapped>>

rehearsalStep ==
  /\ \/ \E p \in Runners :
          \/ Rehearsal!startRun(p) \/ Rehearsal!withLock(p)
          \/ Rehearsal!rehearse(p) \/ Rehearsal!runnerDies(p)
     \/ \E r \in RunIds : Rehearsal!guestRuns(r) \/ Rehearsal!foreignTakes(r)
  /\ UNCHANGED <<lockVars, recoveryVars, bootstrapVars,
                 overlapped>>

\* The host reboots: the controller's lock in /run is gone, services
\* start again.
hostReboots ==
  /\ deaths < MaxDeaths
  /\ deaths' = deaths + 1
  /\ path' = NoFile
  /\ pc' = [p \in Procs |-> IF pc[p] \in Running THEN "dead" ELSE pc[p]]
  /\ stage' = [p \in Procs |-> IF pc[p] \in Running THEN Recovery!Done
                                    ELSE stage[p]]
  /\ Recovery!servicesReboot
  /\ phase' = IF phase = "capture" THEN "none" ELSE phase
  /\ taken' = IF phase = "capture" THEN {} ELSE taken
  /\ installing' = [i \in Installs |->
                      IF installing[i] \in Bootstrap!InstallRunning
                      THEN "dead" ELSE installing[i]]
  /\ Rehearsal!RehearsalReboot
  /\ UNCHANGED <<attempt, overdue, outcome, snapshot, content, link,
                 record, releases, current, previous, slots, overlapped>>

controllerStep ==
  \E p \in Procs :
    \/ startController(p) \/ lockStep(p) \/ callStep(p)
    \/ controllerFails(p) \/ controllerDies(p)

HostNext ==
  \/ controllerStep \/ hostStep \/ installStep \/ rehearsalStep \/ hostReboots

\* A process that has entered keeps running until it returns or dies.
HostSpec ==
  HostInit /\ [][HostNext]_hostVars /\ \A p \in Procs : WF_hostVars(lockStep(p))

----------------------------------------------------------------------------
(* Properties                                                              *)

\* A restore starts the gateway only on the exact snapshot: not on contents a
\* service, a reboot or an earlier restore that failed or died left behind,
\* unless two calls were past the lock at once (lock_exclusion) or the baby
\* service, whose socket the restore leaves active, was started meanwhile.
KnownGoodStartsExact ==
  [][\A p \in Procs :
       stage[p] = Recovery!At("start") /\ stage'[p] = Recovery!At("verify") =>
         Recovery!ExactHost \/ overlapped]_hostVars

\* A receipt stays true (RehearsalRunner).
ReceiptTruthful == Rehearsal!ReceiptTruthful

\* No runner takes down what is not its own (SparesForeign), except a machine
\* that took the name of the runner's own between its show and its terminate.
ForeignUntouched == [][Rehearsal!SparesForeign]_hostVars

\* The controller's links always name complete releases (ControllerBootstrap).
LinksComplete == Bootstrap!LinksComplete
=============================================================================
