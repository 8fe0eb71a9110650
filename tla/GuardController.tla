-------------------------- MODULE GuardController ---------------------------
(***************************************************************************)
(* The fixed rollback controller (src/controller/controller.ts), its       *)
(* create-once record files (storage.ts), the host it restores             *)
(* (filesystem-host.ts) and the gateway-first pointer activation it guards *)
(* (src/deployment/activation.ts, src/install/symlinks.ts).                *)
(*                                                                         *)
(* A controller call runs under the global lock, so at most one is in      *)
(* progress (`op'); ControllerLock.tla is about that lock.  Within a call  *)
(* every file creation and every pointer swap is a step of its own, and    *)
(* the process may die between any two of them or, since a record is       *)
(* created before its bytes are written, in the middle of one ("torn").    *)
(* Pointer activation does not take the lock.  Calls that throw or only    *)
(* append an evidence file (which nothing reads) change no state here.     *)
(***************************************************************************)
EXTENDS Integers, FiniteSets

CONSTANTS
  Deployments,   \* deployment identifiers
  Generations,   \* generations a signed guard record may carry
  Targets,       \* release directories a pointer may name
  Candidate,     \* candidatePointerTargets of each deployment
  Base,          \* the release installed initially
  NoTarget,      \* an absent symlink
  MaxTime,       \* bound on the clock
  MaxCrashes,    \* bound on controller deaths
  Faults         \* which of AllFaults the environment may produce

AllFaults == {"crash", "torn", "service", "late", "manual"}

ASSUME GenerationsAssumption == Generations \subseteq Nat \ {0}
ASSUME TargetsAssumption ==
  /\ Base \in Targets
  /\ NoTarget \notin Targets
  /\ Candidate \in [Deployments -> Targets \ {Base}]
  /\ \A d, e \in Deployments : Candidate[d] = Candidate[e] => d = e
ASSUME BoundsAssumption == MaxTime \in Nat /\ MaxCrashes \in Nat
ASSUME FaultsAssumption == Faults \subseteq AllFaults

Products == {"baby", "gateway"}
PointerPair == [current : Targets, previous : Targets \cup {NoTarget}]
Pointers == [Products -> PointerPair]
File == {"absent", "torn", "ok"}
Disposition == {"rolled_back", "rollback_failed"}

VARIABLES
  now,           \* wall clock
  guardFile,     \* deployments/<id>/guard.json
  signed,        \* the signed guard record of each deployment
  generations,   \* names in generations/
  success,       \* deployments/<id>/success.json
  disarmed,      \* deployments/<id>/disarmed.json
  rollback,      \* deployments/<id>/rollback.json: its disposition
  recovery,      \* latest deployments/<id>/manual-recovery/ record
  ptr,           \* the product pointers of the host
  op,            \* the controller call that holds the lock
  act,           \* progress of each deployment's activation
  crashes        \* controller deaths so far

records == <<guardFile, signed, generations, success, disarmed, rollback,
             recovery>>
vars == <<now, guardFile, signed, generations, success, disarmed, rollback,
          recovery, ptr, op, act, crashes>>

\* A signed guard record; expected is the pre-mutation pointer set.
SignedRecord == [generation : Generations, deadline : 1..MaxTime,
                 expected : Pointers]

InitialPointers ==
  [p \in Products |-> [current |-> Base, previous |-> NoTarget]]
NoRecord == [generation |-> 0, deadline |-> 0, expected |-> InitialPointers]

RestorePc == {"fence", "baby_current", "baby_previous", "gateway_current",
              "gateway_previous", "verify"} \cup Disposition

Idle == [kind |-> "idle"]
Op == {Idle}
      \cup [kind : {"arm"}, d : Deployments, pc : {"guard", "generation"},
            record : SignedRecord]
      \cup [kind : {"rollback", "manual"}, d : Deployments, pc : RestorePc]

ActStep == {"idle", "armed", "gateway_fenced", "gateway_previous",
            "gateway_done", "baby_fenced", "baby_previous", "activated",
            "accepted", "rejected"}

Init ==
  /\ now = 0
  /\ guardFile = [d \in Deployments |-> "absent"]
  /\ signed = [d \in Deployments |-> NoRecord]
  /\ generations = {}
  /\ success = [d \in Deployments |-> "absent"]
  /\ disarmed = [d \in Deployments |-> "absent"]
  /\ rollback = [d \in Deployments |-> "absent"]
  /\ recovery = [d \in Deployments |-> "absent"]
  /\ ptr = InitialPointers
  /\ op = Idle
  /\ act = [d \in Deployments |-> "idle"]
  /\ crashes = 0

----------------------------------------------------------------------------
(* storage.ts: what the record files say                                   *)

\* activeGuardIds: by file name only, so a torn guard.json counts.
Active(d) ==
  guardFile[d] # "absent" /\ disarmed[d] = "absent" /\ rollback[d] = "absent"

\* Mutant: readTerminalEvidence does not look for rollback.json.
NoTerminalIgnoresRollback(d) ==
  recovery[d] = "absent" /\ disarmed[d] = "absent"

\* readTerminalEvidence finds nothing.
NoTerminal(d) ==
  recovery[d] = "absent" /\ disarmed[d] = "absent" /\ rollback[d] = "absent"

\* readVerifiedTerminal returns rollback_failed: the latest manual recovery,
\* else disarmed.json, else rollback.json.  A torn record makes it throw.
TerminalFailed(d) ==
  \/ recovery[d] = "rollback_failed"
  \/ /\ recovery[d] = "absent" /\ disarmed[d] = "absent"
     /\ rollback[d] = "rollback_failed"

\* Mutant: the guard's own generation record makes it stale.
StaleWhenRecorded(d) == \E g \in generations : g >= signed[d].generation

\* guard.generation < latestGeneration()
StaleGeneration(d) == \E g \in generations : g > signed[d].generation

----------------------------------------------------------------------------
(* controller.ts: arm                                                      *)

\* Mutant: only the deployment's own guard is looked at.
NotArmedItself(d) == ~Active(d)

\* activeGuardIds is empty: neither a different guard (conflict) nor the
\* deployment's own (armRetry).
NoActiveGuard(d) == \A e \in Deployments : ~Active(e)

\* Mutant: the generation is not compared with the recorded ones.
AnyGeneration(record) == record.generation \in Generations

\* The generation is above every recorded one.
GenerationIsNew(record) == \A g \in generations : g < record.generation

\* Mutant: the signed pointers are only compared with the snapshot.
PointersUnchecked(record) == record.expected \in Pointers

\* The host still has the pointers that were signed.
PointersMatch(record) == ptr = record.expected

\* The checks of arm() up to writeGuard.  createOnce accepts an existing
\* guard.json only if it holds exactly this record.
arm(d, record) ==
  /\ op = Idle
  /\ record.deadline > now
  /\ NoActiveGuard(d)
  /\ GenerationIsNew(record)
  /\ PointersMatch(record)
  /\ \/ guardFile[d] = "absent"
     \/ guardFile[d] = "ok" /\ signed[d] = record
  /\ op' = [kind |-> "arm", d |-> d, pc |-> "guard", record |-> record]
  /\ UNCHANGED <<now, records, ptr, act, crashes>>

\* The early return of arm() for its own active guard: the caller gets its
\* `armed' status; no file is written.
armRetry(d) ==
  /\ op = Idle
  /\ Active(d) /\ guardFile[d] = "ok"
  /\ \A e \in Deployments \ {d} : ~Active(e)
  /\ signed[d].deadline > now
  /\ act[d] = "idle"
  /\ act' = [act EXCEPT ![d] = "armed"]
  /\ UNCHANGED <<now, records, ptr, op, crashes>>

\* writeGuard, first file.
writeGuardRecord ==
  /\ op.kind = "arm" /\ op.pc = "guard"
  /\ guardFile' = [guardFile EXCEPT ![op.d] = "ok"]
  /\ signed' = [signed EXCEPT ![op.d] = op.record]
  /\ op' = [op EXCEPT !.pc = "generation"]
  /\ UNCHANGED <<now, generations, success, disarmed, rollback, recovery,
                 ptr, act, crashes>>

\* writeGuard, second file; then the armed evidence and the return.
writeGenerationRecord ==
  /\ op.kind = "arm" /\ op.pc = "generation"
  /\ generations' = generations \cup {op.record.generation}
  /\ act' = [act EXCEPT ![op.d] = IF @ = "idle" THEN "armed" ELSE @]
  /\ op' = Idle
  /\ UNCHANGED <<now, guardFile, signed, success, disarmed, rollback,
                 recovery, ptr, crashes>>

----------------------------------------------------------------------------
(* controller.ts: commitSuccess, disarm, evaluate, manualRecover           *)

\* commitSuccess: the marker is signed once acceptance has passed.  Neither
\* the deadline nor a terminal record is consulted.
commitSuccess(d) ==
  /\ op = Idle
  /\ act[d] = "accepted"
  /\ guardFile[d] = "ok"
  /\ success[d] = "absent"
  /\ success' = [success EXCEPT ![d] = "ok"]
  /\ UNCHANGED <<now, guardFile, signed, generations, disarmed, rollback,
                 recovery, ptr, op, act, crashes>>

disarm(d) ==
  /\ op = Idle
  /\ guardFile[d] = "ok"
  /\ NoTerminal(d)
  /\ success[d] = "ok"
  /\ disarmed' = [disarmed EXCEPT ![d] = "ok"]
  /\ UNCHANGED <<now, guardFile, signed, generations, success, rollback,
                 recovery, ptr, op, act, crashes>>

\* Mutant: the clock comparison is one tick early.
DeadlineAlmostReached(d) == now + 1 >= signed[d].deadline

DeadlineReached(d) == now >= signed[d].deadline

\* evaluate() up to restoreSnapshot.  The stale_generation, terminal,
\* success_marker_valid and pending outcomes change nothing, and a torn
\* record makes the call throw.
evaluate(d) ==
  /\ op = Idle
  /\ guardFile[d] = "ok"
  /\ ~StaleGeneration(d)
  /\ NoTerminal(d)
  /\ success[d] = "absent"
  /\ DeadlineReached(d)
  /\ op' = [kind |-> "rollback", d |-> d, pc |-> "fence"]
  /\ UNCHANGED <<now, records, ptr, act, crashes>>

manualRecover(d) ==
  /\ "manual" \in Faults
  /\ op = Idle
  /\ guardFile[d] = "ok"
  /\ TerminalFailed(d)
  /\ op' = [kind |-> "manual", d |-> d, pc |-> "fence"]
  /\ UNCHANGED <<now, records, ptr, act, crashes>>

----------------------------------------------------------------------------
(* filesystem-host.ts: restoreSnapshot                                     *)

\* assertRollbackPointerFence
InFence(d) ==
  \A p \in Products :
    LET expected == signed[d].expected[p]
    IN  /\ ptr[p].current \in {expected.current, Candidate[d]}
        /\ ptr[p].previous \in {expected.previous, expected.current}

InRestore == op.kind \in {"rollback", "manual"} /\ op.pc \notin Disposition

restoreFence ==
  /\ InRestore /\ op.pc = "fence"
  /\ op' = [op EXCEPT !.pc =
              IF InFence(op.d) THEN "baby_current" ELSE "rollback_failed"]
  /\ UNCHANGED <<now, records, ptr, act, crashes>>

\* restoreProductPointers: current is swapped back only from the candidate.
restoreCurrent(p, pc, nextPc) ==
  LET want == signed[op.d].expected[p].current
      have == ptr[p].current
  IN  /\ InRestore /\ op.pc = pc
      /\ \/ /\ have \in {want, Candidate[op.d]}
            /\ ptr' = [ptr EXCEPT ![p].current = want]
            /\ op' = [op EXCEPT !.pc = nextPc]
         \/ /\ have \notin {want, Candidate[op.d]}
            /\ op' = [op EXCEPT !.pc = "rollback_failed"]
            /\ UNCHANGED ptr
      /\ UNCHANGED <<now, records, act, crashes>>

restorePrevious(p, pc, nextPc) ==
  /\ InRestore /\ op.pc = pc
  /\ ptr' = [ptr EXCEPT ![p].previous = signed[op.d].expected[p].previous]
  /\ op' = [op EXCEPT !.pc = nextPc]
  /\ UNCHANGED <<now, records, act, crashes>>

\* verifyKnownGood and the pointer readback.
restoreVerify ==
  /\ InRestore /\ op.pc = "verify"
  /\ op' = [op EXCEPT !.pc = IF ptr = signed[op.d].expected
                             THEN "rolled_back" ELSE "rollback_failed"]
  /\ UNCHANGED <<now, records, ptr, act, crashes>>

\* Mutant: a failed restore is reported as completed.
restoreFailsSilently ==
  /\ "service" \in Faults
  /\ InRestore
  /\ op' = [op EXCEPT !.pc = "rolled_back"]
  /\ UNCHANGED <<now, records, ptr, act, crashes>>

\* Any service, snapshot or file operation of restoreSnapshot throws.
restoreFails ==
  /\ "service" \in Faults
  /\ InRestore
  /\ op' = [op EXCEPT !.pc = "rollback_failed"]
  /\ UNCHANGED <<now, records, ptr, act, crashes>>

restoreStep ==
  \/ restoreFence
  \/ restoreCurrent("baby", "baby_current", "baby_previous")
  \/ restorePrevious("baby", "baby_previous", "gateway_current")
  \/ restoreCurrent("gateway", "gateway_current", "gateway_previous")
  \/ restorePrevious("gateway", "gateway_previous", "verify")
  \/ restoreVerify

\* writeEvidence / writeManualRecoveryEvidence of the outcome.
recordOutcome ==
  /\ op.kind \in {"rollback", "manual"} /\ op.pc \in Disposition
  /\ \/ /\ op.kind = "rollback"
        /\ rollback' = [rollback EXCEPT ![op.d] = op.pc]
        /\ UNCHANGED recovery
     \/ /\ op.kind = "manual"
        /\ recovery' = [recovery EXCEPT ![op.d] = op.pc]
        /\ UNCHANGED rollback
  /\ op' = Idle
  /\ UNCHANGED <<now, guardFile, signed, generations, success, disarmed,
                 ptr, act, crashes>>

----------------------------------------------------------------------------
(* The controller process dies                                             *)

crash ==
  /\ "crash" \in Faults
  /\ crashes < MaxCrashes
  /\ op # Idle
  /\ op' = Idle
  /\ crashes' = crashes + 1
  /\ UNCHANGED <<now, records, ptr, act>>

\* createOnce opens the file before it writes: death in between leaves a
\* file that exists and does not parse.  A generation record counts by name.
tornRecord ==
  /\ op # Idle
  /\ \/ /\ op.kind = "arm" /\ op.pc = "guard" /\ guardFile[op.d] = "absent"
        /\ guardFile' = [guardFile EXCEPT ![op.d] = "torn"]
        /\ UNCHANGED <<generations, rollback, recovery>>
     \/ /\ op.kind = "arm" /\ op.pc = "generation"
        /\ generations' = generations \cup {op.record.generation}
        /\ UNCHANGED <<guardFile, rollback, recovery>>
     \/ /\ op.kind = "rollback" /\ op.pc \in Disposition
        /\ rollback' = [rollback EXCEPT ![op.d] = "torn"]
        /\ UNCHANGED <<guardFile, generations, recovery>>
     \/ /\ op.kind = "manual" /\ op.pc \in Disposition
        /\ recovery' = [recovery EXCEPT ![op.d] = "torn"]
        /\ UNCHANGED <<guardFile, generations, rollback>>
  /\ op' = Idle
  /\ UNCHANGED <<success, disarmed>>

tornSuccess(d) ==
  /\ op = Idle
  /\ act[d] = "accepted" /\ guardFile[d] = "ok" /\ success[d] = "absent"
  /\ success' = [success EXCEPT ![d] = "torn"]
  /\ UNCHANGED <<guardFile, generations, disarmed, rollback, recovery, op>>

tornDisarmed(d) ==
  /\ op = Idle
  /\ guardFile[d] = "ok" /\ NoTerminal(d) /\ success[d] = "ok"
  /\ disarmed' = [disarmed EXCEPT ![d] = "torn"]
  /\ UNCHANGED <<guardFile, generations, success, rollback, recovery, op>>

tornWrite ==
  /\ "torn" \in Faults
  /\ crashes < MaxCrashes
  /\ tornRecord \/ \E d \in Deployments : tornSuccess(d) \/ tornDisarmed(d)
  /\ crashes' = crashes + 1
  /\ UNCHANGED <<now, signed, ptr, act>>

----------------------------------------------------------------------------
(* activation.ts and symlinks.ts: guard-gated pointer activation.  The     *)
(* orchestrator that calls them is outside src/; it reads the guard status *)
(* once and keeps it.                                                      *)

\* When the orchestrator takes its next step.  activation.ts looks neither
\* at the clock nor at the records again, so with the "late" fault it goes
\* on at any time, also after its guard was resolved.  Without it the
\* orchestrator is assumed to stop at the deadline by itself.
CallerInTime(d) == "late" \in Faults \/ now < signed[d].deadline

\* read(): the status the orchestrator holds from here on is `armed'.
readStatus(d) ==
  /\ act[d] = "idle"
  /\ guardFile[d] = "ok" /\ NoTerminal(d) /\ success[d] = "absent"
  /\ act' = [act EXCEPT ![d] = "armed"]
  /\ UNCHANGED <<now, records, ptr, op, crashes>>

\* atomicSwapSymlinks: the fence on both pointers ...
activateFence(d, p, from, to) ==
  /\ act[d] = from /\ CallerInTime(d)
  /\ act' = [act EXCEPT ![d] =
               IF ptr[p] = signed[d].expected[p] THEN to ELSE "rejected"]
  /\ UNCHANGED <<now, records, ptr, op, crashes>>

\* ... compare-and-swap of previous to the known-good release ...
activatePrevious(d, p, from, to) ==
  LET expected == signed[d].expected[p]
      swaps == ptr[p].previous = expected.previous
  IN  /\ act[d] = from /\ CallerInTime(d)
      /\ act' = [act EXCEPT ![d] = IF swaps THEN to ELSE "rejected"]
      /\ ptr' = IF swaps
                THEN [ptr EXCEPT ![p].previous = expected.current] ELSE ptr
      /\ UNCHANGED <<now, records, op, crashes>>

\* ... compare-and-swap of current to the candidate, and the readback.
activateCurrent(d, p, from, to) ==
  LET expected == signed[d].expected[p]
      swaps == ptr[p].current = expected.current
  IN  /\ act[d] = from /\ CallerInTime(d)
      /\ act' = [act EXCEPT ![d] =
                   IF swaps /\ ptr[p].previous = expected.current
                   THEN to ELSE "rejected"]
      /\ ptr' = IF swaps
                THEN [ptr EXCEPT ![p].current = Candidate[d]] ELSE ptr
      /\ UNCHANGED <<now, records, op, crashes>>

activateGatewayCandidate(d) ==
  \/ activateFence(d, "gateway", "armed", "gateway_fenced")
  \/ activatePrevious(d, "gateway", "gateway_fenced", "gateway_previous")
  \/ activateCurrent(d, "gateway", "gateway_previous", "gateway_done")

\* Mutant: gatewayAcceptedLegacy is not required.
activateBabyUnaccepted(d) ==
  \/ activateFence(d, "baby", "armed", "baby_fenced")
  \/ activatePrevious(d, "baby", "baby_fenced", "baby_previous")
  \/ activateCurrent(d, "baby", "baby_previous", "activated")

\* Starts from gateway_done: gatewayAcceptedLegacy.
activateBabyCandidate(d) ==
  \/ activateFence(d, "baby", "gateway_done", "baby_fenced")
  \/ activatePrevious(d, "baby", "baby_fenced", "baby_previous")
  \/ activateCurrent(d, "baby", "baby_previous", "activated")

\* The acceptance gates pass on the live candidate; the marker is signed.
accept(d) ==
  /\ act[d] = "activated" /\ CallerInTime(d)
  /\ \A p \in Products : ptr[p].current = Candidate[d]
  /\ act' = [act EXCEPT ![d] = "accepted"]
  /\ UNCHANGED <<now, records, ptr, op, crashes>>

----------------------------------------------------------------------------
Tick ==
  /\ now < MaxTime
  /\ now' = now + 1
  /\ UNCHANGED <<records, ptr, op, act, crashes>>

\* The steps of a call that holds the lock.
controllerStep ==
  writeGuardRecord \/ writeGenerationRecord \/ restoreStep \/ recordOutcome

\* The pointers a record was signed for: the current ones, or stale ones.
SignedPointers == {ptr, InitialPointers}

Next ==
  \/ Tick
  \/ controllerStep
  \/ restoreFails
  \/ crash
  \/ tornWrite
  \/ \E d \in Deployments :
       \/ \E g \in Generations, t \in 1..MaxTime, x \in SignedPointers :
            arm(d, [generation |-> g, deadline |-> t, expected |-> x])
       \/ armRetry(d)
       \/ commitSuccess(d)
       \/ disarm(d)
       \/ evaluate(d)
       \/ manualRecover(d)
       \/ readStatus(d)
       \/ activateGatewayCandidate(d)
       \/ activateBabyCandidate(d)
       \/ accept(d)

\* The timer unit calls evaluate every 15 s across reboots, a call that
\* holds the lock runs to its end unless it dies, and the clock advances.
\* Nothing is assumed of callers.
Fairness ==
  /\ WF_vars(Tick)
  /\ WF_vars(controllerStep)
  /\ \A d \in Deployments : WF_vars(evaluate(d))

Spec == Init /\ [][Next]_vars /\ Fairness

----------------------------------------------------------------------------
(* Properties                                                              *)

TypeOK ==
  /\ now \in 0..MaxTime
  /\ guardFile \in [Deployments -> File]
  /\ signed \in [Deployments -> SignedRecord \cup {NoRecord}]
  /\ generations \subseteq Generations
  /\ success \in [Deployments -> File]
  /\ disarmed \in [Deployments -> File]
  /\ rollback \in [Deployments -> {"absent", "torn"} \cup Disposition]
  /\ recovery \in [Deployments -> {"absent", "torn"} \cup Disposition]
  /\ ptr \in Pointers
  /\ op \in Op
  /\ act \in [Deployments -> ActStep]
  /\ crashes \in 0..MaxCrashes

\* At most one deployment's guard is active, whatever files a dying
\* controller left half written (arm, activeGuardIds).
OneActiveGuard ==
  \A d, e \in Deployments : Active(d) /\ Active(e) => d = e

\* A deployment never has both a disarm record and a rollback record: a
\* late marker or disarm that races with the deadline cannot turn a rolled
\* back deployment into a success, nor the other way round.
OneOutcome ==
  \A d \in Deployments : disarmed[d] = "absent" \/ rollback[d] = "absent"

\* The timer of an active guard is never answered with stale_generation, so
\* no later or concurrent arm can disable a rollback that is still due.
ActiveNeverStale ==
  \A d \in Deployments :
    Active(d) /\ guardFile[d] = "ok" => ~StaleGeneration(d)

\* While a guard is active the host stays within the pointer fence that its
\* rollback checks, at every point of an activation or of a restore that
\* died half way: the guard can always restore the snapshot.
RestorePossible ==
  \A d \in Deployments : Active(d) /\ guardFile[d] = "ok" => InFence(d)

\* Baby never runs the candidate of an active guard against the old
\* gateway: the gateway is switched first on activation and last on
\* rollback, also when either stops half way.
GatewayFirst ==
  \A d \in Deployments :
    Active(d) /\ ptr["baby"].current = Candidate[d]
      => ptr["gateway"].current = Candidate[d]

\* The phase a deployment's record files put its guard in.  A record counts
\* by its name, so a torn outcome is an outcome that was not confirmed.
GuardPhase(d) ==
  IF guardFile[d] = "absent" THEN "idle"
  ELSE IF disarmed[d] # "absent" THEN "confirmed"
  ELSE IF rollback[d] # "absent"
       THEN IF rollback[d] = "rolled_back" THEN "restored" ELSE "failed"
  ELSE IF guardFile[d] = "ok" THEN "armed" ELSE "blocked"

Contract ==
  INSTANCE GuardContract WITH
    Hosts <- Pointers, InitialHost <- InitialPointers,
    phase <- [d \in Deployments |-> GuardPhase(d)],
    saved <- [d \in Deployments |-> signed[d].expected],
    host <- ptr

\* Records, restores and activations that die at any file or pointer swap
\* implement the contract: one guard at a time, armed on the pointers that
\* are there; no pointer moves unless one is armed; one outcome, and
\* rolled_back is recorded only on exactly the pointers it was armed on.
ImplementsContract == Contract!Spec

\* "The first active mutation is forbidden until a generation-bound rollback
\* guard is durably armed": an activation moves a pointer only after its own
\* guard record was written whole, and one that moves it before its deadline
\* does so under its own unresolved guard, whatever other controller calls,
\* late orchestrators, deaths and break-glass recoveries ran since it read
\* the status.  (Past the deadline nothing holds it back: activation.ts does
\* not look at the clock, and a guard resolved meanwhile does not stop it.)
ActivationGuarded ==
  [][\A d \in Deployments :
       act'[d] # act[d] /\ ptr' # ptr
         => /\ guardFile[d] = "ok"
            /\ now < signed[d].deadline => Active(d)]_vars

\* "Caller loss, ..., reboot, deadline expiry ... must leave the independent
\* guard able to restore the exact snapshot": an armed guard is eventually
\* resolved by a committed marker or by a rollback run to its record.
GuardResolves ==
  \A d \in Deployments :
    (Active(d) /\ guardFile[d] = "ok")
      ~> (success[d] = "ok" \/ rollback[d] # "absent")
=============================================================================
