------------------------ MODULE GuardControllerProofs ------------------------
(***************************************************************************)
(* Proofs about GuardController, for every set of deployments, generations *)
(* and releases and whatever faults the environment produces.              *)
(***************************************************************************)
EXTENDS GuardController, TLAPS

(* The call that holds the lock, by kind.                                  *)
ArmOp == [kind : {"arm"}, d : Deployments, pc : {"guard", "generation"},
          record : SignedRecord]
RestoreOp == [kind : {"rollback", "manual"}, d : Deployments, pc : RestorePc]

----------------------------------------------------------------------------
(* Types                                                                   *)

\* The initial pointers and the empty record have their types.
LEMMA InitialTypes ==
  /\ InitialPointers \in Pointers
  /\ NoRecord.expected \in Pointers
BY TargetsAssumption DEF InitialPointers, NoRecord, Pointers, PointerPair,
                         Products

\* The kind of the call in progress determines its fields.
LEMMA OpShape ==
  ASSUME op \in Op
  PROVE  /\ op.kind = "arm" => op \in ArmOp
         /\ op.kind \in {"rollback", "manual"} => op \in RestoreOp
         /\ op # Idle => op \in ArmOp \cup RestoreOp
BY DEF Op, ArmOp, RestoreOp, Idle

\* What the signed record of a deployment says about pointers is well typed.
LEMMA SignedTypes ==
  ASSUME TypeOK, NEW d \in Deployments
  PROVE  /\ signed[d].expected \in Pointers
         /\ \A p \in Products :
              /\ signed[d].expected[p].current \in Targets
              /\ signed[d].expected[p].previous \in Targets \cup {NoTarget}
<1>1. signed[d] \in SignedRecord \cup {NoRecord}
  BY DEF TypeOK
<1>2. signed[d].expected \in Pointers
  BY <1>1, InitialTypes DEF SignedRecord
<1> QED
  BY <1>2 DEF Pointers, PointerPair

\* Changing one pointer of one product keeps the pointers well typed.
LEMMA PointerUpdate ==
  ASSUME ptr \in Pointers, NEW p \in Products, NEW t \in Targets,
         NEW u \in Targets \cup {NoTarget}
  PROVE  /\ [ptr EXCEPT ![p].current = t] \in Pointers
         /\ [ptr EXCEPT ![p].previous = u] \in Pointers
BY DEF Pointers, PointerPair

\* Advancing the pc of a restore keeps its shape.
LEMMA RestoreOpUpdate ==
  ASSUME op \in RestoreOp, NEW c \in RestorePc
  PROVE  [op EXCEPT !.pc = c] \in RestoreOp
BY DEF RestoreOp

\* Idle, arming and restoring calls are calls.
LEMMA OpParts == Idle \in Op /\ ArmOp \subseteq Op /\ RestoreOp \subseteq Op
BY DEF Op, ArmOp, RestoreOp

----------------------------------------------------------------------------
\* The activation of a deployment only moves its progress and a pointer.
LEMMA ActivationTypes ==
  ASSUME TypeOK, NEW d \in Deployments,
         activateGatewayCandidate(d) \/ activateBabyCandidate(d)
  PROVE  ptr' \in Pointers /\ act' \in [Deployments -> ActStep]
         /\ UNCHANGED <<now, records, op, crashes>>
<1>0. ptr \in Pointers /\ act \in [Deployments -> ActStep]
      /\ Candidate[d] \in Targets
  BY TargetsAssumption DEF TypeOK
<1>1. ASSUME NEW p \in Products, NEW f \in ActStep, NEW t \in ActStep,
             activateFence(d, p, f, t)
      PROVE  ptr' \in Pointers /\ act' \in [Deployments -> ActStep]
             /\ UNCHANGED <<now, records, op, crashes>>
  BY <1>0, <1>1 DEF activateFence, ActStep
<1>2. ASSUME NEW p \in Products, NEW f \in ActStep, NEW t \in ActStep,
             activatePrevious(d, p, f, t)
      PROVE  ptr' \in Pointers /\ act' \in [Deployments -> ActStep]
             /\ UNCHANGED <<now, records, op, crashes>>
  BY <1>0, <1>2, SignedTypes, PointerUpdate DEF activatePrevious, ActStep
<1>3. ASSUME NEW p \in Products, NEW f \in ActStep, NEW t \in ActStep,
             activateCurrent(d, p, f, t)
      PROVE  ptr' \in Pointers /\ act' \in [Deployments -> ActStep]
             /\ UNCHANGED <<now, records, op, crashes>>
  BY <1>0, <1>3, SignedTypes, PointerUpdate DEF activateCurrent, ActStep
<1>4. /\ "baby" \in Products /\ "gateway" \in Products
      /\ {"armed", "gateway_fenced", "gateway_previous", "gateway_done",
          "baby_fenced", "baby_previous", "activated"} \subseteq ActStep
  BY DEF Products, ActStep
<1> QED
  BY <1>1, <1>2, <1>3, <1>4
  DEF activateGatewayCandidate, activateBabyCandidate

\* A step of a restore moves one pointer and the call's pc.
LEMMA RestoreTypes ==
  ASSUME TypeOK, restoreStep
  PROVE  ptr' \in Pointers /\ op' \in RestoreOp /\ op \in RestoreOp
         /\ op'.kind = op.kind /\ op'.d = op.d
         /\ op.pc \notin Disposition
         /\ UNCHANGED <<now, records, act, crashes>>
<1>0. InRestore
  BY DEF restoreStep, restoreFence, restoreCurrent, restorePrevious,
         restoreVerify
<1>1. op \in RestoreOp /\ op.d \in Deployments /\ op.pc \notin Disposition
  BY <1>0, OpShape DEF TypeOK, InRestore, RestoreOp
<1>2. /\ "baby" \in Products /\ "gateway" \in Products
      /\ {"fence", "baby_current", "baby_previous", "gateway_current",
          "gateway_previous", "verify", "rolled_back", "rollback_failed"}
           \subseteq RestorePc
  BY DEF Products, RestorePc, Disposition
<1>3. \A c \in RestorePc :
        LET o == [op EXCEPT !.pc = c]
        IN  o \in RestoreOp /\ o.kind = op.kind /\ o.d = op.d
  BY <1>1, RestoreOpUpdate DEF RestoreOp
<1>4. ptr \in Pointers
  BY DEF TypeOK
<1>5. CASE restoreFence
  BY <1>1, <1>2, <1>3, <1>4, <1>5 DEF restoreFence
<1>6. ASSUME NEW p \in Products, NEW b \in RestorePc, NEW c \in RestorePc,
             restoreCurrent(p, b, c)
      PROVE  ptr' \in Pointers /\ UNCHANGED <<now, records, act, crashes>>
             /\ op' \in RestoreOp /\ op'.kind = op.kind /\ op'.d = op.d
  <2>1. signed[op.d].expected[p].current \in Targets
    BY <1>1, SignedTypes
  <2>2. [ptr EXCEPT ![p].current = signed[op.d].expected[p].current]
          \in Pointers
    BY <2>1, <1>4, PointerUpdate
  <2>3. /\ ptr' \in {ptr, [ptr EXCEPT ![p].current =
                               signed[op.d].expected[p].current]}
        /\ op' \in {[op EXCEPT !.pc = c],
                     [op EXCEPT !.pc = "rollback_failed"]}
        /\ UNCHANGED <<now, records, act, crashes>>
    BY <1>6, ZenonT(20) DEF restoreCurrent
  <2>4. op' \in RestoreOp /\ op'.kind = op.kind /\ op'.d = op.d
    <3>1. PICK k \in RestorePc : op' = [op EXCEPT !.pc = k]
      BY <2>3, <1>2, Zenon
    <3> QED
      BY <3>1, <1>3, Zenon
  <2> QED
    BY <2>2, <2>3, <2>4, <1>4
<1>7. ASSUME NEW p \in Products, NEW b \in RestorePc, NEW c \in RestorePc,
             restorePrevious(p, b, c)
      PROVE  ptr' \in Pointers /\ UNCHANGED <<now, records, act, crashes>>
             /\ op' \in RestoreOp /\ op'.kind = op.kind /\ op'.d = op.d
  BY <1>1, <1>3, <1>4, <1>7, SignedTypes, PointerUpdate DEF restorePrevious
<1>8. CASE restoreVerify
  BY <1>1, <1>2, <1>3, <1>4, <1>8 DEF restoreVerify
<1> QED
  BY <1>1, <1>2, <1>5, <1>6, <1>7, <1>8 DEF restoreStep

----------------------------------------------------------------------------
(* The inductive invariant behind the safety of the records                *)

\* While arm() is between its checks and its last write, what it checked
\* still holds: the lock keeps every other call out.
ArmInv ==
  op.kind = "arm" =>
    /\ \A g \in generations : g < op.record.generation
    /\ \A e \in Deployments : Active(e) => op.pc = "generation" /\ e = op.d
    /\ op.pc = "generation" =>
         guardFile[op.d] = "ok" /\ signed[op.d] = op.record

\* While a rollback runs its deployment has no outcome yet.
RollbackInv == op.kind = "rollback" => NoTerminal(op.d)

SafetyInv ==
  TypeOK /\ OneActiveGuard /\ OneOutcome /\ ActiveNeverStale /\ ArmInv
    /\ RollbackInv

\* Initially no record exists.
LEMMA InitSafety == Init => SafetyInv
<1> SUFFICES ASSUME Init PROVE SafetyInv
  OBVIOUS
<1>1. TypeOK
  <2>1. signed \in [Deployments -> SignedRecord \cup {NoRecord}]
    BY DEF Init
  <2>2. ptr \in Pointers /\ op \in Op
    BY InitialTypes, OpParts DEF Init
  <2>3. act \in [Deployments -> ActStep]
    BY DEF Init, ActStep
  <2> QED
    BY <2>1, <2>2, <2>3, BoundsAssumption DEF Init, TypeOK, File
<1>2. \A d \in Deployments : ~Active(d) /\ rollback[d] = "absent"
  BY DEF Init, Active
<1>3. op.kind = "idle"
  BY DEF Init, Idle
<1> QED
  BY <1>1, <1>2, <1>3 DEF SafetyInv, OneActiveGuard, OneOutcome,
       ActiveNeverStale, ArmInv, RollbackInv

\* A step that touches no record and does not change the call in progress,
\* other than to end it or to move a restore on, keeps the invariant.
LEMMA QuietStep ==
  ASSUME SafetyInv, TypeOK', UNCHANGED records,
         \/ op' = op
         \/ op' = Idle
         \/ op'.kind \in {"rollback", "manual"} /\ op'.kind = op.kind
            /\ op'.d = op.d
  PROVE  SafetyInv'
<1>1. \A d \in Deployments : Active(d)' = Active(d)
                             /\ NoTerminal(d)' = NoTerminal(d)
                             /\ StaleGeneration(d)' = StaleGeneration(d)
  BY DEF records, Active, NoTerminal, StaleGeneration
<1>2. (OneActiveGuard /\ OneOutcome /\ ActiveNeverStale)'
  BY <1>1 DEF SafetyInv, OneActiveGuard, OneOutcome, ActiveNeverStale,
              records
<1>3. ArmInv'
  <2>1. CASE op' = op
    BY <2>1, <1>1 DEF SafetyInv, ArmInv, records
  <2>2. CASE op' # op
    BY <2>2 DEF ArmInv, Idle
  <2> QED
    BY <2>1, <2>2
<1>4. RollbackInv'
  <2>1. CASE op'.kind = "rollback"
    <3>1. op.kind = "rollback" /\ op'.d = op.d
      BY <2>1 DEF Idle
    <3>2. NoTerminal(op.d)
      BY <3>1 DEF SafetyInv, RollbackInv
    <3> QED
      BY <3>1, <3>2 DEF RollbackInv, NoTerminal, records
  <2> QED
    BY <2>1 DEF RollbackInv
<1> QED
  BY <1>2, <1>3, <1>4 DEF SafetyInv

\* A record that ends a guard, or marks a success, only shrinks the set of
\* active guards; no generation and no guard record changes.
LEMMA OutcomeStep ==
  ASSUME SafetyInv, TypeOK', op' = Idle, OneOutcome',
         UNCHANGED <<signed, generations, guardFile>>,
         \A d \in Deployments : Active(d)' => Active(d)
  PROVE  SafetyInv'
<1>1. OneActiveGuard'
  BY DEF SafetyInv, OneActiveGuard
<1>2. ActiveNeverStale'
  BY DEF SafetyInv, ActiveNeverStale, StaleGeneration
<1> QED
  BY <1>1, <1>2 DEF SafetyInv, ArmInv, RollbackInv, Idle

\* arm: the checks hold when the call starts.
LEMMA ArmSafety ==
  ASSUME SafetyInv, NEW d \in Deployments, NEW g \in Generations,
         NEW t \in 1..MaxTime, NEW x \in SignedPointers,
         arm(d, [generation |-> g, deadline |-> t, expected |-> x])
  PROVE  SafetyInv'
<1> DEFINE r == [generation |-> g, deadline |-> t, expected |-> x]
<1>1. /\ \A e \in Deployments : ~Active(e)
      /\ \A h \in generations : h < r.generation
      /\ op' = [kind |-> "arm", d |-> d, pc |-> "guard", record |-> r]
      /\ UNCHANGED <<now, records, ptr, act, crashes>>
  BY DEF arm, NoActiveGuard, GenerationIsNew
<1>2. r \in SignedRecord
  BY InitialTypes DEF SafetyInv, TypeOK, SignedRecord, SignedPointers
<1>3. op' \in Op
  BY <1>1, <1>2, OpParts DEF ArmOp
<1>4. TypeOK'
  BY <1>1, <1>3 DEF SafetyInv, TypeOK, records
<1>5. \A e \in Deployments : ~Active(e)'
  BY <1>1 DEF Active, records
<1>6. (OneActiveGuard /\ OneOutcome /\ ActiveNeverStale)'
  BY <1>1, <1>5 DEF SafetyInv, OneActiveGuard, OneOutcome, ActiveNeverStale,
                    records
<1>7. op'.kind = "arm" /\ op'.pc = "guard" /\ op'.record = r
  BY <1>1
<1>8. ArmInv' /\ RollbackInv'
  BY <1>1, <1>5, <1>7 DEF ArmInv, RollbackInv, records
<1> QED
  BY <1>4, <1>6, <1>8 DEF SafetyInv

\* writeGuardRecord: the only active guard is the one just written, and its
\* generation is above every recorded one.
LEMMA WriteGuardSafety ==
  ASSUME SafetyInv, writeGuardRecord
  PROVE  SafetyInv'
<1>1. op \in ArmOp /\ op.pc = "guard" /\ op.d \in Deployments
      /\ op.record \in SignedRecord /\ op.kind = "arm"
  BY OpShape DEF SafetyInv, TypeOK, writeGuardRecord, ArmOp
<1>2. op' = [op EXCEPT !.pc = "generation"]
  BY DEF writeGuardRecord
<1>3. op' \in ArmOp /\ op'.kind = "arm" /\ op'.pc = "generation"
      /\ op'.d = op.d /\ op'.record = op.record
  BY <1>1, <1>2 DEF ArmOp
<1>4. /\ guardFile' = [guardFile EXCEPT ![op.d] = "ok"]
      /\ signed' = [signed EXCEPT ![op.d] = op.record]
      /\ UNCHANGED <<now, generations, success, disarmed, rollback,
                     recovery, ptr, act, crashes>>
  BY DEF writeGuardRecord
<1>5. TypeOK'
  <2>1. guardFile' \in [Deployments -> File]
    BY <1>1, <1>4 DEF SafetyInv, TypeOK, File
  <2>2. signed' \in [Deployments -> SignedRecord \cup {NoRecord}]
    BY <1>1, <1>4 DEF SafetyInv, TypeOK
  <2>3. op' \in Op
    BY <1>3, OpParts
  <2> QED
    BY <2>1, <2>2, <2>3, <1>4 DEF SafetyInv, TypeOK
<1>6. \A e \in Deployments : ~Active(e)
  BY <1>1 DEF SafetyInv, ArmInv
<1>7. \A e \in Deployments : Active(e)' => e = op.d
  BY <1>1, <1>4, <1>6 DEF Active, SafetyInv, TypeOK
<1>8. signed'[op.d] = op.record /\ guardFile'[op.d] = "ok"
  BY <1>1, <1>4 DEF SafetyInv, TypeOK
<1>9. \A g \in generations' : g < op.record.generation
  BY <1>1, <1>4 DEF SafetyInv, ArmInv
<1>10. OneActiveGuard' /\ OneOutcome'
  BY <1>7, <1>4 DEF SafetyInv, OneActiveGuard, OneOutcome
<1>11. op.record.generation \in Nat /\ generations' \subseteq Nat
  BY <1>1, <1>4, GenerationsAssumption
  DEF SignedRecord, SafetyInv, TypeOK
<1>12. ActiveNeverStale'
  <2> SUFFICES ASSUME NEW e \in Deployments, Active(e)',
                      NEW g \in generations', g > signed'[e].generation
               PROVE  FALSE
    BY DEF ActiveNeverStale, StaleGeneration
  <2>1. signed'[e].generation = op.record.generation
    BY <1>7, <1>8
  <2> QED
    BY <2>1, <1>9, <1>11
<1>13. ArmInv' /\ RollbackInv'
  BY <1>3, <1>7, <1>8, <1>9 DEF ArmInv, RollbackInv
<1> QED
  BY <1>5, <1>10, <1>12, <1>13 DEF SafetyInv

\* The generation record is written, or created and left empty, while only
\* its own guard can be active.
LEMMA GenerationStep ==
  ASSUME SafetyInv, op.kind = "arm", op.pc = "generation", TypeOK',
         generations' = generations \cup {op.record.generation},
         op' = Idle,
         UNCHANGED <<guardFile, signed, disarmed, rollback>>
  PROVE  SafetyInv'
<1>1. op \in ArmOp /\ op.d \in Deployments /\ op.record \in SignedRecord
  BY OpShape DEF SafetyInv, TypeOK, ArmOp
<1>2. /\ \A g \in generations : g < op.record.generation
      /\ \A e \in Deployments : Active(e) => e = op.d
      /\ signed[op.d] = op.record
  BY DEF SafetyInv, ArmInv
<1>3. \A e \in Deployments : Active(e)' = Active(e)
  BY DEF Active
<1>4. OneActiveGuard' /\ OneOutcome'
  BY <1>3 DEF SafetyInv, OneActiveGuard, OneOutcome
<1>5. op.record.generation \in Nat /\ generations \subseteq Nat
  BY <1>1, GenerationsAssumption DEF SignedRecord, SafetyInv, TypeOK
<1>6. ActiveNeverStale'
  <2> SUFFICES ASSUME NEW e \in Deployments, Active(e)',
                      NEW g \in generations', g > signed'[e].generation
               PROVE  FALSE
    BY DEF ActiveNeverStale, StaleGeneration
  <2>1. signed'[e].generation = op.record.generation
    BY <1>2, <1>3
  <2> QED
    BY <2>1, <1>2, <1>5
<1> QED
  BY <1>4, <1>6 DEF SafetyInv, ArmInv, RollbackInv, Idle

\* commitSuccess, disarm and their torn variants: disarm needs a deployment
\* without an outcome, so it never joins a rollback record.
LEMMA MarkerSafety ==
  ASSUME SafetyInv, NEW d \in Deployments, op' = op,
         UNCHANGED <<now, guardFile, signed, generations, rollback,
                     recovery, ptr, act>>,
         crashes' \in 0..MaxCrashes,
         \/ commitSuccess(d) \/ tornSuccess(d)
         \/ disarm(d) \/ tornDisarmed(d)
  PROVE  SafetyInv'
<1>1. op = Idle
  BY DEF commitSuccess, disarm, tornSuccess, tornDisarmed
<1>2. CASE commitSuccess(d) \/ tornSuccess(d)
  <2>1. success' \in [Deployments -> File] /\ UNCHANGED disarmed
    BY <1>2 DEF commitSuccess, tornSuccess, SafetyInv, TypeOK, File
  <2>2. TypeOK'
    BY <2>1 DEF SafetyInv, TypeOK
  <2>3. OneOutcome' /\ \A e \in Deployments : Active(e)' => Active(e)
    BY <2>1 DEF SafetyInv, OneOutcome, Active
  <2> QED
    BY <1>1, <2>2, <2>3, OutcomeStep
<1>3. CASE disarm(d) \/ tornDisarmed(d)
  <2>1. PICK f \in {"ok", "torn"} : disarmed' = [disarmed EXCEPT ![d] = f]
    BY <1>3 DEF disarm, tornDisarmed
  <2>2. UNCHANGED success /\ NoTerminal(d)
    BY <1>3 DEF disarm, tornDisarmed
  <2>3. TypeOK'
    BY <2>1, <2>2 DEF SafetyInv, TypeOK, File
  <2>4. OneOutcome'
    BY <2>1, <2>2 DEF SafetyInv, OneOutcome, NoTerminal, TypeOK
  <2>5. \A e \in Deployments : Active(e)' => Active(e)
    BY <2>1 DEF SafetyInv, Active, TypeOK
  <2> QED
    BY <1>1, <2>3, <2>4, <2>5, OutcomeStep
<1> QED
  BY <1>2, <1>3

\* The start of a rollback or of a manual recovery.
LEMMA StartRestoreSafety ==
  ASSUME SafetyInv, NEW d \in Deployments, evaluate(d) \/ manualRecover(d)
  PROVE  SafetyInv'
<1>1. PICK k \in {"rollback", "manual"} :
        /\ op' = [kind |-> k, d |-> d, pc |-> "fence"]
        /\ k = "rollback" => NoTerminal(d)
        /\ UNCHANGED <<now, records, ptr, act, crashes>>
  BY DEF evaluate, manualRecover
<1>2. op' \in RestoreOp /\ op'.kind = k /\ op'.d = d
  BY <1>1 DEF RestoreOp, RestorePc
<1>3. TypeOK'
  BY <1>1, <1>2, OpParts DEF SafetyInv, TypeOK, records
<1>4. \A e \in Deployments : Active(e)' = Active(e)
                             /\ StaleGeneration(e)' = StaleGeneration(e)
  BY <1>1 DEF records, Active, StaleGeneration
<1>5. (OneActiveGuard /\ OneOutcome /\ ActiveNeverStale)'
  BY <1>1, <1>4 DEF SafetyInv, OneActiveGuard, OneOutcome,
                    ActiveNeverStale, records
<1>6. ArmInv'
  BY <1>2 DEF ArmInv
<1>7. RollbackInv'
  BY <1>1, <1>2 DEF RollbackInv, NoTerminal, records
<1> QED
  BY <1>3, <1>5, <1>6, <1>7 DEF SafetyInv

\* The outcome of a restore, recorded or torn: a rollback record is written
\* only while there is no outcome.
LEMMA OutcomeSafety ==
  ASSUME SafetyInv, op.kind \in {"rollback", "manual"}, op' = Idle,
         NEW v \in {"torn"} \cup Disposition,
         \/ op.kind = "rollback" /\ UNCHANGED recovery
            /\ rollback' = [rollback EXCEPT ![op.d] = v]
         \/ op.kind = "manual" /\ UNCHANGED rollback
            /\ recovery' = [recovery EXCEPT ![op.d] = v],
         UNCHANGED <<now, guardFile, signed, generations, success, disarmed,
                     ptr, act>>,
         crashes' \in 0..MaxCrashes
  PROVE  SafetyInv'
<1>1. op.d \in Deployments
  BY OpShape DEF SafetyInv, TypeOK, RestoreOp
<1>2. rollback' \in [Deployments -> {"absent", "torn"} \cup Disposition]
      /\ recovery' \in [Deployments -> {"absent", "torn"} \cup Disposition]
  BY <1>1 DEF SafetyInv, TypeOK
<1>3. TypeOK'
  BY <1>2, OpParts DEF SafetyInv, TypeOK
<1>4. OneOutcome'
  BY <1>1 DEF SafetyInv, OneOutcome, RollbackInv, NoTerminal, TypeOK
<1>5. \A e \in Deployments : Active(e)' => Active(e)
  BY <1>1 DEF SafetyInv, Active, TypeOK, Disposition
<1> QED
  BY <1>3, <1>4, <1>5, OutcomeStep

\* A record created by a controller that dies before it has written it.
LEMMA TornSafety ==
  ASSUME SafetyInv, tornWrite
  PROVE  SafetyInv'
<1>1. crashes' \in 0..MaxCrashes /\ UNCHANGED <<now, signed, ptr, act>>
  BY BoundsAssumption DEF tornWrite, SafetyInv, TypeOK
<1>2. CASE tornRecord
  <2>1. op' = Idle /\ UNCHANGED <<success, disarmed>>
    BY <1>2 DEF tornRecord
  <2>2. CASE /\ op.kind = "arm" /\ op.pc = "guard"
             /\ guardFile' = [guardFile EXCEPT ![op.d] = "torn"]
             /\ UNCHANGED <<generations, rollback, recovery>>
    <3>1. op.d \in Deployments
      BY <2>2, OpShape DEF SafetyInv, TypeOK, ArmOp
    <3>2. TypeOK'
      BY <1>1, <2>1, <2>2, <3>1, OpParts DEF SafetyInv, TypeOK, File
    <3>3. \A e \in Deployments : Active(e)' => e = op.d
      BY <2>1, <2>2, <3>1 DEF SafetyInv, ArmInv, Active, TypeOK
    <3>4. guardFile'[op.d] = "torn"
      BY <2>2, <3>1 DEF SafetyInv, TypeOK
    <3> QED
      BY <2>1, <2>2, <3>2, <3>3, <3>4
      DEF SafetyInv, OneActiveGuard, OneOutcome, ActiveNeverStale, ArmInv,
          RollbackInv, Idle
  <2>3. CASE /\ op.kind = "arm" /\ op.pc = "generation"
             /\ generations' = generations \cup {op.record.generation}
             /\ UNCHANGED <<guardFile, rollback, recovery>>
    <3>1. op.record.generation \in Generations
      BY <2>3, OpShape DEF SafetyInv, TypeOK, ArmOp, SignedRecord
    <3>2. TypeOK'
      BY <1>1, <2>1, <2>3, <3>1, OpParts DEF SafetyInv, TypeOK
    <3> QED
      BY <1>1, <2>1, <2>3, <3>2, GenerationStep
  <2>4. CASE /\ op.kind \in {"rollback", "manual"}
             /\ UNCHANGED <<guardFile, generations>>
             /\ \/ op.kind = "rollback" /\ UNCHANGED recovery
                   /\ rollback' = [rollback EXCEPT ![op.d] = "torn"]
                \/ op.kind = "manual" /\ UNCHANGED rollback
                   /\ recovery' = [recovery EXCEPT ![op.d] = "torn"]
    BY <1>1, <2>1, <2>4, OutcomeSafety
  <2> QED
    BY <1>2, <2>2, <2>3, <2>4 DEF tornRecord
<1>3. CASE \E d \in Deployments : tornSuccess(d) \/ tornDisarmed(d)
  <2>1. PICK d \in Deployments : tornSuccess(d) \/ tornDisarmed(d)
    BY <1>3
  <2>2. op' = op /\ UNCHANGED <<guardFile, generations, rollback, recovery>>
    BY <2>1 DEF tornSuccess, tornDisarmed
  <2> QED
    BY <1>1, <2>1, <2>2, MarkerSafety
<1> QED
  BY <1>2, <1>3 DEF tornWrite

\* Every step of the controller, of its callers, of the activations and of
\* the environment keeps the invariant.
LEMMA SafetyInductive == SafetyInv /\ [Next]_vars => SafetyInv'
<1> SUFFICES ASSUME SafetyInv, [Next]_vars PROVE SafetyInv'
  OBVIOUS
<1>0. TypeOK
  BY DEF SafetyInv
<1>1. CASE Tick
  <2>1. now' \in 0..MaxTime /\ UNCHANGED <<records, ptr, op, act, crashes>>
    BY <1>0, <1>1, BoundsAssumption DEF Tick, TypeOK
  <2>2. TypeOK'
    BY <1>0, <2>1 DEF TypeOK, records
  <2> QED
    BY <2>1, <2>2, QuietStep
<1>2. CASE writeGuardRecord
  BY <1>2, WriteGuardSafety
<1>3. CASE writeGenerationRecord
  <2>1. op.d \in Deployments /\ op.record.generation \in Generations
    BY <1>0, <1>3, OpShape
    DEF TypeOK, writeGenerationRecord, ArmOp, SignedRecord
  <2>2. act' \in [Deployments -> ActStep]
    BY <1>0, <1>3, <2>1 DEF TypeOK, writeGenerationRecord, ActStep
  <2>3. TypeOK'
    BY <1>0, <1>3, <2>1, <2>2, OpParts DEF TypeOK, writeGenerationRecord
  <2> QED
    BY <1>3, <2>3, GenerationStep DEF writeGenerationRecord
<1>4. CASE restoreStep
  <2>1. ptr' \in Pointers /\ op' \in RestoreOp
        /\ op'.kind = op.kind /\ op'.d = op.d
        /\ UNCHANGED <<now, records, act, crashes>>
    BY <1>0, <1>4, RestoreTypes
  <2>2. TypeOK'
    BY <1>0, <2>1, OpParts DEF TypeOK, records
  <2> QED
    BY <2>1, <2>2, QuietStep DEF RestoreOp
<1>5. CASE restoreFails
  <2>1. op \in RestoreOp /\ op' = [op EXCEPT !.pc = "rollback_failed"]
        /\ UNCHANGED <<now, records, ptr, act, crashes>>
    BY <1>0, <1>5, OpShape DEF TypeOK, restoreFails, InRestore
  <2>2. op' \in RestoreOp /\ op'.kind = op.kind /\ op'.d = op.d
    BY <2>1 DEF RestoreOp, RestorePc, Disposition
  <2>3. TypeOK'
    BY <1>0, <2>1, <2>2, OpParts DEF TypeOK, records
  <2> QED
    BY <2>1, <2>2, <2>3, QuietStep DEF RestoreOp
<1>6. CASE recordOutcome
  <2>1. op.pc \in {"torn"} \cup Disposition
    BY <1>6 DEF recordOutcome
  <2>2. crashes' \in 0..MaxCrashes
    BY <1>0, <1>6 DEF recordOutcome, TypeOK
  <2> QED
    BY <1>6, <2>1, <2>2, OutcomeSafety DEF recordOutcome
<1>7. CASE crash
  <2>1. crashes' \in 0..MaxCrashes /\ op' = Idle
        /\ UNCHANGED <<now, records, ptr, act>>
    BY <1>0, <1>7, BoundsAssumption DEF crash, TypeOK
  <2>2. TypeOK'
    BY <1>0, <2>1, OpParts DEF TypeOK, records
  <2> QED
    BY <2>1, <2>2, QuietStep
<1>8. CASE tornWrite
  BY <1>8, TornSafety
<1>9. ASSUME NEW d \in Deployments,
             \E g \in Generations, t \in 1..MaxTime, x \in SignedPointers :
               arm(d, [generation |-> g, deadline |-> t, expected |-> x])
      PROVE  SafetyInv'
  BY <1>9, ArmSafety
<1>10. ASSUME NEW d \in Deployments,
              armRetry(d) \/ readStatus(d) \/ accept(d)
       PROVE  SafetyInv'
  <2>1. act' \in [Deployments -> ActStep]
        /\ UNCHANGED <<now, records, ptr, op, crashes>>
    BY <1>0, <1>10 DEF armRetry, readStatus, accept, TypeOK, ActStep
  <2>2. TypeOK'
    BY <1>0, <2>1 DEF TypeOK, records
  <2> QED
    BY <2>1, <2>2, QuietStep
<1>11. ASSUME NEW d \in Deployments, commitSuccess(d) \/ disarm(d)
       PROVE  SafetyInv'
  <2>1. op' = op /\ crashes' \in 0..MaxCrashes
        /\ UNCHANGED <<now, guardFile, signed, generations, rollback,
                       recovery, ptr, act>>
    BY <1>0, <1>11 DEF commitSuccess, disarm, TypeOK
  <2> QED
    BY <1>11, <2>1, MarkerSafety
<1>12. ASSUME NEW d \in Deployments, evaluate(d) \/ manualRecover(d)
       PROVE  SafetyInv'
  BY <1>12, StartRestoreSafety
<1>13. ASSUME NEW d \in Deployments,
              activateGatewayCandidate(d) \/ activateBabyCandidate(d)
       PROVE  SafetyInv'
  <2>1. ptr' \in Pointers /\ act' \in [Deployments -> ActStep]
        /\ UNCHANGED <<now, records, op, crashes>>
    BY <1>0, <1>13, ActivationTypes
  <2>2. TypeOK'
    BY <1>0, <2>1 DEF TypeOK, records
  <2> QED
    BY <2>1, <2>2, QuietStep
<1>14. CASE UNCHANGED vars
  <2>1. TypeOK' /\ op' = op /\ UNCHANGED records
    BY <1>0, <1>14 DEF TypeOK, vars, records
  <2> QED
    BY <2>1, QuietStep
<1> QED
  BY <1>1, <1>2, <1>3, <1>4, <1>5, <1>6, <1>7, <1>8, <1>9, <1>10, <1>11,
     <1>12, <1>13, <1>14
  DEF Next, controllerStep

\* The inductive invariant holds throughout.
LEMMA SafetyAlways == Spec => []SafetyInv
<1>1. Init => SafetyInv
  BY InitSafety
<1>2. SafetyInv /\ [Next]_vars => SafetyInv'
  BY SafetyInductive
<1> QED
  BY <1>1, <1>2, PTL DEF Spec

\* The controller's records, pointers and calls keep their types under
\* every fault, crashes in the middle of a write included.
THEOREM GuardTypeOK == Spec => []TypeOK
<1>1. SafetyInv => TypeOK
  BY DEF SafetyInv
<1> QED
  BY <1>1, SafetyAlways, PTL

\* At any time at most one deployment has an active guard: no interleaving
\* of arm, disarm, rollback and dying controllers arms a second one.
THEOREM GuardExclusive == Spec => []OneActiveGuard
<1>1. SafetyInv => OneActiveGuard
  BY DEF SafetyInv
<1> QED
  BY <1>1, SafetyAlways, PTL

\* Disarm and rollback exclude each other for ever, although neither the
\* late success marker nor the crashed rollback leaves a terminal record.
THEOREM GuardOneOutcome == Spec => []OneOutcome
<1>1. SafetyInv => OneOutcome
  BY DEF SafetyInv
<1> QED
  BY <1>1, SafetyAlways, PTL

\* The deadline timer of an active guard is never refused as stale.
THEOREM GuardNeverStale == Spec => []ActiveNeverStale
<1>1. SafetyInv => ActiveNeverStale
  BY DEF SafetyInv
<1> QED
  BY <1>1, SafetyAlways, PTL

----------------------------------------------------------------------------
(* The pointer fence, when callers respect the deadline and nobody uses    *)
(* break-glass recovery                                                    *)

NoLateNoManual == Faults \cap {"late", "manual"} = {}

\* What the records of a deployment say about its caller's progress and
\* about the clock.
Bookkeeping ==
  \A d \in Deployments :
    /\ guardFile[d] # "ok" =>
         act[d] = "idle" /\ success[d] = "absent"
         /\ disarmed[d] = "absent" /\ rollback[d] = "absent"
    /\ success[d] # "absent" \/ disarmed[d] # "absent" => act[d] = "accepted"
    /\ rollback[d] # "absent" => now >= signed[d].deadline

\* What the call in progress relies on: an arming call on the pointers it
\* compared, a rollback on the expired deadline.
OpFence ==
  /\ op.kind = "arm" =>
       /\ op.pc = "guard" => ptr = op.record.expected
       /\ guardFile[op.d] = "ok" => signed[op.d] = op.record
  /\ op.kind = "rollback" =>
       guardFile[op.d] = "ok" /\ now >= signed[op.d].deadline
  /\ op.kind # "manual"

FenceInv == RestorePossible /\ Bookkeeping /\ OpFence

\* Clock values and deadlines are numbers.
LEMMA ClockTypes ==
  ASSUME TypeOK
  PROVE  now \in Int /\ \A d \in Deployments : signed[d].deadline \in Int
<1>1. \A d \in Deployments : signed[d] \in SignedRecord \cup {NoRecord}
  BY DEF TypeOK
<1>2. NoRecord.deadline \in Int /\ \A r \in SignedRecord : r.deadline \in Int
  BY BoundsAssumption DEF NoRecord, SignedRecord
<1> QED
  BY <1>1, <1>2, BoundsAssumption DEF TypeOK

\* An activation that still acts before its deadline has its guard active.
LEMMA ActingActive ==
  ASSUME TypeOK, FenceInv, NEW d \in Deployments,
         act[d] \notin {"idle", "accepted"}, now < signed[d].deadline
  PROVE  Active(d) /\ guardFile[d] = "ok" /\ InFence(d)
<1>1. guardFile[d] = "ok" /\ disarmed[d] = "absent"
  BY DEF FenceInv, Bookkeeping
<1>2. rollback[d] = "absent"
  BY ClockTypes DEF FenceInv, Bookkeeping
<1>3. Active(d)
  BY <1>1, <1>2 DEF Active
<1> QED
  BY <1>1, <1>3 DEF FenceInv, RestorePossible

\* Initially no guard exists.
LEMMA InitFence == Init => FenceInv
<1> SUFFICES ASSUME Init PROVE FenceInv
  OBVIOUS
<1>1. \A d \in Deployments : ~Active(d)
  BY DEF Init, Active
<1>2. op.kind = "idle"
  BY DEF Init, Idle
<1> QED
  BY <1>1, <1>2 DEF FenceInv, RestorePossible, Bookkeeping, OpFence, Init

\* A step that only ends the call in progress, or advances a rollback.
LEMMA FenceQuiet ==
  ASSUME FenceInv, UNCHANGED <<now, records, ptr, act>>,
         \/ op' = op
         \/ op' = Idle
         \/ op'.kind = op.kind /\ op'.d = op.d /\ op.kind = "rollback"
  PROVE  FenceInv'
<1>1. RestorePossible'
  BY DEF FenceInv, RestorePossible, Active, InFence, records
<1>2. Bookkeeping'
  BY DEF FenceInv, Bookkeeping, records
<1>3. OpFence'
  BY DEF FenceInv, OpFence, records, Idle
<1> QED
  BY <1>1, <1>2, <1>3 DEF FenceInv

\* Pointers move only inside the fence of the one active guard, and then no
\* arming call is in progress.
LEMMA FenceMove ==
  ASSUME SafetyInv, FenceInv, NEW d \in Deployments, Active(d), InFence(d)',
         UNCHANGED <<now, records>>, Bookkeeping', OpFence'
  PROVE  FenceInv'
<1>1. \A e \in Deployments : Active(e) => e = d
  BY DEF SafetyInv, OneActiveGuard
<1>2. RestorePossible'
  BY <1>1 DEF RestorePossible, Active, records
<1> QED
  BY <1>2 DEF FenceInv

\* The two compare-and-swaps and the fence of an activation.
LEMMA FenceActivation ==
  ASSUME SafetyInv, FenceInv, NoLateNoManual, NEW d \in Deployments,
         activateGatewayCandidate(d) \/ activateBabyCandidate(d)
  PROVE  FenceInv' /\ Active(d) /\ InFence(d)
<1> DEFINE Acting == {"armed", "gateway_fenced", "gateway_previous",
                      "gateway_done", "baby_fenced", "baby_previous"}
           Moved == Acting \cup {"activated", "rejected"}
<1>0. TypeOK
  BY DEF SafetyInv
<1>1. /\ act[d] \in Acting /\ CallerInTime(d)
      /\ UNCHANGED <<now, records, op>>
  BY DEF activateGatewayCandidate, activateBabyCandidate, activateFence,
         activatePrevious, activateCurrent
<1>2. now < signed[d].deadline
  BY <1>1 DEF CallerInTime, NoLateNoManual
<1>3. Active(d) /\ guardFile[d] = "ok" /\ InFence(d)
  BY <1>0, <1>1, <1>2, ActingActive
<1>4. act'[d] \in Moved /\ \A e \in Deployments : e # d => act'[e] = act[e]
  <2>1. ASSUME NEW p, NEW f, NEW t \in Moved,
               \/ activateFence(d, p, f, t) \/ activatePrevious(d, p, f, t)
               \/ activateCurrent(d, p, f, t)
        PROVE  act'[d] \in Moved
               /\ \A e \in Deployments : e # d => act'[e] = act[e]
    BY <1>0, <2>1 DEF TypeOK, activateFence, activatePrevious,
                      activateCurrent
  <2> QED
    BY <2>1 DEF activateGatewayCandidate, activateBabyCandidate
<1>5. InFence(d)'
  <2>1. ASSUME NEW p \in Products, NEW f, NEW t,
               \/ activateFence(d, p, f, t) \/ activatePrevious(d, p, f, t)
               \/ activateCurrent(d, p, f, t)
        PROVE  InFence(d)'
    <3>0. ptr \in Pointers /\ signed' = signed
      BY <1>0, <1>1 DEF TypeOK, records
    <3>1. CASE ptr' = ptr
      BY <1>3, <3>0, <3>1 DEF InFence
    <3>2. CASE ptr' = [ptr EXCEPT ![p].previous =
                         signed[d].expected[p].current]
      BY <1>3, <3>0, <3>2 DEF InFence, Pointers, PointerPair
    <3>3. CASE ptr' = [ptr EXCEPT ![p].current = Candidate[d]]
      BY <1>3, <3>0, <3>3 DEF InFence, Pointers, PointerPair
    <3>4. \/ ptr' = ptr
          \/ ptr' = [ptr EXCEPT ![p].previous = signed[d].expected[p].current]
          \/ ptr' = [ptr EXCEPT ![p].current = Candidate[d]]
      BY <2>1, Zenon DEF activateFence, activatePrevious, activateCurrent
    <3> QED
      BY <3>1, <3>2, <3>3, <3>4
  <2> QED
    BY <2>1 DEF activateGatewayCandidate, activateBabyCandidate, Products
<1>6. Bookkeeping'
  BY <1>1, <1>3, <1>4 DEF FenceInv, Bookkeeping, records
<1>7. OpFence'
  <2>1. ~(op.kind = "arm" /\ op.pc = "guard")
    BY <1>3 DEF SafetyInv, ArmInv
  <2> QED
    BY <1>1, <2>1 DEF FenceInv, OpFence, records
<1> QED
  BY <1>1, <1>3, <1>5, <1>6, <1>7, FenceMove

\* A step of a rollback moves pointers towards the signed record.
LEMMA FenceRestore ==
  ASSUME SafetyInv, FenceInv, restoreStep
  PROVE  FenceInv'
<1>0. TypeOK
  BY DEF SafetyInv
<1>1. /\ op \in RestoreOp /\ op'.kind = op.kind /\ op'.d = op.d
      /\ UNCHANGED <<now, records, act>>
  BY <1>0, RestoreTypes
<1>2. op.kind = "rollback" /\ op.d \in Deployments
  BY <1>1 DEF RestoreOp, FenceInv, OpFence
<1>3. Active(op.d) /\ guardFile[op.d] = "ok"
  BY <1>2 DEF SafetyInv, RollbackInv, NoTerminal, FenceInv, OpFence, Active
<1>4. InFence(op.d)
  BY <1>2, <1>3 DEF FenceInv, RestorePossible
<1>5. InFence(op.d)'
  <2>0. ptr \in Pointers /\ signed' = signed
    BY <1>0, <1>1 DEF TypeOK, records
  <2>1. \/ ptr' = ptr
        \/ \E p \in Products :
             \/ ptr' = [ptr EXCEPT ![p].current =
                          signed[op.d].expected[p].current]
             \/ ptr' = [ptr EXCEPT ![p].previous =
                          signed[op.d].expected[p].previous]
    <3>1. ASSUME NEW p \in Products, NEW b, NEW c,
                 restoreCurrent(p, b, c) \/ restorePrevious(p, b, c)
          PROVE  \/ ptr' = ptr
                 \/ ptr' = [ptr EXCEPT ![p].current =
                              signed[op.d].expected[p].current]
                 \/ ptr' = [ptr EXCEPT ![p].previous =
                              signed[op.d].expected[p].previous]
      BY <3>1, Zenon DEF restoreCurrent, restorePrevious
    <3>2. restoreFence \/ restoreVerify => ptr' = ptr
      BY DEF restoreFence, restoreVerify
    <3>3. "baby" \in Products /\ "gateway" \in Products
      BY DEF Products
    <3> QED
      BY <3>1, <3>2, <3>3, Zenon DEF restoreStep
  <2>2. CASE ptr' = ptr
    BY <1>1, <1>4, <2>0, <2>2 DEF InFence
  <2>3. ASSUME NEW p \in Products,
               ptr' = [ptr EXCEPT ![p].current =
                         signed[op.d].expected[p].current]
        PROVE  InFence(op.d)'
    BY <1>1, <1>4, <2>0, <2>3 DEF InFence, Pointers, PointerPair
  <2>4. ASSUME NEW p \in Products,
               ptr' = [ptr EXCEPT ![p].previous =
                         signed[op.d].expected[p].previous]
        PROVE  InFence(op.d)'
    BY <1>1, <1>4, <2>0, <2>4 DEF InFence, Pointers, PointerPair
  <2> QED
    BY <2>1, <2>2, <2>3, <2>4
<1>7. Bookkeeping' /\ OpFence'
  BY <1>1, <1>2 DEF FenceInv, Bookkeeping, OpFence, records
<1>8. RestorePossible'
  <2>1. \A e \in Deployments : Active(e) => e = op.d
    BY <1>2, <1>3 DEF SafetyInv, OneActiveGuard
  <2> QED
    BY <1>1, <1>5, <2>1 DEF RestorePossible, Active, InFence, records
<1> QED
  BY <1>7, <1>8 DEF FenceInv

\* writeGuardRecord: the new guard's fence holds because the pointers are
\* still the ones the call compared with the signed expectation.
LEMMA FenceWriteGuard ==
  ASSUME SafetyInv, FenceInv, writeGuardRecord
  PROVE  FenceInv'
<1>0. TypeOK
  BY DEF SafetyInv
<1>1. op \in ArmOp /\ op.kind = "arm" /\ op.pc = "guard"
      /\ op.d \in Deployments /\ op.record \in SignedRecord
  BY <1>0, OpShape DEF TypeOK, writeGuardRecord, ArmOp
<1>2. /\ guardFile' = [guardFile EXCEPT ![op.d] = "ok"]
      /\ signed' = [signed EXCEPT ![op.d] = op.record]
      /\ op' = [op EXCEPT !.pc = "generation"]
      /\ UNCHANGED <<now, generations, success, disarmed, rollback,
                     recovery, ptr, act, crashes>>
  BY DEF writeGuardRecord
<1>3. op'.kind = "arm" /\ op'.pc = "generation" /\ op'.d = op.d
      /\ op'.record = op.record
  BY <1>1, <1>2 DEF ArmOp
<1>4. /\ signed'[op.d] = op.record /\ guardFile'[op.d] = "ok"
      /\ \A e \in Deployments : e # op.d =>
           signed'[e] = signed[e] /\ guardFile'[e] = guardFile[e]
  BY <1>0, <1>1, <1>2 DEF TypeOK
<1>5. \A e \in Deployments : Active(e)' => e = op.d
  BY <1>1, <1>2, <1>4 DEF SafetyInv, ArmInv, Active
<1>6. ptr' = op.record.expected
  BY <1>1, <1>2 DEF FenceInv, OpFence
<1>7. RestorePossible'
  <2> SUFFICES ASSUME NEW e \in Deployments, Active(e)' PROVE InFence(e)'
    BY DEF RestorePossible
  <2>1. e = op.d
    BY <1>5
  <2> QED
    BY <1>4, <1>6, <2>1 DEF InFence
<1>8. Bookkeeping'
  <2>1. guardFile[op.d] = "ok" => signed[op.d] = op.record
    BY <1>1 DEF FenceInv, OpFence
  <2> QED
    BY <1>1, <1>2, <1>4, <2>1 DEF FenceInv, Bookkeeping
<1>9. OpFence'
  BY <1>3, <1>4 DEF OpFence
<1> QED
  BY <1>7, <1>8, <1>9 DEF FenceInv

\* A step that leaves pointers, clock and guard records alone and ends the
\* call, or happens outside one, keeps the fence if it keeps the
\* bookkeeping and activates no guard.
LEMMA FenceRecord ==
  ASSUME FenceInv, UNCHANGED <<ptr, signed>>, op' = Idle, Bookkeeping',
         \A d \in Deployments :
           (Active(d) /\ guardFile[d] = "ok")' =>
             Active(d) /\ guardFile[d] = "ok"
  PROVE  FenceInv'
<1>1. RestorePossible'
  BY DEF FenceInv, RestorePossible, InFence
<1> QED
  BY <1>1 DEF FenceInv, OpFence, Idle

\* commitSuccess, disarm and their torn variants follow an acceptance.
LEMMA FenceMarker ==
  ASSUME SafetyInv, FenceInv, NEW d \in Deployments,
         UNCHANGED <<now, guardFile, signed, rollback, ptr, op, act>>,
         \/ commitSuccess(d) \/ tornSuccess(d)
         \/ disarm(d) \/ tornDisarmed(d)
  PROVE  FenceInv'
<1>1. op = Idle /\ guardFile[d] = "ok"
  BY DEF commitSuccess, tornSuccess, disarm, tornDisarmed
<1>2. act[d] = "accepted"
  BY DEF commitSuccess, tornSuccess, disarm, tornDisarmed, FenceInv,
         Bookkeeping
<1>3. \A e \in Deployments : e # d =>
        success'[e] = success[e] /\ disarmed'[e] = disarmed[e]
  BY DEF commitSuccess, tornSuccess, disarm, tornDisarmed, SafetyInv, TypeOK
<1>4. Bookkeeping'
  BY <1>1, <1>2, <1>3 DEF FenceInv, Bookkeeping
<1>5. \A e \in Deployments : Active(e)' => Active(e)
  BY DEF commitSuccess, tornSuccess, disarm, tornDisarmed, Active,
         SafetyInv, TypeOK
<1> QED
  BY <1>1, <1>4, <1>5, FenceRecord

\* A rollback is recorded, or its record torn, after the deadline.
LEMMA FenceOutcome ==
  ASSUME SafetyInv, FenceInv, op.kind \in {"rollback", "manual"}, op' = Idle,
         NEW v, v # "absent",
         \/ op.kind = "manual"
         \/ rollback' = [rollback EXCEPT ![op.d] = v],
         UNCHANGED <<now, guardFile, signed, success, disarmed, ptr, act>>
  PROVE  FenceInv'
<1>1. op.kind = "rollback" /\ op.d \in Deployments
      /\ guardFile[op.d] = "ok" /\ now >= signed[op.d].deadline
  BY OpShape DEF SafetyInv, TypeOK, RestoreOp, FenceInv, OpFence
<1>2. \A e \in Deployments :
        rollback'[e] = IF e = op.d THEN v ELSE rollback[e]
  BY <1>1 DEF SafetyInv, TypeOK
<1>3. Bookkeeping'
  BY <1>1, <1>2 DEF FenceInv, Bookkeeping
<1>4. \A e \in Deployments : Active(e)' => Active(e)
  BY <1>2 DEF Active
<1> QED
  BY <1>3, <1>4, FenceRecord

\* A controller that dies while it creates a record.
LEMMA FenceTorn ==
  ASSUME SafetyInv, FenceInv, tornWrite
  PROVE  FenceInv'
<1>1. UNCHANGED <<now, signed, ptr, act>>
  BY DEF tornWrite
<1>2. CASE tornRecord
  <2>1. op' = Idle /\ UNCHANGED <<success, disarmed>>
    BY <1>2 DEF tornRecord
  <2>2. CASE /\ op.kind = "arm" /\ guardFile[op.d] = "absent"
             /\ guardFile' = [guardFile EXCEPT ![op.d] = "torn"]
             /\ UNCHANGED <<generations, rollback, recovery>>
    <3>1. op.d \in Deployments
      BY <2>2, OpShape DEF SafetyInv, TypeOK, ArmOp
    <3>2. \A e \in Deployments : guardFile'[e] =
            IF e = op.d THEN "torn" ELSE guardFile[e]
      BY <2>2, <3>1 DEF SafetyInv, TypeOK
    <3>3. Bookkeeping'
      BY <1>1, <2>1, <2>2, <3>1, <3>2 DEF FenceInv, Bookkeeping
    <3>4. \A e \in Deployments :
            (Active(e) /\ guardFile[e] = "ok")' =>
              Active(e) /\ guardFile[e] = "ok"
      BY <2>1, <2>2, <3>2 DEF Active
    <3> QED
      BY <1>1, <2>1, <3>3, <3>4, FenceRecord
  <2>3. CASE UNCHANGED <<guardFile, rollback, recovery>>
    <3>1. Bookkeeping'
      BY <1>1, <2>1, <2>3 DEF FenceInv, Bookkeeping
    <3>2. \A e \in Deployments : Active(e)' = Active(e)
      BY <2>1, <2>3 DEF Active
    <3> QED
      BY <1>1, <2>1, <2>3, <3>1, <3>2, FenceRecord
  <2>4. CASE /\ op.kind \in {"rollback", "manual"}
             /\ UNCHANGED guardFile
             /\ \/ op.kind = "manual"
                \/ rollback' = [rollback EXCEPT ![op.d] = "torn"]
    BY <1>1, <2>1, <2>4, FenceOutcome
  <2> QED
    BY <1>2, <2>2, <2>3, <2>4 DEF tornRecord
<1>3. CASE \E d \in Deployments : tornSuccess(d) \/ tornDisarmed(d)
  <2>1. PICK d \in Deployments : tornSuccess(d) \/ tornDisarmed(d)
    BY <1>3
  <2>2. UNCHANGED <<op, guardFile, rollback>>
    BY <2>1 DEF tornSuccess, tornDisarmed
  <2> QED
    BY <1>1, <2>1, <2>2, FenceMarker
<1> QED
  BY <1>2, <1>3 DEF tornWrite

\* Every step keeps the fence of the active guard.
LEMMA FenceInductive ==
  ASSUME NoLateNoManual
  PROVE  SafetyInv /\ FenceInv /\ [Next]_vars => FenceInv'
<1> SUFFICES ASSUME SafetyInv, FenceInv, [Next]_vars PROVE FenceInv'
  OBVIOUS
<1>0. TypeOK
  BY DEF SafetyInv
<1>1. CASE Tick
  <2>1. now' = now + 1 /\ UNCHANGED <<records, ptr, op, act>>
    BY <1>1 DEF Tick
  <2>2. \A d \in Deployments :
          now >= signed[d].deadline => now' >= signed'[d].deadline
    BY <1>0, <2>1, ClockTypes DEF records
  <2>3. Bookkeeping'
    BY <2>1, <2>2 DEF FenceInv, Bookkeeping, records
  <2>4. op.kind = "rollback" => op.d \in Deployments
    BY <1>0, OpShape DEF TypeOK, RestoreOp
  <2>5. OpFence'
    BY <2>1, <2>2, <2>4 DEF FenceInv, OpFence, records
  <2>6. RestorePossible'
    BY <2>1 DEF FenceInv, RestorePossible, Active, InFence, records
  <2> QED
    BY <2>3, <2>5, <2>6 DEF FenceInv
<1>2. CASE writeGuardRecord
  BY <1>2, FenceWriteGuard
<1>3. CASE writeGenerationRecord
  <2>1. op.kind = "arm" /\ op.d \in Deployments /\ guardFile[op.d] = "ok"
    BY <1>0, <1>3, OpShape
    DEF TypeOK, writeGenerationRecord, ArmOp, SafetyInv, ArmInv
  <2>2. \A e \in Deployments :
          act'[e] = IF e = op.d /\ act[e] = "idle" THEN "armed" ELSE act[e]
    BY <1>0, <1>3, <2>1 DEF writeGenerationRecord, TypeOK
  <2>3. op' = Idle /\ UNCHANGED <<now, guardFile, signed, success, disarmed,
                                  rollback, ptr>>
    BY <1>3 DEF writeGenerationRecord
  <2>4. Bookkeeping'
    BY <2>1, <2>2, <2>3 DEF FenceInv, Bookkeeping
  <2>5. \A e \in Deployments : Active(e)' = Active(e)
    BY <2>3 DEF Active
  <2> QED
    BY <2>3, <2>4, <2>5, FenceRecord
<1>4. CASE restoreStep
  BY <1>4, FenceRestore
<1>5. CASE restoreFails
  <2>1. op \in RestoreOp /\ op' = [op EXCEPT !.pc = "rollback_failed"]
        /\ UNCHANGED <<now, records, ptr, act, crashes>>
    BY <1>0, <1>5, OpShape DEF TypeOK, restoreFails, InRestore
  <2>2. op'.kind = op.kind /\ op'.d = op.d /\ op.kind = "rollback"
    BY <2>1 DEF RestoreOp, FenceInv, OpFence
  <2> QED
    BY <2>1, <2>2, FenceQuiet
<1>6. CASE recordOutcome
  <2>1. op.pc # "absent"
    BY <1>6 DEF recordOutcome, Disposition
  <2> QED
    BY <1>6, <2>1, FenceOutcome DEF recordOutcome
<1>7. CASE crash
  BY <1>7, FenceQuiet DEF crash
<1>8. CASE tornWrite
  BY <1>8, FenceTorn
<1>9. ASSUME NEW d \in Deployments,
             \E g \in Generations, t \in 1..MaxTime, x \in SignedPointers :
               arm(d, [generation |-> g, deadline |-> t, expected |-> x])
      PROVE  FenceInv'
  <2>1. PICK g \in Generations, t \in 1..MaxTime, x \in SignedPointers :
          arm(d, [generation |-> g, deadline |-> t, expected |-> x])
    BY <1>9
  <2> DEFINE r == [generation |-> g, deadline |-> t, expected |-> x]
  <2>2. /\ op' = [kind |-> "arm", d |-> d, pc |-> "guard", record |-> r]
        /\ guardFile[d] = "ok" => signed[d] = r
        /\ ptr = r.expected
        /\ UNCHANGED <<now, records, ptr, act, crashes>>
    BY <2>1 DEF arm, PointersMatch
  <2>3. op'.kind = "arm" /\ op'.d = d /\ op'.record = r
    BY <2>2
  <2>4. OpFence'
    BY <2>2, <2>3 DEF OpFence, records
  <2>5. RestorePossible' /\ Bookkeeping'
    BY <2>2 DEF FenceInv, RestorePossible, Bookkeeping, Active, InFence,
                records
  <2> QED
    BY <2>4, <2>5 DEF FenceInv
<1>10. ASSUME NEW d \in Deployments,
              armRetry(d) \/ readStatus(d) \/ accept(d)
       PROVE  FenceInv'
  <2>1. /\ \A e \in Deployments : e # d => act'[e] = act[e]
        /\ act'[d] \in {"armed", "accepted"} /\ act[d] \in {"idle", "activated"}
        /\ UNCHANGED <<now, records, ptr, op, crashes>>
    BY <1>0, <1>10 DEF armRetry, readStatus, accept, TypeOK
  <2>2. guardFile[d] = "ok"
    BY <1>10 DEF armRetry, readStatus, accept, FenceInv, Bookkeeping
  <2>3. Bookkeeping'
    BY <2>1, <2>2 DEF FenceInv, Bookkeeping, records
  <2>4. RestorePossible' /\ OpFence'
    BY <2>1 DEF FenceInv, RestorePossible, OpFence, Active, InFence, records
  <2> QED
    BY <2>3, <2>4 DEF FenceInv
<1>11. ASSUME NEW d \in Deployments, commitSuccess(d) \/ disarm(d)
       PROVE  FenceInv'
  <2>1. UNCHANGED <<now, guardFile, signed, rollback, ptr, op, act>>
    BY <1>11 DEF commitSuccess, disarm
  <2> QED
    BY <1>11, <2>1, FenceMarker
<1>12. ASSUME NEW d \in Deployments, evaluate(d) \/ manualRecover(d)
       PROVE  FenceInv'
  <2>1. ~manualRecover(d)
    BY DEF manualRecover, NoLateNoManual
  <2>2. /\ op' = [kind |-> "rollback", d |-> d, pc |-> "fence"]
        /\ guardFile[d] = "ok" /\ now >= signed[d].deadline
        /\ UNCHANGED <<now, records, ptr, act, crashes>>
    BY <1>12, <2>1 DEF evaluate, DeadlineReached
  <2>3. OpFence'
    BY <2>2 DEF OpFence, records
  <2>4. RestorePossible' /\ Bookkeeping'
    BY <2>2 DEF FenceInv, RestorePossible, Bookkeeping, Active, InFence,
                records
  <2> QED
    BY <2>3, <2>4 DEF FenceInv
<1>13. ASSUME NEW d \in Deployments,
              activateGatewayCandidate(d) \/ activateBabyCandidate(d)
       PROVE  FenceInv'
  BY <1>13, FenceActivation
<1>14. CASE UNCHANGED vars
  BY <1>14, FenceQuiet DEF vars, records
<1> QED
  BY <1>1, <1>2, <1>3, <1>4, <1>5, <1>6, <1>7, <1>8, <1>9, <1>10, <1>11,
     <1>12, <1>13, <1>14
  DEF Next, controllerStep

\* While a guard is active the host stays inside the fence its rollback
\* checks, whatever crashes, torn records and failing services do, as long
\* as callers stop at the deadline and break-glass recovery is not used
\* (without either condition the host can leave the fence).
THEOREM GuardRestorePossible ==
  ASSUME NoLateNoManual
  PROVE  Spec => []RestorePossible
<1>1. Init => FenceInv
  BY InitFence
<1>2. SafetyInv /\ FenceInv /\ [Next]_vars => FenceInv'
  BY FenceInductive
<1>3. FenceInv => RestorePossible
  BY DEF FenceInv
<1> QED
  BY <1>1, <1>2, <1>3, SafetyAlways, PTL DEF Spec

----------------------------------------------------------------------------
(* Activation and the records, whatever callers and the clock do           *)

\* What a call in progress has already decided: an arming call has found no
\* other record of its deployment, a rollback has found the deadline passed.
CallDecided ==
  /\ op.kind = "arm" => (guardFile[op.d] = "ok" => signed[op.d] = op.record)
  /\ op.kind = "rollback" =>
       guardFile[op.d] = "ok" /\ now >= signed[op.d].deadline

BookInv == Bookkeeping /\ CallDecided

\* A step that writes no guard record, rollback record or marker, and no
\* progress of a caller whose guard record is missing or that was accepted.
LEMMA BookQuiet ==
  ASSUME BookInv, UNCHANGED <<guardFile, signed, success, disarmed, rollback>>,
         TypeOK, now' = now \/ Tick,
         \A d \in Deployments :
           act'[d] = act[d] \/ (guardFile[d] = "ok" /\ act[d] # "accepted"),
         \/ op' = op
         \/ op' = Idle
         \/ op'.kind = op.kind /\ op'.d = op.d
            /\ op.kind \in {"rollback", "manual"}
  PROVE  BookInv'
<1>1. now' >= now /\ now \in Int /\ now' \in Int
      /\ \A d \in Deployments : signed[d].deadline \in Int
  BY ClockTypes DEF Tick
<1>2. Bookkeeping'
  BY <1>1 DEF BookInv, Bookkeeping
<1>3. CallDecided'
  <2>1. CASE op' = Idle
    BY <2>1 DEF CallDecided, Idle
  <2>2. CASE op'.kind = op.kind /\ op'.d = op.d
             /\ op.kind \in {"rollback", "manual"}
    <3>1. op.d \in Deployments
      BY <2>2, OpShape DEF TypeOK, RestoreOp
    <3> QED
      BY <1>1, <2>2, <3>1 DEF BookInv, CallDecided
  <2>3. CASE op' = op
    <3>1. op.kind = "rollback" => op.d \in Deployments
      BY <2>3, OpShape DEF TypeOK, RestoreOp
    <3> QED
      BY <1>1, <2>3, <3>1 DEF BookInv, CallDecided
  <2> QED
    BY <2>1, <2>2, <2>3
<1> QED
  BY <1>2, <1>3 DEF BookInv

\* An activation starts from, and never ends in, a step of a caller that
\* has read `armed' and was not accepted.
LEMMA BookActivation ==
  ASSUME TypeOK, BookInv, NEW d \in Deployments,
         activateGatewayCandidate(d) \/ activateBabyCandidate(d)
  PROVE  /\ act[d] \notin {"idle", "accepted"} /\ guardFile[d] = "ok"
         /\ \A e \in Deployments : e # d => act'[e] = act[e]
<1>1. act[d] \notin {"idle", "accepted"}
  BY DEF activateGatewayCandidate, activateBabyCandidate, activateFence,
         activatePrevious, activateCurrent
<1>2. \A e \in Deployments : e # d => act'[e] = act[e]
  BY DEF activateGatewayCandidate, activateBabyCandidate, activateFence,
         activatePrevious, activateCurrent, TypeOK
<1> QED
  BY <1>1, <1>2 DEF BookInv, Bookkeeping

\* Every step keeps the bookkeeping, all faults allowed.
LEMMA BookInductive ==
  ASSUME SafetyInv, BookInv, [Next]_vars
  PROVE  BookInv'
<1>0. TypeOK
  BY DEF SafetyInv
<1>1. CASE Tick \/ restoreFails \/ crash \/ UNCHANGED vars
  <2>1. UNCHANGED <<guardFile, signed, success, disarmed, rollback, act>>
        /\ (now' = now \/ Tick)
    BY <1>1 DEF Tick, restoreFails, crash, vars, records
  <2>2. \/ op' = op
        \/ op' = Idle
        \/ op'.kind = op.kind /\ op'.d = op.d
           /\ op.kind \in {"rollback", "manual"}
    <3>1. CASE restoreFails
      <4>1. op \in RestoreOp /\ op.kind \in {"rollback", "manual"}
        BY <1>0, <3>1, OpShape DEF TypeOK, restoreFails, InRestore, RestoreOp
      <4> QED
        BY <3>1, <4>1 DEF restoreFails, RestoreOp
    <3> QED
      BY <1>1, <3>1 DEF Tick, crash, vars
  <2> QED
    BY <1>0, <2>1, <2>2, BookQuiet
<1>2. CASE restoreStep
  <2>1. op'.kind = op.kind /\ op'.d = op.d /\ op \in RestoreOp
        /\ UNCHANGED <<now, records, act, crashes>>
    BY <1>0, <1>2, RestoreTypes
  <2> QED
    BY <1>0, <2>1, BookQuiet DEF RestoreOp, records
<1>3. CASE writeGuardRecord
  <2>1. op \in ArmOp /\ op.kind = "arm" /\ op.d \in Deployments
    BY <1>0, <1>3, OpShape DEF TypeOK, writeGuardRecord, ArmOp
  <2>2. /\ signed'[op.d] = op.record /\ guardFile'[op.d] = "ok"
        /\ \A e \in Deployments : e # op.d =>
             signed'[e] = signed[e] /\ guardFile'[e] = guardFile[e]
    BY <1>0, <1>3, <2>1 DEF TypeOK, writeGuardRecord
  <2>3. op'.kind = "arm" /\ op'.d = op.d /\ op'.record = op.record
    BY <1>3, <2>1 DEF writeGuardRecord, ArmOp
  <2>4. guardFile[op.d] = "ok" => signed[op.d] = op.record
    BY <2>1 DEF BookInv, CallDecided
  <2>5. Bookkeeping'
    BY <1>3, <2>1, <2>2, <2>4 DEF BookInv, Bookkeeping, writeGuardRecord
  <2> QED
    BY <2>2, <2>3, <2>5 DEF BookInv, CallDecided
<1>4. CASE writeGenerationRecord
  <2>1. op.d \in Deployments /\ guardFile[op.d] = "ok"
    BY <1>0, <1>4, OpShape
    DEF TypeOK, writeGenerationRecord, ArmOp, SafetyInv, ArmInv
  <2>2. \A e \in Deployments :
          act'[e] = act[e] \/ (guardFile[e] = "ok" /\ act[e] # "accepted")
    BY <1>0, <1>4, <2>1 DEF TypeOK, writeGenerationRecord
  <2> QED
    BY <1>0, <1>4, <2>2, BookQuiet DEF writeGenerationRecord
<1>5. ASSUME UNCHANGED <<now, guardFile, signed, success, disarmed, act>>,
             op.kind \in {"rollback", "manual"}, op' = Idle,
             \/ rollback' = rollback
             \/ op.kind = "rollback"
                /\ \E v : v # "absent"
                          /\ rollback' = [rollback EXCEPT ![op.d] = v]
      PROVE  BookInv'
  <2>1. CASE rollback' = rollback
    BY <1>0, <1>5, <2>1, BookQuiet
  <2>2. CASE op.kind = "rollback" /\ rollback' # rollback
    <3>1. PICK v : v # "absent" /\ rollback' = [rollback EXCEPT ![op.d] = v]
      BY <1>5, <2>2
    <3>2. op.d \in Deployments /\ guardFile[op.d] = "ok"
          /\ now >= signed[op.d].deadline
      BY <1>0, <2>2, OpShape DEF TypeOK, RestoreOp, BookInv, CallDecided
    <3>3. \A e \in Deployments :
            rollback'[e] = IF e = op.d THEN v ELSE rollback[e]
      BY <1>0, <3>1, <3>2 DEF TypeOK
    <3>4. Bookkeeping'
      BY <1>5, <3>2, <3>3 DEF BookInv, Bookkeeping
    <3> QED
      BY <1>5, <3>4 DEF BookInv, CallDecided, Idle
  <2> QED
    BY <1>5, <2>1, <2>2
<1>6. CASE recordOutcome
  <2>1. op.pc # "absent"
    BY <1>6 DEF recordOutcome, Disposition
  <2> QED
    BY <1>5, <1>6, <2>1 DEF recordOutcome
<1>7. ASSUME NEW d \in Deployments,
             UNCHANGED <<now, guardFile, signed, rollback, op, act>>,
             \/ commitSuccess(d) \/ tornSuccess(d)
             \/ disarm(d) \/ tornDisarmed(d)
      PROVE  BookInv'
  <2>1. op = Idle /\ guardFile[d] = "ok" /\ act[d] = "accepted"
    BY <1>7 DEF commitSuccess, tornSuccess, disarm, tornDisarmed, BookInv,
                Bookkeeping
  <2>2. \A e \in Deployments : e # d =>
          success'[e] = success[e] /\ disarmed'[e] = disarmed[e]
    BY <1>0, <1>7 DEF commitSuccess, tornSuccess, disarm, tornDisarmed, TypeOK
  <2>3. Bookkeeping'
    BY <1>7, <2>1, <2>2 DEF BookInv, Bookkeeping
  <2> QED
    BY <1>7, <2>1, <2>3 DEF BookInv, CallDecided, Idle
<1>8. CASE tornWrite
  <2>1. UNCHANGED <<now, signed, ptr, act>>
    BY <1>8 DEF tornWrite
  <2>2. CASE /\ op.kind = "arm" /\ guardFile[op.d] = "absent" /\ op' = Idle
             /\ guardFile' = [guardFile EXCEPT ![op.d] = "torn"]
             /\ UNCHANGED <<generations, rollback, recovery>>
             /\ UNCHANGED <<success, disarmed>>
    <3>1. op.d \in Deployments
      BY <1>0, <2>2, OpShape DEF TypeOK, ArmOp
    <3>2. \A e \in Deployments : guardFile'[e] =
            IF e = op.d THEN "torn" ELSE guardFile[e]
      BY <1>0, <2>2, <3>1 DEF TypeOK
    <3>3. Bookkeeping'
      BY <2>1, <2>2, <3>1, <3>2 DEF BookInv, Bookkeeping
    <3> QED
      BY <2>2, <3>3 DEF BookInv, CallDecided, Idle
  <2>3. CASE UNCHANGED <<guardFile, rollback, recovery>> /\ op' = Idle
             /\ UNCHANGED <<success, disarmed>>
    BY <1>0, <2>1, <2>3, BookQuiet
  <2>4. CASE /\ op.kind \in {"rollback", "manual"} /\ op' = Idle
             /\ UNCHANGED <<guardFile, success, disarmed>>
             /\ \/ rollback' = rollback
                \/ op.kind = "rollback"
                   /\ rollback' = [rollback EXCEPT ![op.d] = "torn"]
    BY <1>5, <2>1, <2>4
  <2>5. CASE \E d \in Deployments : tornSuccess(d) \/ tornDisarmed(d)
    BY <1>7, <2>1, <2>5 DEF tornSuccess, tornDisarmed
  <2> QED
    BY <1>8, <2>2, <2>3, <2>4, <2>5 DEF tornWrite, tornRecord
<1>9. ASSUME NEW d \in Deployments, NEW g \in Generations,
             NEW t \in 1..MaxTime, NEW x \in SignedPointers,
             arm(d, [generation |-> g, deadline |-> t, expected |-> x])
      PROVE  BookInv'
  <2>1. /\ UNCHANGED <<now, records, ptr, act, crashes>>
        /\ op'.kind = "arm" /\ op'.d = d
        /\ guardFile[d] = "ok" => signed[d] = op'.record
    BY <1>9 DEF arm
  <2> QED
    BY <2>1 DEF BookInv, Bookkeeping, CallDecided, records
<1>10. ASSUME NEW d \in Deployments, evaluate(d)
       PROVE  BookInv'
  <2>1. /\ UNCHANGED <<now, records, ptr, act, crashes>>
        /\ op'.kind = "rollback" /\ op'.d = d
        /\ guardFile[d] = "ok" /\ now >= signed[d].deadline
    BY <1>10 DEF evaluate, DeadlineReached
  <2> QED
    BY <2>1 DEF BookInv, Bookkeeping, CallDecided, records
<1>11. ASSUME NEW d \in Deployments, manualRecover(d)
       PROVE  BookInv'
  <2>1. /\ UNCHANGED <<now, records, ptr, act, crashes>>
        /\ op'.kind = "manual"
    BY <1>11 DEF manualRecover
  <2> QED
    BY <2>1 DEF BookInv, Bookkeeping, CallDecided, records
<1>12. ASSUME NEW d \in Deployments,
              armRetry(d) \/ readStatus(d) \/ accept(d)
       PROVE  BookInv'
  <2>1. guardFile[d] = "ok" /\ act[d] # "accepted"
    BY <1>12 DEF armRetry, readStatus, accept, BookInv, Bookkeeping
  <2>2. /\ UNCHANGED <<now, records, op>>
        /\ \A e \in Deployments : e # d => act'[e] = act[e]
    BY <1>0, <1>12 DEF armRetry, readStatus, accept, TypeOK
  <2> QED
    BY <1>0, <2>1, <2>2, BookQuiet DEF records
<1>13. ASSUME NEW d \in Deployments,
              activateGatewayCandidate(d) \/ activateBabyCandidate(d)
       PROVE  BookInv'
  <2>1. UNCHANGED <<now, records, op, crashes>>
    BY <1>0, <1>13, ActivationTypes
  <2>2. \A e \in Deployments :
          act'[e] = act[e] \/ (guardFile[e] = "ok" /\ act[e] # "accepted")
    BY <1>0, <1>13, BookActivation
  <2> QED
    BY <1>0, <2>1, <2>2, BookQuiet DEF records
<1>14. ASSUME NEW d \in Deployments, commitSuccess(d) \/ disarm(d)
       PROVE  BookInv'
  BY <1>7, <1>14 DEF commitSuccess, disarm
<1> QED
  BY <1>1, <1>2, <1>3, <1>4, <1>6, <1>8, <1>9, <1>10, <1>11, <1>12, <1>13,
     <1>14
  DEF Next, controllerStep

\* With every fault allowed (late orchestrators and break-glass recovery
\* too), an activation moves a pointer only once its own guard record is
\* whole, and before its deadline only while that guard is unresolved.
THEOREM GuardActivationGuarded == Spec => ActivationGuarded
<1> DEFINE P == \A d \in Deployments :
              act'[d] # act[d] /\ ptr' # ptr
                => /\ guardFile[d] = "ok"
                   /\ now < signed[d].deadline => Active(d)
<1>1. Init => BookInv
  BY DEF Init, BookInv, Bookkeeping, CallDecided, Idle
<1>2. SafetyInv /\ BookInv /\ [Next]_vars => BookInv'
  BY BookInductive
<1>3. SafetyInv /\ BookInv /\ [Next]_vars => [P]_vars
  <2> SUFFICES ASSUME SafetyInv, BookInv, [Next]_vars,
                      NEW d \in Deployments, act'[d] # act[d], ptr' # ptr
               PROVE  /\ guardFile[d] = "ok"
                      /\ now < signed[d].deadline => Active(d)
    OBVIOUS
  <2>1. ~(UNCHANGED vars)
    BY DEF vars
  <2>2. restoreStep => act' = act
    BY RestoreTypes DEF SafetyInv
  <2>3. \E e \in Deployments :
          activateGatewayCandidate(e) \/ activateBabyCandidate(e)
    BY <2>1, <2>2
    DEF Next, controllerStep, Tick, writeGuardRecord,
        writeGenerationRecord, restoreFails, recordOutcome, crash,
        tornWrite, arm, armRetry, commitSuccess, disarm, evaluate,
        manualRecover, readStatus, accept
  <2>4. guardFile[d] = "ok" /\ act[d] \notin {"idle", "accepted"}
    BY <2>3, BookActivation DEF SafetyInv
  <2>5. disarmed[d] = "absent" /\ (now < signed[d].deadline =>
                                     rollback[d] = "absent")
    BY <2>4, ClockTypes DEF BookInv, Bookkeeping, SafetyInv
  <2> QED
    BY <2>4, <2>5 DEF Active
<1> QED
  BY <1>1, <1>2, <1>3, SafetyAlways, PTL DEF Spec, ActivationGuarded
----------------------------------------------------------------------------
(* The order of the products                                               *)

\* A release that no guard was ever armed for is nowhere in use: neither a
\* pointer nor a signed record names it.
Unseen ==
  \A d \in Deployments : guardFile[d] # "ok" =>
    \A p \in Products :
      /\ ptr[p].current # Candidate[d]
      /\ \A e \in Deployments : signed[e].expected[p].current # Candidate[d]

\* No guard was armed on a host that already ran its candidate.
OwnFresh ==
  /\ \A d \in Deployments, p \in Products :
       signed[d].expected[p].current # Candidate[d]
  /\ op.kind = "arm" => \A p \in Products :
       op.record.expected[p].current # Candidate[op.d]

\* Until its deadline an activation that is done with the gateway finds the
\* gateway where it left it.
GatewayHeld ==
  \A d \in Deployments :
    act[d] \in {"gateway_done", "baby_fenced", "baby_previous"}
      /\ now < signed[d].deadline
    => ptr["gateway"].current = Candidate[d]

\* A rollback that is past its first pointer has taken the candidate from
\* Baby.
RestoreOrder ==
  op.kind = "rollback"
    /\ op.pc \in {"baby_previous", "gateway_current", "gateway_previous", "verify"}
  => ptr["baby"].current # Candidate[op.d]

OrderInv == Unseen /\ OwnFresh /\ GatewayHeld /\ RestoreOrder /\ GatewayFirst

LEMMA InitOrder == Init => OrderInv
<1> SUFFICES ASSUME Init PROVE OrderInv
  OBVIOUS
<1>1. \A d \in Deployments : ~Active(d) /\ act[d] = "idle"
  BY DEF Init, Active
<1>2. op.kind = "idle"
  BY DEF Init, Idle
<1>3. \A d \in Deployments : Base # Candidate[d]
  BY TargetsAssumption
<1>4. \A p \in Products : ptr[p].current = Base
      /\ \A d \in Deployments : signed[d].expected[p].current = Base
  BY DEF Init, NoRecord, InitialPointers
<1> QED
  BY <1>1, <1>2, <1>3, <1>4
  DEF OrderInv, Unseen, OwnFresh, GatewayHeld, RestoreOrder, GatewayFirst

\* A step that moves no pointer, writes no guard record, activates no guard
\* and takes no activation past the gateway.
LEMMA OrderQuiet ==
  ASSUME OrderInv, UNCHANGED <<ptr, signed, guardFile>>,
         \A d \in Deployments : Active(d)' => Active(d),
         \A d \in Deployments :
           /\ act'[d] \in {"gateway_done", "baby_fenced", "baby_previous"} =>
                act[d] \in {"gateway_done", "baby_fenced", "baby_previous"}
           /\ now' < signed[d].deadline => now < signed[d].deadline,
         OwnFresh', RestoreOrder'
  PROVE  OrderInv'
BY DEF OrderInv, Unseen, GatewayHeld, GatewayFirst

\* An activation moves its own product, and only before its deadline.
LEMMA OrderActivation ==
  ASSUME SafetyInv, FenceInv, NoLateNoManual, OrderInv, NEW d \in Deployments,
         activateGatewayCandidate(d) \/ activateBabyCandidate(d)
  PROVE  OrderInv'
<1> DEFINE Held == {"gateway_done", "baby_fenced", "baby_previous"}
<1>0. TypeOK /\ ptr \in Pointers
  BY DEF SafetyInv, TypeOK
<1>1. CallerInTime(d) /\ UNCHANGED <<now, records, op>> /\ act[d] # "idle"
  BY DEF activateGatewayCandidate, activateBabyCandidate, activateFence,
         activatePrevious, activateCurrent
<1>2. now < signed[d].deadline
  BY <1>1 DEF CallerInTime, NoLateNoManual
<1>3. Active(d) /\ guardFile[d] = "ok"
  BY FenceActivation, <1>1 DEF FenceInv, Bookkeeping
<1>4. \A e \in Deployments : Active(e) => e = d
  BY <1>3 DEF SafetyInv, OneActiveGuard
<1>5. \A e \in Deployments : e # d => act'[e] = act[e]
  BY <1>0 DEF activateGatewayCandidate, activateBabyCandidate, activateFence,
         activatePrevious, activateCurrent, TypeOK
<1>6. /\ \A p \in Products : ptr'[p].current \in {ptr[p].current, Candidate[d]}
      /\ ptr["gateway"].current = Candidate[d] =>
           ptr'["gateway"].current = Candidate[d]
      /\ act'[d] \in Held => ptr'["gateway"].current = Candidate[d]
      /\ ptr'["baby"].current # ptr["baby"].current =>
           ptr'["gateway"].current = Candidate[d]
  <2>0. act[d] \in Held => ptr["gateway"].current = Candidate[d]
    BY <1>2 DEF OrderInv, GatewayHeld
  <2>1. ASSUME NEW p \in Products, NEW f, NEW t,
               activateFence(d, p, f, t) \/ activatePrevious(d, p, f, t)
        PROVE  \A q \in Products : ptr'[q].current = ptr[q].current
    BY <1>0, <2>1 DEF activateFence, activatePrevious, Pointers, PointerPair
  <2>2. ASSUME NEW p \in Products, NEW f, NEW t, activateCurrent(d, p, f, t)
        PROVE  /\ \A q \in Products \ {p} : ptr'[q].current = ptr[q].current
               /\ ptr'[p].current \in {ptr[p].current, Candidate[d]}
               /\ act'[d] \in {t, "rejected"}
               /\ act'[d] = t /\ t # "rejected" => ptr'[p].current = Candidate[d]
               /\ act[d] = f
    BY <1>0, <2>2 DEF activateCurrent, Pointers, PointerPair, TypeOK
  <2>3. ASSUME NEW p, NEW f, NEW t,
               activateFence(d, p, f, t) \/ activatePrevious(d, p, f, t)
        PROVE  act'[d] \in {t, "rejected"} /\ act[d] = f
    BY <1>0, <2>3 DEF activateFence, activatePrevious, TypeOK
  <2>4. CASE activateFence(d, "gateway", "armed", "gateway_fenced")
    BY <2>1, <2>3, <2>4 DEF Products
  <2>5. CASE activatePrevious(d, "gateway", "gateway_fenced", "gateway_previous")
    BY <2>1, <2>3, <2>5 DEF Products
  <2>6. CASE activateCurrent(d, "gateway", "gateway_previous", "gateway_done")
    BY <2>2, <2>6 DEF Products
  <2>7. CASE activateFence(d, "baby", "gateway_done", "baby_fenced")
    BY <2>0, <2>1, <2>3, <2>7 DEF Products
  <2>8. CASE activatePrevious(d, "baby", "baby_fenced", "baby_previous")
    BY <2>0, <2>1, <2>3, <2>8 DEF Products
  <2>9. CASE activateCurrent(d, "baby", "baby_previous", "activated")
    BY <2>0, <2>2, <2>9 DEF Products
  <2> QED
    BY <2>4, <2>5, <2>6, <2>7, <2>8, <2>9
    DEF activateGatewayCandidate, activateBabyCandidate
<1>7. Unseen' /\ OwnFresh'
  BY <1>1, <1>3, <1>6, TargetsAssumption DEF OrderInv, Unseen, OwnFresh, records
<1>8. GatewayHeld'
  <2> SUFFICES ASSUME NEW e \in Deployments, act'[e] \in Held,
                      now < signed[e].deadline
               PROVE  ptr'["gateway"].current = Candidate[e]
    BY <1>1 DEF GatewayHeld, records
  <2>1. CASE e = d
    BY <2>1, <1>6
  <2>2. CASE e # d
    <3>1. Active(e)
      BY <2>2, <1>0, <1>5, ActingActive
    <3> QED
      BY <3>1, <2>2, <1>4
  <2> QED
    BY <2>1, <2>2
<1>9. RestoreOrder'
  <2>1. op.kind # "rollback"
    <3> SUFFICES ASSUME op.kind = "rollback" PROVE FALSE
      OBVIOUS
    <3>1. op.d \in Deployments
      BY <1>0, OpShape DEF TypeOK, RestoreOp
    <3>2. Active(op.d) /\ now >= signed[op.d].deadline
      BY DEF SafetyInv, RollbackInv, NoTerminal, FenceInv, OpFence, Active
    <3> QED
      BY <3>1, <3>2, <1>0, <1>2, <1>4, ClockTypes
  <2> QED
    BY <2>1, <1>1 DEF RestoreOrder
<1>10. GatewayFirst'
  BY <1>1, <1>4, <1>6 DEF OrderInv, GatewayFirst, Active, records
<1> QED
  BY <1>7, <1>8, <1>9, <1>10 DEF OrderInv

\* A rollback restores Baby first, after the deadline of its guard.
LEMMA OrderRestore ==
  ASSUME SafetyInv, FenceInv, OrderInv, restoreStep
  PROVE  OrderInv'
<1> DEFINE d == op.d
           want(p) == signed[d].expected[p].current
<1>0. TypeOK /\ ptr \in Pointers
  BY DEF SafetyInv, TypeOK
<1>1. /\ op \in RestoreOp /\ op'.kind = op.kind /\ op'.d = d
      /\ UNCHANGED <<now, records, act>>
  BY <1>0, RestoreTypes
<1>2. op.kind = "rollback" /\ d \in Deployments
  BY <1>1 DEF RestoreOp, FenceInv, OpFence
<1>3. Active(d) /\ guardFile[d] = "ok" /\ now >= signed[d].deadline
  BY <1>2 DEF SafetyInv, RollbackInv, NoTerminal, FenceInv, OpFence, Active
<1>4. \A e \in Deployments : Active(e) => e = d
  BY <1>2, <1>3 DEF SafetyInv, OneActiveGuard
<1>5. \A p \in Products : want(p) # Candidate[d]
  BY <1>2 DEF OrderInv, OwnFresh
<1> HIDE DEF d
<1>6. ASSUME NEW p \in Products, NEW b, NEW c, restoreCurrent(p, b, c)
      PROVE  /\ op.pc = b
             /\ \A q \in Products \ {p} : ptr'[q].current = ptr[q].current
             /\ ptr'[p].current \in {ptr[p].current, want(p)}
             /\ \/ op'.pc = c /\ ptr'[p].current = want(p)
                \/ op'.pc = "rollback_failed"
  <2>1. \/ ptr' = [ptr EXCEPT ![p].current = want(p)]
           /\ op' = [op EXCEPT !.pc = c]
        \/ ptr' = ptr /\ op' = [op EXCEPT !.pc = "rollback_failed"]
    BY <1>6, Zenon DEF restoreCurrent, d
  <2>2. op.pc = b
    BY <1>6 DEF restoreCurrent
  <2> QED
    BY <1>0, <1>1, <2>1, <2>2 DEF Pointers, PointerPair, RestoreOp
<1>7. ASSUME NEW p \in Products, NEW b, NEW c, restorePrevious(p, b, c)
      PROVE  op.pc = b /\ op'.pc = c
             /\ \A q \in Products : ptr'[q].current = ptr[q].current
  BY <1>0, <1>1, <1>7 DEF restorePrevious, Pointers, PointerPair, RestoreOp
<1>8. ASSUME restoreFence \/ restoreVerify
      PROVE  op'.pc \in {"baby_current", "rolled_back", "rollback_failed"}
             /\ ptr' = ptr
  BY <1>1, <1>8 DEF restoreFence, restoreVerify, RestoreOp
<1>9. /\ \A p \in Products : ptr'[p].current \in {ptr[p].current, want(p)}
      /\ op'.pc \in {"baby_previous", "gateway_current", "gateway_previous", "verify"}
           => ptr'["baby"].current # Candidate[d]
      /\ ptr'["gateway"].current # ptr["gateway"].current
           => ptr'["baby"].current # Candidate[d]
  <2>0. op.pc \in {"baby_previous", "gateway_current", "gateway_previous", "verify"}
           => ptr["baby"].current # Candidate[d]
    BY <1>2 DEF OrderInv, RestoreOrder, d
  <2>1. CASE restoreFence \/ restoreVerify
    BY <2>1, <1>8
  <2>2. CASE restoreCurrent("baby", "baby_current", "baby_previous")
    BY <2>2, <1>5, <1>6 DEF Products
  <2>3. CASE restorePrevious("baby", "baby_previous", "gateway_current")
    BY <2>0, <2>3, <1>7 DEF Products
  <2>4. CASE restoreCurrent("gateway", "gateway_current", "gateway_previous")
    BY <2>0, <2>4, <1>6 DEF Products
  <2>5. CASE restorePrevious("gateway", "gateway_previous", "verify")
    BY <2>0, <2>5, <1>7 DEF Products
  <2> QED
    BY <2>1, <2>2, <2>3, <2>4, <2>5 DEF restoreStep
<1>10. Unseen' /\ OwnFresh'
  BY <1>1, <1>2, <1>9 DEF OrderInv, Unseen, OwnFresh, records
<1>11. RestoreOrder'
  BY <1>1, <1>9 DEF RestoreOrder
<1>12. GatewayHeld'
  <2> SUFFICES ASSUME NEW e \in Deployments,
                      act[e] \in {"gateway_done", "baby_fenced", "baby_previous"},
                      now < signed[e].deadline
               PROVE  FALSE
    BY <1>1 DEF GatewayHeld, records
  <2>1. e = d
    BY <1>0, <1>4, ActingActive
  <2> QED
    BY <2>1, <1>0, <1>2, <1>3, ClockTypes
<1>13. GatewayFirst'
  <2> SUFFICES ASSUME NEW e \in Deployments, Active(e)',
                      ptr'["baby"].current = Candidate[e]
               PROVE  ptr'["gateway"].current = Candidate[e]
    BY DEF GatewayFirst
  <2>1. e = d /\ Active(e)
    BY <1>1, <1>4 DEF Active, records
  <2>2. ptr["baby"].current = Candidate[e]
        /\ ptr'["gateway"].current = ptr["gateway"].current
    BY <1>5, <1>9, <2>1 DEF Products
  <2> QED
    BY <2>1, <2>2 DEF OrderInv, GatewayFirst
<1> QED
  BY <1>10, <1>11, <1>12, <1>13 DEF OrderInv

\* writeGuardRecord: a guard that becomes active was armed on a host that
\* does not run its candidate.
LEMMA OrderWriteGuard ==
  ASSUME SafetyInv, FenceInv, OrderInv, writeGuardRecord
  PROVE  OrderInv'
<1>0. TypeOK
  BY DEF SafetyInv
<1>1. op \in ArmOp /\ op.kind = "arm" /\ op.pc = "guard"
      /\ op.d \in Deployments /\ op.record \in SignedRecord
  BY <1>0, OpShape DEF TypeOK, writeGuardRecord, ArmOp
<1>2. /\ guardFile' = [guardFile EXCEPT ![op.d] = "ok"]
      /\ signed' = [signed EXCEPT ![op.d] = op.record]
      /\ op' = [op EXCEPT !.pc = "generation"]
      /\ UNCHANGED <<now, success, disarmed, rollback, recovery, ptr, act>>
  BY DEF writeGuardRecord
<1>3. op'.kind = "arm" /\ op'.d = op.d /\ op'.record = op.record
  BY <1>1, <1>2 DEF ArmOp
<1>4. /\ signed'[op.d] = op.record /\ guardFile'[op.d] = "ok"
      /\ \A e \in Deployments : e # op.d =>
           signed'[e] = signed[e] /\ guardFile'[e] = guardFile[e]
  BY <1>0, <1>1, <1>2 DEF TypeOK
<1>5. ptr = op.record.expected /\ (guardFile[op.d] = "ok" => signed[op.d] = op.record)
  BY <1>1 DEF FenceInv, OpFence
<1>6. \A e \in Deployments : ~Active(e)
  BY <1>1 DEF SafetyInv, ArmInv
<1>7. \A e \in Deployments : Active(e)' => e = op.d /\ guardFile[e] # "ok"
  BY <1>1, <1>2, <1>4, <1>6 DEF Active
<1>8. Unseen'
  BY <1>1, <1>2, <1>4, <1>5 DEF OrderInv, Unseen
<1>9. OwnFresh'
  BY <1>1, <1>3, <1>4 DEF OrderInv, OwnFresh
<1>10. GatewayHeld'
  <2>1. \A e \in Deployments : guardFile[e] # "ok" => act[e] = "idle"
    BY DEF FenceInv, Bookkeeping
  <2> QED
    BY <1>1, <1>2, <1>4, <1>5, <2>1 DEF OrderInv, GatewayHeld
<1>11. GatewayFirst'
  BY <1>1, <1>2, <1>7 DEF OrderInv, Unseen, GatewayFirst, Products
<1>12. RestoreOrder'
  BY <1>3 DEF RestoreOrder
<1> QED
  BY <1>8, <1>9, <1>10, <1>11, <1>12 DEF OrderInv

\* A guard.json that was created and left empty activates a guard too.
LEMMA OrderTorn ==
  ASSUME SafetyInv, FenceInv, OrderInv, tornWrite
  PROVE  OrderInv'
<1>0. TypeOK
  BY DEF SafetyInv
<1>1. UNCHANGED <<now, signed, ptr, act>>
  BY DEF tornWrite
<1>2. op' = Idle
  BY DEF tornWrite, tornRecord, tornSuccess, tornDisarmed
<1>3. OwnFresh' /\ RestoreOrder'
  BY <1>1, <1>2 DEF OrderInv, OwnFresh, RestoreOrder, Idle
<1>4. CASE /\ op.kind = "arm" /\ guardFile[op.d] = "absent"
           /\ guardFile' = [guardFile EXCEPT ![op.d] = "torn"]
           /\ UNCHANGED <<success, disarmed, rollback>>
  <2>1. op.d \in Deployments
    BY <1>0, <1>4, OpShape DEF TypeOK, ArmOp
  <2>2. \A e \in Deployments : guardFile'[e] =
          IF e = op.d THEN "torn" ELSE guardFile[e]
    BY <1>0, <1>4, <2>1 DEF TypeOK
  <2>3. Unseen' /\ GatewayHeld'
    BY <1>1, <1>4, <2>1, <2>2 DEF OrderInv, Unseen, GatewayHeld
  <2>4. \A e \in Deployments : Active(e)' => Active(e) \/ guardFile[e] # "ok"
    BY <1>4, <2>1, <2>2 DEF Active
  <2>5. GatewayFirst'
    BY <1>1, <2>4 DEF OrderInv, Unseen, GatewayFirst, Products
  <2> QED
    BY <1>3, <2>3, <2>5 DEF OrderInv
<1>5. CASE UNCHANGED guardFile
  <2>1. \A e \in Deployments : Active(e)' => Active(e)
    BY <1>0, <1>5 DEF tornWrite, tornRecord, tornSuccess, tornDisarmed, Active, TypeOK
  <2> QED
    BY <1>1, <1>3, <1>5, <2>1, OrderQuiet
<1> QED
  BY <1>4, <1>5 DEF tornWrite, tornRecord, tornSuccess, tornDisarmed

\* Every step keeps the order of the products.
LEMMA OrderInductive ==
  ASSUME NoLateNoManual
  PROVE  SafetyInv /\ FenceInv /\ OrderInv /\ [Next]_vars => OrderInv'
<1> SUFFICES ASSUME SafetyInv, FenceInv, OrderInv, [Next]_vars PROVE OrderInv'
  OBVIOUS
<1>0. TypeOK
  BY DEF SafetyInv
<1>1. CASE Tick
  <2>1. now' = now + 1 /\ UNCHANGED <<records, ptr, op, act>>
    BY <1>1 DEF Tick
  <2>2. \A d \in Deployments :
          now' < signed[d].deadline => now < signed[d].deadline
    BY <1>0, <2>1, ClockTypes
  <2>3. OwnFresh' /\ RestoreOrder' /\ \A d \in Deployments : Active(d)' => Active(d)
    BY <2>1 DEF OrderInv, OwnFresh, RestoreOrder, Active, records
  <2> QED
    BY <2>1, <2>2, <2>3, OrderQuiet DEF records
<1>2. CASE writeGuardRecord
  BY <1>2, OrderWriteGuard
<1>3. CASE writeGenerationRecord
  <2>1. op.d \in Deployments
    BY <1>0, <1>3, OpShape DEF TypeOK, writeGenerationRecord, ArmOp
  <2>2. \A e \in Deployments : act'[e] \in {act[e], "armed"}
    BY <1>0, <1>3, <2>1 DEF writeGenerationRecord, TypeOK
  <2>3. op' = Idle /\ UNCHANGED <<now, guardFile, signed, disarmed, rollback, ptr>>
    BY <1>3 DEF writeGenerationRecord
  <2>4. OwnFresh' /\ RestoreOrder' /\ \A d \in Deployments : Active(d)' => Active(d)
    BY <2>3 DEF OrderInv, OwnFresh, RestoreOrder, Active, Idle
  <2> QED
    BY <2>2, <2>3, <2>4, OrderQuiet
<1>4. CASE restoreStep
  BY <1>4, OrderRestore
<1>5. CASE restoreFails \/ recordOutcome \/ crash
  <2>1. UNCHANGED <<now, guardFile, signed, disarmed, ptr, act>>
    BY <1>5 DEF restoreFails, recordOutcome, crash, records
  <2>2. \/ op' = Idle
        \/ op.kind # "arm" /\ op'.kind = op.kind /\ op'.pc = "rollback_failed"
    <3>1. CASE restoreFails
      <4>1. op \in RestoreOp /\ op' = [op EXCEPT !.pc = "rollback_failed"]
        BY <1>0, <3>1, OpShape DEF TypeOK, restoreFails, InRestore
      <4> QED
        BY <4>1 DEF RestoreOp
    <3>2. CASE recordOutcome \/ crash
      BY <3>2 DEF recordOutcome, crash
    <3> QED
      BY <1>5, <3>1, <3>2
  <2>3. OwnFresh' /\ RestoreOrder'
    BY <2>1, <2>2 DEF OrderInv, OwnFresh, RestoreOrder, Idle
  <2>4. \A d \in Deployments : Active(d)' => Active(d)
    <3>1. \A d \in Deployments : rollback'[d] = rollback[d] \/ rollback'[d] # "absent"
      BY <1>0, <1>5
      DEF restoreFails, recordOutcome, crash, records, TypeOK, Disposition
    <3> QED
      BY <2>1, <3>1 DEF Active
  <2> QED
    BY <2>1, <2>3, <2>4, OrderQuiet
<1>6. CASE tornWrite
  BY <1>6, OrderTorn
<1>7. ASSUME NEW d \in Deployments,
             \E g \in Generations, t \in 1..MaxTime, x \in SignedPointers :
               arm(d, [generation |-> g, deadline |-> t, expected |-> x])
      PROVE  OrderInv'
  <2>1. PICK g \in Generations, t \in 1..MaxTime, x \in SignedPointers :
          arm(d, [generation |-> g, deadline |-> t, expected |-> x])
    BY <1>7
  <2> DEFINE r == [generation |-> g, deadline |-> t, expected |-> x]
  <2>2. /\ op' = [kind |-> "arm", d |-> d, pc |-> "guard", record |-> r]
        /\ guardFile[d] = "absent" \/ signed[d] = r
        /\ ptr = r.expected
        /\ UNCHANGED <<now, records, ptr, act, crashes>>
    BY <2>1 DEF arm, PointersMatch
  <2>3. op'.kind = "arm" /\ op'.d = d /\ op'.record = r
    BY <2>2
  <2> HIDE DEF r
  <2>4. \A p \in Products : r.expected[p].current # Candidate[d]
    <3>1. CASE guardFile[d] = "absent"
      BY <2>2, <3>1 DEF OrderInv, Unseen
    <3>2. CASE signed[d] = r
      BY <3>2 DEF OrderInv, OwnFresh
    <3> QED
      BY <2>2, <3>1, <3>2
  <2>5. OwnFresh' /\ RestoreOrder' /\ \A e \in Deployments : Active(e)' => Active(e)
    BY <2>2, <2>3, <2>4 DEF OrderInv, OwnFresh, RestoreOrder, Active, records
  <2> QED
    BY <2>2, <2>5, OrderQuiet DEF records
<1>8. ASSUME NEW d \in Deployments, armRetry(d) \/ readStatus(d) \/ accept(d)
      PROVE  OrderInv'
  <2>1. /\ \A e \in Deployments : act'[e] \in {act[e], "armed", "accepted"}
        /\ UNCHANGED <<now, records, ptr, op, crashes>>
    BY <1>0, <1>8 DEF armRetry, readStatus, accept, TypeOK
  <2>2. OwnFresh' /\ RestoreOrder' /\ \A e \in Deployments : Active(e)' => Active(e)
    BY <2>1 DEF OrderInv, OwnFresh, RestoreOrder, Active, records
  <2> QED
    BY <2>1, <2>2, OrderQuiet DEF records
<1>9. ASSUME NEW d \in Deployments, commitSuccess(d) \/ disarm(d)
      PROVE  OrderInv'
  <2>1. UNCHANGED <<now, guardFile, signed, rollback, ptr, op, act>>
    BY <1>9 DEF commitSuccess, disarm
  <2>2. OwnFresh' /\ RestoreOrder'
    BY <2>1 DEF OrderInv, OwnFresh, RestoreOrder
  <2>3. \A e \in Deployments : Active(e)' => Active(e)
    BY <1>0, <1>9 DEF commitSuccess, disarm, Active, TypeOK
  <2> QED
    BY <2>1, <2>2, <2>3, OrderQuiet
<1>10. ASSUME NEW d \in Deployments, evaluate(d) \/ manualRecover(d)
       PROVE  OrderInv'
  <2>1. /\ op'.kind \in {"rollback", "manual"} /\ op'.pc = "fence"
        /\ UNCHANGED <<now, records, ptr, act, crashes>>
    BY <1>10 DEF evaluate, manualRecover
  <2>2. OwnFresh' /\ RestoreOrder' /\ \A e \in Deployments : Active(e)' => Active(e)
    BY <2>1 DEF OrderInv, OwnFresh, RestoreOrder, Active, records
  <2> QED
    BY <2>1, <2>2, OrderQuiet DEF records
<1>11. ASSUME NEW d \in Deployments,
              activateGatewayCandidate(d) \/ activateBabyCandidate(d)
       PROVE  OrderInv'
  BY <1>11, OrderActivation
<1>12. CASE UNCHANGED vars
  BY <1>12 DEF vars, OrderInv, Unseen, OwnFresh, GatewayHeld, RestoreOrder,
               GatewayFirst, Active
<1> QED
  BY <1>1, <1>2, <1>3, <1>4, <1>5, <1>6, <1>7, <1>8, <1>9, <1>10, <1>11, <1>12
  DEF Next, controllerStep

\* Baby never runs the candidate of an active guard against the old gateway,
\* wherever an activation or a rollback died, under the same conditions.
THEOREM GuardGatewayFirst ==
  ASSUME NoLateNoManual
  PROVE  Spec => []GatewayFirst
<1>1. Init => FenceInv /\ OrderInv
  BY InitFence, InitOrder
<1>2. SafetyInv /\ FenceInv /\ OrderInv /\ [Next]_vars => FenceInv' /\ OrderInv'
  BY FenceInductive, OrderInductive
<1>3. OrderInv => GatewayFirst
  BY DEF OrderInv
<1> QED
  BY <1>1, <1>2, <1>3, SafetyAlways, PTL DEF Spec

----------------------------------------------------------------------------
(* The controller implements GuardContract, for every set of deployments   *)
(* and generations and any number of crashes and torn records, as long as  *)
(* callers stop at their deadline and break-glass recovery is not used.    *)
(* The initial states map to the initial state of the contract, and every  *)
(* step of Next to a step of the contract or to none.                      *)


\* An arming call that is about to write guard.json meets no torn one, and
\* a rollback about to be recorded as complete has the signed pointers.
CallInv ==
  /\ op.kind = "arm" /\ op.pc = "guard" => guardFile[op.d] # "torn"
  /\ op.kind = "rollback" /\ op.pc = "rolled_back" =>
       ptr = signed[op.d].expected

ContractInv == SafetyInv /\ FenceInv /\ CallInv

\* The phase of a guard by its files.
LEMMA PhaseOf ==
  ASSUME NEW d \in Deployments, TypeOK, OneOutcome
  PROVE  /\ guardFile[d] = "absent" => GuardPhase(d) = "idle"
         /\ GuardPhase(d) \in {"armed", "blocked"} => Active(d)
         /\ Active(d) /\ guardFile[d] = "ok" => GuardPhase(d) = "armed"
         /\ guardFile[d] # "absent" /\ disarmed[d] # "absent" =>
              GuardPhase(d) = "confirmed"
         /\ guardFile[d] # "absent" /\ rollback[d] = "rolled_back" =>
              GuardPhase(d) = "restored"
         /\ guardFile[d] # "absent" /\ rollback[d] \in {"torn", "rollback_failed"}
              => GuardPhase(d) = "failed"
         /\ Active(d) /\ guardFile[d] = "torn" => GuardPhase(d) = "blocked"
<1>1. guardFile[d] \in File /\ disarmed[d] \in File
      /\ rollback[d] \in {"absent", "torn", "rolled_back", "rollback_failed"}
  BY DEF TypeOK, Disposition
<1>2. disarmed[d] = "absent" \/ rollback[d] = "absent"
  BY DEF OneOutcome
<1> QED
  BY <1>1, <1>2 DEF GuardPhase, Active, File

\* A step that leaves the records of guards and outcomes and the pointers
\* alone is no step of the contract.
LEMMA ContractStutter ==
  ASSUME UNCHANGED <<guardFile, disarmed, rollback, signed, ptr>>
  PROVE  UNCHANGED Contract!vars
<1>1. \A d \in Deployments : GuardPhase(d)' = GuardPhase(d)
  BY DEF GuardPhase
<1> QED
  BY <1>1 DEF Contract!vars

\* A step that changes the phase of one deployment.
LEMMA PhaseStep ==
  ASSUME NEW d \in Deployments, NEW ph,
         GuardPhase(d)' = ph,
         \A e \in Deployments : e # d => GuardPhase(e)' = GuardPhase(e)
  PROVE  [e \in Deployments |-> GuardPhase(e)]' =
           [[e \in Deployments |-> GuardPhase(e)] EXCEPT ![d] = ph]
  OBVIOUS

----------------------------------------------------------------------------
(* CallInv is preserved                                                    *)

\* Whoever moves a pointer, it is not while a rollback is being recorded.
LEMMA CallQuiet ==
  ASSUME CallInv, UNCHANGED <<guardFile, signed, ptr>>,
         op' = op \/ op' = Idle
  PROVE  CallInv'
  BY DEF CallInv, Idle

LEMMA CallInductive ==
  ASSUME NoLateNoManual, ContractInv, [Next]_vars
  PROVE  CallInv'
<1>0. SafetyInv /\ FenceInv /\ CallInv /\ TypeOK
  BY DEF ContractInv, SafetyInv
<1>1. CASE writeGuardRecord
  <2>1. op'.kind = "arm" /\ op'.pc = "generation"
    BY <1>0, <1>1, OpShape DEF TypeOK, writeGuardRecord, ArmOp
  <2> QED
    BY <2>1 DEF CallInv
<1>2. CASE writeGenerationRecord
  BY <1>2 DEF CallInv, writeGenerationRecord, Idle
<1>3. CASE restoreStep
  <2>1. op \in RestoreOp /\ op'.kind = op.kind /\ op'.d = op.d
        /\ UNCHANGED <<now, records, act>>
    BY <1>0, <1>3, RestoreTypes
  <2>2. CASE restoreVerify
    BY <2>1, <2>2 DEF restoreVerify, CallInv, records, RestoreOp
  <2>3. CASE ~restoreVerify
    <3>1. op'.pc # "rolled_back"
      BY <1>3, <2>1, <2>3 DEF restoreStep, restoreFence, restoreCurrent,
                              restorePrevious, RestoreOp
    <3> QED
      BY <2>1, <3>1 DEF CallInv, RestoreOp
  <2> QED
    BY <2>2, <2>3
<1>4. CASE restoreFails
  <2>1. op \in RestoreOp /\ op' = [op EXCEPT !.pc = "rollback_failed"]
    BY <1>0, <1>4, OpShape DEF TypeOK, restoreFails, InRestore
  <2> QED
    BY <2>1 DEF CallInv, RestoreOp
<1>5. CASE recordOutcome \/ crash \/ tornWrite
  <2>1. CASE op' = Idle
    BY <2>1 DEF CallInv, Idle
  <2>2. CASE op' # Idle
    <3>1. UNCHANGED <<op, guardFile, signed, ptr>>
      BY <1>5, <2>2 DEF recordOutcome, crash, tornWrite, tornRecord,
                        tornSuccess, tornDisarmed
    <3> QED
      BY <1>0, <3>1, CallQuiet
  <2> QED
    BY <2>1, <2>2
<1>6. ASSUME NEW d \in Deployments,
             \E g \in Generations, t \in 1..MaxTime, x \in SignedPointers :
               arm(d, [generation |-> g, deadline |-> t, expected |-> x])
      PROVE  CallInv'
  <2>1. PICK r : arm(d, r)
    BY <1>6
  <2>2. op'.kind = "arm" /\ op'.d = d /\ guardFile[d] # "torn"
        /\ guardFile' = guardFile
    BY <2>1 DEF arm, records
  <2> QED
    BY <2>2 DEF CallInv
<1>7. ASSUME NEW d \in Deployments, evaluate(d) \/ manualRecover(d)
      PROVE  CallInv'
  BY <1>7 DEF evaluate, manualRecover, CallInv
<1>8. ASSUME NEW d \in Deployments,
             activateGatewayCandidate(d) \/ activateBabyCandidate(d)
      PROVE  CallInv'
  <2>1. /\ now < signed[d].deadline /\ act[d] \notin {"idle", "accepted"}
        /\ UNCHANGED <<now, records, op>>
    BY <1>8 DEF activateGatewayCandidate, activateBabyCandidate,
                activateFence, activatePrevious, activateCurrent,
                CallerInTime, NoLateNoManual
  <2>2. Active(d)
    BY <1>0, <2>1, ActingActive
  <2>3. op.kind # "rollback"
    <3> SUFFICES ASSUME op.kind = "rollback" PROVE FALSE
      OBVIOUS
    <3>1. op.d \in Deployments /\ guardFile[op.d] = "ok"
          /\ now >= signed[op.d].deadline
      BY <1>0, OpShape DEF TypeOK, RestoreOp, FenceInv, OpFence
    <3>2. Active(op.d)
      BY <1>0, <3>1 DEF SafetyInv, RollbackInv, NoTerminal, Active
    <3>3. op.d = d
      BY <1>0, <2>2, <3>1, <3>2 DEF SafetyInv, OneActiveGuard
    <3> QED
      BY <1>0, <2>1, <3>1, <3>3, ClockTypes
  <2> QED
    BY <1>0, <2>1, <2>3 DEF CallInv, records
<1>9. CASE Tick \/ UNCHANGED vars
           \/ \E d \in Deployments : armRetry(d) \/ readStatus(d) \/ accept(d)
                \/ commitSuccess(d) \/ disarm(d)
  <2>1. UNCHANGED <<op, guardFile, signed, ptr>>
    BY <1>9 DEF Tick, vars, armRetry, readStatus, accept, commitSuccess,
                disarm, records
  <2> QED
    BY <1>0, <2>1, CallQuiet
<1> QED
  BY <1>1, <1>2, <1>3, <1>4, <1>5, <1>6, <1>7, <1>8, <1>9
  DEF Next, controllerStep

----------------------------------------------------------------------------
(* Every step is a step of the contract                                    *)

\* writeGuardRecord arms the guard on the pointers the host has.
LEMMA ArmImplements ==
  ASSUME ContractInv, writeGuardRecord, SafetyInv'
  PROVE  [Contract!Next]_(Contract!vars)
<1>0. TypeOK /\ OneOutcome /\ (TypeOK /\ OneOutcome)'
  BY DEF ContractInv, SafetyInv
<1>1. op.kind = "arm" /\ op.pc = "guard" /\ op.d \in Deployments
      /\ op.record \in SignedRecord
  BY <1>0, OpShape DEF TypeOK, writeGuardRecord, ArmOp
<1>2. /\ guardFile' = [guardFile EXCEPT ![op.d] = "ok"]
      /\ signed' = [signed EXCEPT ![op.d] = op.record]
      /\ UNCHANGED <<disarmed, rollback, ptr>>
  BY DEF writeGuardRecord
<1>3. guardFile[op.d] \in {"absent", "ok"}
  BY <1>0, <1>1 DEF ContractInv, CallInv, TypeOK, File
<1>4. CASE guardFile[op.d] = "ok"
  <2>1. signed[op.d] = op.record
    BY <1>1, <1>4 DEF ContractInv, FenceInv, OpFence
  <2>2. guardFile' = guardFile /\ signed' = signed
    BY <1>0, <1>1, <1>2, <1>4, <2>1 DEF TypeOK
  <2> QED
    BY <1>2, <2>2, ContractStutter
<1>5. CASE guardFile[op.d] = "absent"
  <2>1. PICK d \in Deployments : d = op.d
    BY <1>1
  <2>2. \A e \in Deployments : ~Active(e)
    BY <1>1, <1>5 DEF ContractInv, SafetyInv, ArmInv
  <2>3. \A e \in Deployments : GuardPhase(e) \notin {"armed", "blocked"}
    BY <1>0, <2>2, PhaseOf
  <2>4. GuardPhase(d) = "idle"
    BY <1>0, <1>5, <2>1, PhaseOf
  <2>5. disarmed[d] = "absent" /\ rollback[d] = "absent"
    BY <1>5, <2>1 DEF ContractInv, FenceInv, Bookkeeping
  <2>6. guardFile'[d] = "ok" /\ signed'[d] = op.record
    BY <1>0, <1>2, <2>1 DEF TypeOK
  <2>7. GuardPhase(d)' = "armed"
    BY <1>2, <2>5, <2>6 DEF GuardPhase
  <2>8. \A e \in Deployments : e # d =>
          GuardPhase(e)' = GuardPhase(e) /\ signed'[e] = signed[e]
    BY <1>0, <1>2, <2>1 DEF TypeOK, GuardPhase
  <2>9. ptr = op.record.expected
    BY <1>1 DEF ContractInv, FenceInv, OpFence
  <2>10. [e \in Deployments |-> signed[e].expected]' =
           [[e \in Deployments |-> signed[e].expected] EXCEPT ![d] = ptr]
    BY <2>6, <2>8, <2>9
  <2>11. [e \in Deployments |-> GuardPhase(e)]' =
           [[e \in Deployments |-> GuardPhase(e)] EXCEPT ![d] = "armed"]
    BY <2>7, <2>8, PhaseStep
  <2>12. Contract!Arm(d)
    BY <1>2, <2>3, <2>4, <2>10, <2>11 DEF Contract!Arm, Contract!Free
  <2>13. Contract!Next
    BY <2>12 DEF Contract!Next
  <2> QED
    BY <2>13
<1> QED
  BY <1>3, <1>4, <1>5

\* A step that gives an active guard its outcome.
LEMMA ResolveImplements ==
  ASSUME ContractInv, SafetyInv', NEW d \in Deployments,
         Active(d), guardFile[d] = "ok", UNCHANGED <<guardFile, signed, ptr>>,
         \A e \in Deployments : e # d =>
           disarmed'[e] = disarmed[e] /\ rollback'[e] = rollback[e],
         NEW ph \in {"confirmed", "restored", "failed"},
         GuardPhase(d)' = ph,
         ph = "restored" => ptr = signed[d].expected
  PROVE  Contract!Next
<1>1. GuardPhase(d) = "armed"
  BY PhaseOf DEF ContractInv, SafetyInv
<1>2. \A e \in Deployments : e # d => GuardPhase(e)' = GuardPhase(e)
  BY DEF GuardPhase
<1>3. [e \in Deployments |-> GuardPhase(e)]' =
        [[e \in Deployments |-> GuardPhase(e)] EXCEPT ![d] = ph]
  BY <1>2, PhaseStep
<1>4. Contract!Resolve(d, ph)
  BY <1>1, <1>3 DEF Contract!Resolve
<1> QED
  BY <1>4 DEF Contract!Next

\* A step that moves pointers while a guard is active.
LEMMA ChangeImplements ==
  ASSUME ContractInv, SafetyInv', NEW d \in Deployments,
         Active(d), guardFile[d] = "ok",
         UNCHANGED <<guardFile, signed, disarmed, rollback>>
  PROVE  Contract!Next
<1>1. GuardPhase(d) = "armed"
  BY PhaseOf DEF ContractInv, SafetyInv
<1>2. \A e \in Deployments : GuardPhase(e)' = GuardPhase(e)
  BY DEF GuardPhase
<1>3. ptr' \in Pointers
  BY DEF SafetyInv, TypeOK
<1>4. Contract!Change(d)
  BY <1>1, <1>2, <1>3 DEF Contract!Change
<1> QED
  BY <1>4 DEF Contract!Next

\* A controller that dies in a record creation loses the guard it was
\* arming, or leaves an outcome that counts by its name.
LEMMA TornImplements ==
  ASSUME NoLateNoManual, ContractInv, SafetyInv', tornWrite
  PROVE  [Contract!Next]_(Contract!vars)
<1>0. TypeOK /\ OneOutcome /\ (TypeOK /\ OneOutcome)' /\ FenceInv /\ SafetyInv
  BY DEF ContractInv, SafetyInv
<1>1. UNCHANGED <<signed, ptr>>
  BY DEF tornWrite
<1>2. CASE /\ op.kind = "arm" /\ op.pc = "guard" /\ guardFile[op.d] = "absent"
           /\ guardFile' = [guardFile EXCEPT ![op.d] = "torn"]
           /\ UNCHANGED <<rollback, disarmed>>
  <2>1. PICK d \in Deployments : d = op.d
    BY <1>0, <1>2, OpShape DEF TypeOK, ArmOp
  <2>2. \A e \in Deployments : ~Active(e)
    BY <1>0, <1>2 DEF SafetyInv, ArmInv
  <2>3. \A e \in Deployments : GuardPhase(e) \notin {"armed", "blocked"}
    BY <1>0, <2>2, PhaseOf
  <2>4. GuardPhase(d) = "idle"
    BY <1>0, <1>2, <2>1, PhaseOf
  <2>5. disarmed[d] = "absent" /\ rollback[d] = "absent"
    BY <1>0, <1>2, <2>1 DEF FenceInv, Bookkeeping
  <2>6. guardFile'[d] = "torn"
        /\ \A e \in Deployments : e # d => guardFile'[e] = guardFile[e]
    BY <1>0, <1>2, <2>1 DEF TypeOK
  <2>7. GuardPhase(d)' = "blocked"
    BY <1>2, <2>5, <2>6 DEF GuardPhase
  <2>8. \A e \in Deployments : e # d => GuardPhase(e)' = GuardPhase(e)
    BY <1>2, <2>6 DEF GuardPhase
  <2>9. [e \in Deployments |-> GuardPhase(e)]' =
          [[e \in Deployments |-> GuardPhase(e)] EXCEPT ![d] = "blocked"]
    BY <2>7, <2>8, PhaseStep
  <2>10. Contract!Block(d)
    BY <1>1, <2>3, <2>4, <2>9 DEF Contract!Block, Contract!Free
  <2>11. Contract!Next
    BY <2>10 DEF Contract!Next
  <2> QED
    BY <2>11
<1>3. CASE UNCHANGED <<guardFile, rollback, disarmed>>
  BY <1>1, <1>3, ContractStutter
<1>4. CASE /\ op.kind = "rollback"
           /\ rollback' = [rollback EXCEPT ![op.d] = "torn"]
           /\ UNCHANGED <<guardFile, disarmed>>
  <2>1. PICK d \in Deployments : d = op.d
    BY <1>0, <1>4, OpShape DEF TypeOK, RestoreOp
  <2>2. Active(d) /\ guardFile[d] = "ok"
    BY <1>0, <1>4, <2>1 DEF SafetyInv, RollbackInv, NoTerminal, FenceInv,
                            OpFence, Active
  <2>3. rollback'[d] = "torn"
        /\ \A e \in Deployments : e # d => rollback'[e] = rollback[e]
    BY <1>0, <1>4, <2>1 DEF TypeOK
  <2>4. GuardPhase(d)' = "failed"
    BY <1>4, <2>2, <2>3 DEF GuardPhase, Active
  <2>5. Contract!Next
    BY <1>1, <1>4, <2>2, <2>3, <2>4, ResolveImplements
  <2> QED
    BY <2>5
<1>5. ASSUME NEW d \in Deployments, tornDisarmed(d)
      PROVE  Contract!Next
  <2>1. /\ Active(d) /\ guardFile[d] = "ok"
        /\ disarmed' = [disarmed EXCEPT ![d] = "torn"]
        /\ UNCHANGED <<guardFile, rollback>>
    BY <1>5 DEF tornDisarmed, NoTerminal, Active
  <2>2. disarmed'[d] = "torn"
        /\ \A e \in Deployments : e # d => disarmed'[e] = disarmed[e]
    BY <1>0, <2>1 DEF TypeOK
  <2>3. GuardPhase(d)' = "confirmed"
    BY <2>1, <2>2 DEF GuardPhase
  <2> QED
    BY <1>1, <2>1, <2>2, <2>3, ResolveImplements
<1>6. op.kind # "manual"
  BY <1>0 DEF FenceInv, OpFence
<1> QED
  BY <1>2, <1>3, <1>4, <1>5, <1>6 DEF tornWrite, tornRecord, tornSuccess

\* Every step of the controller and of the callers it guards is a step of
\* the contract, or none.
LEMMA StepImplements ==
  ASSUME NoLateNoManual, ContractInv, SafetyInv', [Next]_vars
  PROVE  [Contract!Next]_(Contract!vars)
<1>0. TypeOK /\ OneOutcome /\ SafetyInv /\ FenceInv /\ CallInv
  BY DEF ContractInv, SafetyInv
<1>1. CASE writeGuardRecord
  BY <1>1, ArmImplements
<1>2. CASE tornWrite
  BY <1>2, TornImplements
<1>3. CASE restoreStep
  <2>1. op \in RestoreOp /\ op.d \in Deployments /\ UNCHANGED records
    BY <1>0, <1>3, RestoreTypes DEF RestoreOp
  <2>2. op.kind = "rollback"
    BY <1>0, <2>1 DEF RestoreOp, FenceInv, OpFence
  <2>3. Active(op.d) /\ guardFile[op.d] = "ok"
    BY <1>0, <2>2 DEF SafetyInv, RollbackInv, NoTerminal, FenceInv, OpFence,
                      Active
  <2>4. PICK d \in Deployments : d = op.d
    BY <2>1
  <2>5. Contract!Next
    BY <2>1, <2>3, <2>4, ChangeImplements DEF records
  <2> QED
    BY <2>5
<1>4. CASE recordOutcome
  <2>1. PICK d \in Deployments : d = op.d
    BY <1>0, <1>4, OpShape DEF TypeOK, RestoreOp, recordOutcome
  <2>2. op.kind = "rollback"
    BY <1>0, <1>4 DEF recordOutcome, FenceInv, OpFence
  <2>3. /\ rollback' = [rollback EXCEPT ![d] = op.pc]
        /\ op.pc \in {"rolled_back", "rollback_failed"}
        /\ UNCHANGED <<guardFile, signed, disarmed, ptr>>
    BY <1>4, <2>1, <2>2 DEF recordOutcome, Disposition
  <2>4. Active(d) /\ guardFile[d] = "ok"
    BY <1>0, <2>1, <2>2 DEF SafetyInv, RollbackInv, NoTerminal, FenceInv,
                            OpFence, Active
  <2>5. rollback'[d] = op.pc
        /\ \A e \in Deployments : e # d => rollback'[e] = rollback[e]
    BY <1>0, <2>3 DEF TypeOK
  <2>6. CASE op.pc = "rolled_back"
    <3>1. ptr = signed[d].expected
      BY <1>0, <2>1, <2>2, <2>6 DEF CallInv
    <3>2. GuardPhase(d)' = "restored"
      BY <2>3, <2>4, <2>5, <2>6 DEF GuardPhase, Active
    <3>3. Contract!Next
      BY <2>3, <2>4, <2>5, <3>1, <3>2, ResolveImplements
    <3> QED
      BY <3>3
  <2>7. CASE op.pc = "rollback_failed"
    <3>1. GuardPhase(d)' = "failed"
      BY <2>3, <2>4, <2>5, <2>7 DEF GuardPhase, Active
    <3>2. Contract!Next
      BY <2>3, <2>4, <2>5, <3>1, ResolveImplements
    <3> QED
      BY <3>2
  <2> QED
    BY <2>3, <2>6, <2>7
<1>5. ASSUME NEW d \in Deployments, disarm(d)
      PROVE  Contract!Next
  <2>1. /\ Active(d) /\ guardFile[d] = "ok"
        /\ disarmed' = [disarmed EXCEPT ![d] = "ok"]
        /\ UNCHANGED <<guardFile, signed, rollback, ptr>>
    BY <1>5 DEF disarm, NoTerminal, Active
  <2>2. disarmed'[d] = "ok"
        /\ \A e \in Deployments : e # d => disarmed'[e] = disarmed[e]
    BY <1>0, <2>1 DEF TypeOK
  <2>3. GuardPhase(d)' = "confirmed"
    BY <2>1, <2>2 DEF GuardPhase
  <2> QED
    BY <2>1, <2>2, <2>3, ResolveImplements
<1>6. ASSUME NEW d \in Deployments,
             activateGatewayCandidate(d) \/ activateBabyCandidate(d)
      PROVE  Contract!Next
  <2>1. /\ now < signed[d].deadline /\ act[d] \notin {"idle", "accepted"}
        /\ UNCHANGED <<guardFile, signed, disarmed, rollback>>
    BY <1>6 DEF activateGatewayCandidate, activateBabyCandidate,
                activateFence, activatePrevious, activateCurrent,
                CallerInTime, NoLateNoManual, records
  <2>2. Active(d) /\ guardFile[d] = "ok"
    BY <1>0, <2>1, ActingActive
  <2> QED
    BY <2>1, <2>2, ChangeImplements
<1>7. CASE \/ Tick \/ writeGenerationRecord \/ restoreFails \/ crash
           \/ UNCHANGED vars
           \/ \E d \in Deployments :
                \/ armRetry(d) \/ commitSuccess(d) \/ evaluate(d)
                \/ manualRecover(d) \/ readStatus(d) \/ accept(d)
                \/ \E r : arm(d, r)
  <2>1. UNCHANGED <<guardFile, disarmed, rollback, signed, ptr>>
    BY <1>7 DEF Tick, writeGenerationRecord, restoreFails, crash, vars,
                armRetry, commitSuccess, evaluate, manualRecover,
                readStatus, accept, arm, records
  <2> QED
    BY <2>1, ContractStutter
<1> QED
  BY <1>1, <1>2, <1>3, <1>4, <1>5, <1>6, <1>7 DEF Next, controllerStep

\* The controller implements its contract: guards are exclusive and armed
\* on the pointers that are there, pointers move only under an armed guard,
\* and each guard ends at most once, in rolled_back only on the exact
\* pointers it was armed on.  Without its two conditions a late caller or a
\* break-glass recovery moves pointers that no armed guard protects.
THEOREM GuardImplementsContract ==
  ASSUME NoLateNoManual
  PROVE  Spec => ImplementsContract
<1>1. Init => SafetyInv /\ FenceInv /\ CallInv
  BY InitSafety, InitFence DEF Init, CallInv, Idle
<1>2. Init => Contract!Init
  <2> SUFFICES ASSUME Init PROVE Contract!Init
    OBVIOUS
  <2>1. \A d \in Deployments : GuardPhase(d) = "idle"
        /\ signed[d].expected = InitialPointers
    BY DEF Init, GuardPhase, NoRecord
  <2> QED
    BY <2>1 DEF Contract!Init, Init
<1>3. SafetyInv /\ [Next]_vars => SafetyInv'
  BY SafetyInductive
<1>4. SafetyInv /\ FenceInv /\ [Next]_vars => FenceInv'
  BY FenceInductive
<1>5. SafetyInv /\ FenceInv /\ CallInv /\ [Next]_vars => CallInv'
  BY CallInductive DEF ContractInv
<1>6. SafetyInv /\ FenceInv /\ CallInv /\ SafetyInv' /\ [Next]_vars
        => [Contract!Next]_(Contract!vars)
  BY StepImplements DEF ContractInv
<1> QED
  BY <1>1, <1>2, <1>3, <1>4, <1>5, <1>6, PTL
  DEF Spec, ImplementsContract, Contract!Spec
=============================================================================
