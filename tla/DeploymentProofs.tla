-------------------------- MODULE DeploymentProofs --------------------------
(***************************************************************************)
(* Proofs about the deployment ledger alone (DeploymentLedger), and about  *)
(* the release service that walks its rows (DeploymentService), for any    *)
(* number of deployments, requests, digests, transitions and crashes.      *)
(***************************************************************************)
EXTENDS DeploymentService, SequenceTheorems, TLAPS

(* The ledger                                                              *)

\* The guard bit a transition writes.
GuardBitAfter(armed, in) ==
  IF in.guardStatus = None THEN armed ELSE in.guardStatus = "armed"

\* What the checks of assertTransitionAllowed leave of the guard bit, as a
\* function of the target state.
LEMMA NextGuardBit ==
  ASSUME NEW armed \in BOOLEAN, NEW from, NEW in,
         in.guardStatus \in {"armed", "disarmed", None},
         AssertTransitionAllowed(armed, from, in)
  PROVE  /\ in.nextState = "guard_armed" => GuardBitAfter(armed, in)
         /\ in.nextState \in {"succeeded", "rolled_back"}
              => ~GuardBitAfter(armed, in)
         /\ in.nextState \notin {"guard_armed", "succeeded", "rolled_back"}
              => GuardBitAfter(armed, in) = armed
BY NoneAssumption DEF AssertTransitionAllowed, RequiresGuard, ArmedExcludes,
         GuardReadback, MarkerBinding, GuardBitAfter

\* The rows a transition may ask for.
LEMMA IntentFields ==
  ASSUME NEW s, NEW in \in Intents(s)
  PROVE  /\ in.nextState \in DEPLOYMENT_STATES
         /\ in.guardStatus \in {"armed", "disarmed", None}
         /\ in.successMarkerDigest \in Digests \cup {None}
         /\ in.evidence \subseteq EvidenceRef
BY DEF Intents

\* Each operation keeps the types of the rows.
LEMMA CreateTypes ==
  ASSUME TypeOK, NEW d \in Deployments, NEW g \in Generations, NEW k \in Keys,
         NEW r \in Requests, createDeployment(d, g, k, r)
  PROVE  TypeOK'
BY DEF createDeployment, record, TypeOK

LEMMA ProductTypes ==
  ASSUME TypeOK, NEW d \in Deployments, NEW p \in DEPLOYMENT_PRODUCTS,
         NEW c \in Compat, addProduct(d, p, c)
  PROVE  TypeOK'
BY DEF addProduct, record, identity, TypeOK

LEMMA TransitionTypes ==
  ASSUME TypeOK, NEW d \in Deployments, NEW seen,
         NEW in \in Intents(seen.state), transition(d, seen, in)
  PROVE  TypeOK'
<1>1. in.nextState \in DEPLOYMENT_STATES
  BY IntentFields
<1>2. in.successMarkerDigest \in Digests \cup {None}
  BY IntentFields
<1>3. /\ state' = [state EXCEPT ![d] = in.nextState]
      /\ stateSequence' = [stateSequence EXCEPT ![d] = @ + 1]
      /\ guardArmed' = [guardArmed EXCEPT ![d] =
           IF in.guardStatus = None THEN @ ELSE in.guardStatus = "armed"]
      /\ successMarker' = [successMarker EXCEPT ![d] =
           IF in.successMarkerDigest = None THEN @
           ELSE in.successMarkerDigest]
      /\ UNCHANGED <<identity, products, evidence>>
  BY DEF transition
<1>4. state' \in [Deployments -> DEPLOYMENT_STATES]
  BY <1>1, <1>3 DEF TypeOK
<1>5. stateSequence' \in [Deployments -> Nat]
  BY <1>3 DEF TypeOK
<1>6. guardArmed' \in [Deployments -> BOOLEAN]
  BY <1>3 DEF TypeOK
<1>7. successMarker' \in [Deployments -> Digests \cup {None}]
  BY <1>2, <1>3 DEF TypeOK
<1> QED
  BY <1>3, <1>4, <1>5, <1>6, <1>7 DEF TypeOK, identity

\* Every stored row keeps its type, whatever operations race.
THEOREM LedgerTypeOK == Spec => []TypeOK
<1>1. Init => TypeOK
  BY DEF Init, TypeOK, DEPLOYMENT_STATES, PRE_ARM_WORK_STATES
<1>2. TypeOK /\ [Next]_vars => TypeOK'
  <2> SUFFICES ASSUME TypeOK, [Next]_vars PROVE TypeOK'
    OBVIOUS
  <2>1. ASSUME NEW d \in Deployments, NEW ref \in EvidenceRef,
               appendEvidence(d, ref)
        PROVE  TypeOK'
    BY <2>1 DEF appendEvidence, record, identity, TypeOK
  <2>2. CASE UNCHANGED vars
    BY <2>2 DEF vars, TypeOK
  <2> QED
    BY <2>1, <2>2, CreateTypes, ProductTypes, TransitionTypes DEF Next
<1> QED
  BY <1>1, <1>2, PTL DEF Spec

----------------------------------------------------------------------------
\* The inductive invariant: a row that does not exist yet is unarmed, and
\* the guard bit agrees with the state in both directions.
GuardInv ==
  /\ TypeOK
  /\ Fresh
  /\ PostArmGuarded
  /\ ArmedNeverClean

\* A transition preserves the agreement between state and guard bit.
LEMMA TransitionGuardInv ==
  ASSUME NEW d \in Deployments, NEW seen, NEW in \in Intents(seen.state),
         GuardInv, TypeOK', transition(d, seen, in)
  PROVE  Fresh' /\ PostArmGuarded' /\ ArmedNeverClean'
<1> DEFINE b == GuardBitAfter(guardArmed[d], in)
<1>1. /\ created' = created
      /\ d \in created
      /\ state' = [state EXCEPT ![d] = in.nextState]
      /\ guardArmed' = [guardArmed EXCEPT ![d] = b]
      /\ AssertTransitionAllowed(guardArmed[d], seen.state, in)
  BY DEF transition, identity, GuardBitAfter, GuardInv, TypeOK
<1>2. guardArmed[d] \in BOOLEAN
  BY DEF GuardInv, TypeOK
<1>3. /\ in.nextState = "guard_armed" => b
      /\ in.nextState \in {"succeeded", "rolled_back"} => ~b
      /\ in.nextState \notin {"guard_armed", "succeeded", "rolled_back"}
           => b = guardArmed[d]
  BY <1>1, <1>2, IntentFields, NextGuardBit
<1>4. in.nextState \in POST_ARM_STATES => b
  BY <1>1, <1>3
     DEF AssertTransitionAllowed, RequiresGuard, ArmedExcludes,
         GuardReadback, MarkerBinding, POST_ARM_STATES, ACTIVE_MUTATION_STATES
<1>5. in.nextState \in CleanStates => ~b
  BY <1>1, <1>3 DEF AssertTransitionAllowed, RequiresGuard, ArmedExcludes,
         GuardReadback, MarkerBinding, CleanStates, PRE_ARM_WORK_STATES
<1>6. \A e \in Deployments :
        /\ state'[e] = IF e = d THEN in.nextState ELSE state[e]
        /\ guardArmed'[e] = IF e = d THEN b ELSE guardArmed[e]
  BY <1>1 DEF GuardInv, TypeOK
<1>7. created \subseteq Deployments
  BY DEF GuardInv, TypeOK
<1> HIDE DEF b
<1>8. Fresh'
  BY <1>1, <1>6 DEF Fresh, GuardInv
<1>9. PostArmGuarded'
  BY <1>1, <1>4, <1>6, <1>7 DEF PostArmGuarded, GuardInv
<1>10. ArmedNeverClean'
  BY <1>1, <1>5, <1>6, <1>7 DEF ArmedNeverClean, GuardInv
<1> QED
  BY <1>8, <1>9, <1>10

\* A new row is unarmed.
LEMMA CreateGuardInv ==
  ASSUME NEW d \in Deployments, NEW g \in Generations, NEW k \in Keys,
         NEW r \in Requests, GuardInv, createDeployment(d, g, k, r)
  PROVE  Fresh' /\ PostArmGuarded' /\ ArmedNeverClean'
BY DEF createDeployment, record, GuardInv, Fresh, PostArmGuarded,
       ArmedNeverClean, POST_ARM_STATES, ACTIVE_MUTATION_STATES

\* Every operation preserves the agreement of state and guard bit.
LEMMA GuardInvInductive == GuardInv /\ [Next]_vars /\ TypeOK' => GuardInv'
<1> SUFFICES ASSUME GuardInv, [Next]_vars, TypeOK'
             PROVE  Fresh' /\ PostArmGuarded' /\ ArmedNeverClean'
  BY DEF GuardInv
<1> USE DEF GuardInv
<1>1. ASSUME NEW d \in Deployments, NEW g \in Generations, NEW k \in Keys,
             NEW r \in Requests, createDeployment(d, g, k, r)
      PROVE  Fresh' /\ PostArmGuarded' /\ ArmedNeverClean'
  BY <1>1, CreateGuardInv
<1>2. ASSUME UNCHANGED <<created, record>>
      PROVE  Fresh' /\ PostArmGuarded' /\ ArmedNeverClean'
  BY <1>2 DEF record, Fresh, PostArmGuarded, ArmedNeverClean
<1>3. ASSUME NEW d \in Deployments, NEW p \in DEPLOYMENT_PRODUCTS,
             NEW c \in Compat, addProduct(d, p, c)
      PROVE  UNCHANGED <<created, record>>
  BY <1>3 DEF addProduct, identity
<1>4. ASSUME NEW d \in Deployments, NEW ref \in EvidenceRef,
             appendEvidence(d, ref)
      PROVE  UNCHANGED <<created, record>>
  BY <1>4 DEF appendEvidence, identity
<1>5. ASSUME NEW d \in Deployments, NEW seen, NEW in \in Intents(seen.state),
             transition(d, seen, in)
      PROVE  Fresh' /\ PostArmGuarded' /\ ArmedNeverClean'
  BY <1>5, TransitionGuardInv
<1>6. ASSUME UNCHANGED vars
      PROVE  UNCHANGED <<created, record>>
  BY <1>6 DEF vars, record
<1> QED
  BY <1>1, <1>2, <1>3, <1>4, <1>5, <1>6 DEF Next

\* The agreement of state and guard bit holds throughout.
LEMMA GuardInvAlways == Spec => []GuardInv
<1>1. Init => GuardInv
  BY DEF Init, GuardInv, TypeOK, Fresh, PostArmGuarded,
     ArmedNeverClean, DEPLOYMENT_STATES, PRE_ARM_WORK_STATES
<1> QED
  BY <1>1, GuardInvInductive, LedgerTypeOK, PTL DEF Spec

\* No interleaving of racing callers, cancellations, reconciliations and
\* failed rollbacks brings a deployment into a post-arm state unarmed, or
\* records a clean terminal state while its guard is armed.
THEOREM LedgerGuardSafety ==
  Spec => []GuardSafety
<1>1. GuardInv => GuardSafety
  BY DEF GuardInv, GuardSafety
<1> QED
  BY <1>1, GuardInvAlways, PTL

----------------------------------------------------------------------------
\* What GuardBitSticky allows a step to do to one row.
StickyRow(d) ==
  /\ state'[d] # state[d] => <<state[d], state'[d]>> \in TransitionRules
  /\ guardArmed[d] /\ ~guardArmed'[d]
       => state'[d] \in {"succeeded", "rolled_back"}
  /\ terminal(d) => state'[d] = state[d] /\ guardArmed'[d] = guardArmed[d]
                    /\ successMarker'[d] = successMarker[d]

\* A row moves only along the rule table from the state it has, only the
\* transition that records success or a completed rollback clears a guard
\* bit, and no operation changes a terminal row.
THEOREM LedgerGuardBitSticky == Spec => GuardBitSticky
<1>1. ASSUME TypeOK, Next, NEW e \in Deployments
      PROVE  StickyRow(e)
  <2>1. ASSUME UNCHANGED record
        PROVE  StickyRow(e)
    BY <2>1 DEF record, StickyRow, terminal
  <2>2. ASSUME NEW d \in Deployments, NEW seen,
               NEW in \in Intents(seen.state), transition(d, seen, in)
        PROVE  StickyRow(e)
    <3>1. CASE e = d
      <4>1. /\ ~terminal(e)
            /\ AssertTransitionAllowed(guardArmed[e], seen.state, in)
            /\ state'[e] = in.nextState /\ state[e] = seen.state
            /\ guardArmed'[e] = GuardBitAfter(guardArmed[e], in)
        BY <1>1, <2>2, <3>1
        DEF transition, TransitionFence, GuardBitAfter, TypeOK
      <4>5. <<state[e], state'[e]>> \in TransitionRules
        BY <4>1 DEF AssertTransitionAllowed
      <4>2. guardArmed[e] \in BOOLEAN
        BY <1>1 DEF TypeOK
      <4>3. GuardBitAfter(guardArmed[e], in) # guardArmed[e]
              => in.nextState \in {"guard_armed", "succeeded", "rolled_back"}
        BY <2>2, <4>1, <4>2, IntentFields, NextGuardBit
      <4>4. in.nextState = "guard_armed" => GuardBitAfter(guardArmed[e], in)
        BY <2>2, <4>1, <4>2, IntentFields, NextGuardBit
      <4> QED
        BY <4>1, <4>2, <4>3, <4>4, <4>5 DEF StickyRow
    <3>2. CASE e # d
      BY <1>1, <2>2, <3>2 DEF transition, TypeOK, StickyRow
    <3> QED
      BY <3>1, <3>2
  <2>3. ASSUME NEW d \in Deployments, NEW g \in Generations, NEW k \in Keys,
               NEW r \in Requests, createDeployment(d, g, k, r)
        PROVE  UNCHANGED record
    BY <2>3 DEF createDeployment, record
  <2>4. ASSUME NEW d \in Deployments, NEW p \in DEPLOYMENT_PRODUCTS,
               NEW c \in Compat, addProduct(d, p, c)
        PROVE  UNCHANGED record
    BY <2>4 DEF addProduct
  <2>5. ASSUME NEW d \in Deployments, NEW ref \in EvidenceRef,
               appendEvidence(d, ref)
        PROVE  UNCHANGED record
    BY <2>5 DEF appendEvidence
  <2> QED
    BY <1>1, <2>1, <2>2, <2>3, <2>4, <2>5 DEF Next
<1>2. TypeOK /\ [Next]_vars
        => [\A d \in Deployments :
              /\ state'[d] # state[d]
                   => <<state[d], state'[d]>> \in TransitionRules
              /\ guardArmed[d] /\ ~guardArmed'[d]
                   => state'[d] \in {"succeeded", "rolled_back"}
              /\ terminal(d) => state'[d] = state[d]
                                /\ guardArmed'[d] = guardArmed[d]
                                /\ successMarker'[d] = successMarker[d]]_vars
  BY <1>1 DEF StickyRow
<1> QED
  BY <1>2, LedgerTypeOK, PTL DEF Spec, GuardBitSticky

----------------------------------------------------------------------------
\* Creation keys and generations stay unique under racing creations.
THEOREM LedgerCreationUnique == Spec => []CreationUnique
<1>1. Init => CreationUnique
  BY DEF Init, CreationUnique
<1>2. TypeOK /\ CreationUnique /\ [Next]_vars => CreationUnique'
  <2> SUFFICES ASSUME TypeOK, CreationUnique, [Next]_vars
               PROVE  CreationUnique'
    OBVIOUS
  <2>1. ASSUME NEW d \in Deployments, NEW g \in Generations, NEW k \in Keys,
               NEW r \in Requests, createDeployment(d, g, k, r)
        PROVE  CreationUnique'
    BY <2>1 DEF createDeployment, IdentityFree, CreationUnique, TypeOK
  <2>2. ASSUME UNCHANGED identity
        PROVE  CreationUnique'
    BY <2>2 DEF identity, CreationUnique
  <2> QED
    BY <2>1, <2>2 DEF Next, addProduct, appendEvidence, transition, vars,
       identity
<1> QED
  BY <1>1, <1>2, LedgerTypeOK, PTL DEF Spec

----------------------------------------------------------------------------
\* The transition request an operator makes to get a wedged row moving.
EscapeIntent(n) ==
  [nextState |-> n, guardStatus |-> None, successMarkerDigest |-> None,
   evidence |-> EvidenceRef]

\* A caller can produce evidence of every tracked kind.
LEMMA TrackedAvailable == TrackedKinds \subseteq EvidenceKinds(EvidenceRef)
<1> SUFFICES ASSUME NEW k \in TrackedKinds
             PROVE  k \in EvidenceKinds(EvidenceRef)
  OBVIOUS
<1>1. PICK x \in Digests : TRUE
  BY DigestsAssumption
<1>2. [kind |-> k, digest |-> x] \in EvidenceRef
  BY DEF EvidenceRef
<1> QED
  BY <1>2 DEF EvidenceKinds

\* A rule without a guard or marker side condition is open to that request.
LEMMA EscapeAllowed ==
  ASSUME NEW armed \in BOOLEAN, NEW s, NEW n,
         <<s, n>> \in TransitionRules,
         n \in {"unknown", "reconciling", "manual_recovery_required"}
           \/ (n = "failed" /\ ~armed)
  PROVE  AssertTransitionAllowed(armed, s, EscapeIntent(n))
<1>1. REQUIRED_EVIDENCE[n] \cap TrackedKinds \subseteq EvidenceKinds(EvidenceRef)
  BY TrackedAvailable
<1> QED
  BY <1>1, NoneAssumption
     DEF AssertTransitionAllowed, RequiresGuard, ArmedExcludes,
         GuardReadback, MarkerBinding, EscapeIntent, ACTIVE_MUTATION_STATES,
         POST_ARM_STATES, PRE_ARM_WORK_STATES

\* From every non-terminal state some rule leads to a lower rank.
LEMMA EscapeExists ==
  ASSUME NEW s \in DEPLOYMENT_STATES \ TERMINAL_STATES
  PROVE  \E n \in DEPLOYMENT_STATES :
           /\ <<s, n>> \in TransitionRules
           /\ EscapeRank(n) < EscapeRank(s)
           /\ \/ n \in {"unknown", "reconciling", "manual_recovery_required"}
              \/ n = "failed" /\ s = "cancelling"
<1>1. CASE s \in {"unknown", "rollback_failed", "reconciling"}
  <2>1. <<s, "manual_recovery_required">> \in TransitionRules
    BY <1>1 DEF TransitionRules, CancelEdges, DetourEdges, ReconcilingEdges,
         TERMINAL_STATES
  <2>2. EscapeRank("manual_recovery_required") = 0 /\ EscapeRank(s) = 1
    BY <1>1 DEF EscapeRank, TERMINAL_STATES
  <2> QED
    BY <2>1, <2>2 DEF DEPLOYMENT_STATES, TERMINAL_STATES
<1>2. CASE s = "cancelling"
  <2>1. <<s, "failed">> \in TransitionRules
    BY <1>2 DEF TransitionRules, CancelEdges, DetourEdges, TERMINAL_STATES
  <2>2. EscapeRank("failed") = 0 /\ EscapeRank(s) = 1
    BY <1>2 DEF EscapeRank, TERMINAL_STATES
  <2> QED
    BY <1>2, <2>1, <2>2 DEF DEPLOYMENT_STATES, TERMINAL_STATES
<1>3. CASE s \in {"partial", "ambiguous", "cancel_requested"}
  <2>1. <<s, "reconciling">> \in TransitionRules
    BY <1>3 DEF TransitionRules, CancelEdges, DetourEdges, TERMINAL_STATES
  <2>2. EscapeRank("reconciling") = 1 /\ EscapeRank(s) = 2
    BY <1>3 DEF EscapeRank, TERMINAL_STATES
  <2> QED
    BY <2>1, <2>2 DEF DEPLOYMENT_STATES
<1>4. CASE s \in PRE_ARM_WORK_STATES \cup POST_ARM_STATES
                   \cup {"rollback_requested", "rolling_back"}
  <2>1. <<s, "unknown">> \in DetourEdges
    BY <1>4 DEF DetourEdges
  <2>2. s # "unknown" /\ s \notin TERMINAL_STATES
    BY <1>4 DEF PRE_ARM_WORK_STATES, POST_ARM_STATES,
         ACTIVE_MUTATION_STATES, TERMINAL_STATES
  <2>3. <<s, "unknown">> \in TransitionRules
    BY <2>1, <2>2 DEF TransitionRules
  <2>4. EscapeRank("unknown") = 1 /\ EscapeRank(s) = 2
    BY <1>4 DEF EscapeRank, TERMINAL_STATES, PRE_ARM_WORK_STATES,
         POST_ARM_STATES, ACTIVE_MUTATION_STATES
  <2> QED
    BY <2>3, <2>4 DEF DEPLOYMENT_STATES, DIAGNOSTIC_STATES
<1> QED
  BY <1>1, <1>2, <1>3, <1>4
     DEF DEPLOYMENT_STATES, DIAGNOSTIC_STATES, ROLLBACK_STATES

\* Every non-terminal deployment, armed or not, can be terminalized in at
\* most two transitions; in particular no combination of a cancellation
\* with an armed guard leaves it without an allowed transition.
THEOREM LedgerCanTerminalize == Spec => []CanTerminalize
<1>1. GuardInv => CanTerminalize
  <2> SUFFICES ASSUME GuardInv, NEW d \in created, ~terminal(d)
               PROVE  \E n \in DEPLOYMENT_STATES :
                        /\ EscapeRank(n) < EscapeRank(state[d])
                        /\ AssertTransitionAllowed(guardArmed[d], state[d],
                             EscapeIntent(n))
    BY DEF CanTerminalize, EscapeIntent
  <2>1. state[d] \in DEPLOYMENT_STATES \ TERMINAL_STATES
    BY DEF GuardInv, TypeOK, terminal
  <2>2. guardArmed[d] \in BOOLEAN
    BY DEF GuardInv, TypeOK
  <2>3. state[d] = "cancelling" => ~guardArmed[d]
    BY DEF GuardInv, ArmedNeverClean, CleanStates
  <2>4. PICK n \in DEPLOYMENT_STATES :
           /\ <<state[d], n>> \in TransitionRules
           /\ EscapeRank(n) < EscapeRank(state[d])
           /\ \/ n \in {"unknown", "reconciling", "manual_recovery_required"}
              \/ n = "failed" /\ state[d] = "cancelling"
    BY <2>1, EscapeExists
  <2>5. AssertTransitionAllowed(guardArmed[d], state[d], EscapeIntent(n))
    BY <2>2, <2>3, <2>4, EscapeAllowed
  <2> QED
    BY <2>4, <2>5
<1> QED
  BY <1>1, GuardInvAlways, PTL

----------------------------------------------------------------------------
\* A transition cites only rows of its own ledger, so the marker it stores
\* and the readback that armed the guard are there.
LEMMA TransitionMarkerBacked ==
  ASSUME NEW d \in Deployments, NEW seen, NEW in \in Intents(seen.state),
         GuardInv, MarkerBacked, transition(d, seen, in)
  PROVE  MarkerBacked'
<1> DEFINE marker(m) == [kind |-> "success.marker", digest |-> m]
           backed(e) == \E x \in Digests :
                          [kind |-> "guard.readback", digest |-> x] \in evidence[e]
<1>1. /\ created' = created
      /\ evidence' = evidence
      /\ d \in created
      /\ in.evidence \subseteq evidence[d]
      /\ AssertTransitionAllowed(guardArmed[d], seen.state, in)
      /\ state' = [state EXCEPT ![d] = in.nextState]
      /\ guardArmed' = [guardArmed EXCEPT ![d] = GuardBitAfter(guardArmed[d], in)]
      /\ successMarker' = [successMarker EXCEPT ![d] =
           IF in.successMarkerDigest = None THEN @ ELSE in.successMarkerDigest]
  BY DEF transition, identity, GuardBitAfter, GuardInv, TypeOK
<1>2. created \subseteq Deployments /\ evidence[d] \subseteq EvidenceRef
  BY DEF GuardInv, TypeOK
<1>3. ASSUME NEW e \in created, e # d
      PROVE  /\ state'[e] \in {"guard_disarming", "succeeded"}
                  => marker(successMarker'[e]) \in evidence[e]
             /\ guardArmed'[e] /\ "guard.readback" \in TrackedKinds
                  => backed(e)
  BY <1>1, <1>2, <1>3 DEF MarkerBacked, GuardInv, TypeOK
<1>4. in.nextState \in {"guard_disarming", "succeeded"}
        => marker(successMarker'[d]) \in evidence[d]
  BY <1>1 DEF AssertTransitionAllowed, RequiresGuard, ArmedExcludes,
         GuardReadback, MarkerBinding, GuardInv, TypeOK
<1>5. guardArmed[d] \in BOOLEAN /\ guardArmed'[d] = GuardBitAfter(guardArmed[d], in)
  BY <1>1 DEF GuardInv, TypeOK
<1>6. GuardBitAfter(guardArmed[d], in) => guardArmed[d] \/ in.nextState = "guard_armed"
  BY <1>1, <1>5, IntentFields, NextGuardBit
<1>7. ASSUME in.nextState = "guard_armed", "guard.readback" \in TrackedKinds
      PROVE  backed(d)
  <2>1. "guard.readback" \in EvidenceKinds(in.evidence)
    BY <1>1, <1>7 DEF AssertTransitionAllowed, RequiresGuard, ArmedExcludes,
         GuardReadback, MarkerBinding, REQUIRED_EVIDENCE
  <2>2. PICK r \in in.evidence : r.kind = "guard.readback"
    BY <2>1 DEF EvidenceKinds
  <2>3. r \in EvidenceRef /\ r \in evidence[d]
    BY <1>1, <1>2, <2>2
  <2>4. r = [kind |-> "guard.readback", digest |-> r.digest] /\ r.digest \in Digests
    BY <2>2, <2>3 DEF EvidenceRef
  <2> QED
    BY <2>3, <2>4
<1>8. guardArmed'[d] /\ "guard.readback" \in TrackedKinds => backed(d)
  BY <1>1, <1>5, <1>6, <1>7 DEF MarkerBacked
<1>9. state'[d] = in.nextState
  BY <1>1 DEF GuardInv, TypeOK
<1> QED
  BY <1>1, <1>3, <1>4, <1>8, <1>9 DEF MarkerBacked

\* A disarming or succeeded deployment names a success marker of its own
\* evidence ledger, and an armed one holds its guard readback.
THEOREM LedgerMarkerBacked == Spec => []MarkerBacked
<1>1. Init => MarkerBacked
  BY DEF Init, MarkerBacked
<1>2. GuardInv /\ MarkerBacked /\ [Next]_vars => MarkerBacked'
  <2> SUFFICES ASSUME GuardInv, MarkerBacked, [Next]_vars
               PROVE  MarkerBacked'
    OBVIOUS
  <2>1. ASSUME NEW d \in Deployments, NEW g \in Generations, NEW k \in Keys,
               NEW r \in Requests, createDeployment(d, g, k, r)
        PROVE  MarkerBacked'
    BY <2>1 DEF createDeployment, record, MarkerBacked, GuardInv, Fresh
  <2>2. ASSUME NEW d \in Deployments, NEW ref \in EvidenceRef,
               appendEvidence(d, ref)
        PROVE  MarkerBacked'
    <3>1. /\ UNCHANGED <<identity, record>>
          /\ \A e \in created : evidence[e] \subseteq evidence'[e]
      BY <2>2 DEF appendEvidence, GuardInv, TypeOK
    <3> QED
      BY <3>1 DEF identity, record, MarkerBacked
  <2>3. ASSUME NEW d \in Deployments, NEW p \in DEPLOYMENT_PRODUCTS,
               NEW c \in Compat, addProduct(d, p, c)
        PROVE  MarkerBacked'
    BY <2>3 DEF addProduct, identity, record, MarkerBacked
  <2>4. CASE UNCHANGED vars
    BY <2>4 DEF vars, MarkerBacked
  <2> QED
    BY <2>1, <2>2, <2>3, <2>4, TransitionMarkerBacked DEF Next
<1> QED
  BY <1>1, <1>2, GuardInvAlways, PTL DEF Spec

----------------------------------------------------------------------------
(* The service                                                             *)

\* The states a release operation, or a diagnosis, can bring a row into:
\* none asks for cancellation, a failure, a timeout or manual recovery.
WalkedStates ==
  PRE_ARM_WORK_STATES \cup POST_ARM_STATES \cup RepairStates
    \cup {"succeeded", "reconciling", "rollback_requested", "rolling_back",
          "rolled_back"}

Paths == Seq(WalkedStates)
Marker == Digests \cup {None}

Call ==
  {NoCall}
    \cup [pc : {"start"}, request : Request]
    \cup [pc : {"advance"}, request : Request, path : Paths, marker : Marker]
    \cup [pc : {"transition"}, request : Request, path : Paths,
          marker : Marker, cites : SUBSET EvidenceRef]
    \cup [pc : {"complete"}, request : Request, result : WalkedStates]

Intent ==
  {NoIntent}
    \cup [status : {"pending"}, request : Request]
    \cup [status : {"completed"}, request : Request, result : WalkedStates]

\* The rows as the service leaves them.
RowsInv ==
  /\ GuardInv
  /\ \A d \in Deployments : state[d] \in WalkedStates
  /\ \A d \in Deployments, p \in DEPLOYMENT_PRODUCTS :
       products[d][p] \in {None, compatibility}

\* One run() at a time, each for a pending intent of its request.
CallsInv ==
  /\ calls \in [Keys -> Call] /\ intents \in [Keys -> Intent]
  /\ crashes \in 0..MaxCrashes
  /\ \A k \in Keys :
       calls[k] # NoCall => /\ intents[k].status = "pending"
                            /\ intents[k].request = calls[k].request
  /\ \A j, k \in Keys : Running(j) /\ Running(k) => j = k

\* What a result says of the request it answers.
Answers(request, s) ==
  request.op # "observe" =>
    /\ s = TargetOf(request.op)
    /\ request.op = "build" => ProductsCompatible(request.d)

\* The rest of a path ends in the state the operation promises, which the
\* row has reached when nothing is left.
CallOK(c) ==
  /\ c.pc \in {"advance", "transition"} =>
       /\ c.request.op # "observe"
       /\ IF c.path = << >>
          THEN c.pc = "advance" /\ state[c.request.d] = TargetOf(c.request.op)
          ELSE c.path[Len(c.path)] = TargetOf(c.request.op)
  /\ c.pc = "complete" => Answers(c.request, c.result)

WalkInv == (\A k \in Keys : CallOK(calls[k])) /\ CompletedMeansReached

\* Request k has an outcome, answered or about to be, for deployment d.
Outcomes == {"activate", "rollback", "repair"}
Decides(k, d) ==
  /\ intents[k].status = "completed" \/ calls[k].pc = "complete"
  /\ intents[k].request.op \in Outcomes /\ intents[k].request.d = d

\* Another request for a decided deployment is at its start: the first
\* state of an activation cannot be reached from the outcome.
OutcomeInv ==
  \A k \in Keys, d \in Deployments : Decides(k, d) =>
    /\ state[d] \in {"succeeded", "rolled_back"}
    /\ \A j \in Keys : Decides(j, d) => j = k
    /\ \A j \in Keys :
         /\ calls[j].pc \in {"advance", "transition"}
         /\ calls[j].request.d = d /\ calls[j].request.op \in Outcomes
         => calls[j].pc = "advance" /\ calls[j].path = ACTIVATE_PATH

\* The ledger part of a service step: evidence rows at most, or one of the
\* ledger's other operations.
RowOf(d) == [generation |-> generation[d], state |-> state[d],
             sequence |-> stateSequence[d]]

LedgerStep ==
  \/ /\ UNCHANGED <<identity, record, products>>
     /\ evidence' \in [Deployments -> SUBSET EvidenceRef]
  \/ \E d \in Deployments, g \in Generations, k \in Keys, r \in Requests :
       createDeployment(d, g, k, r)
  \/ \E d \in Deployments, p \in DEPLOYMENT_PRODUCTS :
       addProduct(d, p, compatibility)
  \/ \E d \in Deployments : \E in \in Intents(state[d]) :
       in.nextState \in WalkedStates /\ transition(d, RowOf(d), in)

\* What no step does to the rows: change a terminal one, or a manifest.
RowsFinal ==
  \A d \in Deployments :
    /\ terminal(d) => state'[d] = state[d]
    /\ ProductsCompatible(d) => (ProductsCompatible(d))'

\* The rows' invariant survives, and terminal rows and manifests are final.
LEMMA RowsKept == RowsInv /\ LedgerStep => RowsInv' /\ RowsFinal
<1> SUFFICES ASSUME RowsInv, LedgerStep PROVE RowsInv' /\ RowsFinal
  OBVIOUS
<1>0. GuardInv /\ TypeOK
  BY DEF RowsInv, GuardInv
<1>1. ASSUME UNCHANGED <<identity, record, products>>,
             evidence' \in [Deployments -> SUBSET EvidenceRef]
      PROVE  RowsInv' /\ RowsFinal
  <2>1. TypeOK'
    BY <1>0, <1>1 DEF TypeOK, identity, record
  <2>2. GuardInv'
    BY <1>0, <1>1, <2>1
    DEF GuardInv, Fresh, PostArmGuarded, ArmedNeverClean, identity, record
  <2> QED
    BY <1>1, <2>2 DEF RowsInv, RowsFinal, record, ProductsCompatible
<1>2. ASSUME NEW d \in Deployments, NEW g \in Generations, NEW k \in Keys,
             NEW r \in Requests, createDeployment(d, g, k, r)
      PROVE  RowsInv' /\ RowsFinal
  <2>1. GuardInv'
    BY <1>0, <1>2, CreateTypes, CreateGuardInv DEF GuardInv
  <2>2. UNCHANGED <<record, products>>
    BY <1>2 DEF createDeployment
  <2> QED
    BY <2>1, <2>2 DEF RowsInv, RowsFinal, record, ProductsCompatible
<1>3. ASSUME NEW d \in Deployments, NEW p \in DEPLOYMENT_PRODUCTS,
             addProduct(d, p, compatibility)
      PROVE  RowsInv' /\ RowsFinal
  <2>1. /\ TypeOK' /\ UNCHANGED <<identity, record, evidence>>
        /\ products[d][p] = None
        /\ products' = [products EXCEPT ![d][p] = compatibility]
    BY <1>0, <1>3, ProductTypes, CompatibilityAssumption DEF addProduct
  <2>2. GuardInv'
    BY <1>0, <2>1
    DEF GuardInv, Fresh, PostArmGuarded, ArmedNeverClean, identity, record
  <2>3. \A e \in Deployments, q \in DEPLOYMENT_PRODUCTS :
          products'[e][q] = IF e = d /\ q = p THEN compatibility
                            ELSE products[e][q]
    BY <1>0, <2>1 DEF TypeOK
  <2>4. \A e \in Deployments : ProductsCompatible(e) => (ProductsCompatible(e))'
    <3> SUFFICES ASSUME NEW e \in Deployments, NEW c \in Compat,
                        \A q \in DEPLOYMENT_PRODUCTS : products[e][q] = c
                 PROVE  \A q \in DEPLOYMENT_PRODUCTS : products'[e][q] = c
      BY DEF ProductsCompatible
    <3>1. c # None
      BY NoneAssumption
    <3> QED
      BY <2>1, <2>3, <3>1
  <2> QED
    BY <2>1, <2>2, <2>3, <2>4 DEF RowsInv, RowsFinal, record
<1>4. ASSUME NEW d \in Deployments, NEW in \in Intents(state[d]),
             in.nextState \in WalkedStates, transition(d, RowOf(d), in)
      PROVE  RowsInv' /\ RowsFinal
  <2>1. in \in Intents(RowOf(d).state)
    BY <1>4 DEF RowOf
  <2>2. TypeOK'
    BY <1>0, <1>4, <2>1, TransitionTypes
  <2>3. GuardInv'
    BY <1>0, <1>4, <2>1, <2>2, TransitionGuardInv DEF GuardInv
  <2>4. /\ state' = [state EXCEPT ![d] = in.nextState] /\ ~terminal(d)
        /\ products' = products
    BY <1>4 DEF transition
  <2> QED
    BY <1>0, <1>4, <2>3, <2>4
    DEF RowsInv, RowsFinal, TypeOK, terminal, ProductsCompatible
<1> QED
  BY <1>1, <1>2, <1>3, <1>4 DEF LedgerStep

----------------------------------------------------------------------------
(* Paths                                                                   *)

\* The first state of a path and the rest.
LEMMA PathSplit ==
  ASSUME NEW s \in Paths, s # << >>
  PROVE  /\ Head(s) \in WalkedStates /\ Tail(s) \in Paths
         /\ Tail(s) = << >> => s[Len(s)] = Head(s)
         /\ Tail(s) # << >> => Tail(s)[Len(Tail(s))] = s[Len(s)]
<1>1. /\ Len(s) \in Nat /\ Len(s) # 0
      /\ Head(s) = s[1] /\ Head(s) \in WalkedStates
      /\ Tail(s) \in Seq(WalkedStates) /\ Len(Tail(s)) = Len(s) - 1
      /\ \A i \in 1..Len(Tail(s)) : Tail(s)[i] = s[i + 1]
  BY HeadTailProperties, EmptySeq DEF Paths
<1>2. Tail(s) = << >> <=> Len(Tail(s)) = 0
  BY <1>1, EmptySeq
<1>3. Tail(s) # << >> => Len(Tail(s)) \in 1..Len(Tail(s))
  BY <1>1, <1>2
<1> QED
  BY <1>1, <1>2, <1>3 DEF Paths

LEMMA SingletonPath ==
  ASSUME NEW S, NEW x \in S
  PROVE  << x >> \in Seq(S)
OBVIOUS

\* Each operation's path ends in the state it promises.
LEMMA PathTargets ==
  ASSUME NEW op \in Operations \ {"observe"}, NEW s,
         NEW path, path = IF op = "build" THEN BUILD_PATH ELSE PathOf(op, s)
  PROVE  path \in Paths /\ path # << >> /\ path[Len(path)] = TargetOf(op)
<1>1. CASE op = "build"
  BY <1>1 DEF BUILD_PATH, Paths, TargetOf, WalkedStates, PRE_ARM_WORK_STATES
<1>2. CASE op = "stage"
  BY <1>2 DEF PathOf, STAGE_PATH, Paths, TargetOf, WalkedStates, PRE_ARM_WORK_STATES
<1>3. CASE op = "activate"
  BY <1>3
  DEF PathOf, ACTIVATE_PATH, Paths, TargetOf, WalkedStates,
      PRE_ARM_WORK_STATES, POST_ARM_STATES, ACTIVE_MUTATION_STATES
<1>4. CASE op = "rollback"
  <2>1. \/ path = << "rolling_back", "rolled_back" >>
        \/ path = << "rolled_back" >>
        \/ path = << "rollback_requested", "rolling_back", "rolled_back" >>
    BY <1>4 DEF PathOf, RollbackPath
  <2>2. CASE path = << "rolling_back", "rolled_back" >>
    BY <1>4, <2>2 DEF Paths, TargetOf, WalkedStates
  <2>3. CASE path = << "rolled_back" >>
    <3>1. Len(path) = 1 /\ path[1] = "rolled_back" /\ path # << >>
      BY <2>3
    <3>2. path \in Paths
      <4>1. "rolled_back" \in WalkedStates
        BY DEF WalkedStates
      <4>2. << "rolled_back" >> \in Seq(WalkedStates)
        BY <4>1, SingletonPath
      <4> QED
        BY <2>3, <4>2 DEF Paths
    <3> QED
      BY <1>4, <3>1, <3>2 DEF TargetOf
  <2>4. CASE path = << "rollback_requested", "rolling_back", "rolled_back" >>
    BY <1>4, <2>4 DEF Paths, TargetOf, WalkedStates
  <2> QED
    BY <2>1, <2>2, <2>3, <2>4
<1>5. CASE op = "repair"
  <2>1. CASE s = "rollback_failed"
    BY <1>5, <2>1 DEF PathOf, RepairPath, Paths, TargetOf, WalkedStates
  <2>2. CASE s # "rollback_failed"
    BY <1>5, <2>2 DEF PathOf, RepairPath, Paths, TargetOf, WalkedStates
  <2> QED
    BY <2>1, <2>2
<1> QED
  BY <1>1, <1>2, <1>3, <1>4, <1>5 DEF Operations

----------------------------------------------------------------------------
(* Calls                                                                   *)

ServiceInv == RowsInv /\ CallsInv /\ WalkInv /\ OutcomeInv

\* The fields of a call in progress.
LEMMA CallFields ==
  ASSUME CallsInv, NEW k \in Keys
  PROVE  /\ calls[k] \in Call
         /\ calls[k].pc \in CallPc
         /\ calls[k].pc = "idle" <=> calls[k] = NoCall
         /\ calls[k].pc # "idle" =>
              /\ calls[k].request \in Request
              /\ calls[k].request.op \in Operations
              /\ calls[k].request.d \in Deployments
              /\ intents[k].status = "pending"
              /\ intents[k].request = calls[k].request
         /\ calls[k].pc \in {"advance", "transition"} =>
              calls[k].path \in Paths /\ calls[k].marker \in Marker
         /\ calls[k].pc = "transition" => calls[k].cites \in SUBSET EvidenceRef
         /\ calls[k].pc = "complete" => calls[k].result \in WalkedStates
<1>1. calls[k] \in Call
  BY DEF CallsInv
<1>2. CASE calls[k] = NoCall
  BY <1>1, <1>2 DEF NoCall, CallPc
<1>3. CASE calls[k] \in [pc : {"start"}, request : Request]
  BY <1>1, <1>3 DEF NoCall, CallPc, Request, CallsInv
<1>4. CASE calls[k] \in [pc : {"advance"}, request : Request, path : Paths,
                         marker : Marker]
  BY <1>1, <1>4 DEF NoCall, CallPc, Request, CallsInv
<1>5. CASE calls[k] \in [pc : {"transition"}, request : Request, path : Paths,
                         marker : Marker, cites : SUBSET EvidenceRef]
  BY <1>1, <1>5 DEF NoCall, CallPc, Request, CallsInv
<1>6. CASE calls[k] \in [pc : {"complete"}, request : Request,
                         result : WalkedStates]
  BY <1>1, <1>6 DEF NoCall, CallPc, Request, CallsInv
<1> QED
  BY <1>1, <1>2, <1>3, <1>4, <1>5, <1>6 DEF Call

\* The forms the service writes.
LEMMA CallForms ==
  ASSUME NEW request \in Request
  PROVE  /\ NoCall \in Call
         /\ [pc |-> "start", request |-> request] \in Call
         /\ \A path \in Paths : Walk(request, path) \in Call
         /\ \A path \in Paths, m \in Marker :
              [pc |-> "advance", request |-> request, path |-> path,
               marker |-> m] \in Call
         /\ \A path \in Paths, m \in Marker, refs \in SUBSET EvidenceRef :
              [pc |-> "transition", request |-> request, path |-> path,
               marker |-> m, cites |-> refs] \in Call
         /\ \A s \in WalkedStates : Finish(request, s) \in Call
BY DEF Call, Walk, Finish, Marker

LEMMA LedgerUnchanged == RowsInv /\ UNCHANGED ledger => LedgerStep
BY DEF ledger, vars, RowsInv, GuardInv, TypeOK, LedgerStep, identity, record

\* Call k becomes c.  Only the one that runs may have moved the rows.
LEMMA CallMoves ==
  ASSUME CallsInv, WalkInv, RowsFinal,
         NEW k \in Keys, NEW c \in Call, calls[k] # NoCall,
         calls' = [calls EXCEPT ![k] = c], UNCHANGED <<intents, crashes>>,
         c = NoCall \/ c.request = calls[k].request,
         c.pc \in {"idle", "complete"} \/ Running(k),
         CallOK(calls[k])', state' = state \/ Running(k)
  PROVE  CallsInv' /\ WalkInv'
<1>1. /\ calls \in [Keys -> Call] /\ calls'[k] = c
      /\ \A j \in Keys : j # k => calls'[j] = calls[j]
  BY DEF CallsInv
<1>2. CallsInv'
  <2>1. calls' \in [Keys -> Call]
    BY <1>1
  <2> QED
    BY <1>1, <2>1 DEF CallsInv, Running
<1>3. ASSUME NEW j \in Keys PROVE CallOK(calls[j])'
  <2>1. CASE j = k
    BY <2>1
  <2>2. CASE j # k /\ calls[j].pc \in {"advance", "transition"}
    <3>1. Running(j) /\ ~Running(k)
      BY <2>2 DEF Running, CallsInv
    <3> QED
      BY <1>1, <2>2, <3>1 DEF WalkInv, CallOK
  <2>3. CASE j # k /\ calls[j].pc \notin {"advance", "transition"}
    <3>1. calls[j].pc = "complete" => calls[j].request.d \in Deployments
      BY CallFields
    <3> QED
      BY <1>1, <2>3, <3>1
      DEF WalkInv, CallOK, Answers, RowsFinal, ProductsCompatible
  <2> QED
    BY <2>1, <2>2, <2>3
<1>4. CompletedMeansReached'
  <2>1. \A j \in Keys : intents[j].status = "completed" =>
          intents[j].request.d \in Deployments
    BY DEF CallsInv, Intent, NoIntent, Request
  <2> QED
    BY <2>1 DEF WalkInv, CompletedMeansReached, RowsFinal, ProductsCompatible
<1> QED
  BY <1>2, <1>3, <1>4 DEF WalkInv

\* No step of a call but its result decides a deployment; against a decided
\* one it stays where it is.
LEMMA OutcomeMoves ==
  ASSUME CallsInv, OutcomeInv, RowsFinal,
         NEW k \in Keys, NEW c \in Call, calls[k] # NoCall,
         calls' = [calls EXCEPT ![k] = c], intents' = intents,
         c = NoCall \/ c.request = calls[k].request,
         c.pc = "complete" => c.request.op \notin Outcomes,
         \A i \in Keys :
           /\ c.pc \in {"advance", "transition"} /\ c.request.op \in Outcomes
           /\ Decides(i, c.request.d)
           => c.pc = "advance" /\ c.path = ACTIVATE_PATH
  PROVE  OutcomeInv'
<1>1. /\ calls'[k] = c /\ \A j \in Keys : j # k => calls'[j] = calls[j]
      /\ intents[k].status = "pending" /\ intents[k].request = calls[k].request
      /\ c.pc = "complete" => c # NoCall
  BY DEF CallsInv, NoCall
<1>2. ASSUME NEW i \in Keys, NEW d \in Deployments, Decides(i, d)'
      PROVE  Decides(i, d)
  BY <1>1, <1>2 DEF Decides
<1>3. ASSUME NEW i \in Keys, NEW d \in Deployments, Decides(i, d)
      PROVE  state'[d] \in {"succeeded", "rolled_back"}
  BY <1>3 DEF OutcomeInv, RowsFinal, terminal, TERMINAL_STATES
<1>4. ASSUME NEW i \in Keys, NEW d \in Deployments, Decides(i, d),
             NEW j \in Keys, calls'[j].pc \in {"advance", "transition"},
             calls'[j].request.d = d, calls'[j].request.op \in Outcomes
      PROVE  calls'[j].pc = "advance" /\ calls'[j].path = ACTIVATE_PATH
  <2>1. CASE j = k
    BY <1>1, <1>4, <2>1
  <2>2. CASE j # k
    BY <1>1, <1>4, <2>2 DEF OutcomeInv
  <2> QED
    BY <2>1, <2>2
<1> QED
  BY <1>2, <1>3, <1>4 DEF OutcomeInv

\* A row that an outcome was decided for has no transition left.
LEMMA DecidedStuck ==
  ASSUME RowsInv, OutcomeInv, NEW i \in Keys, NEW d \in Deployments,
         Decides(i, d)
  PROVE  /\ terminal(d) /\ state[d] \notin RepairStates
         /\ state[d] # Head(ACTIVATE_PATH) /\ ACTIVATE_PATH # << >>
         /\ \A s : <<state[d], s>> \notin TransitionRules
<1>1. state[d] \in {"succeeded", "rolled_back"}
  BY DEF OutcomeInv
<1>2. Head(ACTIVATE_PATH) = "snapshotting" /\ ACTIVATE_PATH # << >>
  BY DEF ACTIVATE_PATH
<1> QED
  BY <1>1, <1>2 DEF terminal, TERMINAL_STATES, RepairStates, TransitionRules

----------------------------------------------------------------------------
(* Steps                                                                   *)

StepKeeps == RowsInv' /\ CallsInv' /\ WalkInv' /\ OutcomeInv'

\* reserveIntent: nobody runs, and the key has decided nothing.
LEMMA ReserveKeeps ==
  ASSUME ServiceInv, NEW k \in Keys, NEW request \in Request,
         reserveIntent(k, request)
  PROVE  StepKeeps
<1> DEFINE c == [pc |-> "start", request |-> request]
           i == [status |-> "pending", request |-> request]
<1>1. /\ NobodyRuns /\ calls[k] = NoCall /\ intents[k] = NoIntent
      /\ intents' = [intents EXCEPT ![k] = i] /\ calls' = [calls EXCEPT ![k] = c]
      /\ UNCHANGED <<ledger, crashes>>
  BY DEF reserveIntent
<1>2. /\ c \in Call /\ c.pc = "start" /\ c.request = request /\ c # NoCall
      /\ i \in Intent /\ i.status = "pending" /\ i.request = request
  BY CallForms DEF Intent, NoCall
<1> HIDE DEF c, i
<1>3. RowsInv' /\ RowsFinal
  BY <1>1, LedgerUnchanged, RowsKept DEF ServiceInv
<1>4. /\ calls \in [Keys -> Call] /\ intents \in [Keys -> Intent]
      /\ calls'[k] = c /\ intents'[k] = i
      /\ \A j \in Keys : j # k =>
           calls'[j] = calls[j] /\ intents'[j] = intents[j] /\ ~Running(j)
  BY <1>1 DEF ServiceInv, CallsInv, NobodyRuns
<1>5. CallsInv'
  <2>1. calls' \in [Keys -> Call] /\ intents' \in [Keys -> Intent]
    BY <1>1, <1>2, <1>4
  <2>2. crashes' \in 0..MaxCrashes
    BY <1>1 DEF ServiceInv, CallsInv
  <2>3. \A j \in Keys : j # k => ~(Running(j))'
    BY <1>4 DEF Running
  <2> QED
    BY <1>2, <1>4, <2>1, <2>2, <2>3 DEF ServiceInv, CallsInv
<1>6. state' = state /\ products' = products
  BY <1>1 DEF ledger, vars
<1>7. WalkInv'
  <2>1. \A j \in Keys : CallOK(calls[j])'
    BY <1>2, <1>4, <1>6
    DEF ServiceInv, WalkInv, CallOK, Answers, ProductsCompatible
  <2>2. CompletedMeansReached'
    BY <1>2, <1>4, <1>6
    DEF ServiceInv, WalkInv, CompletedMeansReached, ProductsCompatible
  <2> QED
    BY <2>1, <2>2 DEF WalkInv
<1>8. OutcomeInv'
  BY <1>2, <1>4, <1>6 DEF ServiceInv, OutcomeInv, Decides
<1> QED
  BY <1>3, <1>5, <1>7, <1>8 DEF StepKeeps

\* A step of a call that is not its result.
LEMMA MovesKeep ==
  ASSUME ServiceInv, LedgerStep,
         NEW k \in Keys, NEW c \in Call, calls[k] # NoCall,
         calls' = [calls EXCEPT ![k] = c], UNCHANGED <<intents, crashes>>,
         c = NoCall \/ c.request = calls[k].request,
         c.pc \in {"idle", "complete"} \/ Running(k),
         CallOK(calls[k])', state' = state \/ Running(k),
         c.pc = "complete" => c.request.op \notin Outcomes,
         \A i \in Keys :
           /\ c.pc \in {"advance", "transition"} /\ c.request.op \in Outcomes
           /\ Decides(i, c.request.d)
           => c.pc = "advance" /\ c.path = ACTIVATE_PATH
  PROVE  StepKeeps
<1>1. RowsInv' /\ RowsFinal
  BY RowsKept DEF ServiceInv
<1>2. CallsInv' /\ WalkInv'
  BY <1>1, CallMoves DEF ServiceInv
<1>3. OutcomeInv'
  BY <1>1, OutcomeMoves DEF ServiceInv
<1> QED
  BY <1>1, <1>2, <1>3 DEF StepKeeps

LEMMA BuildKeeps ==
  ASSUME ServiceInv, NEW k \in Keys, build(k)
  PROVE  StepKeeps
<1> DEFINE request == calls[k].request
           c == Walk(request, BUILD_PATH)
<1>1. /\ calls[k].pc = "start" /\ request.op = "build"
      /\ \E g \in Generations, r \in Requests :
           createDeployment(request.d, g, k, r)
      /\ calls' = [calls EXCEPT ![k] = c] /\ UNCHANGED <<intents, crashes>>
  BY DEF build
<1>2. request \in Request /\ request.d \in Deployments /\ calls[k] # NoCall
      /\ Running(k)
  BY <1>1, CallFields DEF ServiceInv, Running
<1>3. BUILD_PATH \in Paths /\ BUILD_PATH # << >>
      /\ BUILD_PATH[Len(BUILD_PATH)] = TargetOf("build")
  BY PathTargets DEF Operations
<1>4. LedgerStep
  BY <1>1, <1>2 DEF LedgerStep
<1>5. c \in Call
  BY <1>2, <1>3, CallForms
<1>6. c.pc = "advance" /\ c.request = request /\ c.path = BUILD_PATH
  BY DEF Walk
<1> HIDE DEF c
<1>7. CallOK(calls[k])'
  <2>1. calls'[k] = c
    BY <1>1 DEF ServiceInv, CallsInv
  <2> QED
    BY <1>1, <1>3, <1>6, <2>1 DEF CallOK
<1>8. request.op \notin Outcomes
  BY <1>1 DEF Outcomes
<1> HIDE DEF request
<1> QED
  BY <1>1, <1>2, <1>4, <1>5, <1>6, <1>7, <1>8, MovesKeep DEF request

LEMMA StartKeeps ==
  ASSUME ServiceInv, NEW k \in Keys, startPath(k)
  PROVE  StepKeeps
<1> DEFINE request == calls[k].request
           path == PathOf(request.op, state[request.d])
           c == Walk(request, path)
<1>1. /\ calls[k].pc = "start"
      /\ request.op \in {"stage", "activate", "rollback", "repair"}
      /\ MayStart(request.op, request.d)
      /\ calls' = [calls EXCEPT ![k] = c]
      /\ UNCHANGED <<ledger, intents, crashes>>
  BY DEF startPath
<1>2. /\ request \in Request /\ request.d \in Deployments
      /\ calls[k] # NoCall /\ Running(k)
  BY <1>1, CallFields DEF ServiceInv, Running
<1>3. /\ path \in Paths /\ path # << >>
      /\ path[Len(path)] = TargetOf(request.op)
  BY <1>1, PathTargets DEF Operations
<1>4. LedgerStep
  BY <1>1, LedgerUnchanged DEF ServiceInv
<1>5. ASSUME NEW i \in Keys, request.op \in Outcomes, Decides(i, request.d)
      PROVE  path = ACTIVATE_PATH
  <2>1. terminal(request.d) /\ state[request.d] \notin RepairStates
    BY <1>2, <1>5, DecidedStuck DEF ServiceInv
  <2> QED
    BY <1>1, <1>5, <2>1 DEF MayStart, PathOf, Outcomes
<1> HIDE DEF path
<1>6. c \in Call
  BY <1>2, <1>3, CallForms
<1>7. c.pc = "advance" /\ c.request = request /\ c.path = path
  BY DEF Walk
<1> HIDE DEF c
<1>8. CallOK(calls[k])'
  <2>1. calls'[k] = c
    BY <1>1 DEF ServiceInv, CallsInv
  <2> QED
    BY <1>1, <1>3, <1>7, <2>1 DEF CallOK
<1> QED
  BY <1>1, <1>2, <1>4, <1>5, <1>6, <1>7, <1>8, MovesKeep

LEMMA ObserveKeeps ==
  ASSUME ServiceInv, NEW k \in Keys, observe(k)
  PROVE  StepKeeps
<1> DEFINE request == calls[k].request
           c == Finish(request, state[request.d])
<1>1. /\ calls[k].pc = "start" /\ request.op = "observe"
      /\ calls' = [calls EXCEPT ![k] = c]
      /\ UNCHANGED <<ledger, intents, crashes>>
  BY DEF observe
<1>2. request \in Request /\ request.d \in Deployments /\ calls[k] # NoCall
  BY <1>1, CallFields DEF ServiceInv
<1>3. state[request.d] \in WalkedStates
  BY <1>2 DEF ServiceInv, RowsInv
<1>4. LedgerStep /\ state' = state
  BY <1>1, LedgerUnchanged DEF ServiceInv, ledger, vars
<1>5. c \in Call
  BY <1>2, <1>3, CallForms
<1>6. c.pc = "complete" /\ c.request = request
  BY DEF Finish
<1> HIDE DEF c
<1>7. CallOK(calls[k])'
  <2>1. calls'[k] = c
    BY <1>1 DEF ServiceInv, CallsInv
  <2> QED
    BY <1>1, <1>6, <2>1 DEF CallOK, Answers
<1>8. request.op \notin Outcomes
  BY <1>1 DEF Outcomes
<1> QED
  BY <1>1, <1>2, <1>4, <1>5, <1>6, <1>7, <1>8, MovesKeep

LEMMA PathReplaced ==
  ASSUME NEW q, NEW p, NEW m, NEW t
  PROVE  [[pc |-> "advance", request |-> q, path |-> p, marker |-> m]
            EXCEPT !.path = t]
           = [pc |-> "advance", request |-> q, path |-> t, marker |-> m]
OBVIOUS

LEMMA SkipKeeps ==
  ASSUME ServiceInv, NEW k \in Keys, advanceSkip(k)
  PROVE  StepKeeps
<1> DEFINE request == calls[k].request
           path == calls[k].path
           c == [calls[k] EXCEPT !.path = Tail(path)]
<1>1. /\ calls[k].pc = "advance" /\ path # << >>
      /\ state[request.d] = Head(path)
      /\ calls' = [calls EXCEPT ![k] = c]
      /\ UNCHANGED <<ledger, intents, crashes>>
  BY DEF advanceSkip, Skips
<1>2. /\ request \in Request /\ request.d \in Deployments
      /\ calls[k] # NoCall /\ Running(k) /\ path \in Paths
      /\ calls[k].marker \in Marker
  BY <1>1, CallFields DEF ServiceInv, Running
<1>3. /\ Tail(path) \in Paths
      /\ Tail(path) = << >> => path[Len(path)] = Head(path)
      /\ Tail(path) # << >> => Tail(path)[Len(Tail(path))] = path[Len(path)]
  BY <1>1, <1>2, PathSplit
<1>4. LedgerStep /\ state' = state
  BY <1>1, LedgerUnchanged DEF ServiceInv, ledger, vars
<1>5. PICK q \in Request, p \in Paths, m \in Marker :
        calls[k] = [pc |-> "advance", request |-> q, path |-> p, marker |-> m]
  <2>1. calls[k] \in [pc : {"advance"}, request : Request, path : Paths,
                      marker : Marker]
    BY <1>1, CallFields DEF ServiceInv, Call, NoCall
  <2> QED
    BY <2>1
<1>6. /\ request = q /\ path = p
      /\ c = [pc |-> "advance", request |-> q, path |-> Tail(p), marker |-> m]
  <2>1. request = q /\ path = p
    BY <1>5
  <2> DEFINE r == [pc |-> "advance", request |-> q, path |-> p, marker |-> m]
  <2>2. [r EXCEPT !.path = Tail(p)] =
          [pc |-> "advance", request |-> q, path |-> Tail(p), marker |-> m]
    BY PathReplaced
  <2> HIDE DEF r, path
  <2>3. c = [r EXCEPT !.path = Tail(p)]
    BY <1>5, <2>1 DEF r
  <2> QED
    BY <2>1, <2>2, <2>3
<1>7. c \in Call /\ c.pc = "advance" /\ c.request = request
      /\ c.path = Tail(path)
  <2> HIDE DEF path, request, c
  <2> QED
    BY <1>3, <1>6, CallForms
<1> HIDE DEF c
<1>8. /\ request.op # "observe"
      /\ path[Len(path)] = TargetOf(request.op)
  BY <1>1 DEF ServiceInv, WalkInv, CallOK
<1>9. CallOK(calls[k])'
  <2>1. calls'[k] = c
    BY <1>1 DEF ServiceInv, CallsInv
  <2> QED
    BY <1>1, <1>3, <1>4, <1>7, <1>8, <2>1 DEF CallOK
<1>10. ASSUME NEW i \in Keys, request.op \in Outcomes, Decides(i, request.d)
       PROVE  FALSE
  <2>1. path = ACTIVATE_PATH
    BY <1>1, <1>2, <1>10 DEF ServiceInv, OutcomeInv
  <2> QED
    BY <1>1, <1>2, <1>10, <2>1, DecidedStuck DEF ServiceInv
<1> QED
  BY <1>1, <1>2, <1>4, <1>7, <1>9, <1>10, MovesKeep

\* The evidence a step of advance() writes and cites has its type.
LEMMA EvidenceKeeps ==
  ASSUME ServiceInv, NEW k \in Keys, advanceEvidence(k)
  PROVE  StepKeeps
<1> DEFINE request == calls[k].request
           d == request.d
           path == calls[k].path
           required == REQUIRED_EVIDENCE[Head(path)] \cap TrackedKinds
           reuses == "success.marker" \in required /\ successMarker[d] # None
           new(digest) ==
             {[kind |-> kind, digest |-> digest] :
                kind \in required \ (IF reuses THEN {"success.marker"} ELSE {})}
           old == IF reuses
                  THEN {[kind |-> "success.marker",
                         digest |-> successMarker[d]]} ELSE {}
           marker(digest) == IF "success.marker" \in required /\ ~reuses
                             THEN digest ELSE calls[k].marker
           c(digest) ==
             [pc |-> "transition", request |-> request, path |-> path,
              marker |-> marker(digest), cites |-> new(digest) \cup old]
<1>1. PICK digest \in Digests :
        /\ evidence' = [evidence EXCEPT ![d] = @ \cup new(digest)]
        /\ calls' = [calls EXCEPT ![k] = c(digest)]
  BY DEF advanceEvidence
<1>2. /\ calls[k].pc = "advance" /\ path # << >>
      /\ <<state[d], Head(path)>> \in TransitionRules
      /\ UNCHANGED <<created, generation, createKey, createRequest, state,
                     stateSequence, guardArmed, successMarker, products,
                     intents, crashes>>
  BY DEF advanceEvidence
<1>3. /\ request \in Request /\ d \in Deployments
      /\ calls[k] # NoCall /\ Running(k) /\ path \in Paths
      /\ calls[k].marker \in Marker
  BY <1>2, CallFields DEF ServiceInv, Running
<1>4. /\ successMarker[d] \in Marker /\ evidence[d] \in SUBSET EvidenceRef
      /\ evidence \in [Deployments -> SUBSET EvidenceRef]
      /\ successMarker \in [Deployments -> Marker]
  BY <1>3 DEF ServiceInv, RowsInv, GuardInv, TypeOK, Marker
<1>5. new(digest) \in SUBSET EvidenceRef /\ old \in SUBSET EvidenceRef
      /\ marker(digest) \in Marker
  <2>1. required \subseteq TrackedKinds
    OBVIOUS
  <2> HIDE DEF required, d
  <2> QED
    BY <1>3, <1>4, <2>1 DEF EvidenceRef, Marker
<1>6. LedgerStep
  <2> HIDE DEF new
  <2>1. evidence' \in [Deployments -> SUBSET EvidenceRef]
    BY <1>1, <1>3, <1>4, <1>5
  <2> QED
    BY <1>2, <2>1 DEF LedgerStep, identity, record
<1>7. /\ c(digest) \in Call /\ c(digest).pc = "transition"
      /\ c(digest).request = request /\ c(digest).path = path
  <2> HIDE DEF new, old, marker, path, request
  <2> QED
    BY <1>3, <1>5, CallForms
<1> HIDE DEF c, new, old, marker, required, reuses
<1>8. /\ request.op # "observe"
      /\ path[Len(path)] = TargetOf(request.op)
  BY <1>2 DEF ServiceInv, WalkInv, CallOK
<1>9. CallOK(calls[k])'
  <2>1. calls'[k] = c(digest)
    BY <1>1 DEF ServiceInv, CallsInv
  <2> QED
    BY <1>2, <1>7, <1>8, <2>1 DEF CallOK
<1>10. ASSUME NEW i \in Keys, Decides(i, d) PROVE FALSE
  BY <1>2, <1>3, <1>10, DecidedStuck DEF ServiceInv
<1> QED
  BY <1>1, <1>2, <1>3, <1>6, <1>7, <1>9, <1>10, MovesKeep

\* database.transition() to the next state of the path.
LEMMA TransitionKeeps ==
  ASSUME ServiceInv, NEW k \in Keys, advanceTransition(k)
  PROVE  StepKeeps
<1> DEFINE request == calls[k].request
           d == request.d
           path == calls[k].path
           next == Head(path)
           marker == IF calls[k].marker # None THEN calls[k].marker
                     ELSE successMarker[d]
           status == CASE next = "guard_armed" -> "armed"
                       [] next \in {"succeeded", "rolled_back"} -> "disarmed"
                       [] OTHER -> None
           digest == IF next \in {"guard_disarming", "succeeded"}
                     THEN marker ELSE None
           in == [nextState |-> next, guardStatus |-> status,
                  successMarkerDigest |-> digest, evidence |-> calls[k].cites]
           c == [pc |-> "advance", request |-> request, path |-> Tail(path),
                 marker |-> calls[k].marker]
<1>1. /\ calls[k].pc = "transition" /\ transition(d, RowOf(d), in)
      /\ calls' = [calls EXCEPT ![k] = c] /\ UNCHANGED <<intents, crashes>>
  BY DEF advanceTransition, RowOf
<1>2. /\ request \in Request /\ d \in Deployments
      /\ calls[k] # NoCall /\ Running(k) /\ path \in Paths
      /\ calls[k].marker \in Marker /\ calls[k].cites \in SUBSET EvidenceRef
  BY <1>1, CallFields DEF ServiceInv, Running
<1>3. /\ request.op # "observe" /\ path # << >>
      /\ path[Len(path)] = TargetOf(request.op)
  BY <1>1 DEF ServiceInv, WalkInv, CallOK
<1>4. /\ next \in WalkedStates /\ Tail(path) \in Paths
      /\ Tail(path) = << >> => path[Len(path)] = next
      /\ Tail(path) # << >> => Tail(path)[Len(Tail(path))] = path[Len(path)]
  BY <1>2, <1>3, PathSplit
<1>5. LedgerStep
  <2>1. successMarker[d] \in Marker
    BY <1>2 DEF ServiceInv, RowsInv, GuardInv, TypeOK, Marker
  <2>2. digest \in Digests \cup {None}
    BY <1>2, <2>1 DEF Marker
  <2>3. status \in {"armed", "disarmed", None}
    OBVIOUS
  <2>4. <<state[d], next>> \in TransitionRules
    BY <1>1 DEF transition, AssertTransitionAllowed, RowOf
  <2>5. next \in DEPLOYMENT_STATES
    BY <1>4
    DEF WalkedStates, DEPLOYMENT_STATES, RepairStates, DIAGNOSTIC_STATES,
        ROLLBACK_STATES, TERMINAL_STATES
  <2> HIDE DEF status, digest, next, d
  <2>6. in \in Intents(state[d]) /\ in.nextState = next
    BY <1>2, <2>2, <2>3, <2>4, <2>5 DEF Intents
  <2> HIDE DEF in
  <2> QED
    BY <1>1, <1>2, <1>4, <2>6 DEF LedgerStep
<1>6. state'[d] = next
  <2>1. in.nextState = next
    OBVIOUS
  <2> HIDE DEF in, next
  <2>2. state' = [state EXCEPT ![d] = in.nextState]
    BY <1>1 DEF transition
  <2> QED
    BY <1>2, <2>1, <2>2 DEF ServiceInv, RowsInv, GuardInv, TypeOK
<1> HIDE DEF in, next
<1>7. c \in Call /\ c.pc = "advance" /\ c.request = request
      /\ c.path = Tail(path)
  <2> HIDE DEF path, request
  <2> QED
    BY <1>2, <1>4, CallForms
<1> HIDE DEF c
<1>8. CallOK(calls[k])'
  <2>1. calls'[k] = c
    BY <1>1 DEF ServiceInv, CallsInv
  <2> QED
    BY <1>3, <1>4, <1>6, <1>7, <2>1 DEF CallOK
<1>9. ASSUME NEW i \in Keys, request.op \in Outcomes, Decides(i, d) PROVE FALSE
  BY <1>1, <1>2, <1>9 DEF ServiceInv, OutcomeInv
<1> QED
  BY <1>1, <1>2, <1>5, <1>7, <1>8, <1>9, MovesKeep

\* A step that leaves calls and intents alone.
LEMMA CallsStay ==
  ASSUME ServiceInv, LedgerStep, UNCHANGED <<intents, calls, crashes>>,
         state' = state \/ NobodyRuns
  PROVE  StepKeeps
<1>1. RowsInv' /\ RowsFinal
  BY RowsKept DEF ServiceInv
<1>2. CallsInv'
  BY DEF ServiceInv, CallsInv, Running
<1>3. ASSUME NEW j \in Keys PROVE CallOK(calls[j])'
  <2>1. CASE calls[j].pc \in {"advance", "transition"}
    <3>1. state' = state
      BY <2>1 DEF NobodyRuns, Running
    <3> QED
      BY <2>1, <3>1 DEF ServiceInv, WalkInv, CallOK
  <2>2. CASE calls[j].pc \notin {"advance", "transition"}
    <3>1. calls[j].pc = "complete" => calls[j].request.d \in Deployments
      BY CallFields DEF ServiceInv
    <3> QED
      BY <1>1, <2>2, <3>1
      DEF ServiceInv, WalkInv, CallOK, Answers, RowsFinal, ProductsCompatible
  <2> QED
    BY <2>1, <2>2
<1>4. CompletedMeansReached'
  <2>1. \A j \in Keys : intents[j].status = "completed" =>
          intents[j].request.d \in Deployments
    BY DEF ServiceInv, CallsInv, Intent, NoIntent, Request
  <2> QED
    BY <1>1, <2>1
    DEF ServiceInv, WalkInv, CompletedMeansReached, RowsFinal,
        ProductsCompatible
<1>5. OutcomeInv'
  BY <1>1
  DEF ServiceInv, OutcomeInv, Decides, RowsFinal, terminal, TERMINAL_STATES
<1> QED
  BY <1>1, <1>2, <1>3, <1>4, <1>5 DEF StepKeeps, WalkInv

LEMMA ProductsKeep ==
  ASSUME ServiceInv, NEW k \in Keys, addProducts(k)
  PROVE  StepKeeps
<1>1. calls[k].request.d \in Deployments
  BY CallFields DEF ServiceInv, addProducts
<1>2. LedgerStep /\ state' = state
  BY <1>1 DEF addProducts, LedgerStep, addProduct, record
<1> QED
  BY <1>2, CallsStay DEF addProducts

LEMMA DiagnoseKeeps ==
  ASSUME ServiceInv, NEW d \in Deployments, diagnose(d)
  PROVE  StepKeeps
<1>1. PICK s \in RepairStates :
        transition(d, RowOf(d), [nextState |-> s, guardStatus |-> None,
                                 successMarkerDigest |-> None,
                                 evidence |-> {}])
  BY DEF diagnose, RowOf
<1> DEFINE in == [nextState |-> s, guardStatus |-> None,
                  successMarkerDigest |-> None, evidence |-> {}]
<1>2. <<state[d], s>> \in TransitionRules /\ s \in WalkedStates
      /\ s \in DEPLOYMENT_STATES
  BY <1>1
  DEF transition, AssertTransitionAllowed, RowOf, WalkedStates, RepairStates,
      DEPLOYMENT_STATES, DIAGNOSTIC_STATES, ROLLBACK_STATES
<1>3. in \in Intents(state[d]) /\ in.nextState = s
  BY <1>2 DEF Intents
<1> HIDE DEF in
<1>4. LedgerStep
  BY <1>1, <1>2, <1>3 DEF LedgerStep, in
<1> QED
  BY <1>4, CallsStay DEF diagnose

LEMMA ThrowKeeps ==
  ASSUME ServiceInv, NEW k \in Keys, callThrows(k)
  PROVE  StepKeeps
<1>1. /\ calls' = [calls EXCEPT ![k] = NoCall] /\ calls[k] # NoCall
      /\ UNCHANGED <<ledger, intents, crashes>>
  BY DEF callThrows, NoCall
<1>2. LedgerStep /\ state' = state
  BY <1>1, LedgerUnchanged DEF ServiceInv, ledger, vars
<1>3. NoCall \in Call /\ NoCall.pc = "idle"
  BY DEF Call, NoCall
<1>4. CallOK(calls[k])'
  <2>1. calls'[k] = NoCall
    BY <1>1 DEF ServiceInv, CallsInv
  <2> QED
    BY <1>3, <2>1 DEF CallOK
<1> QED
  BY <1>1, <1>2, <1>3, <1>4, MovesKeep

LEMMA CrashKeeps == ServiceInv /\ crash => StepKeeps
<1> SUFFICES ASSUME ServiceInv, crash PROVE StepKeeps
  OBVIOUS
<1>1. /\ calls' = [k \in Keys |-> NoCall] /\ crashes < MaxCrashes
      /\ crashes' = crashes + 1 /\ UNCHANGED <<ledger, intents>>
  BY DEF crash
<1>2. RowsInv' /\ RowsFinal
  BY <1>1, LedgerUnchanged, RowsKept DEF ServiceInv
<1>3. state' = state /\ products' = products /\ NoCall.pc = "idle"
      /\ \A k \in Keys : calls'[k] = NoCall
  BY <1>1 DEF ledger, vars, NoCall
<1>4. CallsInv'
  <2>1. calls' \in [Keys -> Call]
    BY <1>1 DEF Call
  <2>2. crashes' \in 0..MaxCrashes
    BY <1>1, CrashesAssumption DEF ServiceInv, CallsInv
  <2> QED
    BY <1>1, <1>3, <2>1, <2>2 DEF ServiceInv, CallsInv, Running
<1>5. WalkInv'
  BY <1>1, <1>3
  DEF ServiceInv, WalkInv, CallOK, CompletedMeansReached, ProductsCompatible
<1>6. OutcomeInv'
  BY <1>1, <1>3 DEF ServiceInv, OutcomeInv, Decides
<1> QED
  BY <1>2, <1>4, <1>5, <1>6 DEF StepKeeps

\* The result of a call is the state its path ends in, and the first
\* outcome of the deployment: an earlier one would have kept it from
\* starting to walk.
LEMMA ResultKeeps ==
  ASSUME ServiceInv, NEW k \in Keys, result(k)
  PROVE  StepKeeps
<1> DEFINE request == calls[k].request
           c == Finish(request, state[request.d])
<1>1. /\ calls[k].pc = "advance" /\ calls[k].path = << >>
      /\ request.op = "build" => \A p \in DEPLOYMENT_PRODUCTS :
                                   products[request.d][p] # None
      /\ calls' = [calls EXCEPT ![k] = c]
      /\ UNCHANGED <<ledger, intents, crashes>>
  BY DEF result, ResultReady
<1>2. /\ request \in Request /\ request.d \in Deployments
      /\ calls[k] # NoCall /\ Running(k)
      /\ intents[k].status = "pending" /\ intents[k].request = request
      /\ request.op \in Operations
  BY <1>1, CallFields DEF ServiceInv, Running
<1>3. state[request.d] = TargetOf(request.op) /\ request.op # "observe"
  BY <1>1 DEF ServiceInv, WalkInv, CallOK
<1>4. LedgerStep /\ state' = state /\ products' = products
  BY <1>1, LedgerUnchanged DEF ServiceInv, ledger, vars
<1>5. /\ c \in Call /\ c.pc = "complete" /\ c.request = request
      /\ c.result = state[request.d]
  <2>1. state[request.d] \in WalkedStates
    BY <1>2 DEF ServiceInv, RowsInv
  <2>2. c \in Call
    BY <1>2, <2>1, CallForms
  <2> QED
    BY <2>2 DEF Finish
<1> HIDE DEF c
<1>6. /\ calls'[k] = c /\ \A j \in Keys : j # k => calls'[j] = calls[j]
      /\ RowsInv' /\ RowsFinal
  BY <1>1, <1>4, RowsKept DEF ServiceInv, CallsInv
<1>7. request.op = "build" => ProductsCompatible(request.d)
  BY <1>1, <1>2, CompatibilityAssumption
  DEF ServiceInv, RowsInv, ProductsCompatible
<1>8. CallOK(calls[k])'
  BY <1>3, <1>4, <1>5, <1>6, <1>7 DEF CallOK, Answers, ProductsCompatible
<1>9. CallsInv' /\ WalkInv'
  BY <1>1, <1>2, <1>4, <1>5, <1>6, <1>8, CallMoves DEF ServiceInv
<1>10. OutcomeInv'
  <2>1. ASSUME NEW i \in Keys, Decides(i, request.d), request.op \in Outcomes
        PROVE  FALSE
    <3>1. calls[k].path = ACTIVATE_PATH
      BY <1>1, <1>2, <2>1 DEF ServiceInv, OutcomeInv
    <3> QED
      BY <1>1, <1>2, <2>1, <3>1, DecidedStuck DEF ServiceInv
  <2>2. request.op \in Outcomes => state[request.d] \in {"succeeded", "rolled_back"}
    BY <1>3 DEF Outcomes, TargetOf
  <2>3. \A j \in Keys : calls'[j].pc \in {"advance", "transition"} =>
          FALSE
    BY <1>2, <1>5, <1>6 DEF ServiceInv, CallsInv, Running
  <2>4. ASSUME NEW i \in Keys, NEW e \in Deployments, Decides(i, e)'
        PROVE  Decides(i, e) \/ (i = k /\ e = request.d /\ request.op \in Outcomes)
    BY <1>1, <1>2, <1>6, <2>4 DEF Decides
  <2> HIDE DEF request
  <2> QED
    BY <1>4, <2>1, <2>2, <2>3, <2>4 DEF ServiceInv, OutcomeInv
<1> QED
  BY <1>6, <1>9, <1>10 DEF StepKeeps

\* completeIntent stores the result of the call; nothing is decided anew.
LEMMA CompleteKeeps ==
  ASSUME ServiceInv, NEW k \in Keys, completeIntent(k)
  PROVE  StepKeeps
<1> DEFINE i == [status |-> "completed", request |-> intents[k].request,
                 result |-> calls[k].result]
<1>1. /\ calls[k].pc = "complete" /\ intents' = [intents EXCEPT ![k] = i]
      /\ calls' = [calls EXCEPT ![k] = NoCall] /\ UNCHANGED <<ledger, crashes>>
  BY DEF completeIntent
<1>2. /\ intents[k].request \in Request /\ calls[k].result \in WalkedStates
      /\ intents[k].request = calls[k].request
  BY <1>1, CallFields DEF ServiceInv
<1>3. /\ i \in Intent /\ i.status = "completed"
      /\ i.request = intents[k].request /\ i.result = calls[k].result
  BY <1>2 DEF Intent
<1> HIDE DEF i
<1>4. RowsInv' /\ RowsFinal
  BY <1>1, LedgerUnchanged, RowsKept DEF ServiceInv
<1>5. /\ calls \in [Keys -> Call] /\ intents \in [Keys -> Intent]
      /\ calls'[k] = NoCall /\ intents'[k] = i /\ NoCall.pc = "idle"
      /\ \A j \in Keys : j # k =>
           calls'[j] = calls[j] /\ intents'[j] = intents[j]
      /\ state' = state /\ products' = products
  BY <1>1 DEF ServiceInv, CallsInv, ledger, vars, NoCall
<1>6. CallsInv'
  <2>1. calls' \in [Keys -> Call] /\ intents' \in [Keys -> Intent]
    BY <1>1, <1>3, <1>5 DEF Call
  <2>2. crashes' \in 0..MaxCrashes
    BY <1>1 DEF ServiceInv, CallsInv
  <2>3. ~(Running(k))' /\ \A j \in Keys : j # k => ((Running(j))' <=> Running(j))
    BY <1>5 DEF Running
  <2> QED
    BY <1>5, <2>1, <2>2, <2>3 DEF ServiceInv, CallsInv
<1>7. WalkInv'
  <2>1. \A j \in Keys : CallOK(calls[j])'
    BY <1>5 DEF ServiceInv, WalkInv, CallOK, Answers, ProductsCompatible
  <2>2. Answers(calls[k].request, calls[k].result)
    BY <1>1 DEF ServiceInv, WalkInv, CallOK
  <2>3. CompletedMeansReached'
    BY <1>2, <1>3, <1>5, <2>2
    DEF ServiceInv, WalkInv, CompletedMeansReached, Answers,
        ProductsCompatible
  <2> QED
    BY <2>1, <2>3 DEF WalkInv
<1>8. OutcomeInv'
  <2>1. ASSUME NEW j \in Keys, NEW d \in Deployments, Decides(j, d)'
        PROVE  Decides(j, d)
    BY <1>1, <1>3, <1>5, <2>1 DEF Decides
  <2> QED
    BY <1>5, <2>1 DEF ServiceInv, OutcomeInv
<1> QED
  BY <1>4, <1>6, <1>7, <1>8 DEF StepKeeps

LEMMA ServiceInductive == ServiceInv /\ [ServiceNext]_serviceVars => ServiceInv'
<1> SUFFICES ASSUME ServiceInv, [ServiceNext]_serviceVars PROVE StepKeeps
  BY DEF StepKeeps, ServiceInv
<1>1. CASE UNCHANGED serviceVars
  <2>1. LedgerStep /\ state' = state /\ UNCHANGED <<intents, calls, crashes>>
    BY <1>1, LedgerUnchanged DEF serviceVars, ServiceInv, ledger, vars
  <2> QED
    BY <2>1, CallsStay
<1> QED
  BY <1>1, ReserveKeeps, BuildKeeps, StartKeeps, ObserveKeeps, SkipKeeps,
     EvidenceKeeps, TransitionKeeps, ProductsKeep, ResultKeeps, CompleteKeeps,
     ThrowKeeps, CrashKeeps, DiagnoseKeeps
  DEF ServiceNext, serviceStep

LEMMA ServiceStart == ServiceInit => ServiceInv
<1> SUFFICES ASSUME ServiceInit PROVE ServiceInv
  OBVIOUS
<1>1. RowsInv
  BY DEF ServiceInit, Init, RowsInv, GuardInv, TypeOK, Fresh, PostArmGuarded,
         ArmedNeverClean, DEPLOYMENT_STATES, PRE_ARM_WORK_STATES, WalkedStates
<1>2. CallsInv
  BY CrashesAssumption
  DEF ServiceInit, CallsInv, Call, Intent, NoCall, Running
<1>3. WalkInv /\ OutcomeInv
  BY DEF ServiceInit, WalkInv, CallOK, CompletedMeansReached, OutcomeInv,
         Decides, NoCall, NoIntent
<1> QED
  BY <1>1, <1>2, <1>3 DEF ServiceInv

\* The rows' types, one run() at a time, and a call only for a pending
\* intent of the same request.
THEOREM ServiceTypesOK == ServiceSpec => []ServiceTypeOK
<1>1. ServiceInv => ServiceTypeOK
  <2> SUFFICES ASSUME ServiceInv PROVE ServiceTypeOK
    OBVIOUS
  <2>1. \A k \in Keys : calls[k].pc \in CallPc
    BY CallFields DEF ServiceInv
  <2>2. \A k \in Keys : intents[k].status \in {"absent", "pending", "completed"}
    BY DEF ServiceInv, CallsInv, Intent, NoIntent
  <2> QED
    BY <2>1, <2>2 DEF ServiceInv, CallsInv, RowsInv, GuardInv, ServiceTypeOK
<1> QED
  BY <1>1, ServiceStart, ServiceInductive, PTL DEF ServiceSpec

\* The result a retry is answered with is the state its operation promises,
\* whatever rows, crashes, errors and other requests the call met, and a
\* completed build has frozen two compatible manifests.
THEOREM ServiceCompletedMeansReached == ServiceSpec => []CompletedMeansReached
<1>1. ServiceInv => CompletedMeansReached
  BY DEF ServiceInv, WalkInv
<1> QED
  BY <1>1, ServiceStart, ServiceInductive, PTL DEF ServiceSpec

\* Of all activations, rollbacks and repairs requested for a deployment,
\* under any number of keys, at most one completes.
THEOREM ServiceSingleOutcome == ServiceSpec => []SingleOutcome
<1>1. ServiceInv => SingleOutcome
  <2> SUFFICES ASSUME ServiceInv, NEW j \in Keys, NEW k \in Keys,
        intents[j].status = "completed", intents[k].status = "completed",
        intents[j].request.d = intents[k].request.d,
        {intents[j].request.op, intents[k].request.op}
          \subseteq {"activate", "rollback", "repair"}
      PROVE j = k
    BY DEF SingleOutcome
  <2>1. intents[j].request.d \in Deployments
    BY DEF ServiceInv, CallsInv, Intent, NoIntent, Request
  <2>2. Decides(j, intents[j].request.d) /\ Decides(k, intents[j].request.d)
    BY DEF Decides, Outcomes
  <2> QED
    BY <2>1, <2>2 DEF ServiceInv, OutcomeInv
<1> QED
  BY <1>1, ServiceStart, ServiceInductive, PTL DEF ServiceSpec

----------------------------------------------------------------------------
(* Recovery of armed deployments                                           *)

\* The request of rollback() and repair() for their next state.
BackIntent(n) ==
  [nextState |-> n,
   guardStatus |-> IF n = "rolled_back" THEN "disarmed" ELSE None,
   successMarkerDigest |-> None, evidence |-> EvidenceRef]

\* Armed or not, the way back has no condition but its rule.
LEMMA BackAllowed ==
  ASSUME NEW armed \in BOOLEAN, NEW s,
         NEW n \in {"reconciling", "rollback_requested", "rolling_back",
                    "rolled_back"},
         <<s, n>> \in TransitionRules
  PROVE  AssertTransitionAllowed(armed, s, BackIntent(n))
<1>1. REQUIRED_EVIDENCE[n] \cap TrackedKinds \subseteq EvidenceKinds(EvidenceRef)
  BY TrackedAvailable
<1> QED
  BY <1>1, NoneAssumption
  DEF AssertTransitionAllowed, RequiresGuard, ArmedExcludes, GuardReadback,
      MarkerBinding, BackIntent, ACTIVE_MUTATION_STATES, POST_ARM_STATES,
      PRE_ARM_WORK_STATES

\* A path is open when its first state is the current one or has a rule,
\* and its steps have rules.
LEMMA BackPathOpen ==
  ASSUME NEW armed \in BOOLEAN, NEW s,
         NEW path \in Seq({"reconciling", "rollback_requested",
                           "rolling_back", "rolled_back"}),
         path # << >>, <<s, path[1]>> \in TransitionRules,
         \A i \in 2..Len(path) : <<path[i - 1], path[i]>> \in TransitionRules
  PROVE  PathOpen(armed, s, path)
<1> SUFFICES ASSUME NEW i \in 1..Len(path)
             PROVE  AssertTransitionAllowed(armed,
                      IF i = 1 THEN s ELSE path[i - 1], BackIntent(path[i]))
  BY DEF PathOpen, BackIntent
<1>1. path[i] \in {"reconciling", "rollback_requested", "rolling_back",
                   "rolled_back"}
  BY ElementOfSeq
<1>2. CASE i = 1
  BY <1>1, <1>2, BackAllowed
<1>3. CASE i # 1
  <2>1. <<path[i - 1], path[i]>> \in TransitionRules
    BY <1>3
  <2> QED
    BY <1>1, <1>3, <2>1, BackAllowed
<1> QED
  BY <1>2, <1>3

\* The rules of the way back.
LEMMA BackRules ==
  /\ <<"rollback_requested", "rolling_back">> \in TransitionRules
  /\ <<"rolling_back", "rolled_back">> \in TransitionRules
  /\ <<"rollback_failed", "rolling_back">> \in TransitionRules
  /\ <<"reconciling", "rollback_requested">> \in TransitionRules
  /\ \A s \in {"partial", "ambiguous", "unknown"} :
       <<s, "reconciling">> \in TransitionRules
  /\ \A s \in POST_ARM_STATES \cup {"guard_arming"} :
       <<s, "rollback_requested">> \in TransitionRules
BY DEF TransitionRules, DetourEdges, ReconcilingEdges, ROLLBACK_STATES,
       TERMINAL_STATES, POST_ARM_STATES, ACTIVE_MUTATION_STATES

LEMMA BackOpen ==
  ASSUME NEW armed \in BOOLEAN, NEW s
  PROVE  /\ s = "rolling_back" => PathOpen(armed, s, << "rolled_back" >>)
         /\ s \in {"rollback_requested", "rollback_failed"} =>
              PathOpen(armed, s, << "rolling_back", "rolled_back" >>)
         /\ s \in POST_ARM_STATES \cup {"guard_arming", "reconciling"} =>
              PathOpen(armed, s, << "rollback_requested", "rolling_back",
                                    "rolled_back" >>)
         /\ s \in {"partial", "ambiguous", "unknown"} =>
              PathOpen(armed, s, << "reconciling", "rollback_requested",
                                    "rolling_back", "rolled_back" >>)
<1> DEFINE Back == {"reconciling", "rollback_requested", "rolling_back",
                    "rolled_back"}
           p1 == << "rolled_back" >>
           p2 == << "rolling_back", "rolled_back" >>
           p3 == << "rollback_requested", "rolling_back", "rolled_back" >>
           p4 == << "reconciling", "rollback_requested", "rolling_back",
                    "rolled_back" >>
<1>1. ASSUME s = "rolling_back" PROVE PathOpen(armed, s, p1)
  <2>1. p1 \in Seq(Back)
    BY SingletonPath
  <2>2. /\ p1 # << >> /\ <<s, p1[1]>> \in TransitionRules
        /\ \A i \in 2..Len(p1) : <<p1[i - 1], p1[i]>> \in TransitionRules
    BY <1>1, BackRules
  <2> QED
    BY <2>1, <2>2, BackPathOpen
<1>2. ASSUME s \in {"rollback_requested", "rollback_failed"}
      PROVE  PathOpen(armed, s, p2)
  <2>1. p2 \in Seq(Back)
    OBVIOUS
  <2>2. /\ p2 # << >> /\ <<s, p2[1]>> \in TransitionRules
        /\ \A i \in 2..Len(p2) : <<p2[i - 1], p2[i]>> \in TransitionRules
    BY <1>2, BackRules
  <2> QED
    BY <2>1, <2>2, BackPathOpen
<1>3. ASSUME s \in POST_ARM_STATES \cup {"guard_arming", "reconciling"}
      PROVE  PathOpen(armed, s, p3)
  <2>1. p3 \in Seq(Back)
    OBVIOUS
  <2>2. /\ p3 # << >> /\ <<s, p3[1]>> \in TransitionRules
        /\ \A i \in 2..Len(p3) : <<p3[i - 1], p3[i]>> \in TransitionRules
    BY <1>3, BackRules
  <2> QED
    BY <2>1, <2>2, BackPathOpen
<1>4. ASSUME s \in {"partial", "ambiguous", "unknown"}
      PROVE  PathOpen(armed, s, p4)
  <2>1. p4 \in Seq(Back)
    OBVIOUS
  <2>2. /\ p4 # << >> /\ <<s, p4[1]>> \in TransitionRules
        /\ \A i \in 2..Len(p4) : <<p4[i - 1], p4[i]>> \in TransitionRules
    BY <1>4, BackRules
  <2> QED
    BY <2>1, <2>2, BackPathOpen
<1> QED
  BY <1>1, <1>2, <1>3, <1>4

\* "Cancellation after arming becomes rollback intent": whenever no request
\* runs, a release operation can roll an armed deployment back, in whatever
\* state activations, rollbacks, repairs and diagnoses left it.
THEOREM ServiceArmedRecoverable == ServiceSpec => []ArmedRecoverable
<1>1. ServiceInv => ArmedRecoverable
  <2> SUFFICES ASSUME ServiceInv, NEW d \in created, guardArmed[d]
               PROVE  Recoverable(d)
    BY DEF ArmedRecoverable
  <2>1. d \in Deployments /\ guardArmed[d] \in BOOLEAN
        /\ state[d] \in WalkedStates /\ state[d] \notin CleanStates
    BY DEF ServiceInv, RowsInv, GuardInv, TypeOK, ArmedNeverClean
  <2>2. \/ state[d] \in POST_ARM_STATES \cup {"guard_arming", "reconciling"}
        \/ state[d] \in RepairStates
        \/ state[d] \in {"rollback_requested", "rolling_back"}
    BY <2>1 DEF WalkedStates, CleanStates
  <2>3. CASE state[d] \in POST_ARM_STATES \cup {"guard_arming", "reconciling"}
    <3>1. MayStart("rollback", d)
      BY <2>3
      DEF MayStart, terminal, TERMINAL_STATES, POST_ARM_STATES,
          ACTIVE_MUTATION_STATES
    <3>2. PathOf("rollback", state[d]) =
            << "rollback_requested", "rolling_back", "rolled_back" >>
      BY <2>3 DEF PathOf, RollbackPath, POST_ARM_STATES, ACTIVE_MUTATION_STATES
    <3> QED
      BY <2>1, <2>3, <3>1, <3>2, BackOpen DEF Recoverable
  <2>4. CASE state[d] \in RepairStates
    <3>1. MayStart("repair", d)
      BY <2>4 DEF MayStart
    <3>2. PathOpen(guardArmed[d], state[d], PathOf("repair", state[d]))
      BY <2>1, <2>4, BackOpen DEF PathOf, RepairPath, RepairStates
    <3> QED
      BY <3>1, <3>2 DEF Recoverable
  <2>5. CASE state[d] \in {"rollback_requested", "rolling_back"}
    <3>1. MayStart("rollback", d)
      BY <2>5 DEF MayStart, terminal, TERMINAL_STATES
    <3>2. PathOpen(guardArmed[d], state[d], PathOf("rollback", state[d]))
      BY <2>1, <2>5, BackOpen DEF PathOf, RollbackPath
    <3> QED
      BY <3>1, <3>2 DEF Recoverable
  <2> QED
    BY <2>2, <2>3, <2>4, <2>5
<1> QED
  BY <1>1, ServiceStart, ServiceInductive, PTL DEF ServiceSpec
=============================================================================
