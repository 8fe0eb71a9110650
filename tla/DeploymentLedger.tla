-------------------------- MODULE DeploymentLedger --------------------------
(***************************************************************************)
(* The standalone deployment ledger: the pure state machine of             *)
(* src/deployment/state-machine.ts and the SQLite operations of            *)
(* src/deployment/database.ts that change deployment rows                  *)
(* (createDeployment, addProduct, appendEvidence, transition).             *)
(*                                                                         *)
(* Every operation of the code runs inside BEGIN IMMEDIATE ... COMMIT, so  *)
(* each is one action.  An operation that throws rolls its transaction     *)
(* back and changes nothing; its guard is the conjunction of the checks it *)
(* makes before the first write, and a rejected call is a stuttering step. *)
(* Callers race freely: a call carries the generation, state and sequence  *)
(* its caller read at any earlier time.                                    *)
(***************************************************************************)
EXTENDS Integers, Sequences, FiniteSets

CONSTANTS
  Deployments,    \* deployment identifiers
  Generations,    \* generation numbers a request may carry
  Keys,           \* idempotency keys of creation requests
  Requests,       \* request + source-set digests of creation requests
  Digests,        \* content digests of evidence rows and success markers
  Compat,         \* compatibility declaration digests of product manifests
  TrackedKinds,   \* evidence kinds whose ledger rows are modelled
  None,           \* SQL NULL / undefined
  MaxSequence     \* bound on state_sequence (unbounded in the code)

ASSUME GenerationsAssumption == Generations \subseteq Nat \ {0}
ASSUME NoneAssumption ==
  None \notin Digests \cup Compat \cup Requests \cup Keys
                \cup {"armed", "disarmed"}
ASSUME MaxSequenceAssumption == MaxSequence \in Nat
ASSUME DigestsAssumption == Digests # {}

DEPLOYMENT_PRODUCTS == {"baby-quirt", "baby-quirt-mcp"}

----------------------------------------------------------------------------
(* state-machine.ts: the states and the transition relation                *)

HAPPY_PATH ==
  << "requested", "source_resolving", "source_verified", "building",
     "testing", "packaging", "reproducibility_verifying",
     "artifact_verified", "compatibility_verifying", "preflight",
     "staging", "candidate_verifying", "ready_to_activate",
     "snapshotting", "guard_arming",
     "guard_armed", "gateway_installing", "gateway_activating",
     "gateway_accepting_legacy", "baby_installing", "baby_activating",
     "baby_accepting", "restart_accepting", "chatgpt_accepting",
     "success_marking", "guard_disarming", "succeeded" >>

TERMINAL_STATES ==
  {"succeeded", "failed", "timed_out", "rolled_back",
   "manual_recovery_required"}

ACTIVE_MUTATION_STATES ==
  {"gateway_activating", "gateway_accepting_legacy", "baby_activating",
   "baby_accepting", "restart_accepting", "chatgpt_accepting",
   "success_marking", "guard_disarming"}

POST_ARM_STATES ==
  {"guard_armed", "gateway_installing", "baby_installing"}
    \cup ACTIVE_MUTATION_STATES

\* HAPPY_PATH.slice(0, 15)
PRE_ARM_WORK_STATES ==
  {"requested", "source_resolving", "source_verified", "building",
   "testing", "packaging", "reproducibility_verifying",
   "artifact_verified", "compatibility_verifying", "preflight",
   "staging", "candidate_verifying", "ready_to_activate",
   "snapshotting", "guard_arming"}

DIAGNOSTIC_STATES == {"partial", "ambiguous", "unknown"}

ROLLBACK_STATES == {"rollback_requested", "rolling_back", "rollback_failed"}

DEPLOYMENT_STATES ==
  PRE_ARM_WORK_STATES \cup POST_ARM_STATES \cup TERMINAL_STATES
    \cup DIAGNOSTIC_STATES \cup ROLLBACK_STATES
    \cup {"cancel_requested", "cancelling", "reconciling"}

\* buildTransitionPairs: the rules before add() drops terminal sources.
HappyEdges ==
  {<<HAPPY_PATH[i], HAPPY_PATH[i + 1]>> : i \in 1..(Len(HAPPY_PATH) - 1)}

\* Mutant: cancellation never terminalizes by itself.
CancelEdgesNoFailed ==
  {<<"cancel_requested", "cancelling">>,
   <<"cancel_requested", "reconciling">>,
   <<"cancelling", "rollback_requested">>}

CancelEdges ==
  {<<"cancel_requested", "cancelling">>,
   <<"cancel_requested", "reconciling">>,
   <<"cancelling", "failed">>,
   <<"cancelling", "rollback_requested">>}

DetourEdges ==
     CancelEdges
  \cup (PRE_ARM_WORK_STATES
        \X {"cancel_requested", "failed", "timed_out", "partial",
            "ambiguous", "unknown"})
  \cup (POST_ARM_STATES
        \X {"rollback_requested", "partial", "ambiguous", "unknown"})
  \cup {<<"guard_arming", "rollback_requested">>,
        <<"partial", "reconciling">>,
        <<"partial", "rollback_requested">>,
        <<"ambiguous", "reconciling">>,
        <<"unknown", "reconciling">>,
        <<"unknown", "manual_recovery_required">>,
        <<"rollback_requested", "rolling_back">>,
        <<"rollback_requested", "unknown">>,
        <<"rolling_back", "rolled_back">>,
        <<"rolling_back", "rollback_failed">>,
        <<"rolling_back", "ambiguous">>,
        <<"rolling_back", "unknown">>,
        <<"rollback_failed", "rolling_back">>,
        <<"rollback_failed", "manual_recovery_required">>}

ReconcilingEdges ==
  {"reconciling"}
    \X (PRE_ARM_WORK_STATES \cup POST_ARM_STATES \cup ROLLBACK_STATES
          \cup {"rolled_back", "manual_recovery_required"})

\* add(): no self-loop, nothing leaves a terminal state.
TransitionRules ==
  {e \in HappyEdges \cup DetourEdges \cup ReconcilingEdges :
     e[1] # e[2] /\ e[1] \notin TERMINAL_STATES}

\* The evidence kinds a transition into each state must cite.
REQUIRED_EVIDENCE ==
  [ requested |-> {"request.validated"},
    source_resolving |-> {"request.validated"},
    source_verified |-> {"source.identity"},
    building |-> {"source.materialization"},
    testing |-> {"build.result"},
    packaging |-> {"test.result"},
    reproducibility_verifying |-> {"package.first"},
    artifact_verified |-> {"reproducibility.match", "artifact.manifest"},
    compatibility_verifying |-> {"artifact.verification"},
    preflight |-> {"compatibility.declaration"},
    staging |-> {"preflight.report"},
    candidate_verifying |-> {"stage.readback"},
    ready_to_activate |-> {"candidate.acceptance"},
    snapshotting |-> {"activation.intent"},
    guard_arming |-> {"snapshot.verified"},
    guard_armed |-> {"guard.readback"},
    gateway_installing |-> {"guard.readback"},
    gateway_activating |-> {"gateway.inactive_install"},
    gateway_accepting_legacy |-> {"gateway.activation.readback"},
    baby_installing |-> {"gateway.legacy.acceptance"},
    baby_activating |-> {"baby.inactive_install"},
    baby_accepting |-> {"baby.activation.readback"},
    restart_accepting |-> {"baby.acceptance"},
    chatgpt_accepting |-> {"restart.acceptance"},
    success_marking |-> {"chatgpt.acceptance"},
    guard_disarming |-> {"success.marker"},
    succeeded |-> {"success.marker", "guard.disarm.readback"},
    cancel_requested |-> {"cancellation.intent"},
    cancelling |-> {"cancellation.readback"},
    failed |-> {"failure.terminal"},
    timed_out |-> {"deadline.readback"},
    partial |-> {"partial.readback"},
    ambiguous |-> {"mutation.ambiguous"},
    unknown |-> {"state.unknown"},
    reconciling |-> {"reconciliation.readback"},
    rollback_requested |-> {"rollback.intent"},
    rolling_back |-> {"rollback.preflight"},
    rolled_back |-> {"rollback.acceptance", "guard.disarm.readback"},
    rollback_failed |-> {"rollback.failure"},
    manual_recovery_required |-> {"manual_recovery.record"} ]

\* assertTransitionAllowed.  `armed' is the stored guard_armed column, `from'
\* the caller's expectedState and `in' the rest of the transition input;
\* in.evidence is a set of [kind, digest] references.
EvidenceKinds(refs) == {r.kind : r \in refs}

RequiresGuard(armed, next) ==
  /\ next \in ACTIVE_MUTATION_STATES => armed
  /\ next \in POST_ARM_STATES \ {"guard_armed"} => armed

\* Mutant: an armed deployment may terminalize as failed or timed out.
ArmedExcludesWorkOnly(armed, next) ==
  armed => next \notin PRE_ARM_WORK_STATES \ {"guard_arming"}

\* What an armed deployment may not do: resume staging work, terminalize
\* without a rollback, or cancel instead of rolling back.
ArmedExcludes(armed, next) ==
  /\ armed => next \notin PRE_ARM_WORK_STATES \ {"guard_arming"}
  /\ armed => next \notin {"failed", "timed_out", "cancelling"}

GuardReadback(in) ==
  /\ in.guardStatus = "armed" <=> in.nextState = "guard_armed"
  /\ in.guardStatus = "disarmed"
       => in.nextState \in {"succeeded", "rolled_back"}
  /\ in.nextState \in {"succeeded", "rolled_back"}
       => in.guardStatus = "disarmed"

\* Mutant: the marker's own evidence reference is not compared.
MarkerBindingAnyEvidence(in) ==
  in.nextState \in {"guard_disarming", "succeeded"}
    <=> in.successMarkerDigest # None

MarkerBinding(in) ==
  /\ in.nextState \in {"guard_disarming", "succeeded"}
       => /\ in.successMarkerDigest # None
          /\ [kind |-> "success.marker", digest |-> in.successMarkerDigest]
               \in in.evidence
  /\ in.successMarkerDigest # None
       => in.nextState \in {"guard_disarming", "succeeded"}

AssertTransitionAllowed(armed, from, in) ==
  /\ <<from, in.nextState>> \in TransitionRules
  /\ REQUIRED_EVIDENCE[in.nextState] \cap TrackedKinds
       \subseteq EvidenceKinds(in.evidence)
  /\ RequiresGuard(armed, in.nextState)
  /\ ArmedExcludes(armed, in.nextState)
  /\ GuardReadback(in)
  /\ MarkerBinding(in)

----------------------------------------------------------------------------
(* database.ts: the deployment rows                                        *)

EvidenceRef == [kind : TrackedKinds, digest : Digests]

VARIABLES
  created,        \* rows of `deployments'
  generation,     \* deployments.generation
  createKey,      \* deployments.idempotency_key
  createRequest,  \* deployments.request_digest + source_set_digest
  state,          \* deployments.state (terminal = state is terminal)
  stateSequence,  \* deployments.state_sequence
  guardArmed,     \* deployments.guard_armed
  successMarker,  \* deployments.success_marker_digest
  products,       \* deployment_products: compatibility digest or None
  evidence        \* deployment_evidence rows of the tracked kinds

identity == <<created, generation, createKey, createRequest>>
record == <<state, stateSequence, guardArmed, successMarker>>
vars == <<created, generation, createKey, createRequest, state,
          stateSequence, guardArmed, successMarker, products, evidence>>

terminal(d) == state[d] \in TERMINAL_STATES

\* The migrated, empty database.
Init ==
  /\ created = {}
  /\ generation = [d \in Deployments |-> 0]
  /\ createKey = [d \in Deployments |-> None]
  /\ createRequest = [d \in Deployments |-> None]
  /\ state = [d \in Deployments |-> "requested"]
  /\ stateSequence = [d \in Deployments |-> 0]
  /\ guardArmed = [d \in Deployments |-> FALSE]
  /\ successMarker = [d \in Deployments |-> None]
  /\ products = [d \in Deployments |-> [p \in DEPLOYMENT_PRODUCTS |-> None]]
  /\ evidence = [d \in Deployments |-> {}]

\* Mutant: only the identifier is checked, not the generation.
IdentifierFree(d, g) == d \notin created

\* The identifier and the generation of a new row are both unused.
IdentityFree(d, g) == d \notin created /\ \A e \in created : generation[e] # g

\* createDeployment.  A known idempotency key either replays the stored row
\* or throws idempotency_conflict; neither writes.  An identifier or a
\* generation that is already taken throws deployment_conflict.
createDeployment(d, g, k, r) ==
  /\ \A e \in created : createKey[e] # k
  /\ IdentityFree(d, g)
  /\ created' = created \cup {d}
  /\ generation' = [generation EXCEPT ![d] = g]
  /\ createKey' = [createKey EXCEPT ![d] = k]
  /\ createRequest' = [createRequest EXCEPT ![d] = r]
  /\ UNCHANGED <<record, products, evidence>>

\* addProduct: freezes one product manifest; an existing row is immutable.
addProduct(d, p, c) ==
  /\ d \in created
  /\ state[d] \in {"requested", "artifact_verified",
                   "compatibility_verifying"}
  /\ products[d][p] = None
  /\ products' = [products EXCEPT ![d][p] = c]
  /\ UNCHANGED <<identity, record, evidence>>

\* appendEvidence: no state check, also for terminal deployments.
appendEvidence(d, ref) ==
  /\ d \in created
  /\ evidence' = [evidence EXCEPT ![d] = @ \cup {ref}]
  /\ UNCHANGED <<identity, record, products>>

\* Both manifests are frozen and bind one compatibility declaration.
ProductsCompatible(d) ==
  \E c \in Compat : \A p \in DEPLOYMENT_PRODUCTS : products[d][p] = c

\* Mutant: a lost compare-and-swap; only the generation is compared.
TransitionFenceLost(d, seen) ==
  generation[d] = seen.generation /\ seen.sequence \in 0..MaxSequence

\* The compare-and-swap fence of transition(): generation, state, sequence.
TransitionFence(d, seen) ==
  /\ generation[d] = seen.generation
  /\ state[d] = seen.state
  /\ stateSequence[d] = seen.sequence

\* transition.  `seen' is the row the caller read, at any earlier time; `in'
\* is what it asks for.  A transition key that was used before replays its
\* row or throws, without a write.  The signature of a terminal transition
\* is supplied by the caller and is not modelled.
transition(d, seen, in) ==
  /\ stateSequence[d] < MaxSequence
  /\ d \in created
  /\ ~terminal(d)
  /\ TransitionFence(d, seen)
  /\ AssertTransitionAllowed(guardArmed[d], seen.state, in)
  /\ in.nextState = "preflight" => ProductsCompatible(d)
  /\ in.evidence \subseteq evidence[d]
  /\ in.nextState = "succeeded" => successMarker[d] = in.successMarkerDigest
  /\ state' = [state EXCEPT ![d] = in.nextState]
  /\ stateSequence' = [stateSequence EXCEPT ![d] = @ + 1]
  /\ guardArmed' = [guardArmed EXCEPT ![d] =
       IF in.guardStatus = None THEN @ ELSE in.guardStatus = "armed"]
  /\ successMarker' = [successMarker EXCEPT ![d] =
       IF in.successMarkerDigest = None THEN @ ELSE in.successMarkerDigest]
  /\ UNCHANGED <<identity, products, evidence>>

\* What a caller may have read of a row, and what it may ask for.
Seen == [generation : Generations, state : DEPLOYMENT_STATES,
         sequence : 0..MaxSequence]

Intents(s) ==
  [nextState : {n \in DEPLOYMENT_STATES : <<s, n>> \in TransitionRules},
   guardStatus : {"armed", "disarmed", None},
   successMarkerDigest : Digests \cup {None},
   evidence : SUBSET EvidenceRef]

Next ==
  \E d \in Deployments :
    \/ \E g \in Generations, k \in Keys, r \in Requests :
         createDeployment(d, g, k, r)
    \/ \E p \in DEPLOYMENT_PRODUCTS, c \in Compat : addProduct(d, p, c)
    \/ \E ref \in EvidenceRef : appendEvidence(d, ref)
    \/ \E seen \in {s \in Seen : TransitionFence(d, s)} :
         \E in \in Intents(seen.state) : transition(d, seen, in)

Spec == Init /\ [][Next]_vars

----------------------------------------------------------------------------
(* Properties                                                              *)

\* A deployment that was not created yet has the initial row.
Fresh ==
  \A d \in Deployments \ created :
    state[d] = "requested" /\ ~guardArmed[d]

\* Types of the stored rows.
TypeOK ==
  /\ created \subseteq Deployments
  /\ generation \in [Deployments -> Generations \cup {0}]
  /\ createKey \in [Deployments -> Keys \cup {None}]
  /\ createRequest \in [Deployments -> Requests \cup {None}]
  /\ state \in [Deployments -> DEPLOYMENT_STATES]
  /\ stateSequence \in [Deployments -> Nat]
  /\ guardArmed \in [Deployments -> BOOLEAN]
  /\ successMarker \in [Deployments -> Digests \cup {None}]
  /\ products \in [Deployments -> [DEPLOYMENT_PRODUCTS -> Compat \cup {None}]]
  /\ evidence \in [Deployments -> SUBSET EvidenceRef]

\* Creation keys and generations each name at most one deployment, so a
\* retried creation can never be answered with a second row and two racing
\* creations cannot share a generation (createDeployment).
CreationUnique ==
  \A d, e \in created :
    d # e => createKey[d] # createKey[e] /\ generation[d] # generation[e]

\* A deployment in any post-arm state, however it was reached (straight,
\* through reconciling, or after a failed rollback), has its guard armed.
PostArmGuarded ==
  \A d \in created : state[d] \in POST_ARM_STATES => guardArmed[d]

\* States whose rows may only ever be unarmed: build and staging work, the
\* outcomes that claim nothing is left to restore, and cancelling, which
\* cleans staging up instead of requesting a rollback.
CleanStates ==
  (PRE_ARM_WORK_STATES \ {"guard_arming"})
    \cup {"failed", "timed_out", "cancelling", "succeeded", "rolled_back"}

\* No row is in such a state with its guard armed, also when cancellation
\* or the deadline raced with arming or the row went through reconciling:
\* an armed deployment never returns to staging work and never terminalizes
\* as if it had left the host alone.
ArmedNeverClean ==
  \A d \in created : state[d] \in CleanStates => ~guardArmed[d]

\* State and guard bit agree in both directions, whatever detour a row took:
\* post-arm states are armed, so a rollback is still possible there, and
\* clean states are not, so nothing is left to restore
\* (assertTransitionAllowed).
GuardSafety == PostArmGuarded /\ ArmedNeverClean

\* A recorded success, and a deployment that is disarming, carries a marker
\* digest that is in the deployment's own evidence ledger, and an armed
\* guard has its readback there (evidence rows are never deleted).
MarkerBacked ==
  \A d \in created :
    /\ state[d] \in {"guard_disarming", "succeeded"}
         => [kind |-> "success.marker", digest |-> successMarker[d]]
              \in evidence[d]
    /\ guardArmed[d] /\ "guard.readback" \in TrackedKinds
         => \E x \in Digests :
              [kind |-> "guard.readback", digest |-> x] \in evidence[d]

\* Ranks the states by how few transitions can terminalize them.
EscapeRank(s) ==
  CASE s \in TERMINAL_STATES -> 0
    [] s \in {"unknown", "rollback_failed", "reconciling", "cancelling"} -> 1
    [] OTHER -> 2

\* No deployment is ever wedged: from every non-terminal row the rules, for
\* the row's actual guard bit, allow a transition to a row that is closer
\* to a terminal state, whatever evidence the caller can produce.
CanTerminalize ==
  \A d \in created :
    ~terminal(d) =>
      \E n \in DEPLOYMENT_STATES :
        /\ EscapeRank(n) < EscapeRank(state[d])
        /\ AssertTransitionAllowed(guardArmed[d], state[d],
             [nextState |-> n, guardStatus |-> None,
              successMarkerDigest |-> None, evidence |-> EvidenceRef])

\* Whichever callers still hold a row they read before: a row moves only along
\* the rule table from the state it really has (a stale caller never undoes
\* a cancellation or an arming), once armed its guard bit is cleared only by
\* the transition that records success or a completed rollback, and a
\* terminal row never changes again.
GuardBitSticky ==
  [][\A d \in Deployments :
       /\ state'[d] # state[d] => <<state[d], state'[d]>> \in TransitionRules
       /\ guardArmed[d] /\ ~guardArmed'[d]
            => state'[d] \in {"succeeded", "rolled_back"}
       /\ terminal(d) => state'[d] = state[d] /\ guardArmed'[d] = guardArmed[d]
                         /\ successMarker'[d] = successMarker[d]]_vars
=============================================================================
