--------------------------- MODULE DeliveryLedger ---------------------------
(***************************************************************************)
(* The automated-delivery projection: the delivery tables and operations   *)
(* of src/delivery/persistence.ts and the operations of                    *)
(* src/delivery/service.ts on top of them.                                 *)
(*                                                                         *)
(* Every operation of DeliveryPersistence is one BEGIN IMMEDIATE           *)
(* transaction, so each is one action whose guard is the conjunction of    *)
(* its checks; a call that throws, or that is answered from a stored row,  *)
(* changes nothing.  Its callers are the service of this repository and    *)
(* any number of delivery controllers, which race, hold rows they read     *)
(* earlier and pass timestamps of their own clocks, taken before the       *)
(* transaction began.                                                      *)
(* Digests stand for what they are computed from.                          *)
(***************************************************************************)
EXTENDS Integers, Sequences, FiniteSets

CONSTANTS
  Deliveries,       \* delivery identifiers
  Plans,            \* canonical delivery plans, by digest
  PlanOf,           \* the delivery a plan is for
  Expiry,           \* timeBounds.expiresAt of a plan
  Generations,      \* generations a run may be created with
  States,           \* the delivery states that are walked
  Keys,             \* idempotency keys of transitions
  DeploymentIds,    \* rows of deployments(deployment_id)
  DeploymentStates, \* projected deployment states
  LeaseIds, Holders,
  ChildIds, Results,       \* child jobs, and their result digests
  Artifacts,        \* artifact references: id, phase and sha256
  EvidenceKinds,    \* kind and digest of evidence records
  IntentKeys,       \* idempotency keys of request intents
  None,             \* SQL NULL / undefined
  MAX_EVENTS_PER_RUN,
  MaxSkew,          \* how far the clock of a caller may be ahead
  MaxTime           \* bound on the clocks, on lease expiries and offsets

DELIVERY_STATES ==
  {"PLANNED", "SOURCE_VERIFIED", "SOURCE_MATERIALIZED", "BUILDING",
   "TESTING", "CERTIFYING", "ARTIFACT_FINALIZED", "STAGING",
   "CANDIDATE_VERIFIED", "ROLLBACK_ARMED", "ACTIVATING", "ACCEPTING",
   "SOAKING", "SUCCEEDED", "REJECTED", "FAILED", "CANCELLED_PRE_ARM",
   "ROLLBACK_REQUESTED", "ROLLING_BACK", "ROLLED_BACK", "ROLLBACK_FAILED",
   "REPAIR_REQUIRED", "MANUAL_RECOVERY_REQUIRED", "PARTIAL", "AMBIGUOUS",
   "UNKNOWN"}

TERMINAL_DELIVERY_STATES ==
  {"SUCCEEDED", "REJECTED", "FAILED", "CANCELLED_PRE_ARM", "ROLLED_BACK",
   "ROLLBACK_FAILED", "MANUAL_RECOVERY_REQUIRED", "PARTIAL", "AMBIGUOUS",
   "UNKNOWN"}

Time == 0..MaxTime

ASSUME PlansAssumption ==
  PlanOf \in [Plans -> Deliveries] /\ Expiry \in [Plans -> Nat]
ASSUME GenerationsAssumption ==
  Generations \subseteq Nat \ {0} /\ 1 \in Generations
ASSUME StatesAssumption == States \subseteq DELIVERY_STATES
ASSUME NoneAssumption ==
  None \notin DeploymentIds \cup DeploymentStates \cup LeaseIds \cup Results
ASSUME BoundsAssumption ==
  MAX_EVENTS_PER_RUN \in Nat /\ MaxSkew \in Nat /\ MaxTime \in Nat

VARIABLES
  now,        \* the time of day
  run,        \* delivery_runs (with the plan of delivery_plans)
  events,     \* delivery_events by offset, oldest first
  leases,     \* delivery_controller_leases
  children,   \* delivery_child_jobs
  artifacts,  \* delivery_artifacts
  evidence,   \* delivery_evidence
  intents     \* the delivery rows of request_intents

references == <<children, artifacts, evidence>>
vars == <<now, run, events, leases, children, artifacts, evidence, intents>>

NoRun == [state |-> "none"]
Run == [plan : Plans, generation : Generations, state : DELIVERY_STATES,
        sequence : Nat, deployment : DeploymentIds \cup {None},
        deploymentState : DeploymentStates \cup {None},
        lease : LeaseIds \cup {None}]

\* What the semantic digest of a transition covers besides the identity of
\* the run; an event keeps it with its idempotency key.
Transition == [expectedState : DELIVERY_STATES, expectedSequence : Nat,
               nextState : DELIVERY_STATES,
               deployment : DeploymentIds \cup {None},
               deploymentState : DeploymentStates \cup {None},
               occurredAt : Time]
Event == [key : Keys, input : Transition]

NoLease == [status |-> "none"]
Lease == [status : {"active", "released", "expired"}, holder : Holders,
          heartbeatAt : Time, expiresAt : Time]

\* A child job reference: the receipt id is treated like the result digest
\* and the stderr offset like the stdout offset.
NoChild == [terminal |-> "none"]
Child == [result : Results \cup {None}, offset : Time, terminal : BOOLEAN]

\* The record an evidence row keeps of its deployment.
Evidence == [kind : EvidenceKinds, deployment : DeploymentIds \cup {None}]

NoIntent == [status |-> "absent"]
Intent == [status : {"pending"}, d : Deliveries]
            \cup [status : {"completed"}, d : Deliveries, result : Results]

Init ==
  /\ now = 0
  /\ run = [d \in Deliveries |-> NoRun]
  /\ events = [d \in Deliveries |-> <<>>]
  /\ leases = [d \in Deliveries |-> [l \in LeaseIds |-> NoLease]]
  /\ children = [d \in Deliveries |-> [c \in ChildIds |-> NoChild]]
  /\ artifacts = [d \in Deliveries |-> {}]
  /\ evidence = [d \in Deliveries |-> {}]
  /\ intents = [k \in IntentKeys |-> NoIntent]

terminal(d) == run[d].state \in TERMINAL_DELIVERY_STATES

\* assertRunFence: the plan digest and generation of a caller are the ones
\* the run was created with.
assertRunFence(d, p, g) ==
  run[d] # NoRun /\ run[d].plan = p /\ run[d].generation = g

----------------------------------------------------------------------------
(* Runs and transitions                                                    *)

\* createRun: an existing run is returned or refused.
createRun(p, g, t) ==
  LET d == PlanOf[p] IN
  /\ t <= Expiry[p]
  /\ run[d] = NoRun
  /\ run' = [run EXCEPT ![d] =
       [plan |-> p, generation |-> g, state |-> "PLANNED", sequence |-> 0,
        deployment |-> None, deploymentState |-> None, lease |-> None]]
  /\ UNCHANGED <<now, events, leases, references, intents>>

\* input.x ?? current.x
OrElse(x, y) == IF x = None THEN y ELSE x

KeyUsed(d, k) == \E i \in 1..Len(events[d]) : events[d][i].key = k

\* Mutant: only the state is compared.
TransitionAnySequence(d, in) ==
  ~terminal(d) /\ run[d].state = in.expectedState

\* The compare-and-swap of a transition and its other checks.
TransitionAllowed(d, in) ==
  /\ ~terminal(d)
  /\ run[d].state = in.expectedState
  /\ run[d].sequence = in.expectedSequence
  /\ in.occurredAt <= Expiry[run[d].plan]
  /\ in.deployment # None /\ run[d].deployment # None
       => in.deployment = run[d].deployment
  /\ OrElse(in.deploymentState, run[d].deploymentState) # None
       => OrElse(in.deployment, run[d].deployment) # None
  /\ Len(events[d]) < MAX_EVENTS_PER_RUN

\* A key that was used before is answered with its stored result if the
\* whole input is the same, and refused otherwise.
transition(d, p, g, k, in) ==
  /\ assertRunFence(d, p, g)
  /\ ~KeyUsed(d, k)
  /\ TransitionAllowed(d, in)
  /\ events' = [events EXCEPT ![d] = Append(@, [key |-> k, input |-> in])]
  /\ run' = [run EXCEPT
       ![d].state = in.nextState,
       ![d].sequence = @ + 1,
       ![d].deployment = OrElse(in.deployment, @),
       ![d].deploymentState = OrElse(in.deploymentState, @)]
  /\ UNCHANGED <<now, leases, references, intents>>

----------------------------------------------------------------------------
(* service.ts                                                              *)

\* baby.delivery.plan: the run, created with generation 1 if it is new.
plan(p) == createRun(p, 1, now)

\* execute, cancel, rollback and repair: the next state of each.
AdvanceStates == {"SOURCE_VERIFIED", "CANCELLED_PRE_ARM",
                  "ROLLBACK_REQUESTED", "REPAIR_REQUIRED"}

\* advance(): everything but the sequence and the plan comes from the row
\* read in the same call.
AdvanceInput(d, next, seq) ==
  [expectedState |-> run[d].state, expectedSequence |-> seq,
   nextState |-> next, deployment |-> None, deploymentState |-> None,
   occurredAt |-> now]

advance(d, p, k, next, seq) ==
  /\ run[d] # NoRun
  /\ transition(d, p, run[d].generation, k, AdvanceInput(d, next, seq))

----------------------------------------------------------------------------
(* Controller leases                                                       *)

ActiveLeases(d) == {l \in LeaseIds : leases[d][l].status = "active"}

\* Mutant: a lease lapses with the heartbeat, not with its expiry.
LapsedHeartbeat(lease, t) == lease.heartbeatAt <= t

\* A lease may be taken over at t.
Lapsed(lease, t) == lease.expiresAt <= t

\* acquireControllerLease.  An id that was used before is answered with its
\* row or refused; a lapsed lease is marked expired by its successor.
acquireControllerLease(d, p, g, l, h, t, x) ==
  /\ t < x
  /\ assertRunFence(d, p, g) /\ ~terminal(d)
  /\ leases[d][l] = NoLease
  /\ \A a \in ActiveLeases(d) : Lapsed(leases[d][a], t)
  /\ leases' = [leases EXCEPT ![d] =
       [a \in LeaseIds |->
          IF a = l
          THEN [status |-> "active", holder |-> h, heartbeatAt |-> t,
                expiresAt |-> x]
          ELSE IF a \in ActiveLeases(d)
          THEN [@[a] EXCEPT !.status = "expired", !.heartbeatAt = t]
          ELSE @[a]]]
  /\ run' = [run EXCEPT ![d].lease = l]
  /\ UNCHANGED <<now, events, references, intents>>

\* Neither the heartbeat nor the expiry may move backward.
Renews(lease, t, x) ==
  /\ t >= lease.heartbeatAt
  /\ x >= lease.expiresAt

renewControllerLease(d, p, g, l, h, t, x) ==
  /\ t < x
  /\ assertRunFence(d, p, g)
  /\ leases[d][l].status = "active" /\ leases[d][l].holder = h
  /\ run[d].lease = l
  /\ Renews(leases[d][l], t, x)
  /\ leases' = [leases EXCEPT ![d][l].heartbeatAt = t,
                              ![d][l].expiresAt = x]
  /\ run' = [run EXCEPT ![d].lease = l]
  /\ UNCHANGED <<now, events, references, intents>>

\* Mutant: a release leaves the pointer of the run.
PointerKept(d, l) == run[d].lease

\* The pointer of the run after lease l is released.
PointerAfterRelease(d, l) ==
  IF run[d].lease = l THEN None ELSE run[d].lease

releaseControllerLease(d, p, g, l, h, t) ==
  /\ assertRunFence(d, p, g)
  /\ leases[d][l].status = "active" /\ leases[d][l].holder = h
  /\ leases' = [leases EXCEPT ![d][l].status = "released",
                              ![d][l].heartbeatAt = t]
  /\ run' = [run EXCEPT ![d].lease = PointerAfterRelease(d, l)]
  /\ UNCHANGED <<now, events, references, intents>>

----------------------------------------------------------------------------
(* References, evidence and intents                                        *)

\* Mutant: a terminal reference may be updated.
ChildUpdateAnytime(old, ref) == ref.offset >= old.offset

\* A reference that is not terminal may move on; what it has of a result
\* stays.
ChildUpdate(old, ref) ==
  /\ ~old.terminal
  /\ ref.offset >= old.offset
  /\ old.result # None => ref.result = old.result

recordChildJob(d, p, g, c, ref) ==
  /\ assertRunFence(d, p, g)
  /\ children[d][c] # NoChild => ChildUpdate(children[d][c], ref)
  /\ children' = [children EXCEPT ![d][c] = ref]
  /\ UNCHANGED <<now, run, events, leases, artifacts, evidence, intents>>

\* The artifact id is the primary key; (phase, sha256) is unique as well.
recordArtifact(d, p, g, a) ==
  /\ assertRunFence(d, p, g)
  /\ \A b \in artifacts[d] :
       a.id # b.id /\ <<a.phase, a.sha256>> # <<b.phase, b.sha256>>
  /\ artifacts' = [artifacts EXCEPT ![d] = @ \cup {a}]
  /\ UNCHANGED <<now, run, events, leases, children, evidence, intents>>

\* The deployment an evidence record names is the one the run is bound to.
EvidenceBinding(d, x) == x # None => run[d].deployment = x

appendEvidence(d, p, g, kind, x) ==
  /\ assertRunFence(d, p, g)
  /\ EvidenceBinding(d, x)
  /\ \A e \in evidence[d] : e.kind # kind
  /\ evidence' = [evidence EXCEPT ![d] =
                    @ \cup {[kind |-> kind, deployment |-> x]}]
  /\ UNCHANGED <<now, run, events, leases, children, artifacts, intents>>

\* A key belongs to the delivery, operation and body it was reserved for:
\* a call with another one is refused.
reserveIntent(k, d) ==
  /\ run[d] # NoRun
  /\ intents[k] = NoIntent
  /\ intents' = [intents EXCEPT ![k] = [status |-> "pending", d |-> d]]
  /\ UNCHANGED <<now, run, events, leases, references>>

completeIntent(k, d, r) ==
  /\ intents[k] = [status |-> "pending", d |-> d]
  /\ intents' = [intents EXCEPT ![k] =
                   [status |-> "completed", d |-> d, result |-> r]]
  /\ UNCHANGED <<now, run, events, leases, references>>

----------------------------------------------------------------------------
Tick ==
  /\ now < MaxTime
  /\ now' = now + 1
  /\ UNCHANGED <<run, events, leases, references, intents>>

\* What a controller passes: a timestamp it claims, a fence, and the state
\* and sequence it read (any others are refused).  The timestamp is checked
\* for its form only: it is any earlier time, or one of a clock that is
\* ahead by at most MaxSkew.
Claimed == {t \in Time : t <= now + MaxSkew}

serviceStep(d) ==
  \/ \E p \in Plans : PlanOf[p] = d /\ plan(p)
  \/ \E p \in Plans, k \in Keys, next \in AdvanceStates,
         seq \in 0..MAX_EVENTS_PER_RUN : advance(d, p, k, next, seq)

controllerStep(d, p, g) ==
  \/ PlanOf[p] = d /\ \E t \in Claimed : createRun(p, g, t)
  \/ \E k \in Keys, s \in States, t \in Claimed,
         x \in DeploymentIds \cup {None}, y \in DeploymentStates \cup {None} :
       /\ run[d] # NoRun
       /\ transition(d, p, g, k,
            [expectedState |-> run[d].state,
             expectedSequence |-> run[d].sequence, nextState |-> s,
             deployment |-> x, deploymentState |-> y, occurredAt |-> t])
  \/ \E l \in LeaseIds, h \in Holders, t \in Claimed :
       \/ \E x \in Time : acquireControllerLease(d, p, g, l, h, t, x)
       \/ \E x \in Time : renewControllerLease(d, p, g, l, h, t, x)
       \/ releaseControllerLease(d, p, g, l, h, t)
  \/ \E c \in ChildIds, ref \in Child : recordChildJob(d, p, g, c, ref)
  \/ \E a \in Artifacts : recordArtifact(d, p, g, a)
  \/ \E kind \in EvidenceKinds, x \in DeploymentIds \cup {None} :
       appendEvidence(d, p, g, kind, x)
  \/ \E k \in IntentKeys :
       reserveIntent(k, d) \/ \E r \in Results : completeIntent(k, d, r)

Next ==
  \/ \E d \in Deliveries :
       \/ serviceStep(d)
       \/ \E p \in Plans, g \in Generations : controllerStep(d, p, g)
  \/ Tick

Spec == Init /\ [][Next]_vars

----------------------------------------------------------------------------
(* Properties                                                              *)

\* Types of the rows.
TypeOK ==
  /\ now \in Time
  /\ run \in [Deliveries -> Run \cup {NoRun}]
  /\ events \in [Deliveries -> Seq(Event)]
  /\ leases \in [Deliveries -> [LeaseIds -> Lease \cup {NoLease}]]
  /\ children \in [Deliveries -> [ChildIds -> Child \cup {NoChild}]]
  /\ artifacts \in [Deliveries -> SUBSET Artifacts]
  /\ evidence \in [Deliveries -> SUBSET Evidence]
  /\ intents \in [IntentKeys -> Intent \cup {NoIntent}]

\* The row of a delivery is what its event log says: the log has one event
\* per sequence number, each made from the state the previous one left, with
\* its own idempotency key, and the row shows the last of them.  A caller
\* that lost a compare-and-swap or retried left no trace.
ProjectionMatchesLog ==
  \A d \in Deliveries :
    LET log == events[d] IN
    /\ run[d] = NoRun => log = <<>>
    /\ run[d] # NoRun =>
         /\ run[d].sequence = Len(log)
         /\ run[d].state = IF log = <<>> THEN "PLANNED"
                           ELSE log[Len(log)].input.nextState
    /\ \A i \in 1..Len(log) :
         /\ log[i].input.expectedSequence = i - 1
         /\ log[i].input.expectedState =
              IF i = 1 THEN "PLANNED" ELSE log[i - 1].input.nextState
         /\ log[i].input.deployment \in {None, run[d].deployment}
         /\ \A j \in 1..(i - 1) : log[j].key # log[i].key

\* The run points to its active controller lease, and only to that one: the
\* pointer and the lease table are written by three operations in turn.
LeasePointerExact ==
  \A d \in Deliveries :
    ActiveLeases(d) =
      IF run[d] = NoRun \/ run[d].lease = None THEN {} ELSE {run[d].lease}

\* A controller that has not released its lease is displaced only from its
\* granted expiry on, as the claimed acquiredAt of another tells the time:
\* no earlier than MaxSkew, by which that clock is ahead, before the expiry.
\* Until then its lease is the one the run points to, whoever else asked
\* for the run, with however old a timestamp, in whatever order.
UnexpiredHolderFenced ==
  \A d \in Deliveries, l \in LeaseIds :
    /\ leases[d][l].status \in {"active", "expired"}
    /\ now + MaxSkew < leases[d][l].expiresAt
    => run[d].lease = l

\* A terminal delivery gets no further event, keeps its state and deployment
\* and is not leased again, whatever its callers still hold.
TerminalKept(d) ==
  terminal(d) =>
    /\ events'[d] = events[d]
    /\ [run'[d] EXCEPT !.lease = None] = [run[d] EXCEPT !.lease = None]
    /\ \A l \in LeaseIds :
         leases'[d][l].status = "active" => leases[d][l].status = "active"

\* Recorded artifacts and evidence stay; stream offsets and results of child
\* jobs do not go back and a finished child job is not reopened.
RecordsKept(d) ==
  /\ artifacts[d] \subseteq artifacts'[d]
  /\ evidence[d] \subseteq evidence'[d]
  /\ \A c \in ChildIds :
       LET old == children[d][c]
           new == children'[d][c] IN
       old # NoChild =>
         /\ old.terminal => new = old
         /\ new.offset >= old.offset
         /\ old.result # None => new.result = old.result

\* "Unknown and ambiguous state never become success": no late, repeated or
\* reordered call of a controller or of the service (transition,
\* recordChildJob, acquireControllerLease, completeIntent) rewrites what is
\* terminal or recorded.
HistoryFinal ==
  [][/\ \A d \in Deliveries : TerminalKept(d) /\ RecordsKept(d)
     /\ \A k \in IntentKeys :
          intents[k].status = "completed" => intents'[k] = intents[k]]_vars
=============================================================================
