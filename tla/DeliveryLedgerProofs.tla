------------------------ MODULE DeliveryLedgerProofs -----------------------
(***************************************************************************)
(* What the delivery projection guarantees for any number of deliveries,   *)
(* plans, controllers, leases and events, and any bound on the clock: the  *)
(* row is what its log says, the lease pointer is exact, no holder is     *)
(* displaced before its expiry but by the skew of a clock, and nothing     *)
(* terminal or recorded is rewritten.                                      *)
(***************************************************************************)
EXTENDS DeliveryLedger, SequenceTheorems, TLAPS

\* A displaced lease had expired by the clock of its successor.
DisplacedLapsed ==
  \A d \in Deliveries, l \in LeaseIds :
    leases[d][l].status = "expired"
      => leases[d][l].expiresAt <= now + MaxSkew

LeaseInv == LeasePointerExact /\ DisplacedLapsed

IInv == TypeOK /\ ProjectionMatchesLog /\ LeaseInv

\* Initially there are no rows.
LEMMA InitInv == Init => IInv
BY BoundsAssumption
DEF Init, IInv, TypeOK, ProjectionMatchesLog, LeaseInv, LeasePointerExact,
    DisplacedLapsed, ActiveLeases, NoRun, NoLease, NoChild, NoIntent, Time

----------------------------------------------------------------------------
(* Rows that exist                                                         *)

\* A fenced row is a run with a state of the contract.
LEMMA FencedRow ==
  ASSUME TypeOK, NEW d \in Deliveries, run[d] # NoRun
  PROVE  run[d] \in Run /\ run[d].state \in DELIVERY_STATES
BY DEF TypeOK, Run

\* Times of callers are times.
LEMMA ClaimedTimes == TypeOK => Claimed \subseteq Time
BY BoundsAssumption DEF TypeOK, Claimed, Time

\* A step that leaves rows, logs, leases and the clock alone keeps what is
\* said of them.
LEMMA ReferencesStep ==
  ASSUME IInv, TypeOK', UNCHANGED <<now, run, events, leases>>
  PROVE  IInv'
BY DEF IInv, ProjectionMatchesLog, LeaseInv, LeasePointerExact,
       DisplacedLapsed, ActiveLeases

----------------------------------------------------------------------------
(* Runs and transitions                                                    *)

\* One row and its log, as ProjectionMatchesLog relates them.
RowMatches(row, log) ==
  /\ row = NoRun => log = <<>>
  /\ row # NoRun =>
       /\ row.sequence = Len(log)
       /\ row.state = IF log = <<>> THEN "PLANNED"
                      ELSE log[Len(log)].input.nextState
  /\ \A i \in 1..Len(log) :
       /\ log[i].input.expectedSequence = i - 1
       /\ log[i].input.expectedState =
            IF i = 1 THEN "PLANNED" ELSE log[i - 1].input.nextState
       /\ log[i].input.deployment \in {None, row.deployment}
       /\ \A j \in 1..(i - 1) : log[j].key # log[i].key

LEMMA ProjectionByRow ==
  ProjectionMatchesLog <=> \A d \in Deliveries : RowMatches(run[d], events[d])
BY DEF ProjectionMatchesLog, RowMatches

LEMMA ProjectionByRowNext ==
  ProjectionMatchesLog' <=>
    \A d \in Deliveries : RowMatches(run'[d], events'[d])
BY DEF ProjectionMatchesLog, RowMatches

LEMMA CreateRunInv ==
  ASSUME IInv, NEW p \in Plans, NEW g \in Generations, NEW t,
         createRun(p, g, t)
  PROVE  IInv'
<1> DEFINE d == PlanOf[p]
<1>1. d \in Deliveries /\ run[d] = NoRun
  BY PlansAssumption DEF createRun
<1>2. run' = [run EXCEPT ![d] = run'[d]] /\ run'[d] \in Run
      /\ run'[d].state = "PLANNED" /\ run'[d].sequence = 0
      /\ run'[d].deployment = None /\ run'[d].lease = None
  BY <1>1 DEF createRun, Run, DELIVERY_STATES, IInv, TypeOK
<1>3. UNCHANGED <<now, events, leases, references, intents>>
  BY DEF createRun
<1>4. run'[d] # NoRun
  BY <1>2 DEF NoRun
<1> HIDE DEF d
<1>5. TypeOK'
  BY <1>1, <1>2, <1>3 DEF IInv, TypeOK, references
<1>6. ProjectionMatchesLog'
  <2>1. \A e \in Deliveries : RowMatches(run[e], events[e])
    BY ProjectionByRow DEF IInv
  <2>2. events'[d] = <<>> /\ RowMatches(run'[d], <<>>)
    BY <1>1, <1>2, <1>3, <1>4, <2>1 DEF RowMatches
  <2>3. \A e \in Deliveries \ {d} : run'[e] = run[e] /\ events'[e] = events[e]
    BY <1>1, <1>2, <1>3 DEF IInv, TypeOK
  <2> QED BY <2>1, <2>2, <2>3, ProjectionByRowNext
<1>7. LeaseInv'
  BY <1>1, <1>2, <1>3, <1>4
  DEF IInv, TypeOK, LeaseInv, LeasePointerExact, DisplacedLapsed,
      ActiveLeases
<1> QED BY <1>5, <1>6, <1>7 DEF IInv

\* Updating the columns a transition writes yields a row.
LEMMA RowUpdate ==
  ASSUME NEW r \in Run, NEW s \in DELIVERY_STATES,
         NEW x \in DeploymentIds \cup {None},
         NEW y \in DeploymentStates \cup {None}
  PROVE  [r EXCEPT !.state = s, !.sequence = @ + 1, !.deployment = x,
                   !.deploymentState = y] \in Run
<1> DEFINE r1 == [r EXCEPT !.state = s]
           r2 == [r1 EXCEPT !.sequence = r.sequence + 1]
           r3 == [r2 EXCEPT !.deployment = x]
           r4 == [r3 EXCEPT !.deploymentState = y]
<1>1. r1 \in Run /\ r1.sequence = r.sequence
  BY DEF Run
<1>2. r2 \in Run
  <2> HIDE DEF r1
  <2>1. r.sequence + 1 \in Nat
    BY DEF Run
  <2> QED BY <1>1, <2>1 DEF Run
<1>3. r3 \in Run
  <2> HIDE DEF r2
  <2> QED BY <1>2 DEF Run
<1>4. r4 \in Run
  <2> HIDE DEF r3
  <2> QED BY <1>3 DEF Run
<1> QED BY <1>4, Zenon

\* The row and the log after an accepted transition.
LEMMA TransitionStep ==
  ASSUME IInv, NEW d \in Deliveries, NEW p, NEW g, NEW k \in Keys,
         NEW in \in Transition, transition(d, p, g, k, in)
  PROVE  /\ run[d] \in Run /\ run[d] # NoRun
         /\ run' = [run EXCEPT ![d] = run'[d]] /\ run'[d] \in Run
         /\ run'[d] # NoRun
         /\ run'[d].state = in.nextState
         /\ run'[d].sequence = run[d].sequence + 1
         /\ run'[d].deployment = OrElse(in.deployment, run[d].deployment)
         /\ run'[d].lease = run[d].lease
         /\ run'[d].plan = run[d].plan
         /\ events[d] \in Seq(Event)
         /\ events' = [events EXCEPT ![d] =
                         Append(events[d], [key |-> k, input |-> in])]
         /\ [key |-> k, input |-> in] \in Event
<1>1. run[d] # NoRun /\ run[d] \in Run
  BY FencedRow DEF transition, assertRunFence, IInv
<1>2. run'[d] = [run[d] EXCEPT
       !.state = in.nextState,
       !.sequence = @ + 1,
       !.deployment = OrElse(in.deployment, @),
       !.deploymentState = OrElse(in.deploymentState, @)]
      /\ run' = [run EXCEPT ![d] = run'[d]]
  BY DEF transition, IInv, TypeOK
<1>3. /\ OrElse(in.deployment, run[d].deployment) \in DeploymentIds \cup {None}
      /\ OrElse(in.deploymentState, run[d].deploymentState)
           \in DeploymentStates \cup {None}
      /\ in.nextState \in DELIVERY_STATES
  BY <1>1 DEF OrElse, Transition, Run
<1>4. run'[d] \in Run
  <2>1. [run[d] EXCEPT
       !.state = in.nextState,
       !.sequence = @ + 1,
       !.deployment = OrElse(in.deployment, @),
       !.deploymentState = OrElse(in.deploymentState, @)] \in Run
    BY <1>1, <1>3, RowUpdate, Zenon
  <2> QED BY <1>2, <2>1, Zenon
<1>5. run'[d] # NoRun
  BY <1>4 DEF NoRun, Run, DELIVERY_STATES
<1>6. events[d] \in Seq(Event) /\ [key |-> k, input |-> in] \in Event
  BY DEF IInv, TypeOK, Event
<1>7. events' = [events EXCEPT ![d] =
                         Append(events[d], [key |-> k, input |-> in])]
  BY DEF transition
<1> QED BY <1>1, <1>2, <1>4, <1>5, <1>6, <1>7 DEF Run

\* An event that was made from the row, under a key of its own and for the
\* deployment the row is bound to, takes row and log on together.
LEMMA AppendMatches ==
  ASSUME NEW row \in Run, NEW log \in Seq(Event), RowMatches(row, log),
         NEW new \in Event, NEW next \in Run,
         row # NoRun, next # NoRun,
         new.input.expectedSequence = row.sequence,
         new.input.expectedState = row.state,
         \A i \in 1..Len(log) : log[i].key # new.key,
         new.input.deployment # None /\ row.deployment # None
           => new.input.deployment = row.deployment,
         next.sequence = row.sequence + 1,
         next.state = new.input.nextState,
         next.deployment = OrElse(new.input.deployment, row.deployment)
  PROVE  RowMatches(next, Append(log, new))
<1> DEFINE log2 == Append(log, new)
<1>1. /\ log2 \in Seq(Event) /\ Len(log2) = Len(log) + 1
      /\ log2[Len(log) + 1] = new
      /\ \A i \in 1..Len(log) : log2[i] = log[i]
      /\ Len(log) \in Nat
  OBVIOUS
<1>2. log2 # <<>> /\ (log = <<>> <=> Len(log) = 0)
  BY <1>1, EmptySeq
<1> HIDE DEF log2
<1>3. next.sequence = Len(log2) /\ next.state = log2[Len(log2)].input.nextState
  BY <1>1 DEF RowMatches
<1>4. ASSUME NEW i \in 1..Len(log2)
      PROVE  /\ log2[i].input.expectedSequence = i - 1
             /\ log2[i].input.expectedState =
                  IF i = 1 THEN "PLANNED" ELSE log2[i - 1].input.nextState
             /\ log2[i].input.deployment \in {None, next.deployment}
             /\ \A j \in 1..(i - 1) : log2[j].key # log2[i].key
  <2>1. CASE i = Len(log) + 1
    <3>1. log2[i] = new /\ \A j \in 1..(i - 1) : log2[j] = log[j]
      BY <2>1, <1>1
    <3>2. new.input.expectedSequence = i - 1
      BY <2>1, <1>1 DEF RowMatches
    <3>3. new.input.expectedState =
            IF i = 1 THEN "PLANNED" ELSE log2[i - 1].input.nextState
      BY <2>1, <1>1, <1>2 DEF RowMatches
    <3>4. new.input.deployment \in {None, next.deployment}
      BY DEF OrElse
    <3> QED BY <3>1, <3>2, <3>3, <3>4, <2>1, <1>1
  <2>2. CASE i \in 1..Len(log)
    <3>1. log2[i] = log[i] /\ \A j \in 1..(i - 1) : log2[j] = log[j]
      BY <2>2, <1>1
    <3>2. log[i].input.deployment \in {None, row.deployment}
      BY <2>2 DEF RowMatches
    <3>3. row.deployment = None \/ next.deployment = row.deployment
      BY DEF OrElse
    <3>4. /\ log[i].input.expectedSequence = i - 1
          /\ \A j \in 1..(i - 1) : log[j].key # log[i].key
          /\ log[i].input.expectedState =
               IF i = 1 THEN "PLANNED" ELSE log[i - 1].input.nextState
      BY <2>2 DEF RowMatches
    <3>5. i # 1 => i - 1 \in 1..(i - 1)
      BY <2>2
    <3> QED BY <3>1, <3>2, <3>3, <3>4, <3>5
  <2> QED BY <2>1, <2>2, <1>1
<1> QED BY <1>2, <1>3, <1>4 DEF RowMatches, log2

LEMMA TransitionInv ==
  ASSUME IInv, NEW d \in Deliveries, NEW p, NEW g, NEW k \in Keys,
         NEW in \in Transition, transition(d, p, g, k, in)
  PROVE  IInv'
<1>1. UNCHANGED <<now, leases, references, intents>>
  BY DEF transition
<1> DEFINE log == events[d]
           new == [key |-> k, input |-> in]
<1>2. /\ run[d] \in Run /\ run[d] # NoRun
      /\ run' = [run EXCEPT ![d] = run'[d]] /\ run'[d] \in Run
      /\ run'[d] # NoRun
      /\ run'[d].state = in.nextState
      /\ run'[d].sequence = run[d].sequence + 1
      /\ run'[d].deployment = OrElse(in.deployment, run[d].deployment)
      /\ run'[d].lease = run[d].lease
      /\ log \in Seq(Event)
      /\ events' = [events EXCEPT ![d] = Append(log, new)]
      /\ new \in Event
  BY TransitionStep
<1>3. TypeOK'
  <2>1. Append(log, new) \in Seq(Event)
    BY <1>2
  <2> QED BY <1>1, <1>2, <2>1 DEF IInv, TypeOK, references
<1>4. LeaseInv'
  BY <1>1, <1>2
  DEF IInv, TypeOK, LeaseInv, LeasePointerExact, DisplacedLapsed,
      ActiveLeases
<1>5. ProjectionMatchesLog'
  <2>1. /\ run[d].sequence = in.expectedSequence
        /\ run[d].state = in.expectedState
        /\ \A i \in 1..Len(log) : log[i].key # k
        /\ in.deployment # None /\ run[d].deployment # None
             => in.deployment = run[d].deployment
    BY DEF transition, TransitionAllowed, KeyUsed
  <2>2. \A e \in Deliveries : RowMatches(run[e], events[e])
    BY ProjectionByRow DEF IInv
  <2>3. RowMatches(run'[d], Append(log, new))
    BY <1>2, <2>1, <2>2, AppendMatches
  <2>4. events'[d] = Append(log, new) /\ \A e \in Deliveries \ {d} :
          events'[e] = events[e] /\ run'[e] = run[e]
    BY <1>2 DEF IInv, TypeOK
  <2>5. \A e \in Deliveries : RowMatches(run'[e], events'[e])
    BY <2>2, <2>3, <2>4
  <2> QED BY <2>5, ProjectionByRowNext
<1> QED BY <1>3, <1>4, <1>5 DEF IInv

----------------------------------------------------------------------------
(* Leases                                                                  *)

\* A step that writes leases of one run and its pointer leaves the log alone.
LEMMA PointerStep ==
  ASSUME IInv, NEW d \in Deliveries, run[d] # NoRun,
         NEW l \in LeaseIds \cup {None}, run' = [run EXCEPT ![d].lease = l],
         NEW table \in [LeaseIds -> Lease \cup {NoLease}],
         leases' = [leases EXCEPT ![d] = table],
         {a \in LeaseIds : table[a].status = "active"} =
           IF l = None THEN {} ELSE {l},
         \A a \in LeaseIds : table[a].status = "expired"
           => table[a].expiresAt <= now + MaxSkew,
         UNCHANGED <<now, events, references, intents>>
  PROVE  IInv'
<1>1. run[d] \in Run
  BY FencedRow DEF IInv
<1>2. /\ run'[d] \in Run /\ run'[d].lease = l
      /\ run'[d].state = run[d].state /\ run'[d].sequence = run[d].sequence
      /\ run'[d].deployment = run[d].deployment
      /\ \A e \in Deliveries \ {d} : run'[e] = run[e] /\ leases'[e] = leases[e]
      /\ leases'[d] = table
  BY <1>1 DEF IInv, TypeOK, Run
<1>3. run'[d] # NoRun
  BY <1>2 DEF NoRun, Run, DELIVERY_STATES
<1>4. TypeOK'
  <2>1. run' \in [Deliveries -> Run \cup {NoRun}]
    BY <1>2 DEF IInv, TypeOK
  <2> QED BY <2>1 DEF IInv, TypeOK, references
<1>5. ProjectionMatchesLog'
  <2>1. \A e \in Deliveries : RowMatches(run[e], events[e])
    BY ProjectionByRow DEF IInv
  <2>2. RowMatches(run'[d], events[d])
    BY <1>2, <1>3, <2>1 DEF RowMatches
  <2> QED BY <2>1, <2>2, <1>2, ProjectionByRowNext
<1>6. LeaseInv'
  <2>1. ActiveLeases(d)' =
          IF run'[d] = NoRun \/ run'[d].lease = None THEN {} ELSE {run'[d].lease}
    BY <1>2, <1>3 DEF ActiveLeases
  <2>2. \A e \in Deliveries \ {d} : ActiveLeases(e)' = ActiveLeases(e)
    BY <1>2 DEF ActiveLeases
  <2>3. LeasePointerExact'
    BY <2>1, <2>2, <1>2 DEF IInv, LeaseInv, LeasePointerExact
  <2>4. DisplacedLapsed'
    BY <1>2 DEF IInv, LeaseInv, DisplacedLapsed
  <2> QED BY <2>3, <2>4 DEF LeaseInv
<1> QED BY <1>4, <1>5, <1>6 DEF IInv

LEMMA AcquireInv ==
  ASSUME IInv, NEW d \in Deliveries, NEW p, NEW g, NEW l \in LeaseIds,
         NEW h \in Holders, NEW t \in Claimed, NEW x \in Time,
         acquireControllerLease(d, p, g, l, h, t, x)
  PROVE  IInv'
<1> DEFINE old == leases[d]
           mine == [status |-> "active", holder |-> h, heartbeatAt |-> t,
                    expiresAt |-> x]
           table == [a \in LeaseIds |->
                       IF a = l THEN mine
                       ELSE IF a \in ActiveLeases(d)
                       THEN [old[a] EXCEPT !.status = "expired",
                                           !.heartbeatAt = t]
                       ELSE old[a]]
<1>1. /\ run[d] # NoRun
      /\ leases' = [leases EXCEPT ![d] = table]
      /\ run' = [run EXCEPT ![d].lease = l]
      /\ UNCHANGED <<now, events, references, intents>>
  BY DEF acquireControllerLease, assertRunFence
<1>2. old \in [LeaseIds -> Lease \cup {NoLease}] /\ t \in Time
      /\ t <= now + MaxSkew /\ now \in Int /\ t \in Int
  BY ClaimedTimes, BoundsAssumption DEF IInv, TypeOK, Claimed, Time
<1>3. mine \in Lease
  BY <1>2 DEF Lease
<1>4. ASSUME NEW a \in ActiveLeases(d)
      PROVE  LET e == [old[a] EXCEPT !.status = "expired", !.heartbeatAt = t]
             IN  /\ e \in Lease /\ e.status = "expired"
                 /\ e.expiresAt <= now + MaxSkew
  <2>1. a \in LeaseIds /\ old[a] \in Lease
    BY <1>2 DEF ActiveLeases, NoLease
  <2>2. old[a].expiresAt \in Int
    BY <2>1, BoundsAssumption DEF Lease, Time
  <2>3. old[a].expiresAt <= t
    BY DEF acquireControllerLease, Lapsed
  <2>4. old[a].expiresAt <= now + MaxSkew
    BY <1>2, <2>2, <2>3, BoundsAssumption
  <2> HIDE DEF old
  <2> QED BY <1>2, <2>1, <2>4 DEF Lease
<1>5. table \in [LeaseIds -> Lease \cup {NoLease}]
  BY <1>2, <1>3, <1>4
<1>6. {a \in LeaseIds : table[a].status = "active"} = {l}
  <2>1. table[l].status = "active"
    OBVIOUS
  <2>2. \A a \in LeaseIds \ {l} : table[a].status # "active"
    BY <1>4 DEF ActiveLeases
  <2> QED BY <2>1, <2>2
<1>7. \A a \in LeaseIds : table[a].status = "expired"
        => table[a].expiresAt <= now + MaxSkew
  <2> TAKE a \in LeaseIds
  <2>1. CASE a = l
    BY <2>1
  <2>2. CASE a # l /\ a \in ActiveLeases(d)
    BY <2>2, <1>4
  <2>3. CASE a # l /\ a \notin ActiveLeases(d)
    BY <2>3 DEF IInv, LeaseInv, DisplacedLapsed
  <2> QED BY <2>1, <2>2, <2>3
<1>8. l # None
  BY NoneAssumption
<1> HIDE DEF table
<1> QED BY <1>1, <1>5, <1>6, <1>7, <1>8, PointerStep

LEMMA RenewInv ==
  ASSUME IInv, NEW d \in Deliveries, NEW p, NEW g, NEW l \in LeaseIds,
         NEW h \in Holders, NEW t \in Claimed, NEW x \in Time,
         renewControllerLease(d, p, g, l, h, t, x)
  PROVE  IInv'
<1> DEFINE old == leases[d]
           table == [old EXCEPT ![l] = [old[l] EXCEPT !.heartbeatAt = t,
                                                      !.expiresAt = x]]
<1>1. old \in [LeaseIds -> Lease \cup {NoLease}] /\ t \in Time
      /\ old[l] \in Lease /\ old[l].status = "active"
  BY ClaimedTimes DEF IInv, TypeOK, renewControllerLease, NoLease
<1>2. /\ run[d] # NoRun /\ run[d].lease = l
      /\ leases' = [leases EXCEPT ![d] = table]
      /\ run' = [run EXCEPT ![d].lease = l]
      /\ UNCHANGED <<now, events, references, intents>>
  BY <1>1 DEF renewControllerLease, assertRunFence, IInv, TypeOK
<1>3. table[l] \in Lease /\ table[l].status = "active"
      /\ \A a \in LeaseIds \ {l} : table[a] = old[a]
  BY <1>1 DEF Lease
<1>4. table \in [LeaseIds -> Lease \cup {NoLease}]
  BY <1>1, <1>3
<1>5. l # None
  BY NoneAssumption
<1>6. ActiveLeases(d) = {l}
  BY <1>2, <1>5 DEF IInv, LeaseInv, LeasePointerExact
<1> HIDE DEF table
<1>7. {a \in LeaseIds : table[a].status = "active"} = {l}
  BY <1>3, <1>6 DEF ActiveLeases
<1>8. \A a \in LeaseIds : table[a].status = "expired"
        => table[a].expiresAt <= now + MaxSkew
  BY <1>3 DEF IInv, LeaseInv, DisplacedLapsed
<1> QED BY <1>2, <1>4, <1>5, <1>7, <1>8, PointerStep

LEMMA ReleaseInv ==
  ASSUME IInv, NEW d \in Deliveries, NEW p, NEW g, NEW l \in LeaseIds,
         NEW h \in Holders, NEW t \in Claimed,
         releaseControllerLease(d, p, g, l, h, t)
  PROVE  IInv'
<1> DEFINE old == leases[d]
           table == [old EXCEPT ![l] = [old[l] EXCEPT !.status = "released",
                                                      !.heartbeatAt = t]]
<1>1. old \in [LeaseIds -> Lease \cup {NoLease}] /\ t \in Time
      /\ old[l] \in Lease /\ old[l].status = "active"
  BY ClaimedTimes DEF IInv, TypeOK, releaseControllerLease, NoLease
<1>2. /\ run[d] # NoRun
      /\ leases' = [leases EXCEPT ![d] = table]
      /\ run' = [run EXCEPT ![d].lease = PointerAfterRelease(d, l)]
      /\ UNCHANGED <<now, events, references, intents>>
  BY <1>1 DEF releaseControllerLease, assertRunFence, IInv, TypeOK
<1>3. table[l] \in Lease /\ table[l].status = "released"
      /\ \A a \in LeaseIds \ {l} : table[a] = old[a]
  BY <1>1 DEF Lease
<1>4. table \in [LeaseIds -> Lease \cup {NoLease}]
  BY <1>1, <1>3
<1>5. l \in ActiveLeases(d)
  BY <1>1 DEF ActiveLeases
<1>6. run[d].lease = l /\ ActiveLeases(d) = {l}
  BY <1>5 DEF IInv, LeaseInv, LeasePointerExact
<1>7. PointerAfterRelease(d, l) = None
  BY <1>6 DEF PointerAfterRelease
<1> HIDE DEF table
<1>8. {a \in LeaseIds : table[a].status = "active"} = {}
  BY <1>3, <1>6 DEF ActiveLeases
<1>9. \A a \in LeaseIds : table[a].status = "expired"
        => table[a].expiresAt <= now + MaxSkew
  BY <1>3 DEF IInv, LeaseInv, DisplacedLapsed
<1> QED BY <1>2, <1>4, <1>7, <1>8, <1>9, PointerStep

----------------------------------------------------------------------------
(* References, evidence, intents and the clock                             *)

LEMMA ReferenceInv ==
  ASSUME IInv, NEW d \in Deliveries, NEW p, NEW g,
         \/ \E c \in ChildIds, ref \in Child : recordChildJob(d, p, g, c, ref)
         \/ \E a \in Artifacts : recordArtifact(d, p, g, a)
         \/ \E kind \in EvidenceKinds, x \in DeploymentIds \cup {None} :
              appendEvidence(d, p, g, kind, x)
         \/ \E k \in IntentKeys :
              reserveIntent(k, d) \/ \E r \in Results : completeIntent(k, d, r)
  PROVE  IInv'
<1>1. UNCHANGED <<now, run, events, leases>>
  BY DEF recordChildJob, recordArtifact, appendEvidence, reserveIntent, completeIntent
<1>2. TypeOK
  BY DEF IInv
<1>3. ASSUME NEW c \in ChildIds, NEW ref \in Child, recordChildJob(d, p, g, c, ref)
      PROVE  TypeOK'
  BY <1>2, <1>3 DEF TypeOK, recordChildJob
<1>4. ASSUME NEW a \in Artifacts, recordArtifact(d, p, g, a)
      PROVE  TypeOK'
  BY <1>2, <1>4 DEF TypeOK, recordArtifact
<1>5. ASSUME NEW kind \in EvidenceKinds, NEW x \in DeploymentIds \cup {None},
             appendEvidence(d, p, g, kind, x)
      PROVE  TypeOK'
  <2>1. [kind |-> kind, deployment |-> x] \in Evidence
    BY DEF Evidence
  <2> QED BY <1>2, <1>5, <2>1 DEF TypeOK, appendEvidence
<1>6. ASSUME NEW k \in IntentKeys, reserveIntent(k, d)
      PROVE  TypeOK'
  <2>1. [status |-> "pending", d |-> d] \in Intent
    BY DEF Intent
  <2> QED BY <1>2, <1>6, <2>1 DEF TypeOK, reserveIntent, references
<1>7. ASSUME NEW k \in IntentKeys, NEW r \in Results, completeIntent(k, d, r)
      PROVE  TypeOK'
  <2>1. [status |-> "completed", d |-> d, result |-> r] \in Intent
    BY DEF Intent
  <2> QED BY <1>2, <1>7, <2>1 DEF TypeOK, completeIntent, references
<1>8. TypeOK'
  BY <1>3, <1>4, <1>5, <1>6, <1>7
<1> QED BY <1>1, <1>8, ReferencesStep

\* A lease that had lapsed has lapsed later too.
LEMMA TickInv ==
  ASSUME IInv, Tick
  PROVE  IInv'
<1>1. now' = now + 1 /\ now \in Time /\ now' \in Time
      /\ UNCHANGED <<run, events, leases, references, intents>>
  <2>1. now \in 0..MaxTime /\ now < MaxTime /\ now' = now + 1
    BY DEF Tick, IInv, TypeOK, Time
  <2> QED BY <2>1, BoundsAssumption DEF Tick, Time
<1>2. TypeOK'
  BY <1>1 DEF IInv, TypeOK, references
<1>3. ProjectionMatchesLog' /\ LeasePointerExact'
  <2>1. ProjectionMatchesLog'
    BY <1>1 DEF IInv, ProjectionMatchesLog
  <2>2. LeasePointerExact'
    BY <1>1 DEF IInv, LeaseInv, LeasePointerExact, ActiveLeases
  <2> QED BY <2>1, <2>2
<1>4. DisplacedLapsed'
  <2> SUFFICES ASSUME NEW d \in Deliveries, NEW l \in LeaseIds,
                      leases[d][l].status = "expired"
               PROVE  leases[d][l].expiresAt <= now + 1 + MaxSkew
    BY <1>1 DEF DisplacedLapsed
  <2>1. leases[d][l] \in Lease
    BY DEF IInv, TypeOK, NoLease
  <2>2. leases[d][l].expiresAt \in Int /\ now \in Int
    BY <1>1, <2>1, BoundsAssumption DEF Lease, Time
  <2>3. leases[d][l].expiresAt <= now + MaxSkew
    BY DEF IInv, LeaseInv, DisplacedLapsed
  <2> QED BY <2>2, <2>3, BoundsAssumption
<1> QED BY <1>2, <1>3, <1>4 DEF IInv, LeaseInv

----------------------------------------------------------------------------
(* The steps of the service and of a controller                            *)

\* What the service passes to transition.
LEMMA AdvanceInputType ==
  ASSUME TypeOK, NEW d \in Deliveries, run[d] # NoRun,
         NEW next \in AdvanceStates, NEW seq \in Nat
  PROVE  AdvanceInput(d, next, seq) \in Transition
BY FencedRow DEF AdvanceInput, Transition, AdvanceStates, DELIVERY_STATES, TypeOK

LEMMA ServiceStepInv ==
  ASSUME IInv, NEW d \in Deliveries, serviceStep(d)
  PROVE  IInv'
<1>1. ASSUME NEW p \in Plans, plan(p)
      PROVE  IInv'
  BY <1>1, CreateRunInv, GenerationsAssumption DEF plan
<1>2. ASSUME NEW p \in Plans, NEW k \in Keys, NEW next \in AdvanceStates,
             NEW seq \in 0..MAX_EVENTS_PER_RUN, advance(d, p, k, next, seq)
      PROVE  IInv'
  <2>1. run[d] # NoRun /\ seq \in Nat
    BY <1>2, BoundsAssumption DEF advance
  <2>2. AdvanceInput(d, next, seq) \in Transition
    BY <2>1, AdvanceInputType DEF IInv
  <2> QED BY <1>2, <2>2, TransitionInv DEF advance
<1> QED BY <1>1, <1>2 DEF serviceStep

\* What a controller passes to transition.
LEMMA ControllerInputType ==
  ASSUME TypeOK, NEW d \in Deliveries, run[d] # NoRun,
         NEW s \in States, NEW t \in Claimed,
         NEW x \in DeploymentIds \cup {None}, NEW y \in DeploymentStates \cup {None}
  PROVE  [expectedState |-> run[d].state, expectedSequence |-> run[d].sequence,
          nextState |-> s, deployment |-> x, deploymentState |-> y,
          occurredAt |-> t] \in Transition
BY FencedRow, ClaimedTimes, StatesAssumption DEF Transition, Run

LEMMA ControllerStepInv ==
  ASSUME IInv, NEW d \in Deliveries, NEW p \in Plans, NEW g \in Generations,
         controllerStep(d, p, g)
  PROVE  IInv'
<1>1. CASE \E t \in Claimed : createRun(p, g, t)
  BY <1>1, CreateRunInv
<1>2. ASSUME NEW k \in Keys, NEW s \in States, NEW t \in Claimed,
             NEW x \in DeploymentIds \cup {None},
             NEW y \in DeploymentStates \cup {None},
             run[d] # NoRun,
             transition(d, p, g, k,
               [expectedState |-> run[d].state,
                expectedSequence |-> run[d].sequence, nextState |-> s,
                deployment |-> x, deploymentState |-> y, occurredAt |-> t])
      PROVE  IInv'
  <2>1. [expectedState |-> run[d].state, expectedSequence |-> run[d].sequence,
         nextState |-> s, deployment |-> x, deploymentState |-> y,
         occurredAt |-> t] \in Transition
    BY <1>2, ControllerInputType DEF IInv
  <2> QED BY <1>2, <2>1, TransitionInv
<1>3. ASSUME NEW l \in LeaseIds, NEW h \in Holders, NEW t \in Claimed,
             \/ \E x \in Time : acquireControllerLease(d, p, g, l, h, t, x)
             \/ \E x \in Time : renewControllerLease(d, p, g, l, h, t, x)
             \/ releaseControllerLease(d, p, g, l, h, t)
      PROVE  IInv'
  BY <1>3, AcquireInv, RenewInv, ReleaseInv
<1>4. CASE \/ \E c \in ChildIds, ref \in Child : recordChildJob(d, p, g, c, ref)
           \/ \E a \in Artifacts : recordArtifact(d, p, g, a)
           \/ \E kind \in EvidenceKinds, x \in DeploymentIds \cup {None} :
                appendEvidence(d, p, g, kind, x)
           \/ \E k \in IntentKeys :
                reserveIntent(k, d) \/ \E r \in Results : completeIntent(k, d, r)
  BY <1>4, ReferenceInv
<1> QED BY <1>1, <1>2, <1>3, <1>4 DEF controllerStep

\* Every step keeps the invariant.
LEMMA NextInv ==
  ASSUME IInv, [Next]_vars
  PROVE  IInv'
<1>1. CASE UNCHANGED vars
  <2>1. TypeOK'
    BY <1>1 DEF vars, IInv, TypeOK
  <2> QED BY <1>1, <2>1, ReferencesStep DEF vars
<1> QED BY <1>1, ServiceStepInv, ControllerStepInv, TickInv DEF Next

\* Every behaviour of the projection keeps the invariant.
LEMMA AlwaysInv == Spec => []IInv
<1>1. Init => IInv
  BY InitInv
<1>2. IInv /\ [Next]_vars => IInv'
  BY NextInv
<1> QED BY <1>1, <1>2, PTL DEF Spec

----------------------------------------------------------------------------

\* Every operation of DeliveryPersistence and of the service leaves rows of
\* their types.
THEOREM DeliveryTypeOK == Spec => []TypeOK
<1>1. IInv => TypeOK
  BY DEF IInv
<1> QED BY <1>1, AlwaysInv, PTL

\* The row of a delivery is what its log says (transition's compare-and-swap
\* and its idempotency keys), for any number of racing callers.
THEOREM DeliveryProjectionMatchesLog == Spec => []ProjectionMatchesLog
<1>1. IInv => ProjectionMatchesLog
  BY DEF IInv
<1> QED BY <1>1, AlwaysInv, PTL

\* The pointer of a run is its one active lease (acquire-, renew- and
\* releaseControllerLease), for any number of holders.
THEOREM DeliveryLeasePointerExact == Spec => []LeasePointerExact
<1>1. IInv => LeasePointerExact
  BY DEF IInv, LeaseInv
<1> QED BY <1>1, AlwaysInv, PTL

\* Whatever the clocks of the others claim, up to MaxSkew ahead and however
\* far behind, no holder is displaced earlier than MaxSkew before the expiry
\* it was granted last (acquireControllerLease).
THEOREM DeliveryUnexpiredHolderFenced == Spec => []UnexpiredHolderFenced
<1>1. IInv => UnexpiredHolderFenced
  <2> SUFFICES ASSUME IInv, NEW d \in Deliveries, NEW l \in LeaseIds,
                      leases[d][l].status \in {"active", "expired"},
                      now + MaxSkew < leases[d][l].expiresAt
               PROVE  run[d].lease = l
    BY DEF UnexpiredHolderFenced
  <2>1. leases[d][l] \in Lease
    BY DEF IInv, TypeOK, NoLease
  <2>2. leases[d][l].expiresAt \in Int /\ now \in Int
    BY <2>1, BoundsAssumption DEF Lease, Time, IInv, TypeOK
  <2>3. leases[d][l].status # "expired"
    BY <2>2, BoundsAssumption DEF IInv, LeaseInv, DisplacedLapsed
  <2>4. l \in ActiveLeases(d)
    BY <2>3 DEF ActiveLeases
  <2> QED BY <2>4 DEF IInv, LeaseInv, LeasePointerExact
<1> QED BY <1>1, AlwaysInv, PTL

----------------------------------------------------------------------------
(* What is terminal or recorded stays                                      *)

IntentsKept ==
  \A k \in IntentKeys :
    intents[k].status = "completed" => intents'[k] = intents[k]

StepKeeps ==
  /\ \A d \in Deliveries : TerminalKept(d) /\ RecordsKept(d)
  /\ IntentsKept

\* A recorded child job has an offset.
LEMMA ChildRow ==
  ASSUME TypeOK, NEW d \in Deliveries, NEW c \in ChildIds,
         children[d][c] # NoChild
  PROVE  children[d][c] \in Child /\ children[d][c].offset \in Int
         /\ children[d][c].terminal \in BOOLEAN
BY BoundsAssumption DEF TypeOK, Child, Time

\* Rows that no step writes are kept.
LEMMA RecordsSame ==
  ASSUME TypeOK, NEW d \in Deliveries, UNCHANGED references
  PROVE  RecordsKept(d)
<1>1. artifacts' = artifacts /\ evidence' = evidence /\ children' = children
  BY DEF references
<1>2. ASSUME NEW c \in ChildIds, children[d][c] # NoChild
      PROVE  children'[d][c].offset >= children[d][c].offset
  BY <1>1, <1>2, ChildRow
<1> QED BY <1>1, <1>2 DEF RecordsKept

LEMMA TerminalSame ==
  ASSUME NEW d \in Deliveries,
         events'[d] = events[d] /\ run'[d] = run[d] /\ leases'[d] = leases[d]
  PROVE  TerminalKept(d)
BY DEF TerminalKept

LEMMA CreateRunKeeps ==
  ASSUME IInv, NEW p \in Plans, NEW g \in Generations, NEW t,
         createRun(p, g, t)
  PROVE  StepKeeps
<1>1. UNCHANGED <<now, events, leases, references, intents>>
  BY DEF createRun
<1>2. \A d \in Deliveries : RecordsKept(d)
  BY <1>1, RecordsSame DEF IInv
<1>3. ASSUME NEW d \in Deliveries
      PROVE  TerminalKept(d)
  <2>1. CASE d = PlanOf[p]
    BY <2>1 DEF createRun, TerminalKept, terminal, TERMINAL_DELIVERY_STATES, NoRun
  <2>2. CASE d # PlanOf[p]
    <3>1. run'[d] = run[d]
      BY <2>2, PlansAssumption DEF createRun, IInv, TypeOK
    <3> QED BY <1>1, <3>1, TerminalSame
  <2> QED BY <2>1, <2>2
<1> QED BY <1>1, <1>2, <1>3 DEF StepKeeps, IntentsKept

LEMMA TransitionKeeps ==
  ASSUME IInv, NEW e \in Deliveries, NEW p, NEW g, NEW k \in Keys,
         NEW in \in Transition, transition(e, p, g, k, in)
  PROVE  StepKeeps
<1>1. UNCHANGED <<now, leases, references, intents>> /\ ~terminal(e)
  BY DEF transition, TransitionAllowed
<1>2. \A d \in Deliveries : RecordsKept(d)
  BY <1>1, RecordsSame DEF IInv
<1>3. ASSUME NEW d \in Deliveries
      PROVE  TerminalKept(d)
  <2>1. CASE d = e
    BY <1>1, <2>1 DEF TerminalKept
  <2>2. CASE d # e
    <3>1. run'[d] = run[d] /\ events'[d] = events[d]
      BY <2>2, TransitionStep DEF IInv, TypeOK
    <3> QED BY <1>1, <3>1, TerminalSame
  <2> QED BY <2>1, <2>2
<1> QED BY <1>1, <1>2, <1>3 DEF StepKeeps, IntentsKept

\* Overwriting the pointer of a row changes nothing else of it.
LEMMA PointerOnly ==
  ASSUME NEW r \in Run, NEW l
  PROVE  [[r EXCEPT !.lease = l] EXCEPT !.lease = None] =
         [r EXCEPT !.lease = None]
BY DEF Run

LEMMA LeaseKeeps ==
  ASSUME IInv, NEW e \in Deliveries, NEW p, NEW g, NEW l \in LeaseIds,
         NEW h \in Holders, NEW t \in Claimed,
         \/ \E x \in Time : acquireControllerLease(e, p, g, l, h, t, x)
         \/ \E x \in Time : renewControllerLease(e, p, g, l, h, t, x)
         \/ releaseControllerLease(e, p, g, l, h, t)
  PROVE  StepKeeps
<1>1. UNCHANGED <<now, events, references, intents>>
  BY DEF acquireControllerLease, renewControllerLease, releaseControllerLease
<1>2. \A d \in Deliveries : RecordsKept(d)
  BY <1>1, RecordsSame DEF IInv
<1>3. ASSUME NEW d \in Deliveries, d # e
      PROVE  TerminalKept(d)
  <2>1. run'[d] = run[d] /\ leases'[d] = leases[d]
    BY <1>3 DEF acquireControllerLease, renewControllerLease,
                releaseControllerLease, IInv, TypeOK
  <2> QED BY <1>1, <2>1, TerminalSame
<1>4. TerminalKept(e)
  <2> SUFFICES ASSUME terminal(e)
               PROVE  /\ [run'[e] EXCEPT !.lease = None] =
                         [run[e] EXCEPT !.lease = None]
                      /\ \A a \in LeaseIds : leases'[e][a].status = "active"
                           => leases[e][a].status = "active"
    BY <1>1 DEF TerminalKept
  <2>1. \/ \E x \in Time : renewControllerLease(e, p, g, l, h, t, x)
        \/ releaseControllerLease(e, p, g, l, h, t)
    BY DEF acquireControllerLease
  <2>2. run[e] \in Run
    BY <2>1, FencedRow
    DEF renewControllerLease, releaseControllerLease, assertRunFence, IInv
  <2>3. \E m : run'[e] = [run[e] EXCEPT !.lease = m]
    BY <2>1 DEF renewControllerLease, releaseControllerLease, IInv, TypeOK
  <2>4. /\ \A a \in LeaseIds \ {l} : leases'[e][a] = leases[e][a]
        /\ leases[e][l].status = "active"
    BY <2>1 DEF renewControllerLease, releaseControllerLease, IInv, TypeOK
  <2> QED BY <2>2, <2>3, <2>4, PointerOnly
<1> QED BY <1>1, <1>2, <1>3, <1>4 DEF StepKeeps, IntentsKept

LEMMA ReferenceKeeps ==
  ASSUME IInv, NEW e \in Deliveries, NEW p, NEW g,
         \/ \E c \in ChildIds, ref \in Child : recordChildJob(e, p, g, c, ref)
         \/ \E a \in Artifacts : recordArtifact(e, p, g, a)
         \/ \E kind \in EvidenceKinds, x \in DeploymentIds \cup {None} :
              appendEvidence(e, p, g, kind, x)
         \/ \E k \in IntentKeys :
              reserveIntent(k, e) \/ \E r \in Results : completeIntent(k, e, r)
  PROVE  StepKeeps
<1>1. UNCHANGED <<now, run, events, leases>>
  BY DEF recordChildJob, recordArtifact, appendEvidence, reserveIntent, completeIntent
<1>2. \A d \in Deliveries : TerminalKept(d)
  BY <1>1, TerminalSame
<1>3. ASSUME NEW c \in ChildIds, NEW ref \in Child, recordChildJob(e, p, g, c, ref)
      PROVE  (\A d \in Deliveries : RecordsKept(d)) /\ IntentsKept
  <2>1. /\ UNCHANGED <<artifacts, evidence, intents>>
        /\ children' = [children EXCEPT ![e][c] = ref]
        /\ children[e][c] # NoChild => ChildUpdate(children[e][c], ref)
    BY <1>3 DEF recordChildJob
  <2>2. ASSUME NEW d \in Deliveries, NEW b \in ChildIds, children[d][b] # NoChild
        PROVE  /\ children[d][b].terminal => children'[d][b] = children[d][b]
               /\ children'[d][b].offset >= children[d][b].offset
               /\ children[d][b].result # None
                    => children'[d][b].result = children[d][b].result
    <3>1. CASE d = e /\ b = c
      <4>1. children'[d][b] = ref
        BY <2>1, <3>1 DEF IInv, TypeOK
      <4> QED BY <2>1, <2>2, <3>1, <4>1 DEF ChildUpdate
    <3>2. CASE ~(d = e /\ b = c)
      <4>1. children'[d][b] = children[d][b]
        BY <2>1, <3>2 DEF IInv, TypeOK
      <4> QED BY <4>1, <2>2, ChildRow DEF IInv
    <3> QED BY <3>1, <3>2
  <2> QED BY <2>1, <2>2 DEF RecordsKept, IntentsKept
<1>4. ASSUME NEW a \in Artifacts, recordArtifact(e, p, g, a)
      PROVE  (\A d \in Deliveries : RecordsKept(d)) /\ IntentsKept
  <2>1. UNCHANGED <<children, evidence, intents>>
        /\ \A d \in Deliveries : artifacts[d] \subseteq artifacts'[d]
    BY <1>4 DEF recordArtifact, IInv, TypeOK
  <2> QED BY <2>1, ChildRow DEF RecordsKept, IntentsKept, IInv
<1>5. ASSUME NEW kind \in EvidenceKinds, NEW x \in DeploymentIds \cup {None},
             appendEvidence(e, p, g, kind, x)
      PROVE  (\A d \in Deliveries : RecordsKept(d)) /\ IntentsKept
  <2>1. UNCHANGED <<children, artifacts, intents>>
        /\ \A d \in Deliveries : evidence[d] \subseteq evidence'[d]
    BY <1>5 DEF appendEvidence, IInv, TypeOK
  <2> QED BY <2>1, ChildRow DEF RecordsKept, IntentsKept, IInv
<1>6. ASSUME NEW k \in IntentKeys,
             reserveIntent(k, e) \/ \E r \in Results : completeIntent(k, e, r)
      PROVE  (\A d \in Deliveries : RecordsKept(d)) /\ IntentsKept
  <2>1. UNCHANGED references /\ intents[k].status # "completed"
        /\ \A j \in IntentKeys \ {k} : intents'[j] = intents[j]
    BY <1>6 DEF reserveIntent, completeIntent, NoIntent, IInv, TypeOK
  <2> QED BY <2>1, RecordsSame DEF IntentsKept, IInv
<1> QED BY <1>2, <1>3, <1>4, <1>5, <1>6 DEF StepKeeps

\* No late, repeated or reordered call rewrites what is terminal or recorded.
LEMMA NextKeeps ==
  ASSUME IInv, Next
  PROVE  StepKeeps
<1>1. ASSUME NEW d \in Deliveries, serviceStep(d)
      PROVE  StepKeeps
  <2>1. ASSUME NEW p \in Plans, plan(p)
        PROVE  StepKeeps
    BY <2>1, CreateRunKeeps, GenerationsAssumption DEF plan
  <2>2. ASSUME NEW p \in Plans, NEW k \in Keys, NEW next \in AdvanceStates,
               NEW seq \in 0..MAX_EVENTS_PER_RUN, advance(d, p, k, next, seq)
        PROVE  StepKeeps
    <3>1. run[d] # NoRun /\ seq \in Nat
      BY <2>2, BoundsAssumption DEF advance
    <3>2. AdvanceInput(d, next, seq) \in Transition
      BY <3>1, AdvanceInputType DEF IInv
    <3> QED BY <2>2, <3>2, TransitionKeeps DEF advance
  <2> QED BY <1>1, <2>1, <2>2 DEF serviceStep
<1>2. ASSUME NEW d \in Deliveries, NEW p \in Plans, NEW g \in Generations,
             controllerStep(d, p, g)
      PROVE  StepKeeps
  <2>1. CASE \E t \in Claimed : createRun(p, g, t)
    BY <2>1, CreateRunKeeps
  <2>2. ASSUME NEW k \in Keys, NEW s \in States, NEW t \in Claimed,
               NEW x \in DeploymentIds \cup {None},
               NEW y \in DeploymentStates \cup {None},
               run[d] # NoRun,
               transition(d, p, g, k,
                 [expectedState |-> run[d].state,
                  expectedSequence |-> run[d].sequence, nextState |-> s,
                  deployment |-> x, deploymentState |-> y, occurredAt |-> t])
        PROVE  StepKeeps
    <3>1. [expectedState |-> run[d].state, expectedSequence |-> run[d].sequence,
           nextState |-> s, deployment |-> x, deploymentState |-> y,
           occurredAt |-> t] \in Transition
      BY <2>2, ControllerInputType DEF IInv
    <3> QED BY <2>2, <3>1, TransitionKeeps
  <2>3. ASSUME NEW l \in LeaseIds, NEW h \in Holders, NEW t \in Claimed,
               \/ \E x \in Time : acquireControllerLease(d, p, g, l, h, t, x)
               \/ \E x \in Time : renewControllerLease(d, p, g, l, h, t, x)
               \/ releaseControllerLease(d, p, g, l, h, t)
        PROVE  StepKeeps
    BY <2>3, LeaseKeeps
  <2>4. CASE \/ \E c \in ChildIds, ref \in Child : recordChildJob(d, p, g, c, ref)
             \/ \E a \in Artifacts : recordArtifact(d, p, g, a)
             \/ \E kind \in EvidenceKinds, x \in DeploymentIds \cup {None} :
                  appendEvidence(d, p, g, kind, x)
             \/ \E k \in IntentKeys :
                  reserveIntent(k, d) \/ \E r \in Results : completeIntent(k, d, r)
    BY <2>4, ReferenceKeeps
  <2> QED BY <1>2, <2>1, <2>2, <2>3, <2>4 DEF controllerStep
<1>3. ASSUME Tick
      PROVE  StepKeeps
  <2>1. UNCHANGED <<run, events, leases, references, intents>>
    BY <1>3 DEF Tick
  <2> QED BY <2>1, RecordsSame, TerminalSame DEF StepKeeps, IntentsKept, IInv
<1> QED BY <1>1, <1>2, <1>3 DEF Next

\* A terminal delivery gets no further event and is not leased again, and
\* recorded artifacts, evidence, results and completed intents stay, for any
\* number of deliveries and callers (TERMINAL_DELIVERY_STATES, recordChildJob
\* and completeIntent).
THEOREM DeliveryHistoryFinal == Spec => HistoryFinal
<1>1. IInv /\ [Next]_vars => [StepKeeps]_vars
  BY NextKeeps
<1>2. Spec => [][StepKeeps]_vars
  BY <1>1, AlwaysInv, PTL DEF Spec
<1> QED BY <1>2 DEF StepKeeps, IntentsKept, HistoryFinal
=============================================================================
