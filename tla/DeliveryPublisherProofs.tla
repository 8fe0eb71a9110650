---------------------- MODULE DeliveryPublisherProofs ----------------------
(***************************************************************************)
(* What the publication of commits guarantees for every history of the     *)
(* repository, every number of deliveries, moves by others, plans, deaths  *)
(* and retries: pushes fast-forward, and follow durable intent; settled    *)
(* work is not redone, and a completed delivery is about one commit.       *)
(***************************************************************************)
EXTENDS DeliveryPublisher, TLAPS

\* A run with any number of attempts.
AnyRun == [state : GitPushRunState, plan : Plan, print : Plan \cup Fingerprints,
           attempt : Nat, git : Objects, api : Objects]

TypeInv ==
  /\ now \in Clock
  /\ WorkspaceOK
  /\ remote \in Objects
  /\ flight \subseteq [m : Mutations, old : Objects, new : Commits]
  /\ pushes \in [Mutations -> Nat]
  /\ plans \subseteq Plan
  /\ runs \in [Mutations -> AnyRun \cup {NoRun}]

\* An apply past its reservation has a run; a delivery's works on the plan of
\* that run, since its fingerprint stands for the plan.  One about to push
\* has recorded an attempt no push has used yet.
ApplyOK ==
  /\ call \in ApplyCall
  /\ call.plan \in plans
  /\ call.m # Operator => call.print = call.plan
  /\ call.step \in {"initial", "push", "reconcile", "api"} =>
       /\ runs[call.m] # NoRun
       /\ call.m # Operator => runs[call.m].plan = call.plan
  /\ call.step = "push" => pushes[call.m] < runs[call.m].attempt

CallInv ==
  \/ call = Idle
  \/ ApplyOK
  \/ call \in [step : PublishSteps, m : Deliveries]
  \/ call \in [step : WaitSteps, m : Deliveries, workflow : Workflow]

\* Every stored plan is a fast-forward, and the fingerprint of a delivery's
\* run stands for its plan.
PlansInv ==
  /\ \A p \in plans : p.old = None \/ <<p.old, p.new>> \in Ancestors
  /\ \A m \in Mutations \ {Operator} :
       runs[m] # NoRun => runs[m].print = runs[m].plan

\* Intent before push, spelled out for the induction.
PushInv ==
  /\ \A f \in flight :
       /\ runs[f.m] # NoRun
       /\ \E p \in plans :
            /\ p.old = f.old /\ p.new = f.new
            /\ f.m # Operator => runs[f.m].plan = p
  /\ \A m \in Mutations :
       pushes[m] > 0 => runs[m] # NoRun /\ pushes[m] <= runs[m].attempt

IInv == TypeInv /\ CallInv /\ PlansInv /\ PushInv

\* Initially nothing is planned, run or sent.
LEMMA InitInv == Init => IInv
<1> SUFFICES ASSUME Init PROVE IInv
  OBVIOUS
<1>1. head \in Objects /\ remote \in Objects
  BY StartAssumption DEF Init, PublicationInit
<1>2. WorkspaceOK
  BY <1>1, SourceAssumption DEF Init, PublicationInit, TruthInit, WorkspaceOK, Objects
<1> QED BY <1>1, <1>2, NoneAssumption, PublicationBounds
        DEF Init, PublicationInit, IInv, TypeInv, CallInv, PlansInv, PushInv, Clock, Idle

\* What leaves the workspace alone keeps it well-formed.
LEMMA WorkspaceKept ==
  ASSUME WorkspaceOK, UNCHANGED truthVars
  PROVE  WorkspaceOK'
BY DEF WorkspaceOK, truthVars

\* So does everything that is done to it.
LEMMA WorkspaceStep ==
  ASSUME WorkspaceOK,
         \/ materialize \/ editWorktree
         \/ \E c \in Commits : createCommit(c) \/ moveWorkspace(c)
  PROVE  WorkspaceOK'
BY NoneAssumption, SourceAssumption
DEF WorkspaceOK, materialize, register, editWorktree, createCommit, moveWorkspace, Objects

\* A workspace that publications accept is at a commit.
LEMMA ReadyAtCommit ==
  ASSUME WorkspaceOK, WorkspaceReady
  PROVE  head \in Commits
BY DEF WorkspaceOK, WorkspaceReady, Objects

----------------------------------------------------------------------------

\* A call at a step only apply has is an apply.
LEMMA AtApply ==
  ASSUME CallInv, NEW s \in {"reserve", "initial", "push", "reconcile", "api", "returned"},
         At(s)
  PROVE  ApplyOK /\ call.step = s /\ call.m \in Mutations /\ call.plan \in Plan
BY DEF CallInv, At, ApplyOK, ApplyCall, ApplySteps, PublishSteps, WaitSteps, Idle

\* A step that leaves the runs, plans and pushes alone and takes the call to
\* a place outside an apply, or to its error exit, keeps the invariant.
LEMMA QuietStep ==
  ASSUME IInv, UNCHANGED gitVars,
         \/ call' = Idle
         \/ call' \in [step : PublishSteps, m : Deliveries]
         \/ call' \in [step : WaitSteps, m : Deliveries, workflow : Workflow]
         \/ ApplyOK /\ call' = [call EXCEPT !.step = "threw"]
  PROVE  IInv'
<1>1. TypeInv' /\ PlansInv' /\ PushInv'
  BY DEF IInv, TypeInv, WorkspaceOK, truthVars, PlansInv, PushInv, gitVars
<1>2. CallInv'
  BY DEF CallInv, ApplyOK, ApplyCall, ApplySteps, gitVars, IInv, TypeInv
<1> QED BY <1>1, <1>2 DEF IInv

\* Throwing is such a step, wherever the call is.
LEMMA ThrowStep ==
  ASSUME IInv, call # Idle, Throw, UNCHANGED gitVars
  PROVE  IInv'
<1>1. CASE ApplyOK
  BY <1>1, QuietStep DEF Throw, GoTo
<1>2. CASE call \in [step : PublishSteps, m : Deliveries]
  <2>1. call' \in [step : PublishSteps, m : Deliveries]
    BY <1>2 DEF Throw, GoTo, PublishSteps
  <2> QED BY <2>1, QuietStep
<1>3. CASE call \in [step : WaitSteps, m : Deliveries, workflow : Workflow]
  <2>1. call' \in [step : WaitSteps, m : Deliveries, workflow : Workflow]
    BY <1>3 DEF Throw, GoTo, WaitSteps
  <2> QED BY <2>1, QuietStep
<1> QED BY <1>1, <1>2, <1>3 DEF IInv, CallInv

----------------------------------------------------------------------------
(* The world                                                               *)

LEMMA WorldInv ==
  ASSUME IInv, World
  PROVE  IInv'
<1>1. UNCHANGED <<pushes, plans, runs, call>>
  BY DEF World, tick, disturbWorkspace, moveRemote, land, lose
<1>2. flight' \subseteq flight
  BY DEF World, tick, disturbWorkspace, moveRemote, land, lose
<1>3. now' \in Clock /\ remote' \in Objects
  BY PublicationBounds
  DEF World, tick, disturbWorkspace, moveRemote, land, lose, IInv, TypeInv, Objects, Clock
<1>10. WorkspaceOK'
  <2>1. CASE disturbWorkspace
    BY <2>1, WorkspaceStep DEF disturbWorkspace, IInv, TypeInv
  <2>2. CASE ~disturbWorkspace
    BY <2>2, WorkspaceKept DEF World, tick, moveRemote, land, lose, IInv, TypeInv
  <2> QED BY <2>1, <2>2
<1>4. TypeInv'
  BY <1>1, <1>2, <1>3, <1>10 DEF IInv, TypeInv
<1>5. CallInv'
  BY <1>1 DEF IInv, CallInv, ApplyOK
<1>6. PlansInv' /\ PushInv'
  BY <1>1, <1>2 DEF IInv, PlansInv, PushInv
<1> QED BY <1>4, <1>5, <1>6 DEF IInv

----------------------------------------------------------------------------
(* Previews                                                                *)

\* A previewed plan is a fast-forward, and storing it disturbs nothing.
LEMMA PlanStored ==
  ASSUME IInv, NEW old \in Objects, NEW expires \in Clock,
         PreviewAllowed(old, expires),
         plans' = plans \cup {PlanOf(old, expires)},
         UNCHANGED <<now, truthVars, remote, flight, pushes, runs>>
  PROVE  /\ TypeInv' /\ PlansInv' /\ PushInv'
         /\ PlanOf(old, expires) \in Plan
<1> DEFINE p == PlanOf(old, expires)
<1>1. p \in Plan
  BY ReadyAtCommit DEF IInv, TypeInv, PlanOf, Plan, PreviewAllowed
<1>2. p.old = None \/ <<p.old, p.new>> \in Ancestors
  BY DEF PlanOf, PreviewAllowed, FastForward
<1>3. TypeInv'
  BY <1>1 DEF IInv, TypeInv, WorkspaceOK, truthVars
<1>4. PlansInv'
  BY <1>2 DEF IInv, PlansInv, TypeInv
<1>5. PushInv'
  BY DEF IInv, PushInv
<1> QED BY <1>1, <1>3, <1>4, <1>5

LEMMA OperatorInv ==
  ASSUME IInv, OperatorCall
  PROVE  IInv'
<1>1. ASSUME NEW old \in Objects, NEW expires \in Expiries, preview(old, expires)
      PROVE  IInv'
  <2>1. expires \in Clock
    BY PublicationBounds DEF Clock
  <2>2. TypeInv' /\ PlansInv' /\ PushInv'
    BY <1>1, <2>1, PlanStored DEF preview
  <2>3. CallInv'
    BY <1>1 DEF preview, CallInv
  <2> QED BY <2>2, <2>3 DEF IInv
<1>2. ASSUME NEW p \in plans, NEW print \in Fingerprints, apply(p, print)
      PROVE  IInv'
  <2>1. call' \in ApplyCall /\ call'.step = "reserve" /\ call'.plan = p
        /\ call'.m = Operator
    BY <1>2, MutationsAssumption DEF apply, ApplyCall, ApplySteps, IInv, TypeInv
  <2>2. ApplyOK'
    BY <1>2, <2>1 DEF apply, ApplyOK
  <2>3. TypeInv' /\ PlansInv' /\ PushInv'
    BY <1>2 DEF apply, IInv, TypeInv, WorkspaceOK, truthVars, PlansInv, PushInv
  <2> QED BY <2>2, <2>3 DEF IInv, CallInv
<1>3. CASE operatorAnswered
  BY <1>3, QuietStep DEF operatorAnswered, gitVars
<1>4. CASE workspaceCall
  <2>1. WorkspaceOK'
    BY <1>4, WorkspaceStep DEF workspaceCall, IInv, TypeInv
  <2>2. UNCHANGED <<now, remote, flight, pushes, plans, runs, call>>
    BY <1>4 DEF workspaceCall
  <2> QED BY <2>1, <2>2 DEF IInv, TypeInv, CallInv, ApplyOK, PlansInv, PushInv
<1> QED BY <1>1, <1>2, <1>3, <1>4 DEF OperatorCall

----------------------------------------------------------------------------
(* The steps of apply                                                      *)

LEMMA ReserveInv ==
  ASSUME IInv, reserveRun
  PROVE  IInv'
<1> DEFINE m == call.m
           p == call.plan
<1>1. /\ At("reserve") /\ ApplyOK /\ m \in Mutations /\ p \in Plan /\ p \in plans
      /\ call.print \in Plan \cup Fingerprints
      /\ m # Operator => call.print = p
  BY AtApply DEF reserveRun, IInv, ApplyOK, ApplyCall
<1>2. CASE Throw /\ UNCHANGED runs
  BY <1>2, <1>1, ThrowStep DEF reserveRun, gitVars, At
<1>3. CASE /\ runs[m] = NoRun
           /\ runs' = [runs EXCEPT ![m] =
                [state |-> "intent_persisted", plan |-> p, print |-> call.print,
                 attempt |-> 0, git |-> None, api |-> None]]
           /\ GoTo("initial")
  <2>1. UNCHANGED <<now, truthVars, remote, flight, pushes, plans>>
    BY DEF reserveRun
  <2>2. runs' \in [Mutations -> AnyRun \cup {NoRun}]
    BY <1>1, <1>3 DEF IInv, TypeInv, AnyRun, GitPushRunState, Objects
  <2>3. runs'[m] # NoRun /\ runs'[m].plan = p /\ runs'[m].attempt = 0
        /\ runs'[m].print = call.print
    BY <1>1, <1>3 DEF IInv, TypeInv, NoRun
  <2>4. \A x \in Mutations : x # m => runs'[x] = runs[x]
    BY <1>1, <1>3 DEF IInv, TypeInv
  <2>5. TypeInv'
    BY <2>1, <2>2 DEF IInv, TypeInv, WorkspaceOK, truthVars
  <2>6. call' \in ApplyCall /\ call'.m = m /\ call'.plan = p /\ call'.step = "initial"
        /\ call'.print = call.print
    BY <1>1, <1>3 DEF GoTo, ApplyOK, ApplyCall, ApplySteps
  <2>7. ApplyOK'
    BY <1>1, <2>1, <2>3, <2>6 DEF ApplyOK
  <2>8. PlansInv'
    BY <1>1, <2>1, <2>3, <2>4 DEF IInv, PlansInv
  <2>9. PushInv'
    <3>1. \A f \in flight : f.m \in Mutations /\ f.m # m
      BY <1>3 DEF IInv, TypeInv, PushInv
    <3>2. pushes[m] = 0
      BY <1>1, <1>3 DEF IInv, TypeInv, PushInv
    <3> QED BY <1>1, <2>1, <2>4, <3>1, <3>2 DEF IInv, PushInv
  <2> QED BY <2>5, <2>7, <2>8, <2>9 DEF IInv, CallInv
<1>4. CASE /\ runs[m] # NoRun /\ runs[m].print = call.print
           /\ GoTo(IF Retried(runs[m]) THEN "initial" ELSE "returned")
           /\ UNCHANGED runs
  <2>1. UNCHANGED <<now, truthVars, remote, flight, pushes, plans, runs>>
    BY <1>4 DEF reserveRun
  <2>2. call' \in ApplyCall /\ call'.m = m /\ call'.plan = p
        /\ call'.step \in {"initial", "returned"} /\ call'.print = call.print
    BY <1>1, <1>4 DEF GoTo, ApplyOK, ApplyCall, ApplySteps
  <2>3. m # Operator => runs[m].plan = p
    BY <1>1, <1>4 DEF IInv, PlansInv
  <2>4. ApplyOK'
    BY <1>1, <1>4, <2>1, <2>2, <2>3 DEF ApplyOK
  <2>5. TypeInv' /\ PlansInv' /\ PushInv'
    BY <2>1 DEF IInv, TypeInv, WorkspaceOK, truthVars, PlansInv, PushInv
  <2> QED BY <2>4, <2>5 DEF IInv, CallInv
<1> QED BY <1>2, <1>3, <1>4 DEF reserveRun

\* A step of an apply past its reservation that writes only its own run,
\* keeps the run's plan and loses no attempt.
LEMMA RunWritten ==
  ASSUME IInv, ApplyOK, NEW s \in ApplySteps \ {"push"},
         runs[call.m] # NoRun,
         call.m # Operator => runs[call.m].plan = call.plan,
         UNCHANGED <<now, truthVars, remote, flight, pushes, plans>>,
         NEW r \in AnyRun, r.plan = runs[call.m].plan,
         r.print = runs[call.m].print,
         r.attempt >= runs[call.m].attempt,
         runs' = [runs EXCEPT ![call.m] = r],
         call' = [call EXCEPT !.step = s]
  PROVE  IInv'
<1> DEFINE m == call.m
<1>1. m \in Mutations /\ runs[m] \in AnyRun /\ r # NoRun
  BY DEF ApplyOK, ApplyCall, IInv, TypeInv, AnyRun, NoRun, GitPushRunState
<1>2. runs'[m] = r /\ \A x \in Mutations : x # m => runs'[x] = runs[x]
  BY <1>1 DEF IInv, TypeInv
<1>3. TypeInv'
  BY <1>1 DEF IInv, TypeInv, WorkspaceOK, truthVars
<1>4. call' \in ApplyCall /\ call'.m = m /\ call'.plan = call.plan /\ call'.step = s
      /\ call'.print = call.print
  BY DEF ApplyOK, ApplyCall
<1>5. ApplyOK'
  BY <1>1, <1>2, <1>4 DEF ApplyOK
<1>6. PlansInv'
  BY <1>1, <1>2 DEF IInv, PlansInv
<1>7. PushInv'
  <2>1. \A f \in flight : f.m \in Mutations
    BY DEF IInv, TypeInv
  <2>2. \A f \in flight :
          /\ runs'[f.m] # NoRun
          /\ \E p \in plans : /\ p.old = f.old /\ p.new = f.new
                             /\ f.m # Operator => runs'[f.m].plan = p
    BY <1>1, <1>2, <2>1 DEF IInv, PushInv
  <2>3. pushes[m] > 0 => pushes[m] <= r.attempt
    BY <1>1 DEF IInv, PushInv, TypeInv, AnyRun
  <2> QED BY <1>1, <1>2, <2>2, <2>3 DEF IInv, PushInv
<1> QED BY <1>3, <1>5, <1>6, <1>7 DEF IInv, CallInv

\* Where a run stands after its reservation.
LEMMA PastReserve ==
  ASSUME IInv, NEW s \in {"initial", "push", "reconcile", "api"}, At(s)
  PROVE  /\ ApplyOK /\ call.m \in Mutations /\ call.plan \in Plan
         /\ runs[call.m] # NoRun /\ runs[call.m] \in AnyRun
         /\ call.m # Operator => runs[call.m].plan = call.plan
BY AtApply DEF IInv, ApplyOK, TypeInv

LEMMA FailRunInv ==
  ASSUME IInv, NEW s \in {"initial", "push", "reconcile", "api"}, At(s),
         NEW state \in GitPushRunState, failRun(state),
         UNCHANGED <<now, truthVars, remote, flight, pushes, plans>>
  PROVE  IInv'
<1> DEFINE r == [runs[call.m] EXCEPT !.state = state]
<1>1. r \in AnyRun /\ r.plan = runs[call.m].plan /\ r.attempt = runs[call.m].attempt
      /\ r.print = runs[call.m].print
  BY PastReserve DEF AnyRun
<1>2. runs' = [runs EXCEPT ![call.m] = r]
  BY PastReserve DEF failRun, SetRun, IInv, TypeInv
<1>3. "threw" \in ApplySteps \ {"push"} /\ call' = [call EXCEPT !.step = "threw"]
  BY DEF ApplySteps, failRun, Throw, GoTo
<1>4. r.attempt >= runs[call.m].attempt
  BY <1>1, PastReserve DEF AnyRun
<1> HIDE DEF r
<1> QED BY <1>1, <1>2, <1>3, <1>4, PastReserve, RunWritten

LEMMA ReconciledInv ==
  ASSUME IInv, NEW s \in {"initial", "push", "reconcile", "api"}, At(s),
         recordReconciled,
         UNCHANGED <<now, truthVars, remote, flight, pushes, plans>>
  PROVE  IInv'
<1> DEFINE r == [runs[call.m] EXCEPT !.state = "remote_reconciled", !.git = remote]
<1>1. r \in AnyRun /\ r.plan = runs[call.m].plan /\ r.attempt = runs[call.m].attempt
      /\ r.print = runs[call.m].print
  BY PastReserve DEF AnyRun, GitPushRunState, IInv, TypeInv
<1>2. runs' = [runs EXCEPT ![call.m] = r]
  BY PastReserve DEF recordReconciled, IInv, TypeInv, AnyRun
<1>3. "api" \in ApplySteps \ {"push"} /\ call' = [call EXCEPT !.step = "api"]
  BY DEF ApplySteps, recordReconciled, GoTo
<1>4. r.attempt >= runs[call.m].attempt
  BY <1>1, PastReserve DEF AnyRun
<1> HIDE DEF r
<1> QED BY <1>1, <1>2, <1>3, <1>4, PastReserve, RunWritten

LEMMA ReadbackInv ==
  ASSUME IInv, initialReadback
  PROVE  IInv'
<1>1. At("initial") /\ UNCHANGED <<now, truthVars, remote, flight, pushes, plans>>
  BY DEF initialReadback
<1>2. CASE recordReconciled
  BY <1>1, <1>2, ReconciledInv
<1>3. CASE failRun("failed")
  BY <1>1, <1>3, FailRunInv DEF GitPushRunState
<1>4. CASE recordAttempt /\ GoTo("push")
  <2> DEFINE m == call.m
             r == [runs[m] EXCEPT !.state = "remote_attempted",
                                 !.attempt = runs[m].attempt + 1]
  <2>1. /\ ApplyOK /\ m \in Mutations /\ runs[m] # NoRun
        /\ m # Operator => runs[m].plan = call.plan
        /\ runs[m] \in AnyRun
    BY <1>1, PastReserve
  <2>2. r \in AnyRun /\ r.plan = runs[m].plan /\ r.attempt = runs[m].attempt + 1
        /\ r.print = runs[m].print
    <3>1. runs[m].attempt \in Nat /\ runs[m].attempt + 1 \in Nat
      BY <2>1 DEF AnyRun
    <3> QED BY <2>1, <3>1 DEF AnyRun, GitPushRunState
  <2>3. runs' = [runs EXCEPT ![m] = r]
    BY <1>4, <2>1 DEF recordAttempt, IInv, TypeInv, AnyRun
  <2> HIDE DEF r
  <2>4. runs'[m] = r /\ \A x \in Mutations : x # m => runs'[x] = runs[x]
    BY <2>1, <2>3 DEF IInv, TypeInv
  <2>5. r # NoRun
    BY <2>2 DEF AnyRun, NoRun, GitPushRunState
  <2>6. call' \in ApplyCall /\ call'.m = m /\ call'.plan = call.plan /\ call'.step = "push"
        /\ call'.print = call.print
    BY <1>4, <2>1 DEF GoTo, ApplyOK, ApplyCall, ApplySteps
  <2>7. pushes[m] \in Nat /\ pushes[m] <= runs[m].attempt
    BY <2>1 DEF IInv, TypeInv, PushInv, AnyRun
  <2>8. ApplyOK'
    <3>1. pushes[m] < r.attempt
      BY <2>1, <2>2, <2>7 DEF AnyRun
    <3> QED BY <1>1, <2>1, <2>2, <2>4, <2>5, <2>6, <3>1 DEF ApplyOK
  <2>9. TypeInv'
    BY <1>1, <2>1, <2>2, <2>3 DEF IInv, TypeInv, WorkspaceOK, truthVars
  <2>10. PlansInv'
    BY <1>1, <2>1, <2>2, <2>4 DEF IInv, PlansInv
  <2>11. PushInv'
    <3>1. \A f \in flight : f.m \in Mutations
      BY DEF IInv, TypeInv
    <3>2. pushes[m] <= r.attempt
      BY <2>1, <2>2, <2>7 DEF AnyRun
    <3> QED BY <1>1, <2>1, <2>2, <2>4, <2>5, <3>1, <3>2 DEF IInv, PushInv
  <2> QED BY <2>8, <2>9, <2>10, <2>11 DEF IInv, CallInv
<1> QED BY <1>2, <1>3, <1>4 DEF initialReadback

LEMMA PushStepInv ==
  ASSUME IInv, push
  PROVE  IInv'
<1> DEFINE m == call.m
           f == [m |-> call.m, old |-> call.plan.old, new |-> call.plan.new]
<1>1. /\ At("push") /\ flight' = flight \cup {f}
      /\ pushes' = [pushes EXCEPT ![m] = @ + 1] /\ GoTo("reconcile")
      /\ UNCHANGED <<now, truthVars, remote, plans, runs>>
  BY DEF push
<1>2. /\ ApplyOK /\ m \in Mutations /\ call.plan \in Plan /\ runs[m] # NoRun
      /\ m # Operator => runs[m].plan = call.plan
      /\ runs[m] \in AnyRun /\ call.plan \in plans
  BY <1>1, PastReserve DEF ApplyOK
<1>3. pushes[m] < runs[m].attempt /\ pushes[m] \in Nat
  BY <1>1, <1>2 DEF ApplyOK, At, IInv, TypeInv
<1>4. f \in [m : Mutations, old : Objects, new : Commits]
  BY <1>2 DEF Plan
<1>5. TypeInv'
  BY <1>1, <1>2, <1>3, <1>4 DEF IInv, TypeInv, WorkspaceOK, truthVars
<1>6. call' \in ApplyCall /\ call'.m = m /\ call'.plan = call.plan /\ call'.step = "reconcile"
      /\ call'.print = call.print
  BY <1>1, <1>2 DEF GoTo, ApplyOK, ApplyCall, ApplySteps
<1>7. ApplyOK'
  BY <1>1, <1>2, <1>6 DEF ApplyOK
<1>8. PlansInv'
  BY <1>1 DEF IInv, PlansInv
<1>9. PushInv'
  <2>1. pushes'[m] <= runs[m].attempt
    BY <1>1, <1>2, <1>3 DEF IInv, TypeInv, AnyRun
  <2>2. \A x \in Mutations : x # m => pushes'[x] = pushes[x]
    BY <1>1, <1>2 DEF IInv, TypeInv
  <2>3. ASSUME NEW g \in flight'
        PROVE  /\ runs'[g.m] # NoRun
               /\ \E p \in plans' : /\ p.old = g.old /\ p.new = g.new
                                   /\ g.m # Operator => runs'[g.m].plan = p
    <3>1. CASE g = f
      BY <1>1, <1>2, <3>1
    <3>2. CASE g \in flight
      BY <1>1, <3>2 DEF IInv, PushInv
    <3> QED BY <1>1, <3>1, <3>2
  <2> QED BY <1>1, <1>2, <2>1, <2>2, <2>3 DEF IInv, PushInv
<1> QED BY <1>5, <1>7, <1>8, <1>9 DEF IInv, CallInv

LEMMA ReconcileInv ==
  ASSUME IInv, reconcile
  PROVE  IInv'
<1>1. At("reconcile") /\ UNCHANGED <<now, truthVars, remote, flight, pushes, plans>>
  BY DEF reconcile
<1>2. CASE recordReconciled
  BY <1>1, <1>2, ReconciledInv
<1>3. CASE failRun(IF remote = call.plan.old THEN "failed" ELSE "ambiguous")
  <2>1. (IF remote = call.plan.old THEN "failed" ELSE "ambiguous") \in GitPushRunState
    BY DEF GitPushRunState
  <2> QED BY <1>1, <1>3, <2>1, FailRunInv
<1> QED BY <1>2, <1>3 DEF reconcile

LEMMA ApiInv ==
  ASSUME IInv, NEW c, apiReadback(c)
  PROVE  IInv'
<1>1. At("api") /\ UNCHANGED <<now, truthVars, remote, flight, pushes, plans>>
  BY DEF apiReadback
<1>2. CASE Throw /\ UNCHANGED runs
  BY <1>1, <1>2, ThrowStep DEF At, gitVars, apiReadback
<1>3. CASE /\ ApiAgrees(c)
           /\ runs' = [runs EXCEPT ![call.m].state = "verified", ![call.m].api = c]
           /\ GoTo("returned")
  <2> DEFINE r == [runs[call.m] EXCEPT !.state = "verified", !.api = c]
  <2>1. r \in AnyRun /\ r.plan = runs[call.m].plan /\ r.attempt = runs[call.m].attempt
        /\ r.print = runs[call.m].print
    <3>1. c \in Objects
      BY <1>1, <1>3, PastReserve DEF ApiAgrees, Plan, Objects
    <3> QED BY <1>1, <3>1, PastReserve DEF AnyRun, GitPushRunState
  <2>2. runs' = [runs EXCEPT ![call.m] = r]
    BY <1>1, <1>3, PastReserve DEF IInv, TypeInv, AnyRun
  <2>3. "returned" \in ApplySteps \ {"push"} /\ call' = [call EXCEPT !.step = "returned"]
    BY <1>3 DEF ApplySteps, GoTo
  <2>4. r.attempt >= runs[call.m].attempt
    BY <1>1, <2>1, PastReserve DEF AnyRun
  <2> HIDE DEF r
  <2> QED BY <1>1, <2>1, <2>2, <2>3, <2>4, PastReserve, RunWritten
<1> QED BY <1>2, <1>3 DEF apiReadback

LEMMA ApplyStepInv ==
  ASSUME IInv, ApplyStep
  PROVE  IInv'
<1>1. ASSUME applyThrows PROVE IInv'
  BY <1>1, ThrowStep DEF applyThrows, gitVars
<1> QED BY <1>1, ReserveInv, ReadbackInv, PushStepInv, ReconcileInv, ApiInv DEF ApplyStep

LEMMA CrashInv ==
  ASSUME IInv, crash
  PROVE  IInv'
BY QuietStep DEF crash, gitVars

----------------------------------------------------------------------------
(* The publisher                                                           *)

\* The publisher's own calls are Deliveries' calls.
LEMMA InPublishSteps ==
  ASSUME IInv, NEW s \in PublishSteps \ {"threw"}, InPublish(s)
  PROVE  call \in [step : PublishSteps, m : Deliveries]
BY DEF InPublish, At, IInv, CallInv, ApplyOK, ApplyCall, ApplySteps, PublishSteps,
       WaitSteps, Idle

LEMMA InWaitSteps ==
  ASSUME IInv, NEW s \in WaitSteps \ {"threw"}, InPublish(s)
  PROVE  call \in [step : WaitSteps, m : Deliveries, workflow : Workflow]
BY DEF InPublish, At, IInv, CallInv, ApplyOK, ApplyCall, ApplySteps, PublishSteps,
       WaitSteps, Idle

\* Going from one step of the publisher to another.
LEMMA PublishGoTo ==
  ASSUME IInv, NEW s \in PublishSteps \ {"threw"}, InPublish(s), UNCHANGED gitVars,
         NEW t \in PublishSteps, GoTo(t)
  PROVE  IInv'
<1>1. call' \in [step : PublishSteps, m : Deliveries]
  BY InPublishSteps DEF GoTo
<1> QED BY <1>1, QuietStep

LEMMA WaitGoTo ==
  ASSUME IInv, NEW s \in WaitSteps \ {"threw"}, InPublish(s), UNCHANGED gitVars,
         NEW t \in WaitSteps, GoTo(t)
  PROVE  IInv'
<1>1. call' \in [step : WaitSteps, m : Deliveries, workflow : Workflow]
  BY InWaitSteps DEF GoTo
<1> QED BY <1>1, QuietStep

\* Recording a stage's result.
LEMMA RecordInv ==
  ASSUME IInv, UNCHANGED gitVars, call.m \in Deliveries,
         NEW t \in PublishSteps, call' = [step |-> t, m |-> call.m]
  PROVE  IInv'
<1>1. call' \in [step : PublishSteps, m : Deliveries]
  OBVIOUS
<1> QED BY <1>1, QuietStep

LEMMA PublishInv ==
  ASSUME IInv, NEW d \in Deliveries, publish(d)
  PROVE  IInv'
<1>1. UNCHANGED gitVars
  BY DEF publish
<1>2. ResumeAt(deliveries[d]) \in PublishSteps
  BY DEF ResumeAt, PublishSteps
<1>3. call' \in [step : PublishSteps, m : Deliveries]
  BY <1>2 DEF publish, PublishSteps
<1> QED BY <1>1, <1>3, QuietStep

LEMMA PreviewPushInv ==
  ASSUME IInv, previewPush
  PROVE  IInv'
<1> DEFINE p == PlanOf(ExpectedOld, ExpiresAt)
<1>1. CASE Throw /\ UNCHANGED plans
  BY <1>1, ThrowStep DEF previewPush, InPublish, At, gitVars
<1>2. CASE /\ PreviewAllowed(ExpectedOld, ExpiresAt)
           /\ plans' = plans \cup {p}
           /\ call' = [step |-> "reserve", m |-> call.m, plan |-> p, print |-> p]
  <2>1. UNCHANGED <<now, truthVars, remote, flight, pushes, runs>>
    BY DEF previewPush
  <2>2. TypeInv' /\ PlansInv' /\ PushInv' /\ p \in Plan
    BY <1>2, <2>1, PlanStored, RequestAssumption
  <2>3. call.m \in Mutations /\ call.m # Operator
    BY DeliveriesAssumption DEF previewPush, InPublish
  <2> HIDE DEF p
  <2>4. call' \in ApplyCall /\ call'.step = "reserve" /\ call'.plan \in plans'
        /\ call'.print = call'.plan
    BY <1>2, <2>2, <2>3 DEF ApplyCall, ApplySteps
  <2>5. ApplyOK'
    BY <2>4 DEF ApplyOK
  <2> QED BY <2>2, <2>5 DEF IInv, CallInv
<1> QED BY <1>1, <1>2 DEF previewPush

LEMMA PullRequestInv ==
  ASSUME IInv,
         \/ pushVerified \/ reservePullRequest \/ finishPullRequest
         \/ \E b \in BOOLEAN : findPullRequest(b)
         \/ \E o \in {"completed", "failed", "unknown"}, b \in BOOLEAN : writePullRequest(o, b)
         \/ \E c \in Commits : verifyPullRequest(c)
  PROVE  IInv'
<1>1. CASE pushVerified
  <2>1. call # Idle /\ call.m \in Deliveries /\ UNCHANGED gitVars
    BY <1>1 DEF pushVerified, InPublish, At
  <2>2. CASE Throw
    BY <2>1, <2>2, ThrowStep
  <2>3. CASE call' = [step |-> "pr", m |-> call.m]
    BY <2>1, <2>3, RecordInv DEF PublishSteps
  <2> QED BY <1>1, <2>2, <2>3 DEF pushVerified, Record
<1>2. CASE reservePullRequest
  <2>1. InPublish("pr") /\ UNCHANGED gitVars
        /\ (GoTo("prFind") \/ GoTo("prVerify") \/ GoTo("threw"))
    BY <1>2 DEF reservePullRequest
  <2> QED BY <2>1, PublishGoTo DEF PublishSteps
<1>3. CASE finishPullRequest
  <2>1. UNCHANGED gitVars /\ \/ InPublish("prReconciled") /\ GoTo("prVerified")
                             \/ InPublish("prVerified") /\ GoTo("prVerify")
    BY <1>3 DEF finishPullRequest
  <2> QED BY <2>1, PublishGoTo DEF PublishSteps
<1>4. CASE \E b \in BOOLEAN : findPullRequest(b)
  <2>1. InPublish("prFind") /\ UNCHANGED gitVars /\ (GoTo("prReconciled") \/ GoTo("prWrite"))
    BY <1>4 DEF findPullRequest
  <2> QED BY <2>1, PublishGoTo DEF PublishSteps
<1>5. CASE \E o \in {"completed", "failed", "unknown"}, b \in BOOLEAN : writePullRequest(o, b)
  <2>1. InPublish("prWrite") /\ UNCHANGED gitVars /\ (GoTo("prReconciled") \/ GoTo("threw"))
    BY <1>5 DEF writePullRequest, Throw
  <2> QED BY <2>1, PublishGoTo DEF PublishSteps
<1>6. CASE \E c \in Commits : verifyPullRequest(c)
  <2>1. call # Idle /\ call.m \in Deliveries /\ UNCHANGED gitVars
    BY <1>6 DEF verifyPullRequest, InPublish, At
  <2>2. CASE Throw
    BY <2>1, <2>2, ThrowStep
  <2>3. CASE call' = [step |-> "find", m |-> call.m]
    BY <2>1, <2>3, RecordInv DEF PublishSteps
  <2> QED BY <1>6, <2>2, <2>3 DEF verifyPullRequest, Record
<1> QED BY <1>1, <1>2, <1>3, <1>4, <1>5, <1>6

LEMMA WorkflowInv ==
  ASSUME IInv,
         \/ \E w \in Workflow : findWorkflow(w)
         \/ reserveWait \/ settleWait \/ workflowVerified
         \/ \E s \in Conclusion : poll(s)
  PROVE  IInv'
<1>1. ASSUME NEW w \in Workflow, findWorkflow(w) PROVE IInv'
  <2>1. InPublish("find") /\ UNCHANGED gitVars
    BY <1>1 DEF findWorkflow
  <2>2. CASE Throw
    BY <2>1, <2>2, PublishGoTo DEF Throw, PublishSteps
  <2>3. CASE call' = [step |-> "wait", m |-> call.m, workflow |-> w]
    <3>1. call' \in [step : WaitSteps, m : Deliveries, workflow : Workflow]
      BY <2>1, <2>3 DEF InPublish, WaitSteps
    <3> QED BY <2>1, <3>1, QuietStep
  <2> QED BY <1>1, <2>2, <2>3 DEF findWorkflow
<1>2. CASE reserveWait
  <2>1. InPublish("wait") /\ UNCHANGED gitVars
        /\ (GoTo("poll") \/ GoTo("waited") \/ GoTo("threw"))
    BY <1>2 DEF reserveWait
  <2> QED BY <2>1, WaitGoTo DEF WaitSteps
<1>3. CASE settleWait
  <2>1. UNCHANGED gitVars /\ \/ InPublish("succeeded") /\ GoTo("waited")
                             \/ InPublish("unsuccessful") /\ GoTo("threw")
    BY <1>3 DEF settleWait, Throw
  <2> QED BY <2>1, WaitGoTo DEF WaitSteps
<1>4. CASE workflowVerified
  <2>1. UNCHANGED gitVars /\ call.m \in Deliveries /\ call' = [step |-> "artifacts", m |-> call.m]
    BY <1>4 DEF workflowVerified, Record, InPublish
  <2> QED BY <2>1, RecordInv DEF PublishSteps
<1>5. CASE \E s \in Conclusion : poll(s)
  <2>1. InPublish("poll") /\ UNCHANGED gitVars
        /\ (GoTo("poll") \/ GoTo("succeeded") \/ GoTo("unsuccessful") \/ GoTo("threw"))
    BY <1>5 DEF poll, Throw, Conclusion
  <2> QED BY <2>1, WaitGoTo DEF WaitSteps
<1> QED BY <1>1, <1>2, <1>3, <1>4, <1>5

LEMMA ArtifactsInv ==
  ASSUME IInv,
         \/ reserveCapture \/ artifactsVerified \/ complete \/ answer
         \/ \E c \in Commits, b \in BOOLEAN : captureArtifacts(c, b)
         \/ providerThrows \/ catchError
  PROVE  IInv'
<1>1. CASE reserveCapture
  <2>1. InPublish("artifacts") /\ UNCHANGED gitVars
        /\ (GoTo("capture") \/ GoTo("captured") \/ GoTo("threw"))
    BY <1>1 DEF reserveCapture
  <2> QED BY <2>1, PublishGoTo DEF PublishSteps
<1>2. CASE artifactsVerified
  <2>1. UNCHANGED gitVars /\ call.m \in Deliveries /\ call' = [step |-> "complete", m |-> call.m]
    BY <1>2 DEF artifactsVerified, Record, InPublish
  <2> QED BY <2>1, RecordInv DEF PublishSteps
<1>3. CASE complete \/ answer \/ catchError
  BY <1>3, QuietStep, RecordInv
     DEF complete, answer, catchError, InPublish, PublishSteps
<1>4. CASE \E c \in Commits, b \in BOOLEAN : captureArtifacts(c, b)
  <2>1. InPublish("capture") /\ UNCHANGED gitVars /\ (GoTo("captured") \/ GoTo("threw"))
    BY <1>4 DEF captureArtifacts, Throw
  <2> QED BY <2>1, PublishGoTo DEF PublishSteps
<1>5. CASE providerThrows
  BY <1>5, ThrowStep DEF providerThrows
<1> QED BY <1>1, <1>2, <1>3, <1>4, <1>5

\* Every step of the composed system keeps the invariant.
LEMMA NextInv ==
  ASSUME IInv, [Next]_vars
  PROVE  IInv'
<1>1. CASE World \/ ApplyStep \/ OperatorCall \/ crash
  BY <1>1, WorldInv, ApplyStepInv, OperatorInv, CrashInv
<1>2. CASE \E d \in Deliveries : publish(d)
  BY <1>2, PublishInv
<1>3. CASE PublisherStep
  BY <1>3, PreviewPushInv, PullRequestInv, WorkflowInv, ArtifactsInv DEF PublisherStep
<1>4. CASE UNCHANGED vars
  BY <1>4 DEF vars, IInv, TypeInv, WorkspaceOK, truthVars, CallInv, ApplyOK, PlansInv, PushInv
<1> QED BY <1>1, <1>2, <1>3, <1>4 DEF Next

----------------------------------------------------------------------------

\* No push leaves before a run durably records the attempt, every push in
\* flight carries out a stored plan, and a delivery's the plan of its own run,
\* whatever dies or is retried (the comment of apply: reserveRun persists
\* durable intent before transport.push can mutate the remote).
THEOREM PublisherIntentBeforePush == Spec => []IntentBeforePush
<1>1. IInv => IntentBeforePush
  BY DEF IInv, PushInv, IntentBeforePush
<1>2. Init => IInv
  BY InitInv
<1>3. IInv /\ [Next]_vars => IInv'
  BY NextInv
<1> QED BY <1>1, <1>2, <1>3, PTL DEF Spec

\* Only a landing push takes something out of flight while the ref moves.
LEMMA LandOnly ==
  ASSUME IInv, [Next]_vars, flight' # flight, remote' # remote
  PROVE  \E f \in flight : land(f)
<1>1. CASE World
  BY <1>1 DEF World, tick, disturbWorkspace, moveRemote, lose
<1>2. CASE ApplyStep \/ OperatorCall \/ crash
  BY <1>2 DEF ApplyStep, OperatorCall, crash, reserveRun, initialReadback, push, reconcile,
     apiReadback, applyThrows, preview, apply, operatorAnswered, workspaceCall
<1>3. CASE \E d \in Deliveries : publish(d)
  BY <1>3 DEF publish, gitVars
<1>4. CASE PublisherStep
  BY <1>4 DEF PublisherStep, previewPush, pushVerified, reservePullRequest,
     finishPullRequest, findPullRequest, writePullRequest, verifyPullRequest, findWorkflow,
     reserveWait, settleWait, workflowVerified, poll, reserveCapture, artifactsVerified,
     complete, answer, captureArtifacts, providerThrows, catchError, gitVars
<1>5. CASE UNCHANGED vars
  BY <1>5 DEF vars
<1> QED BY <1>1, <1>2, <1>3, <1>4, <1>5 DEF Next

\* Every push that lands moves the ref forward from an ancestor or creates
\* it, for every history, however the ref was moved by others meanwhile and
\* however late the push lands (preview's ancestry check and the lease on the
\* previewed object).
THEOREM PublisherFastForwardOnly == Spec => FastForwardOnly
<1>1. IInv /\ [Next]_vars =>
        [flight' # flight /\ remote' # remote =>
           remote = None \/ <<remote, remote'>> \in Ancestors]_pubVars
  <2> SUFFICES ASSUME IInv, [Next]_vars, flight' # flight, remote' # remote
               PROVE  remote = None \/ <<remote, remote'>> \in Ancestors
    OBVIOUS
  <2>1. PICK f \in flight : land(f)
    BY LandOnly
  <2>2. remote = f.old /\ remote' = f.new
    BY <2>1 DEF land, Lease
  <2>3. PICK p \in plans : p.old = f.old /\ p.new = f.new
    BY DEF IInv, PushInv
  <2> QED BY <2>2, <2>3 DEF IInv, PlansInv
<1>2. Init => IInv
  BY InitInv
<1>3. IInv /\ [Next]_vars => IInv'
  BY NextInv
<1> QED BY <1>1, <1>2, <1>3, PTL DEF Spec, FastForwardOnly

----------------------------------------------------------------------------
(* What a completed delivery is about                                      *)

\* The rows and the child runs, by kind.
ChildType(k) ==
  IF k = "pr" THEN PrChild
  ELSE IF k = "workflow" THEN WorkflowChild ELSE ArtifactsChild

AnyChild == PrChild \cup WorkflowChild \cup ArtifactsChild \cup {NoChild}

RowTypes ==
  /\ deliveries \in [Deliveries -> Delivery \cup {NoDelivery}]
  /\ children \in [Deliveries -> [ChildKinds -> AnyChild]]
  /\ \A d \in Deliveries, k \in ChildKinds :
       children[d][k] \in ChildType(k) \cup {NoChild}

\* A verified push run, and one about to become verified, read a commit back
\* from the ref, the one planned in this apply.  Between its reservation and
\* its end an apply works on a run that is not verified.
ReadBack(m) == runs[m].git \in seen

RunsInv ==
  /\ remote \in seen
  /\ \A m \in Mutations : runs[m].state = "verified" =>
       ReadBack(m) /\ runs[m].api = runs[m].git
  /\ call # Idle /\ call.step \in {"initial", "push", "reconcile", "api"} =>
       runs[call.m].state # "verified"
  /\ call # Idle /\ call.step = "api" =>
       ReadBack(call.m) /\ runs[call.m].git = call.plan.new
  /\ call # Idle /\ call.step = "returned" => runs[call.m].state = "verified"

\* Each result a row holds rests on the one before it and on its own run.
RowOK(d) ==
  LET r == deliveries[d]
      c == children[d]
  IN r # NoDelivery =>
     /\ r.push # None =>
          /\ r.push \in seen /\ runs[d].state = "verified"
          /\ runs[d].git = r.push /\ runs[d].api = r.push
     /\ r.pr # None =>
          r.push # None /\ r.pr = r.push /\ c["pr"].state = "verified"
     /\ r.workflow # None =>
          /\ r.pr # None /\ r.workflow.sha = r.push
          /\ c["workflow"].state = "verified" /\ c["workflow"].key = r.workflow
     /\ r.artifacts # None =>
          /\ r.workflow # None /\ r.artifacts = r.push
          /\ c["artifacts"].state = "verified"
     /\ r.state = "completed" => r.artifacts # None

PrSteps == {"pr", "prFind", "prWrite", "prReconciled", "prVerified", "prVerify"}
PollSteps == {"poll", "succeeded", "unsuccessful", "waited"}

\* The call of a delivery is at the first stage its row lacks, and works on
\* the child run of that stage.
StageOK ==
  LET r == deliveries[call.m]
      c == children[call.m]
  IN /\ r # NoDelivery
     /\ Terminal(r) =>
          r.state = "completed" /\ call.step \in {"answer", "threw"}
     /\ call.step \in {"preview"} \cup (ApplySteps \ {"threw"}) => r.push = None
     /\ call.step \in PrSteps => r.push # None /\ r.pr = None
     /\ call.step \in PrSteps \ {"pr"} => c["pr"] # NoChild
     /\ call.step = "prVerify" => c["pr"].state = "verified"
     /\ call.step \in {"find"} \cup (WaitSteps \ {"threw"}) =>
          r.pr # None /\ r.workflow = None
     /\ call.step \in WaitSteps \ {"threw"} => call.workflow.sha = r.push
     /\ call.step \in PollSteps =>
          c["workflow"] # NoChild /\ c["workflow"].key = call.workflow
     /\ call.step = "waited" => c["workflow"].state = "verified"
     /\ call.step \in {"artifacts", "capture", "captured"} =>
          r.workflow # None /\ r.artifacts = None
     /\ call.step \in {"capture", "captured"} =>
          c["artifacts"] # NoChild /\ c["artifacts"].key = <<r.workflow, r.push>>
     /\ call.step = "captured" => c["artifacts"].state = "verified"
     /\ call.step = "complete" => r.artifacts # None

StageInv ==
  /\ RowTypes
  /\ RunsInv
  /\ \A d \in Deliveries : RowOK(d)
  /\ call # Idle /\ call.m \in Deliveries => StageOK

LEMMA StageInvInit == Init => StageInv
<1> SUFFICES ASSUME Init PROVE StageInv
  OBVIOUS
<1>1. RowTypes
  BY DEF Init, RowTypes, AnyChild, ChildType
<1>2. RunsInv
  BY DEF Init, PublicationInit, RunsInv, NoRun
<1>3. \A d \in Deliveries : RowOK(d)
  BY DEF Init, RowOK
<1>4. call = Idle
  BY DEF Init, PublicationInit
<1> QED BY <1>1, <1>2, <1>3, <1>4 DEF StageInv

\* The call in progress keeps its mutation when it goes to another step.
LEMMA GoToFields ==
  ASSUME IInv, call # Idle, NEW t, GoTo(t), t # "idle"
  PROVE  /\ call' # Idle /\ call'.step = t /\ call'.m = call.m
         /\ call \in [step : WaitSteps, m : Deliveries, workflow : Workflow]
              => call'.workflow = call.workflow
         /\ ApplyOK => call'.plan = call.plan
<1>1. CASE ApplyOK
  BY <1>1 DEF GoTo, ApplyOK, ApplyCall, Idle, WaitSteps, ApplySteps
<1>2. CASE call \in [step : PublishSteps, m : Deliveries]
  BY <1>2 DEF GoTo, Idle, ApplyOK, ApplyCall
<1>3. CASE call \in [step : WaitSteps, m : Deliveries, workflow : Workflow]
  BY <1>3 DEF GoTo, Idle, ApplyOK, ApplyCall
<1> QED BY <1>1, <1>2, <1>3 DEF IInv, CallInv

\* What is known inside a publish().
LEMMA InStage ==
  ASSUME StageInv, NEW s, InPublish(s)
  PROVE  /\ call # Idle /\ call.step = s /\ call.m \in Deliveries /\ StageOK
         /\ RowOK(call.m) /\ deliveries[call.m] \in Delivery
  BY DEF InPublish, At, StageInv, StageOK, RowTypes

\* A step of a publish() that keeps the runs, and the rows of the others.
LEMMA StageStep ==
  ASSUME StageInv, NEW d \in Deliveries, UNCHANGED <<remote, seen, runs>>,
         \A x \in Deliveries \ {d} :
           deliveries'[x] = deliveries[x] /\ children'[x] = children[x],
         RowTypes', RowOK(d)',
         \/ call' = Idle
         \/ /\ call'.m \in Deliveries /\ StageOK'
            /\ call'.step \notin {"initial", "push", "reconcile", "api", "returned"}
  PROVE  StageInv'
<1>1. ASSUME NEW x \in Deliveries PROVE RowOK(x)'
  <2>1. CASE x = d
    BY <2>1
  <2>2. CASE x # d
    <3>1. RowOK(x)
      BY DEF StageInv
    <3> QED BY <2>2, <3>1 DEF RowOK
  <2> QED BY <2>1, <2>2
<1>2. RunsInv'
  BY DEF StageInv, RunsInv, ReadBack
<1> QED BY <1>1, <1>2 DEF StageInv

\* A step that leaves every row alone.
LEMMA RowsKept ==
  ASSUME StageInv, UNCHANGED <<deliveries, children>>, seen \subseteq seen',
         \A d \in Deliveries :
           runs'[d] = runs[d] \/ (deliveries[d] # NoDelivery => deliveries[d].push = None)
  PROVE  RowTypes' /\ \A d \in Deliveries : RowOK(d)'
<1>1. RowTypes'
  BY DEF StageInv, RowTypes
<1>2. ASSUME NEW d \in Deliveries PROVE RowOK(d)'
  <2>1. RowOK(d)
    BY DEF StageInv
  <2> QED BY <2>1 DEF RowOK
<1> QED BY <1>1, <1>2

----------------------------------------------------------------------------
(* The stages are kept by the world, by operators and by a death           *)

LEMMA WorldStage ==
  ASSUME IInv, StageInv, World, UNCHANGED <<deliveries, children>>
  PROVE  StageInv'
<1>1. UNCHANGED <<runs, call>> /\ seen \subseteq seen'
  BY DEF World, tick, disturbWorkspace, moveRemote, land, lose
<1>2. remote' \in seen'
  BY DEF World, tick, disturbWorkspace, moveRemote, land, lose, StageInv, RunsInv
<1>3. RowTypes' /\ \A d \in Deliveries : RowOK(d)'
  BY <1>1, RowsKept
<1>4. RunsInv'
  BY <1>1, <1>2 DEF StageInv, RunsInv, ReadBack
<1>5. call' # Idle /\ call'.m \in Deliveries => StageOK'
  BY <1>1 DEF StageInv, StageOK
<1> QED BY <1>3, <1>4, <1>5 DEF StageInv

LEMMA OperatorStage ==
  ASSUME IInv, StageInv, OperatorCall \/ crash, UNCHANGED <<deliveries, children>>
  PROVE  StageInv'
<1>1. UNCHANGED <<runs, seen, remote>>
  BY DEF OperatorCall, crash, workspaceCall, preview, apply, operatorAnswered
<1>2. \/ call' = call \/ call' = Idle
      \/ call'.m = Operator /\ call'.step = "reserve"
  BY DEF OperatorCall, crash, workspaceCall, preview, apply, operatorAnswered
<1>3. RowTypes' /\ \A d \in Deliveries : RowOK(d)'
  BY <1>1, RowsKept
<1>4. RunsInv'
  BY <1>1, <1>2 DEF StageInv, RunsInv, ReadBack
<1>5. call' # Idle /\ call'.m \in Deliveries => StageOK'
  BY <1>2, DeliveriesAssumption DEF StageInv, StageOK
<1> QED BY <1>3, <1>4, <1>5 DEF StageInv

----------------------------------------------------------------------------
(* The stages are kept by apply                                            *)

\* A step of an apply that goes to step t and writes at most its own run.
LEMMA ApplyStage ==
  ASSUME IInv, StageInv, UNCHANGED <<deliveries, children, seen, remote>>,
         ApplyOK, call.step # "threw",
         NEW t \in ApplySteps, GoTo(t),
         \A m \in Mutations \ {call.m} : runs'[m] = runs[m],
         runs'[call.m].state = "verified" =>
           ReadBack(call.m)' /\ runs'[call.m].api = runs'[call.m].git,
         t \in {"initial", "push", "reconcile", "api"}
           => runs'[call.m].state # "verified",
         t = "api" => ReadBack(call.m)' /\ runs'[call.m].git = call.plan.new,
         t = "returned" => runs'[call.m].state = "verified"
  PROVE  StageInv'
<1>1. call # Idle /\ call.m \in Mutations /\ call.step \in ApplySteps
  BY DEF ApplyOK, ApplyCall, Idle, ApplySteps
<1>2. call'.step = t /\ call'.m = call.m /\ call'.plan = call.plan
  BY <1>1, GoToFields DEF ApplySteps
<1>3. RowTypes' /\ \A d \in Deliveries : RowOK(d)'
  <2>1. \A d \in Deliveries : d # call.m => runs'[d] = runs[d]
    BY DeliveriesAssumption
  <2>2. call.m \in Deliveries => deliveries[call.m].push = None
    BY <1>1 DEF StageInv, StageOK
  <2> QED BY <2>1, <2>2, RowsKept
<1>4. RunsInv'
  <2>1. ASSUME NEW m \in Mutations, runs'[m].state = "verified"
        PROVE  ReadBack(m)' /\ runs'[m].api = runs'[m].git
    <3>1. CASE m = call.m
      BY <1>2, <2>1, <3>1 DEF ReadBack
    <3>2. CASE m # call.m
      BY <2>1, <3>2 DEF StageInv, RunsInv, ReadBack
    <3> QED BY <3>1, <3>2
  <2> QED BY <1>2, <2>1 DEF StageInv, RunsInv, ReadBack
<1>5. call.m \in Deliveries => StageOK'
  <2> SUFFICES ASSUME call.m \in Deliveries PROVE StageOK'
    OBVIOUS
  <2>1. StageOK
    BY <1>1 DEF StageInv
  <2>2. deliveries[call.m].push = None /\ deliveries[call.m] # NoDelivery
        /\ ~Terminal(deliveries[call.m])
    BY <1>1, <2>1 DEF StageOK, ApplySteps
  <2> QED BY <1>2, <2>2
          DEF StageOK, Terminal, ApplySteps, PrSteps, PollSteps, WaitSteps
<1> QED BY <1>2, <1>3, <1>4, <1>5 DEF StageInv

LEMMA ReserveStage ==
  ASSUME IInv, StageInv, reserveRun, UNCHANGED <<deliveries, children>>
  PROVE  StageInv'
<1> DEFINE m == call.m
<1>1. /\ ApplyOK /\ m \in Mutations /\ call.step = "reserve"
      /\ UNCHANGED <<seen, remote>>
  BY AtApply DEF reserveRun, IInv
<1>2. \A x \in Mutations \ {m} : runs'[x] = runs[x]
  BY <1>1 DEF reserveRun, IInv, TypeInv
<1>3. runs[m].state = "verified" =>
        ReadBack(m) /\ runs[m].api = runs[m].git
  BY <1>1 DEF StageInv, RunsInv
<1>4. CASE Throw /\ UNCHANGED runs
  <2>1. call'.m = m
    BY <1>1, <1>4, GoToFields DEF Throw, Idle
  <2> QED BY <1>1, <1>2, <1>3, <1>4, <2>1, ApplyStage
          DEF Throw, ApplySteps, ReadBack
<1>5. CASE /\ runs' = [runs EXCEPT ![m] =
                [state |-> "intent_persisted", plan |-> call.plan,
                 print |-> call.print, attempt |-> 0,
                 git |-> None, api |-> None]]
           /\ GoTo("initial")
  <2>1. runs'[m].state = "intent_persisted"
    BY <1>1, <1>5 DEF IInv, TypeInv
  <2> QED BY <1>1, <1>2, <1>5, <2>1, ApplyStage DEF ApplySteps
<1>6. CASE /\ runs[m] # NoRun /\ UNCHANGED runs
           /\ GoTo(IF Retried(runs[m]) THEN "initial" ELSE "returned")
  <2>1. CASE runs[m].state # "verified"
    BY <1>1, <1>2, <1>6, <2>1, ApplyStage DEF Retried, ApplySteps
  <2>2. CASE runs[m].state = "verified"
    <3>1. GoTo("returned")
      BY <1>6, <2>2 DEF Retried
    <3>2. call'.m = m
      BY <1>1, <3>1, GoToFields DEF Idle
    <3> QED BY <1>1, <1>2, <1>3, <1>6, <2>2, <3>1, <3>2, ApplyStage
            DEF ApplySteps, ReadBack
  <2> QED BY <2>1, <2>2
<1> QED BY <1>4, <1>5, <1>6 DEF reserveRun

LEMMA FailStage ==
  ASSUME IInv, StageInv, NEW s \in {"initial", "reconcile"}, At(s),
         NEW state \in {"failed", "ambiguous"}, failRun(state),
         UNCHANGED <<deliveries, children, seen, remote>>
  PROVE  StageInv'
<1>1. /\ ApplyOK /\ call.m \in Mutations /\ runs[call.m] \in AnyRun
      /\ call.step = s
  BY PastReserve DEF At
<1>2. /\ runs'[call.m].state = state
      /\ \A x \in Mutations \ {call.m} : runs'[x] = runs[x]
  BY <1>1 DEF failRun, SetRun, IInv, TypeInv, AnyRun
<1> QED BY <1>1, <1>2, ApplyStage DEF failRun, Throw, ApplySteps

LEMMA ReconciledStage ==
  ASSUME IInv, StageInv, NEW s \in {"initial", "reconcile"}, At(s),
         remote = call.plan.new, recordReconciled,
         UNCHANGED <<deliveries, children, seen, remote>>
  PROVE  StageInv'
<1>1. /\ ApplyOK /\ call.m \in Mutations /\ runs[call.m] \in AnyRun
      /\ call.step = s
  BY PastReserve DEF At
<1>2. /\ runs'[call.m].state = "remote_reconciled"
      /\ runs'[call.m].git = remote
      /\ \A x \in Mutations \ {call.m} : runs'[x] = runs[x]
  BY <1>1 DEF recordReconciled, IInv, TypeInv, AnyRun
<1>3. GoTo("api")
  BY DEF recordReconciled
<1>4. call'.m = call.m
  BY <1>1, <1>3, GoToFields DEF ApplyOK, ApplyCall, Idle, ApplySteps
<1>5. ReadBack(call.m)'
  BY <1>1, <1>2, <1>4 DEF ReadBack, StageInv, RunsInv
<1> QED BY <1>1, <1>2, <1>3, <1>5, ApplyStage DEF ApplySteps

LEMMA ApplyStepStage ==
  ASSUME IInv, StageInv, ApplyStep, UNCHANGED <<deliveries, children>>
  PROVE  StageInv'
<1>1. CASE reserveRun
  BY <1>1, ReserveStage
<1>2. CASE initialReadback
  <2>1. At("initial") /\ UNCHANGED <<seen, remote>>
    BY <1>2 DEF initialReadback
  <2>2. CASE remote = call.plan.new /\ recordReconciled
    BY <2>1, <2>2, ReconciledStage
  <2>3. CASE failRun("failed")
    BY <2>1, <2>3, FailStage
  <2>4. CASE recordAttempt /\ GoTo("push")
    <3>1. /\ ApplyOK /\ call.m \in Mutations /\ runs[call.m] \in AnyRun
          /\ call.step = "initial"
      BY <2>1, PastReserve DEF At
    <3>2. /\ runs'[call.m].state = "remote_attempted"
          /\ \A x \in Mutations \ {call.m} : runs'[x] = runs[x]
      BY <2>4, <3>1 DEF recordAttempt, IInv, TypeInv, AnyRun
    <3> QED BY <2>1, <2>4, <3>1, <3>2, ApplyStage DEF ApplySteps
  <2> QED BY <1>2, <2>2, <2>3, <2>4 DEF initialReadback
<1>3. CASE push
  <2>1. /\ At("push") /\ UNCHANGED <<seen, remote, runs>> /\ GoTo("reconcile")
    BY <1>3 DEF push
  <2>2. ApplyOK /\ call.step = "push" /\ call # Idle
    BY <2>1, PastReserve DEF At
  <2>3. runs[call.m].state # "verified"
    BY <2>2 DEF StageInv, RunsInv
  <2> QED BY <2>1, <2>2, <2>3, ApplyStage DEF ApplySteps
<1>4. CASE reconcile
  <2>1. At("reconcile") /\ UNCHANGED <<seen, remote>>
    BY <1>4 DEF reconcile
  <2>2. CASE remote = call.plan.new /\ recordReconciled
    BY <2>1, <2>2, ReconciledStage
  <2>3. CASE failRun(IF remote = call.plan.old THEN "failed" ELSE "ambiguous")
    BY <2>1, <2>3, FailStage
  <2> QED BY <1>4, <2>2, <2>3 DEF reconcile
<1>5. ASSUME NEW c \in seen, apiReadback(c) PROVE StageInv'
  <2>1. At("api") /\ UNCHANGED <<seen, remote>>
    BY <1>5 DEF apiReadback
  <2>2. /\ ApplyOK /\ call.m \in Mutations /\ runs[call.m] \in AnyRun
        /\ call.step = "api" /\ call # Idle
    BY <2>1, PastReserve DEF At
  <2>3. runs[call.m].state # "verified" /\ ReadBack(call.m)
        /\ runs[call.m].git = call.plan.new
    BY <2>2 DEF StageInv, RunsInv
  <2>4. CASE Throw /\ UNCHANGED runs
    BY <2>1, <2>2, <2>3, <2>4, ApplyStage DEF Throw, ApplySteps
  <2>5. CASE /\ ApiAgrees(c)
             /\ runs' = [runs EXCEPT ![call.m].state = "verified", ![call.m].api = c]
             /\ GoTo("returned")
    <3>1. /\ runs'[call.m].api = c /\ runs'[call.m].git = runs[call.m].git
          /\ runs'[call.m].state = "verified"
          /\ \A x \in Mutations \ {call.m} : runs'[x] = runs[x]
      BY <2>2, <2>5 DEF IInv, TypeInv, AnyRun
    <3>2. call'.m = call.m
      BY <2>2, <2>5, GoToFields
    <3>3. ReadBack(call.m)'
      BY <2>1, <2>3, <3>1, <3>2 DEF ReadBack
    <3>4. runs'[call.m].api = runs'[call.m].git
      BY <2>3, <2>5, <3>1 DEF ApiAgrees
    <3> QED BY <2>1, <2>2, <2>5, <3>1, <3>3, <3>4, ApplyStage DEF ApplySteps
  <2> QED BY <1>5, <2>4, <2>5 DEF apiReadback
<1>6. CASE applyThrows
  <2>1. /\ call # Idle
        /\ call.step \in {"reserve", "initial", "push", "reconcile", "api", "returned"}
        /\ UNCHANGED <<seen, remote, runs>> /\ GoTo("threw")
    BY <1>6 DEF applyThrows, Throw, ApplySteps
  <2>2. ApplyOK /\ call.m \in Mutations
    BY <2>1, AtApply DEF At, IInv
  <2>3. runs[call.m].state = "verified" =>
          ReadBack(call.m) /\ runs[call.m].api = runs[call.m].git
    BY <2>2 DEF StageInv, RunsInv
  <2>4. call'.m = call.m
    BY <2>1, GoToFields
  <2> QED BY <2>1, <2>2, <2>3, <2>4, ApplyStage DEF ApplySteps, ReadBack
<1> QED BY <1>1, <1>2, <1>3, <1>4, <1>5, <1>6 DEF ApplyStep

----------------------------------------------------------------------------
(* The stages are kept by the publisher                                    *)

\* What writing one child run leaves of the others.
LEMMA ChildWritten ==
  ASSUME RowTypes, call.m \in Deliveries, NEW k \in ChildKinds,
         NEW v \in ChildType(k), UNCHANGED deliveries, SetChild(k, v)
  PROVE  /\ RowTypes'
         /\ children'[call.m][k] = v
         /\ \A j \in ChildKinds \ {k} : children'[call.m][j] = children[call.m][j]
         /\ \A x \in Deliveries \ {call.m} : children'[x] = children[x]
<1>1. v \in AnyChild
  BY DEF AnyChild, ChildType
<1>2. /\ children'[call.m][k] = v
      /\ \A j \in ChildKinds \ {k} : children'[call.m][j] = children[call.m][j]
      /\ \A x \in Deliveries \ {call.m} : children'[x] = children[x]
  BY DEF RowTypes, SetChild
<1>3. children' \in [Deliveries -> [ChildKinds -> AnyChild]]
  BY <1>1 DEF RowTypes, SetChild
<1>4. ASSUME NEW x \in Deliveries, NEW j \in ChildKinds
      PROVE  children'[x][j] \in ChildType(j) \cup {NoChild}
  BY <1>2 DEF RowTypes
<1> QED BY <1>2, <1>3, <1>4 DEF RowTypes

\* The same for a write of its state alone.
LEMMA ChildStateWritten ==
  ASSUME RowTypes, call.m \in Deliveries, NEW k \in ChildKinds,
         children[call.m][k] # NoChild, NEW state \in ChildState,
         UNCHANGED deliveries, ChildTo(k, state)
  PROVE  /\ RowTypes'
         /\ children'[call.m][k] # NoChild /\ children'[call.m][k].state = state
         /\ children'[call.m][k].key = children[call.m][k].key
         /\ \A j \in ChildKinds \ {k} : children'[call.m][j] = children[call.m][j]
         /\ \A x \in Deliveries \ {call.m} : children'[x] = children[x]
<1> DEFINE v == [children[call.m][k] EXCEPT !.state = state]
<1>1. children[call.m][k] \in ChildType(k)
  BY DEF RowTypes
<1>2. /\ v \in ChildType(k) /\ v.state = state /\ v.key = children[call.m][k].key
      /\ v # NoChild
  BY <1>1 DEF ChildType, PrChild, WorkflowChild, ArtifactsChild, NoChild, ChildState
<1>3. /\ children'[call.m][k] = v
      /\ \A j \in ChildKinds \ {k} : children'[call.m][j] = children[call.m][j]
      /\ \A x \in Deliveries \ {call.m} : children'[x] = children[x]
  BY DEF RowTypes, ChildTo
<1>4. v \in AnyChild
  BY <1>2 DEF AnyChild, ChildType
<1>5. children' \in [Deliveries -> [ChildKinds -> AnyChild]]
  BY <1>4 DEF RowTypes, ChildTo
<1> HIDE DEF v
<1>6. ASSUME NEW x \in Deliveries, NEW j \in ChildKinds
      PROVE  children'[x][j] \in ChildType(j) \cup {NoChild}
  BY <1>2, <1>3 DEF RowTypes
<1>7. RowTypes'
  BY <1>5, <1>6 DEF RowTypes
<1> QED BY <1>2, <1>3, <1>7

\* The result that a child run of kind k is for.
Lacks(r, k) ==
  CASE k = "pr"       -> r.pr = None
    [] k = "workflow" -> r.workflow = None
    [] OTHER          -> r.artifacts = None

\* A row does not rest on the child run of a result it lacks.
LEMMA RowLacks ==
  ASSUME NEW d \in Deliveries, RowOK(d), UNCHANGED <<deliveries, seen, runs>>,
         NEW k \in ChildKinds, Lacks(deliveries[d], k),
         \A j \in ChildKinds \ {k} : children'[d][j] = children[d][j]
  PROVE  RowOK(d)'
<1>1. CASE k = "pr"
  BY <1>1 DEF RowOK, ChildKinds, Lacks
<1>2. CASE k = "workflow"
  BY <1>2 DEF RowOK, ChildKinds, Lacks
<1>3. CASE k = "artifacts"
  BY <1>3 DEF RowOK, ChildKinds, Lacks
<1> QED BY <1>1, <1>2, <1>3 DEF ChildKinds

\* The catch block's step, and everything else that only moves on.
LEMMA MoveOn ==
  ASSUME StageInv, NEW d \in Deliveries, UNCHANGED <<remote, seen, runs, deliveries, children>>,
         call'.m \in Deliveries, StageOK',
         call'.step \notin {"initial", "push", "reconcile", "api", "returned"}
  PROVE  StageInv'
<1>1. RowTypes' /\ RowOK(d)'
  BY RowsKept
<1> QED BY <1>1, StageStep

\* Throwing keeps the stage, wherever a publish() is.
LEMMA ThrowStage ==
  ASSUME IInv, StageInv, call # Idle, call.m \in Deliveries, Throw,
         UNCHANGED <<remote, seen, runs, deliveries, children>>
  PROVE  StageInv'
<1>1. call'.m = call.m /\ call'.step = "threw"
  BY GoToFields DEF Throw
<1>2. StageOK
  BY DEF StageInv
<1>3. StageOK'
  BY <1>1, <1>2 DEF StageOK, Terminal, ApplySteps, PrSteps, PollSteps, WaitSteps
<1> QED BY <1>1, <1>3, MoveOn

\* The same when it stores the end of a child run first.
LEMMA ChildThrowStage ==
  ASSUME IInv, StageInv, call # Idle, call.m \in Deliveries, Throw,
         NEW k \in ChildKinds, NEW state \in ChildState, ChildTo(k, state),
         Child(k) # NoChild, Lacks(deliveries[call.m], k),
         UNCHANGED <<remote, seen, runs, deliveries>>
  PROVE  StageInv'
<1> DEFINE d == call.m
<1>1. call'.m = d /\ call'.step = "threw"
  BY GoToFields DEF Throw
<1>2. /\ RowTypes'
      /\ \A j \in ChildKinds \ {k} : children'[d][j] = children[d][j]
      /\ \A x \in Deliveries \ {d} : children'[x] = children[x]
  BY ChildStateWritten DEF Child, StageInv
<1>3. RowOK(d) /\ StageOK
  BY DEF StageInv
<1>4. StageOK'
  BY <1>1, <1>3 DEF StageOK, Terminal, ApplySteps, PrSteps, PollSteps, WaitSteps
<1> HIDE DEF d
<1>5. ASSUME NEW x \in Deliveries, x = d PROVE RowOK(x)'
  BY <1>2, <1>3, <1>5, RowLacks DEF d
<1>6. d \in Deliveries
  BY DEF d
<1> QED BY <1>1, <1>2, <1>4, <1>5, <1>6, StageStep

LEMMA PublishStage ==
  ASSUME IInv, StageInv, NEW d \in Deliveries, publish(d)
  PROVE  StageInv'
<1>1. UNCHANGED <<remote, seen, runs, children>>
  BY DEF publish, gitVars
<1>2. CASE reserve(d) /\ call' = [step |-> "preview", m |-> d]
  <2> DEFINE row == [state |-> "intent_persisted", push |-> None, pr |-> None,
                     workflow |-> None, artifacts |-> None, partialSuccess |-> FALSE]
  <2>1. row \in Delivery
    BY DEF Delivery, DeliveryState, Objects
  <2>2. /\ deliveries' \in [Deliveries -> Delivery \cup {NoDelivery}]
        /\ deliveries'[d] = row
        /\ \A x \in Deliveries \ {d} : deliveries'[x] = deliveries[x]
    BY <1>2, <2>1 DEF reserve, StageInv, RowTypes
  <2>3. RowTypes'
    BY <1>1, <2>2 DEF StageInv, RowTypes
  <2>4. RowOK(d)'
    BY <2>2 DEF RowOK
  <2>5. StageOK'
    BY <1>2, <2>2
       DEF StageOK, NoDelivery, Terminal, ApplySteps, PrSteps, PollSteps, WaitSteps
  <2> QED BY <1>1, <1>2, <2>2, <2>3, <2>4, <2>5, StageStep
<1>3. CASE /\ deliveries[d] # NoDelivery /\ ~Terminal(deliveries[d])
           /\ call' = [step |-> ResumeAt(deliveries[d]), m |-> d]
           /\ UNCHANGED deliveries
  <2> DEFINE r == deliveries[d]
  <2>1. RowOK(d)
    BY DEF StageInv
  <2>2. \/ r.push = None /\ ResumeAt(r) = "preview"
        \/ r.push # None /\ r.pr = None /\ ResumeAt(r) = "pr"
        \/ r.pr # None /\ r.workflow = None /\ ResumeAt(r) = "find"
        \/ r.workflow # None /\ r.artifacts = None /\ ResumeAt(r) = "artifacts"
        \/ r.artifacts # None /\ ResumeAt(r) = "complete"
    BY DEF ResumeAt
  <2>3. StageOK'
    BY <1>1, <1>3, <2>1, <2>2
       DEF StageOK, RowOK, Terminal, ApplySteps, PrSteps, PollSteps, WaitSteps
  <2> QED BY <1>1, <1>3, <2>2, <2>3, MoveOn
<1> QED BY <1>2, <1>3 DEF publish

LEMMA PreviewStage ==
  ASSUME IInv, StageInv, previewPush
  PROVE  StageInv'
<1>1. /\ call # Idle /\ call.step = "preview" /\ call.m \in Deliveries /\ StageOK
      /\ UNCHANGED <<remote, seen, runs, deliveries, children>>
  BY InStage DEF previewPush
<1>2. CASE Throw
  BY <1>1, <1>2, ThrowStage
<1>3. CASE call' = [step |-> "reserve", m |-> call.m, plan |-> PlanOf(ExpectedOld, ExpiresAt),
                    print |-> PlanOf(ExpectedOld, ExpiresAt)]
  <2>1. call'.m = call.m /\ call'.step = "reserve"
    BY <1>3
  <2>2. StageOK'
    BY <1>1, <2>1 DEF StageOK, Terminal, ApplySteps, PrSteps, PollSteps, WaitSteps
  <2> QED BY <1>1, <2>1, <2>2, MoveOn
<1> QED BY <1>2, <1>3 DEF previewPush

\* A step that writes at most the child run of the stage it is at.
LEMMA ChildStage ==
  ASSUME StageInv, NEW d \in Deliveries, NEW k \in ChildKinds,
         Lacks(deliveries[d], k), UNCHANGED <<remote, seen, runs, deliveries>>,
         RowTypes',
         \A j \in ChildKinds \ {k} : children'[d][j] = children[d][j],
         \A x \in Deliveries \ {d} : children'[x] = children[x],
         call'.m \in Deliveries, StageOK',
         call'.step \notin {"initial", "push", "reconcile", "api", "returned"}
  PROVE  StageInv'
<1>1. RowOK(d)
  BY DEF StageInv
<1>2. RowOK(d)'
  BY <1>1, RowLacks
<1> QED BY <1>2, StageStep

\* Recording a result: the new row, field by field.
LEMMA RowRecorded ==
  ASSUME RowTypes, NEW d \in Deliveries, call.m = d, deliveries[d] # NoDelivery,
         NEW field \in {"push", "pr", "workflow", "artifacts"},
         NEW value, field = "workflow" => value \in Workflow,
         field # "workflow" => value \in Objects,
         NEW state \in DeliveryState, UNCHANGED children, NEW t,
         Record(field, value, state, t)
  PROVE  /\ RowTypes'
         /\ \A x \in Deliveries \ {d} : deliveries'[x] = deliveries[x]
         /\ deliveries'[d] \in Delivery
         /\ deliveries'[d].state = state
         /\ deliveries'[d].push = IF field = "push" THEN value ELSE deliveries[d].push
         /\ deliveries'[d].pr = IF field = "pr" THEN value ELSE deliveries[d].pr
         /\ deliveries'[d].workflow =
              IF field = "workflow" THEN value ELSE deliveries[d].workflow
         /\ deliveries'[d].artifacts =
              IF field = "artifacts" THEN value ELSE deliveries[d].artifacts
<1> DEFINE r == deliveries[d]
           s == [r EXCEPT ![field] = value]
           u == [s EXCEPT !.state = state]
<1>1. r \in Delivery
  BY DEF RowTypes
<1>2. /\ s \in Delivery
      /\ s.push = IF field = "push" THEN value ELSE r.push
      /\ s.pr = IF field = "pr" THEN value ELSE r.pr
      /\ s.workflow = IF field = "workflow" THEN value ELSE r.workflow
      /\ s.artifacts = IF field = "artifacts" THEN value ELSE r.artifacts
  <2>1. CASE field = "push"
    BY <1>1, <2>1 DEF Delivery
  <2>2. CASE field = "pr"
    BY <1>1, <2>2 DEF Delivery
  <2>3. CASE field = "workflow"
    BY <1>1, <2>3 DEF Delivery
  <2>4. CASE field = "artifacts"
    BY <1>1, <2>4 DEF Delivery
  <2> QED BY <2>1, <2>2, <2>3, <2>4
<1>3. /\ deliveries'[d] = u
      /\ \A x \in Deliveries \ {d} : deliveries'[x] = deliveries[x]
      /\ DOMAIN deliveries' = Deliveries
      /\ deliveries' = [x \in Deliveries |-> deliveries'[x]]
  BY DEF RowTypes, Record
<1> HIDE DEF s
<1>4. /\ u \in Delivery /\ u.state = state /\ u.push = s.push /\ u.pr = s.pr
      /\ u.workflow = s.workflow /\ u.artifacts = s.artifacts
  BY <1>2 DEF Delivery
<1> HIDE DEF u
<1>5. deliveries' \in [Deliveries -> Delivery \cup {NoDelivery}]
  BY <1>3, <1>4 DEF RowTypes
<1>6. RowTypes'
  BY <1>5 DEF RowTypes
<1> QED BY <1>2, <1>3, <1>4, <1>6

\* A recorded result of a row that is not final.
LEMMA RecordStage ==
  ASSUME StageInv, NEW d \in Deliveries, call.m = d,
         NEW field \in {"push", "pr", "workflow", "artifacts"},
         NEW value, field = "workflow" => value \in Workflow,
         field # "workflow" => value \in Objects,
         NEW state \in DeliveryState \ {"completed", "failed", "cancelled"},
         NEW t \in {"pr", "find", "artifacts", "complete"},
         Record(field, value, state, t),
         UNCHANGED <<remote, seen, runs, children>>, deliveries[d] # NoDelivery,
         RowOK(d)',
         t = "pr" => deliveries'[d].push # None /\ deliveries'[d].pr = None,
         t = "find" => deliveries'[d].pr # None /\ deliveries'[d].workflow = None,
         t = "artifacts" =>
           deliveries'[d].workflow # None /\ deliveries'[d].artifacts = None,
         t = "complete" => deliveries'[d].artifacts # None
  PROVE  StageInv'
<1>1. /\ RowTypes' /\ deliveries'[d] \in Delivery /\ deliveries'[d].state = state
      /\ \A x \in Deliveries \ {d} : deliveries'[x] = deliveries[x]
  BY RowRecorded DEF StageInv
<1>2. call' = [step |-> t, m |-> d]
  BY DEF Record
<1>3. deliveries'[d] # NoDelivery /\ ~Terminal(deliveries'[d])
  BY <1>1 DEF NoDelivery, Terminal, DeliveryState
<1>4. call'.m = d /\ call'.step = t
  BY <1>2
<1>5. StageOK'
  BY <1>3, <1>4 DEF StageOK, Terminal, ApplySteps, PrSteps, PollSteps, WaitSteps
<1> QED BY <1>1, <1>4, <1>5, StageStep

LEMMA PushVerifiedStage ==
  ASSUME IInv, StageInv, pushVerified
  PROVE  StageInv'
<1> DEFINE d == call.m
           r == deliveries[d]
<1>1. /\ call # Idle /\ call.step = "returned" /\ d \in Deliveries /\ StageOK
      /\ RowOK(d) /\ r \in Delivery
      /\ UNCHANGED <<remote, seen, runs, children>>
  BY InStage DEF pushVerified, gitVars
<1>2. CASE Throw /\ UNCHANGED deliveries
  BY <1>1, <1>2, ThrowStage
<1>3. CASE /\ runs[d].git = call.plan.new
           /\ Record("push", runs[d].git, "push_verified", "pr")
  <2> DEFINE c == runs[d].git
  <2>1. /\ runs[d].state = "verified"
        /\ c \in seen /\ runs[d].api = c
    BY <1>1, <1>3, DeliveriesAssumption DEF StageInv, RunsInv, ReadBack
  <2>2. c \in Commits /\ c \in Objects /\ c # None
    <3>1. ApplyOK
      BY <1>1, AtApply DEF pushVerified, InPublish, IInv
    <3>2. call.plan.new \in Commits
      BY <3>1 DEF ApplyOK, ApplyCall, Plan
    <3> QED BY <1>3, <3>2, NoneAssumption DEF Objects
  <2>3. r # NoDelivery /\ r.push = None /\ r.pr = None /\ r.workflow = None
        /\ r.artifacts = None
    BY <1>1 DEF StageOK, RowOK, ApplySteps
  <2>4. /\ deliveries'[d].push = c /\ deliveries'[d].pr = None
        /\ deliveries'[d].workflow = None /\ deliveries'[d].artifacts = None
        /\ deliveries'[d].state = "push_verified"
    BY <1>1, <1>3, <2>2, <2>3, RowRecorded DEF StageInv, DeliveryState
  <2>5. ASSUME NEW x \in Deliveries, x = d PROVE RowOK(x)'
    BY <1>1, <2>1, <2>2, <2>4, <2>5 DEF RowOK
  <2> HIDE DEF d, c
  <2>6. d = call.m /\ c = runs[d].git
    BY DEF d, c
  <2> QED BY <1>1, <1>3, <2>2, <2>3, <2>4, <2>5, <2>6, RecordStage DEF DeliveryState
<1> QED BY <1>2, <1>3 DEF pushVerified

LEMMA PullRequestStage ==
  ASSUME IInv, StageInv,
         \/ reservePullRequest \/ finishPullRequest
         \/ \E b \in BOOLEAN : findPullRequest(b)
         \/ \E o \in {"completed", "failed", "unknown"}, b \in BOOLEAN : writePullRequest(o, b)
  PROVE  StageInv'
<1> DEFINE d == call.m
           r == deliveries[d]
<1>1. PICK s \in PrSteps \ {"prVerify"} : InPublish(s)
  BY DEF reservePullRequest, finishPullRequest, findPullRequest, writePullRequest, PrSteps
<1>2. /\ call # Idle /\ call.step = s /\ d \in Deliveries /\ StageOK
      /\ r \in Delivery /\ r # NoDelivery /\ ~Terminal(r)
      /\ r.push # None /\ r.pr = None
      /\ s # "pr" => children[d]["pr"] # NoChild
  BY <1>1, InStage DEF StageOK, PrSteps
<1>3. /\ UNCHANGED <<remote, seen, runs, deliveries>>
      /\ "pr" \in ChildKinds /\ Lacks(r, "pr")
      /\ r.push \in Commits /\ RowTypes
  BY <1>2 DEF reservePullRequest, finishPullRequest, findPullRequest, writePullRequest,
     gitVars, ChildKinds, Lacks, StageInv, Delivery, Objects
<1>4. ASSUME NEW t \in {"prFind", "prWrite", "prReconciled", "prVerified", "prVerify"},
             GoTo(t), RowTypes',
             \A j \in ChildKinds \ {"pr"} : children'[d][j] = children[d][j],
             \A x \in Deliveries \ {d} : children'[x] = children[x],
             children'[d]["pr"] # NoChild,
             t = "prVerify" => children'[d]["pr"].state = "verified"
      PROVE  StageInv'
  <2>1. call'.m = d /\ call'.step = t
    BY <1>2, <1>4, GoToFields
  <2>2. StageOK'
    BY <1>2, <1>3, <1>4, <2>1
       DEF StageOK, Terminal, ApplySteps, PrSteps, PollSteps, WaitSteps
  <2> HIDE DEF d
  <2> QED BY <1>2, <1>3, <1>4, <2>1, <2>2, ChildStage
<1>5. ASSUME NEW t \in {"prFind", "prWrite", "prReconciled", "prVerified", "prVerify"},
             GoTo(t), NEW state \in ChildState, ChildTo("pr", state), s # "pr",
             t = "prVerify" => state = "verified"
      PROVE  StageInv'
  <2>1. /\ RowTypes' /\ children'[d]["pr"] # NoChild
        /\ children'[d]["pr"].state = state
        /\ \A j \in ChildKinds \ {"pr"} : children'[d][j] = children[d][j]
        /\ \A x \in Deliveries \ {d} : children'[x] = children[x]
    BY <1>2, <1>3, <1>5, ChildStateWritten
  <2> QED BY <1>4, <1>5, <2>1
<1>6. CASE reservePullRequest
  <2>1. CASE /\ Child("pr") = NoChild
             /\ SetChild("pr", [state |-> "intent_persisted", key |-> Commit])
             /\ GoTo("prFind")
    <3> DEFINE v == [state |-> "intent_persisted", key |-> Commit]
    <3>1. v \in ChildType("pr") /\ v # NoChild
      BY <1>3 DEF ChildType, PrChild, ChildState, Commit, NoChild
    <3>2. SetChild("pr", v)
      BY <2>1
    <3> HIDE DEF v
    <3>3. /\ RowTypes' /\ children'[d]["pr"] = v
          /\ \A j \in ChildKinds \ {"pr"} : children'[d][j] = children[d][j]
          /\ \A x \in Deliveries \ {d} : children'[x] = children[x]
      BY <1>2, <1>3, <3>1, <3>2, ChildWritten
    <3> QED BY <1>4, <2>1, <3>1, <3>3
  <2>2. CASE /\ Child("pr") # NoChild /\ UNCHANGED children
             /\ GoTo(IF Child("pr").key # Commit \/ Child("pr").state = "failed"
                     THEN "threw"
                     ELSE IF Child("pr").state = "verified" THEN "prVerify" ELSE "prFind")
    <3>1. RowTypes'
      BY <1>3, <2>2 DEF RowTypes
    <3>2. CASE GoTo("threw")
      BY <1>2, <1>3, <2>2, <3>2, ThrowStage DEF Throw
    <3>3. CASE GoTo("prVerify") /\ Child("pr").state = "verified"
      BY <1>4, <2>2, <3>1, <3>3 DEF Child
    <3>4. CASE GoTo("prFind")
      BY <1>4, <2>2, <3>1, <3>4 DEF Child
    <3> QED BY <2>2, <3>2, <3>3, <3>4
  <2> QED BY <1>6, <2>1, <2>2 DEF reservePullRequest
<1>7. CASE finishPullRequest
  <2>1. CASE InPublish("prReconciled") /\ ChildTo("pr", "remote_reconciled") /\ GoTo("prVerified")
    BY <1>2, <1>5, <2>1 DEF ChildState, InPublish, At
  <2>2. CASE InPublish("prVerified") /\ ChildTo("pr", "verified") /\ GoTo("prVerify")
    BY <1>2, <1>5, <2>2 DEF ChildState, InPublish, At
  <2> QED BY <1>7, <2>1, <2>2 DEF finishPullRequest
<1>8. ASSUME GoTo("prReconciled"), UNCHANGED children, s # "pr" PROVE StageInv'
  <2>1. RowTypes'
    BY <1>3, <1>8 DEF RowTypes
  <2> QED BY <1>2, <1>4, <1>8, <2>1
<1>9. CASE \E b \in BOOLEAN : findPullRequest(b)
  <2>1. /\ s # "pr"
        /\ \/ GoTo("prReconciled") /\ UNCHANGED children
           \/ ChildTo("pr", "remote_attempted") /\ GoTo("prWrite")
    BY <1>2, <1>9 DEF findPullRequest, InPublish, At
  <2> QED BY <1>5, <1>8, <2>1 DEF ChildState
<1>10. CASE \E o \in {"completed", "failed", "unknown"}, b \in BOOLEAN : writePullRequest(o, b)
  <2>1. s # "pr"
    BY <1>2, <1>10 DEF writePullRequest, InPublish, At
  <2>2. CASE GoTo("prReconciled") /\ UNCHANGED children
    BY <1>8, <2>1, <2>2
  <2>3. CASE Throw /\ (ChildTo("pr", "failed") \/ ChildTo("pr", "ambiguous"))
    BY <1>2, <1>3, <2>1, <2>3, ChildThrowStage DEF ChildState, Child
  <2> QED BY <1>10, <2>2, <2>3 DEF writePullRequest
<1> QED BY <1>6, <1>7, <1>9, <1>10

LEMMA VerifyStage ==
  ASSUME IInv, StageInv, NEW h \in Commits, verifyPullRequest(h)
  PROVE  StageInv'
<1> DEFINE d == call.m
           r == deliveries[d]
<1>1. /\ call # Idle /\ call.step = "prVerify" /\ d \in Deliveries /\ StageOK
      /\ RowOK(d) /\ r \in Delivery
      /\ UNCHANGED <<remote, seen, runs, children>>
  BY InStage DEF verifyPullRequest, gitVars
<1>2. CASE Throw /\ UNCHANGED deliveries
  BY <1>1, <1>2, ThrowStage
<1>3. CASE h = Commit /\ Record("pr", h, "pr_verified", "find")
  <2>1. /\ r # NoDelivery /\ r.push # None /\ r.pr = None /\ r.workflow = None
        /\ r.artifacts = None /\ children[d]["pr"].state = "verified"
    BY <1>1 DEF StageOK, RowOK, PrSteps
  <2>2. h \in Objects /\ h # None /\ h = r.push
    BY <1>3, NoneAssumption DEF Objects, Commit
  <2>3. /\ deliveries'[d].push = r.push /\ deliveries'[d].pr = h
        /\ deliveries'[d].workflow = None /\ deliveries'[d].artifacts = None
        /\ deliveries'[d].state = "pr_verified"
    BY <1>1, <1>3, <2>1, <2>2, RowRecorded DEF StageInv, DeliveryState
  <2>4. ASSUME NEW x \in Deliveries, x = d PROVE RowOK(x)'
    BY <1>1, <2>1, <2>2, <2>3, <2>4 DEF RowOK
  <2> HIDE DEF d
  <2>5. d = call.m
    BY DEF d
  <2> QED BY <1>1, <1>3, <2>1, <2>2, <2>3, <2>4, <2>5, RecordStage DEF DeliveryState
<1> QED BY <1>2, <1>3 DEF verifyPullRequest

LEMMA FindStage ==
  ASSUME IInv, StageInv, NEW w \in Workflow, findWorkflow(w)
  PROVE  StageInv'
<1>1. /\ call # Idle /\ call.step = "find" /\ call.m \in Deliveries /\ StageOK
      /\ UNCHANGED <<remote, seen, runs, deliveries, children>>
  BY InStage DEF findWorkflow, gitVars
<1>2. CASE Throw
  BY <1>1, <1>2, ThrowStage
<1>3. CASE ExactCommit(w) /\ call' = [step |-> "wait", m |-> call.m, workflow |-> w]
  <2>1. call'.m = call.m /\ call'.step = "wait" /\ call'.workflow = w
    BY <1>3
  <2>2. w.sha = deliveries[call.m].push
    BY <1>3 DEF ExactCommit, Commit
  <2>3. StageOK'
    BY <1>1, <2>1, <2>2 DEF StageOK, Terminal, ApplySteps, PrSteps, PollSteps, WaitSteps
  <2> QED BY <1>1, <2>1, <2>3, MoveOn
<1> QED BY <1>2, <1>3 DEF findWorkflow

LEMMA WaitStage ==
  ASSUME IInv, StageInv,
         reserveWait \/ settleWait \/ (\E s \in Conclusion : poll(s))
  PROVE  StageInv'
<1> DEFINE d == call.m
           r == deliveries[d]
<1>1. PICK s \in {"wait", "poll", "succeeded", "unsuccessful"} : InPublish(s)
  BY DEF reserveWait, settleWait, poll
<1>2. /\ call # Idle /\ call.step = s /\ d \in Deliveries /\ StageOK
      /\ r \in Delivery /\ r # NoDelivery /\ ~Terminal(r)
      /\ r.pr # None /\ r.workflow = None /\ call.workflow.sha = r.push
      /\ s # "wait" => /\ children[d]["workflow"] # NoChild
                       /\ children[d]["workflow"].key = call.workflow
  BY <1>1, InStage DEF StageOK, WaitSteps, PollSteps
<1>3. /\ UNCHANGED <<remote, seen, runs, deliveries>>
      /\ "workflow" \in ChildKinds /\ Lacks(r, "workflow") /\ RowTypes
  BY <1>2 DEF reserveWait, settleWait, poll, gitVars, ChildKinds, Lacks, StageInv
<1>4. call \in [step : WaitSteps, m : Deliveries, workflow : Workflow]
  BY <1>1, InWaitSteps DEF WaitSteps
<1>5. ASSUME NEW t \in PollSteps, GoTo(t), RowTypes',
             \A j \in ChildKinds \ {"workflow"} : children'[d][j] = children[d][j],
             \A x \in Deliveries \ {d} : children'[x] = children[x],
             children'[d]["workflow"] # NoChild,
             children'[d]["workflow"].key = call.workflow,
             t = "waited" => children'[d]["workflow"].state = "verified"
      PROVE  StageInv'
  <2>1. call'.m = d /\ call'.step = t /\ call'.workflow = call.workflow
    BY <1>2, <1>4, <1>5, GoToFields DEF PollSteps
  <2>2. StageOK'
    BY <1>2, <1>3, <1>5, <2>1
       DEF StageOK, Terminal, ApplySteps, PrSteps, PollSteps, WaitSteps
  <2> HIDE DEF d
  <2> QED BY <1>2, <1>3, <1>5, <2>1, <2>2, ChildStage DEF PollSteps
<1>6. CASE reserveWait
  <2>1. CASE /\ Child("workflow") = NoChild
             /\ SetChild("workflow", [state |-> "intent_persisted",
                                      key |-> call.workflow, attempt |-> 0])
             /\ GoTo("poll")
    <3> DEFINE v == [state |-> "intent_persisted", key |-> call.workflow, attempt |-> 0]
    <3>1. v \in ChildType("workflow") /\ v # NoChild /\ v.key = call.workflow
      BY <1>4, RequestAssumption DEF ChildType, WorkflowChild, ChildState, NoChild
    <3>2. SetChild("workflow", v)
      BY <2>1
    <3> HIDE DEF v
    <3>3. /\ RowTypes' /\ children'[d]["workflow"] = v
          /\ \A j \in ChildKinds \ {"workflow"} : children'[d][j] = children[d][j]
          /\ \A x \in Deliveries \ {d} : children'[x] = children[x]
      BY <1>2, <1>3, <3>1, <3>2, ChildWritten
    <3> QED BY <1>5, <2>1, <3>1, <3>3 DEF PollSteps
  <2>2. CASE /\ Child("workflow") # NoChild /\ UNCHANGED children
             /\ GoTo(IF Child("workflow").key # call.workflow
                        \/ Child("workflow").state = "failed" THEN "threw"
                     ELSE IF Child("workflow").state = "verified" THEN "waited" ELSE "poll")
    <3>1. RowTypes'
      BY <1>3, <2>2 DEF RowTypes
    <3>2. CASE GoTo("threw")
      BY <1>2, <1>3, <2>2, <3>2, ThrowStage DEF Throw
    <3>3. CASE /\ GoTo("waited") /\ Child("workflow").state = "verified"
               /\ Child("workflow").key = call.workflow
      BY <1>5, <2>2, <3>1, <3>3 DEF Child, PollSteps
    <3>4. CASE GoTo("poll") /\ Child("workflow").key = call.workflow
      BY <1>5, <2>2, <3>1, <3>4 DEF Child, PollSteps
    <3> QED BY <2>2, <3>2, <3>3, <3>4
  <2> QED BY <1>6, <2>1, <2>2 DEF reserveWait
<1>7. CASE settleWait
  <2>1. s # "wait"
    BY <1>2, <1>7 DEF settleWait, InPublish, At
  <2>2. CASE ChildTo("workflow", "verified") /\ GoTo("waited")
    <3>1. /\ RowTypes' /\ children'[d]["workflow"] # NoChild
          /\ children'[d]["workflow"].state = "verified"
          /\ children'[d]["workflow"].key = children[d]["workflow"].key
          /\ \A j \in ChildKinds \ {"workflow"} : children'[d][j] = children[d][j]
          /\ \A x \in Deliveries \ {d} : children'[x] = children[x]
      BY <1>2, <1>3, <2>1, <2>2, ChildStateWritten DEF ChildState
    <3> QED BY <1>2, <1>5, <2>1, <2>2, <3>1 DEF PollSteps
  <2>3. CASE ChildTo("workflow", "failed") /\ Throw
    BY <1>2, <1>3, <2>1, <2>3, ChildThrowStage DEF ChildState, Child
  <2> QED BY <1>7, <2>2, <2>3 DEF settleWait
<1>8. ASSUME NEW u \in Conclusion, poll(u) PROVE StageInv'
  <2>1. s # "wait"
    BY <1>2, <1>8 DEF poll, InPublish, At
  <2>2. CASE ChildTo("workflow", "failed") /\ Throw
    BY <1>2, <1>3, <2>1, <2>2, ChildThrowStage DEF ChildState, Child
  <2>3. CASE /\ PollsLeft
             /\ SetChild("workflow", [state |-> "remote_reconciled", key |-> call.workflow,
                                      attempt |-> Child("workflow").attempt + 1])
             /\ GoTo(CASE u = "running" -> "poll"
                       [] u = "success" -> "succeeded"
                       [] OTHER         -> "unsuccessful")
    <3> DEFINE v == [state |-> "remote_reconciled", key |-> call.workflow,
                     attempt |-> Child("workflow").attempt + 1]
    <3>1. Child("workflow").attempt + 1 \in 0..MaxPolls
      <4>1. Child("workflow") \in WorkflowChild
        BY <1>2, <1>3, <2>1 DEF RowTypes, ChildType, Child
      <4> QED BY <2>3, <4>1, RequestAssumption DEF WorkflowChild, PollsLeft
    <3>2. v \in ChildType("workflow") /\ v # NoChild /\ v.key = call.workflow
      BY <1>4, <3>1 DEF ChildType, WorkflowChild, ChildState, NoChild
    <3>3. SetChild("workflow", v)
      BY <2>3
    <3> HIDE DEF v
    <3>4. /\ RowTypes' /\ children'[d]["workflow"] = v
          /\ \A j \in ChildKinds \ {"workflow"} : children'[d][j] = children[d][j]
          /\ \A x \in Deliveries \ {d} : children'[x] = children[x]
      BY <1>2, <1>3, <3>2, <3>3, ChildWritten
    <3>5. GoTo("poll") \/ GoTo("succeeded") \/ GoTo("unsuccessful")
      BY <2>3 DEF Conclusion
    <3> QED BY <1>5, <3>2, <3>4, <3>5 DEF PollSteps
  <2> QED BY <1>8, <2>2, <2>3 DEF poll
<1> QED BY <1>6, <1>7, <1>8

LEMMA WorkflowVerifiedStage ==
  ASSUME IInv, StageInv, workflowVerified
  PROVE  StageInv'
<1> DEFINE d == call.m
           r == deliveries[d]
           w == Child("workflow").key
<1>1. /\ call # Idle /\ call.step = "waited" /\ d \in Deliveries /\ StageOK
      /\ RowOK(d) /\ r \in Delivery
      /\ UNCHANGED <<remote, seen, runs, children>>
      /\ Record("workflow", w, "workflow_verified", "artifacts")
  BY InStage DEF workflowVerified, gitVars
<1>2. /\ r # NoDelivery /\ r.pr # None /\ r.workflow = None /\ r.artifacts = None
      /\ children[d]["workflow"].state = "verified"
      /\ children[d]["workflow"].key = w /\ w = call.workflow
      /\ w.sha = r.push /\ r.push # None
  BY <1>1 DEF StageOK, RowOK, WaitSteps, PollSteps, Child
<1>3. w \in Workflow
  BY <1>2, InWaitSteps DEF workflowVerified, WaitSteps
<1>4. w # None
  BY <1>3, NoWorkflowAssumption
<1>5. /\ deliveries'[d].push = r.push /\ deliveries'[d].pr = r.pr
      /\ deliveries'[d].workflow = w /\ deliveries'[d].artifacts = None
      /\ deliveries'[d].state = "workflow_verified"
  BY <1>1, <1>2, <1>3, RowRecorded DEF StageInv, DeliveryState
<1>6. ASSUME NEW x \in Deliveries, x = d PROVE RowOK(x)'
  BY <1>1, <1>2, <1>4, <1>5, <1>6 DEF RowOK
<1> HIDE DEF d, w
<1>7. d = call.m
  BY DEF d
<1> QED BY <1>1, <1>2, <1>3, <1>4, <1>5, <1>6, <1>7, RecordStage DEF DeliveryState

LEMMA CaptureStage ==
  ASSUME IInv, StageInv,
         \/ reserveCapture
         \/ \E c \in Commits, b \in BOOLEAN : captureArtifacts(c, b)
  PROVE  StageInv'
<1> DEFINE d == call.m
           r == deliveries[d]
           key == <<r.workflow, r.push>>
<1>1. PICK s \in {"artifacts", "capture"} : InPublish(s)
  BY DEF reserveCapture, captureArtifacts
<1>2. /\ call # Idle /\ call.step = s /\ d \in Deliveries /\ StageOK /\ RowOK(d)
      /\ r \in Delivery /\ r # NoDelivery /\ ~Terminal(r)
      /\ r.workflow # None /\ r.artifacts = None
      /\ s = "capture" => /\ children[d]["artifacts"] # NoChild
                          /\ children[d]["artifacts"].key = key
  BY <1>1, InStage DEF StageOK
<1>3. /\ UNCHANGED <<remote, seen, runs, deliveries>>
      /\ "artifacts" \in ChildKinds /\ Lacks(r, "artifacts") /\ RowTypes
  BY <1>2 DEF reserveCapture, captureArtifacts, gitVars, ChildKinds, Lacks, StageInv
<1>4. r.workflow \in Workflow /\ r.push \in Commits
  BY <1>2 DEF Delivery, Objects, RowOK
<1>5. ASSUME NEW t \in {"capture", "captured"}, GoTo(t), RowTypes',
             \A j \in ChildKinds \ {"artifacts"} : children'[d][j] = children[d][j],
             \A x \in Deliveries \ {d} : children'[x] = children[x],
             children'[d]["artifacts"] # NoChild,
             children'[d]["artifacts"].key = key,
             t = "captured" => children'[d]["artifacts"].state = "verified"
      PROVE  StageInv'
  <2>1. call'.m = d /\ call'.step = t
    BY <1>2, <1>5, GoToFields
  <2>2. StageOK'
    BY <1>2, <1>3, <1>5, <2>1
       DEF StageOK, Terminal, ApplySteps, PrSteps, PollSteps, WaitSteps
  <2> HIDE DEF d
  <2> QED BY <1>2, <1>3, <1>5, <2>1, <2>2, ChildStage
<1>6. CASE reserveCapture
  <2>1. CASE /\ Child("artifacts") = NoChild
             /\ SetChild("artifacts", [state |-> "intent_persisted", key |-> key])
             /\ GoTo("capture")
    <3> DEFINE v == [state |-> "intent_persisted", key |-> key]
    <3>1. v \in ChildType("artifacts") /\ v # NoChild /\ v.key = key
      BY <1>4 DEF ChildType, ArtifactsChild, ChildState, NoChild
    <3>2. SetChild("artifacts", v)
      BY <2>1
    <3> HIDE DEF v
    <3>3. /\ RowTypes' /\ children'[d]["artifacts"] = v
          /\ \A j \in ChildKinds \ {"artifacts"} : children'[d][j] = children[d][j]
          /\ \A x \in Deliveries \ {d} : children'[x] = children[x]
      BY <1>2, <1>3, <3>1, <3>2, ChildWritten
    <3> QED BY <1>5, <2>1, <3>1, <3>3
  <2>2. CASE /\ Child("artifacts") # NoChild /\ UNCHANGED children
             /\ GoTo(IF Child("artifacts").key # key THEN "threw"
                     ELSE IF Child("artifacts").state = "verified" THEN "captured"
                     ELSE "capture")
    <3>1. RowTypes'
      BY <1>3, <2>2 DEF RowTypes
    <3>2. CASE GoTo("threw")
      BY <1>2, <1>3, <2>2, <3>2, ThrowStage DEF Throw
    <3>3. CASE /\ GoTo("captured") /\ Child("artifacts").state = "verified"
               /\ Child("artifacts").key = key
      BY <1>5, <2>2, <3>1, <3>3 DEF Child
    <3>4. CASE GoTo("capture") /\ Child("artifacts").key = key
      BY <1>5, <2>2, <3>1, <3>4 DEF Child
    <3> QED BY <2>2, <3>2, <3>3, <3>4
  <2> QED BY <1>6, <2>1, <2>2 DEF reserveCapture, Commit
<1>7. CASE \E c \in Commits, b \in BOOLEAN : captureArtifacts(c, b)
  <2>1. s = "capture"
    BY <1>2, <1>7 DEF captureArtifacts, InPublish, At
  <2>2. CASE ChildTo("artifacts", "verified") /\ GoTo("captured")
    <3>1. /\ RowTypes' /\ children'[d]["artifacts"] # NoChild
          /\ children'[d]["artifacts"].state = "verified"
          /\ children'[d]["artifacts"].key = children[d]["artifacts"].key
          /\ \A j \in ChildKinds \ {"artifacts"} : children'[d][j] = children[d][j]
          /\ \A x \in Deliveries \ {d} : children'[x] = children[x]
      BY <1>2, <1>3, <2>1, <2>2, ChildStateWritten DEF ChildState
    <3> QED BY <1>2, <1>5, <2>1, <2>2, <3>1
  <2>3. CASE ChildTo("artifacts", "failed") /\ Throw
    BY <1>2, <1>3, <2>1, <2>3, ChildThrowStage DEF ChildState, Child
  <2> QED BY <1>7, <2>2, <2>3 DEF captureArtifacts
<1> QED BY <1>6, <1>7

LEMMA ArtifactsVerifiedStage ==
  ASSUME IInv, StageInv, artifactsVerified
  PROVE  StageInv'
<1> DEFINE d == call.m
           r == deliveries[d]
           c == Child("artifacts").key[2]
<1>1. /\ call # Idle /\ call.step = "captured" /\ d \in Deliveries /\ StageOK
      /\ RowOK(d) /\ r \in Delivery
      /\ UNCHANGED <<remote, seen, runs, children>>
      /\ Record("artifacts", c, "artifacts_verified", "complete")
  BY InStage DEF artifactsVerified, gitVars
<1>2. /\ r # NoDelivery /\ r.workflow # None /\ r.artifacts = None
      /\ children[d]["artifacts"].state = "verified" /\ c = r.push
      /\ r.push # None /\ r.push \in Objects
  BY <1>1 DEF StageOK, RowOK, Child, Delivery
<1>3. /\ deliveries'[d].push = r.push /\ deliveries'[d].pr = r.pr
      /\ deliveries'[d].workflow = r.workflow /\ deliveries'[d].artifacts = c
      /\ deliveries'[d].state = "artifacts_verified"
  BY <1>1, <1>2, RowRecorded DEF StageInv, DeliveryState
<1>4. ASSUME NEW x \in Deliveries, x = d PROVE RowOK(x)'
  BY <1>1, <1>2, <1>3, <1>4 DEF RowOK
<1> HIDE DEF d, c
<1>5. d = call.m
  BY DEF d
<1> QED BY <1>1, <1>2, <1>3, <1>4, <1>5, RecordStage DEF DeliveryState

\* The end of a completed publish().
LEMMA AnswerStage ==
  ASSUME IInv, StageInv, answer
  PROVE  StageInv'
<1>1. /\ call' = Idle /\ call.m \in Deliveries
      /\ UNCHANGED <<remote, seen, runs, deliveries, children>>
  BY DEF answer, InPublish, gitVars
<1>2. RowTypes' /\ \A d \in Deliveries : RowOK(d)'
  BY <1>1, RowsKept
<1> QED BY <1>1, <1>2, StageStep

\* complete and the catch block: the row's state and nothing it rests on.
LEMMA EndStage ==
  ASSUME IInv, StageInv, complete \/ catchError
  PROVE  StageInv'
<1> DEFINE d == call.m
           r == deliveries[d]
<1>1. /\ call # Idle /\ call.step \in {"complete", "threw"}
      /\ d \in Deliveries /\ StageOK
      /\ RowOK(d) /\ r \in Delivery
      /\ UNCHANGED <<remote, seen, runs, children>>
  BY InStage DEF complete, catchError, gitVars
<1>2. r # NoDelivery /\ (call.step = "complete" => r.artifacts # None)
  BY <1>1 DEF StageOK
<1>3. /\ deliveries'[d] \in Delivery
      /\ \A x \in Deliveries \ {d} : deliveries'[x] = deliveries[x]
      /\ deliveries' \in [Deliveries -> Delivery \cup {NoDelivery}]
      /\ deliveries'[d].push = r.push /\ deliveries'[d].pr = r.pr
      /\ deliveries'[d].workflow = r.workflow
      /\ deliveries'[d].artifacts = r.artifacts
      /\ deliveries'[d].state = "completed" => r.artifacts # None
  <2>1. CASE complete
    <3>1. deliveries' = [deliveries EXCEPT ![d].state = "completed"]
      BY <2>1 DEF complete
    <3>2. call.step = "complete"
      BY <2>1 DEF complete, InPublish, At
    <3> QED BY <1>1, <1>2, <3>1, <3>2 DEF StageInv, RowTypes, Delivery, DeliveryState
  <2>2. CASE catchError
    <3> DEFINE partial == Commit # None
               s == IF partial THEN "cancelled" ELSE "failed"
               a == [r EXCEPT !.state = s]
               b == [a EXCEPT !.partialSuccess = partial]
    <3>1. deliveries' = [deliveries EXCEPT ![d].state = s, ![d].partialSuccess = partial]
      BY <2>2 DEF catchError
    <3>2. /\ deliveries'[d] = b
          /\ \A x \in Deliveries \ {d} : deliveries'[x] = deliveries[x]
          /\ DOMAIN deliveries' = Deliveries
          /\ deliveries' = [x \in Deliveries |-> deliveries'[x]]
      BY <1>1, <3>1 DEF StageInv, RowTypes
    <3>3. s \in DeliveryState /\ s # "completed" /\ partial \in BOOLEAN
      BY DEF DeliveryState
    <3> HIDE DEF s, partial
    <3>4. /\ a \in Delivery /\ a.state = s /\ a.push = r.push /\ a.pr = r.pr
          /\ a.workflow = r.workflow /\ a.artifacts = r.artifacts
      BY <1>1, <3>3 DEF Delivery
    <3> HIDE DEF a
    <3>5. /\ b \in Delivery /\ b.state = s /\ b.push = r.push /\ b.pr = r.pr
          /\ b.workflow = r.workflow /\ b.artifacts = r.artifacts
      BY <3>3, <3>4 DEF Delivery
    <3> HIDE DEF b
    <3>6. deliveries' \in [Deliveries -> Delivery \cup {NoDelivery}]
      BY <3>2, <3>5 DEF StageInv, RowTypes
    <3> QED BY <3>2, <3>3, <3>5, <3>6
  <2> QED BY <2>1, <2>2
<1>4. RowTypes'
  BY <1>1, <1>3 DEF StageInv, RowTypes
<1>5. ASSUME NEW x \in Deliveries, x = d PROVE RowOK(x)'
  BY <1>1, <1>2, <1>3, <1>5 DEF RowOK
<1>6. \/ call' = Idle
      \/ call'.m = d /\ call'.step = "answer" /\ deliveries'[d].state = "completed"
  <2>1. CASE complete
    <3>1. deliveries' = [deliveries EXCEPT ![d].state = "completed"]
          /\ call' = [step |-> "answer", m |-> d]
      BY <2>1 DEF complete
    <3> QED BY <1>1, <3>1 DEF StageInv, RowTypes, Delivery
  <2>2. CASE catchError
    BY <2>2 DEF catchError
  <2> QED BY <2>1, <2>2
<1>7. call' = Idle \/ (call'.m = d /\ call'.step = "answer" /\ StageOK')
  <2> SUFFICES ASSUME call' # Idle PROVE call'.m = d /\ call'.step = "answer" /\ StageOK'
    OBVIOUS
  <2>1. deliveries'[d] # NoDelivery
    BY <1>3 DEF Delivery, DeliveryState, NoDelivery
  <2> QED BY <1>6, <2>1 DEF StageOK, ApplySteps, PrSteps, PollSteps, WaitSteps
<1> HIDE DEF d
<1>8. d = call.m
  BY DEF d
<1> QED BY <1>1, <1>3, <1>4, <1>5, <1>7, <1>8, StageStep

\* Every step of the composed system keeps the stages.
LEMMA StageInvNext ==
  ASSUME IInv, StageInv, [Next]_vars
  PROVE  StageInv'
<1>1. CASE (World \/ ApplyStep \/ OperatorCall \/ crash) /\ UNCHANGED <<deliveries, children>>
  BY <1>1, WorldStage, ApplyStepStage, OperatorStage
<1>2. CASE \E d \in Deliveries : publish(d)
  BY <1>2, PublishStage
<1>3. CASE PublisherStep
  <2>1. CASE providerThrows
    BY <2>1, ThrowStage DEF providerThrows, gitVars
  <2> QED BY <1>3, <2>1, PreviewStage, PushVerifiedStage, PullRequestStage, VerifyStage,
             FindStage, WaitStage, WorkflowVerifiedStage, CaptureStage,
             ArtifactsVerifiedStage, AnswerStage, EndStage DEF PublisherStep
<1>4. CASE UNCHANGED vars
  <2>1. RowTypes' /\ \A d \in Deliveries : RowOK(d)'
    BY <1>4, RowsKept DEF vars
  <2>2. RunsInv' /\ (call' # Idle /\ call'.m \in Deliveries => StageOK')
    BY <1>4 DEF vars, StageInv, RunsInv, ReadBack, StageOK
  <2> QED BY <2>1, <2>2 DEF StageInv
<1> QED BY <1>1, <1>2, <1>3, <1>4 DEF Next

\* A completed delivery is about one commit, for every history, every answer
\* of the transport and every death and resumption of publish(): the commit
\* its own push run read back, that its pull request showed, its workflow ran
\* on and its artifacts were built from, each under a verified child run.
THEOREM PublisherCompletedExact == Spec => []CompletedExact
<1>1. StageInv => CompletedExact
  <2> SUFFICES ASSUME StageInv, NEW d \in Deliveries, deliveries[d].state = "completed"
               PROVE  LET r == deliveries[d]
                          c == r.push
                      IN /\ c \in seen /\ c # None
                         /\ runs[d].state = "verified" /\ runs[d].git = c /\ runs[d].api = c
                         /\ r.pr = c /\ r.artifacts = c /\ r.workflow.sha = c
                         /\ children[d]["workflow"].key = r.workflow
                         /\ \A k \in ChildKinds : children[d][k].state = "verified"
    BY DEF CompletedExact
  <2>1. RowOK(d)
    BY DEF StageInv
  <2>2. deliveries[d] # NoDelivery
    BY DEF NoDelivery
  <2> QED BY <2>1, <2>2 DEF RowOK, ChildKinds
<1>2. Init => IInv /\ StageInv
  BY InitInv, StageInvInit
<1>3. IInv /\ StageInv /\ [Next]_vars => IInv' /\ StageInv'
  BY NextInv, StageInvNext
<1> QED BY <1>1, <1>2, <1>3, PTL DEF Spec

----------------------------------------------------------------------------
(* Settled work is final                                                   *)

\* A publisher's step writes no row and no child run but its own delivery's.
LEMMA PublisherFrame ==
  ASSUME StageInv, PublisherStep
  PROVE  /\ call # Idle /\ call.m \in Deliveries /\ UNCHANGED <<runs, pushes>>
         /\ \A x \in Deliveries : x # call.m =>
              deliveries'[x] = deliveries[x] /\ children'[x] = children[x]
<1>1. call # Idle /\ call.m \in Deliveries
  BY DEF PublisherStep, previewPush, pushVerified, reservePullRequest,
     finishPullRequest, findPullRequest, writePullRequest, verifyPullRequest, findWorkflow,
     reserveWait, settleWait, workflowVerified, poll, reserveCapture, artifactsVerified,
     complete, answer, captureArtifacts, providerThrows, catchError, InPublish, At
<1>2. UNCHANGED <<runs, pushes>>
  BY DEF PublisherStep, previewPush, pushVerified, reservePullRequest,
     finishPullRequest, findPullRequest, writePullRequest, verifyPullRequest, findWorkflow,
     reserveWait, settleWait, workflowVerified, poll, reserveCapture, artifactsVerified,
     complete, answer, captureArtifacts, providerThrows, catchError, gitVars
<1>3. \A x \in Deliveries : x # call.m => deliveries'[x] = deliveries[x]
  <2> USE DEF StageInv, RowTypes
  <2>1. CASE UNCHANGED deliveries
    BY <2>1
  <2>2. CASE pushVerified \/ workflowVerified \/ artifactsVerified
             \/ (\E c \in Commits : verifyPullRequest(c))
    BY <2>2 DEF pushVerified, workflowVerified, artifactsVerified, verifyPullRequest, Record
  <2>3. CASE complete \/ catchError
    BY <2>3 DEF complete, catchError
  <2> QED BY <2>1, <2>2, <2>3 DEF PublisherStep, previewPush, reservePullRequest,
     finishPullRequest, findPullRequest, writePullRequest, findWorkflow, reserveWait,
     settleWait, poll, reserveCapture, captureArtifacts, answer, providerThrows
<1>4. \A x \in Deliveries : x # call.m => children'[x] = children[x]
  <2> USE DEF StageInv, RowTypes
  <2>1. CASE UNCHANGED children
    BY <2>1
  <2>2. ASSUME NEW k, NEW v, SetChild(k, v) \/ ChildTo(k, v)
        PROVE  \A x \in Deliveries : x # call.m => children'[x] = children[x]
    BY <2>2 DEF SetChild, ChildTo
  <2> QED BY <2>1, <2>2 DEF PublisherStep, previewPush, pushVerified, reservePullRequest,
     finishPullRequest, findPullRequest, writePullRequest, verifyPullRequest, findWorkflow,
     reserveWait, settleWait, workflowVerified, poll, reserveCapture, artifactsVerified,
     complete, answer, captureArtifacts, providerThrows, catchError
<1> QED BY <1>1, <1>2, <1>3, <1>4

\* An apply writes only its own run, and that one while it is not verified.
LEMMA ApplyFrame ==
  ASSUME IInv, StageInv, ApplyStep, NEW m \in Mutations, runs[m].state = "verified"
  PROVE  runs'[m] = runs[m] /\ pushes'[m] = pushes[m]
<1>1. CASE reserveRun
  BY <1>1 DEF reserveRun, IInv, TypeInv, NoRun
<1>2. CASE initialReadback \/ push \/ reconcile \/ (\E c \in seen : apiReadback(c))
  <2>1. PICK s \in {"initial", "push", "reconcile", "api"} : At(s)
    BY <1>2 DEF initialReadback, push, reconcile, apiReadback
  <2>2. call.m # m
    BY <2>1 DEF StageInv, RunsInv, At
  <2> QED BY <1>2, <2>2 DEF initialReadback, push, reconcile, apiReadback,
     recordReconciled, recordAttempt, failRun, SetRun, IInv, TypeInv
<1>3. CASE applyThrows
  BY <1>3 DEF applyThrows
<1> QED BY <1>1, <1>2, <1>3 DEF ApplyStep

\* A step of the publisher on a completed delivery: it answers, or its catch
\* block cancels what it has just completed.
LEMMA CompletedSteps ==
  ASSUME IInv, StageInv, PublisherStep, Terminal(deliveries[call.m])
  PROVE  /\ children'[call.m] = children[call.m]
         /\ deliveries'[call.m] = deliveries[call.m] \/ CancelsCompleted(call.m)
<1> DEFINE d == call.m
           r == deliveries[d]
<1>1. call # Idle /\ d \in Deliveries /\ StageOK /\ RowOK(d)
  BY PublisherFrame DEF StageInv
<1>2. r.state = "completed" /\ call.step \in {"answer", "threw"} /\ r # NoDelivery
  BY <1>1 DEF StageOK
<1>3. answer \/ providerThrows \/ catchError
  BY <1>2 DEF PublisherStep, previewPush, pushVerified, reservePullRequest,
     finishPullRequest, findPullRequest, writePullRequest, verifyPullRequest, findWorkflow,
     reserveWait, settleWait, workflowVerified, poll, reserveCapture, artifactsVerified,
     complete, captureArtifacts, InPublish, At
<1>4. CASE answer \/ providerThrows
  BY <1>4 DEF answer, providerThrows
<1>5. CASE catchError
  <2>1. r.push # None
    BY <1>1, <1>2 DEF RowOK
  <2>2. /\ At("threw") /\ UNCHANGED children
        /\ deliveries' = [deliveries EXCEPT ![d].state = "cancelled",
                                            ![d].partialSuccess = TRUE]
    BY <1>5, <2>1 DEF catchError, InPublish, Commit
  <2>3. deliveries'[d] = [r EXCEPT !.state = "cancelled", !.partialSuccess = TRUE]
    BY <1>1, <2>2 DEF StageInv, RowTypes
  <2> QED BY <1>2, <2>2, <2>3 DEF CancelsCompleted
<1> QED BY <1>3, <1>4, <1>5

\* Replays answer from the record: a verified push run does not change and
\* sends no further push, no call takes up a completed, failed or cancelled
\* delivery, and it and its child runs do not change, whatever calls and
\* deaths follow; only the catch block of the call that completed a delivery
\* may still cancel it.
THEOREM PublisherSettledFinal == Spec => SettledFinal
<1>1. IInv /\ StageInv /\ [Next]_vars =>
        [/\ \A m \in Mutations : runs[m].state = "verified" =>
              runs'[m] = runs[m] /\ pushes'[m] = pushes[m]
         /\ \A d \in Deliveries : Terminal(deliveries[d]) =>
              /\ deliveries'[d] = deliveries[d] \/ CancelsCompleted(d)
              /\ children'[d] = children[d]
              /\ call = Idle => call' = Idle \/ call'.m # d]_vars
  <2> SUFFICES ASSUME IInv, StageInv, Next
               PROVE  /\ \A m \in Mutations : runs[m].state = "verified" =>
                           runs'[m] = runs[m] /\ pushes'[m] = pushes[m]
                      /\ \A d \in Deliveries : Terminal(deliveries[d]) =>
                           /\ deliveries'[d] = deliveries[d] \/ CancelsCompleted(d)
                           /\ children'[d] = children[d]
                           /\ call = Idle => call' = Idle \/ call'.m # d
    OBVIOUS
  <2>1. CASE (World \/ OperatorCall \/ crash) /\ UNCHANGED <<deliveries, children>>
    <3>1. UNCHANGED <<runs, pushes>>
      BY <2>1 DEF World, tick, disturbWorkspace, moveRemote, land, lose, OperatorCall,
         crash, workspaceCall, preview, apply, operatorAnswered
    <3>2. call = Idle => call' = Idle \/ call'.m = Operator
      BY <2>1 DEF World, tick, disturbWorkspace, moveRemote, land, lose, OperatorCall,
         crash, workspaceCall, preview, apply, operatorAnswered
    <3> QED BY <2>1, <3>1, <3>2, DeliveriesAssumption
  <2>2. CASE ApplyStep /\ UNCHANGED <<deliveries, children>>
    <3>1. call # Idle
      BY <2>2 DEF ApplyStep, reserveRun, initialReadback, push, reconcile,
         apiReadback, applyThrows, At
    <3> QED BY <2>2, <3>1, ApplyFrame
  <2>3. ASSUME NEW d \in Deliveries, publish(d)
        PROVE  /\ UNCHANGED <<runs, pushes, children>>
               /\ call'.m = d /\ ~Terminal(deliveries[d])
               /\ \A x \in Deliveries : Terminal(deliveries[x]) =>
                    deliveries'[x] = deliveries[x]
    <3>1. CASE reserve(d)
      <4>1. ~Terminal(deliveries[d])
        BY <3>1 DEF reserve, NoDelivery, Terminal
      <4> QED BY <2>3, <3>1, <4>1 DEF publish, reserve, gitVars, StageInv, RowTypes
    <3>2. CASE UNCHANGED deliveries
      BY <2>3, <3>2 DEF publish, gitVars, reserve, NoDelivery, Terminal
    <3> QED BY <2>3, <3>1, <3>2 DEF publish
  <2>4. CASE PublisherStep
    BY <2>4, CompletedSteps, PublisherFrame
  <2> QED BY <2>1, <2>2, <2>3, <2>4 DEF Next
<1>2. Init => IInv /\ StageInv
  BY InitInv, StageInvInit
<1>3. IInv /\ StageInv /\ [Next]_vars => IInv' /\ StageInv'
  BY NextInv, StageInvNext
<1> QED BY <1>1, <1>2, <1>3, PTL DEF Spec, SettledFinal
=============================================================================
