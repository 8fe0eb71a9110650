--------------------------- MODULE SafePublication ---------------------------
(***************************************************************************)
(* Fast-forward-only Git publication (src/github/safe-publication.ts):     *)
(* previewing a push plan, applying it under a durable run, and settling   *)
(* what really happened to the remote ref by reading it back.              *)
(*                                                                         *)
(* The service is synchronous, so one call is in progress at a time, but   *)
(* the workspace, the clock and the remote ref are moved by others between *)
(* any two of its steps, the process may die there, and a push whose       *)
(* client timed out or died may still land later.  A write of the          *)
(* deployment database and the read that decides it form one step: dying   *)
(* between them leaves what dying before the read leaves.                  *)
(*                                                                         *)
(* There is one workspace (RepositoryTruth), one destination ref and one   *)
(* credential.  The idempotency fingerprint of an apply is the caller's:   *)
(* the publisher's is a digest over its delivery and plan, an operator's   *)
(* is any.  Events and the observation table record history that no        *)
(* decision reads; a run keeps the two observed commits they hold.         *)
(***************************************************************************)
EXTENDS RepositoryTruth, FiniteSets

CONSTANTS
  Mutations,    \* mutation ids
  Operator,     \* the mutation an operator applies directly
  Starts,       \* where <<HEAD, destination ref>> may start; HEAD None is
                \* a workspace still to be materialized
  Expiries,     \* the expiration times operators ask for
  Fingerprints, \* the fingerprints operators give
  MaxClock,     \* bound on the clock
  MaxMoves,     \* bound on what others do to workspace and ref
  MaxPlans,     \* bound on the plans operators preview
  MaxAttempts   \* bound on the push attempts of a run

ASSUME StartAssumption == Starts \subseteq Objects \X Objects
ASSUME MutationsAssumption == Operator \in Mutations
ASSUME PublicationBounds ==
  /\ MaxClock \in Nat /\ MaxMoves \in Nat /\ MaxPlans \in Nat /\ MaxAttempts \in Nat
  /\ Expiries \subseteq 0..MaxClock

Clock == 0..MaxClock

\* GitPushPlan.  The plan id is a digest of all fields but "created".
Plan == [old : Objects, new : Commits, expires : Clock, created : Clock]

NoRun == [state |-> "none"]
GitPushRunState == {"intent_persisted", "remote_attempted",
                    "remote_reconciled", "verified", "failed", "ambiguous"}
Run == [state : GitPushRunState, plan : Plan, print : Plan \cup Fingerprints,
        attempt : 0..MaxAttempts, git : Objects, api : Objects]

VARIABLES
  now,      \* the clock
  remote,   \* the destination ref
  moves,    \* how often others changed workspace or ref
  seen,     \* every value the ref has held: what a lagging API may answer
  flight,   \* pushes sent and neither landed nor lost: [m, old, new]
  pushes,   \* pushes sent per mutation
  plans,    \* github_git_push_plans
  runs,     \* github_git_push_runs
  call      \* the call in progress

pubVars == <<truthVars, now, remote, moves, seen, flight, pushes, plans, runs, call>>

Idle == [step |-> "idle"]
ApplySteps == {"reserve", "initial", "push", "reconcile", "api",
               "returned", "threw"}
ApplyCall == [step : ApplySteps, m : Mutations, plan : Plan,
              print : Plan \cup Fingerprints]

PublicationInit ==
  /\ now = 0
  /\ \E s \in Starts : head = s[1] /\ remote = s[2]
  /\ TruthInit
  /\ moves = 0
  /\ seen = {remote}
  /\ flight = {}
  /\ pushes = [m \in Mutations |-> 0]
  /\ plans = {}
  /\ runs = [m \in Mutations |-> NoRun]
  /\ call = Idle

----------------------------------------------------------------------------
(* The world around the service                                            *)

tick == /\ now < MaxClock
        /\ now' = now + 1
        /\ UNCHANGED <<truthVars, remote, moves, seen, flight, pushes, plans, runs, call>>

\* Other users of the workspace's files and refs.
disturbWorkspace ==
  /\ moves < MaxMoves
  /\ editWorktree \/ \E c \in Commits : moveWorkspace(c)
  /\ moves' = moves + 1
  /\ UNCHANGED <<now, remote, seen, flight, pushes, plans, runs, call>>

\* Operations on the workspace by requests to the service.
workspaceCall ==
  /\ call = Idle
  /\ materialize \/ \E c \in Commits : createCommit(c)
  /\ UNCHANGED <<now, remote, moves, seen, flight, pushes, plans, runs, call>>

\* Somebody else moves the remote ref, forcibly or not.
moveRemote(c) ==
  /\ c # remote
  /\ moves < MaxMoves
  /\ remote' = c
  /\ moves' = moves + 1
  /\ seen' = seen \cup {c}
  /\ UNCHANGED <<truthVars, now, flight, pushes, plans, runs, call>>

\* The server's side of --force-with-lease=<ref>:<old>.
Lease(f) == remote = f.old

\* A push reaches the server while the lease holds, ...
land(f) ==
  /\ Lease(f)
  /\ remote' = f.new
  /\ seen' = seen \cup {f.new}
  /\ flight' = flight \ {f}
  /\ UNCHANGED <<truthVars, now, moves, pushes, plans, runs, call>>

\* ... or is refused by it, or is lost on its way.
lose(f) ==
  /\ flight' = flight \ {f}
  /\ UNCHANGED <<truthVars, now, remote, moves, seen, pushes, plans, runs, call>>

----------------------------------------------------------------------------
(* preview                                                                 *)

\* Mutant: the ancestry of the remote object is not asked for.
FastForwardUnchecked(old) == TRUE
\* The remote object is the expected one, known locally, and an ancestor of
\* HEAD.
FastForward(old) == old = None \/ <<old, head>> \in Ancestors
PreviewAllowed(old, expires) ==
  now < expires /\ WorkspaceReady /\ remote = old /\ FastForward(old)

PlanOf(old, expires) ==
  [old |-> old, new |-> head, expires |-> expires, created |-> now]

SamePlanId(p, q) == p.old = q.old /\ p.new = q.new /\ p.expires = q.expires

\* INSERT OR IGNORE, then the stored record must equal the new one: a plan
\* previewed again at another time has the same id and another digest.
registerPlanConflict(p) == \E q \in plans : SamePlanId(p, q) /\ p # q

\* An operator's preview; every refusal leaves the state as it is.
preview(old, expires) ==
  /\ call = Idle
  /\ Cardinality(plans) < MaxPlans
  /\ PreviewAllowed(old, expires)
  /\ ~registerPlanConflict(PlanOf(old, expires))
  /\ plans' = plans \cup {PlanOf(old, expires)}
  /\ UNCHANGED <<truthVars, now, remote, moves, seen, flight, pushes, runs, call>>

----------------------------------------------------------------------------
(* apply                                                                   *)

At(step) == call # Idle /\ call.step = step
GoTo(step) == call' = [call EXCEPT !.step = step]
Throw == GoTo("threw")

\* The bound on attempts holds back whole calls, never a step of one.
AttemptsLeft(m) == runs[m] # NoRun => runs[m].attempt < MaxAttempts

apply(p, print) ==
  /\ call = Idle
  /\ AttemptsLeft(Operator)
  /\ call' = [step |-> "reserve", m |-> Operator, plan |-> p, print |-> print]
  /\ UNCHANGED <<truthVars, now, remote, moves, seen, flight, pushes, plans, runs>>

ApplyAllowed(p) == now < p.expires /\ WorkspaceReady /\ head = p.new

\* Mutant: a replay of a verified run starts over.
AlwaysRetried(r) == TRUE
\* Only a verified run answers from its record; failed and ambiguous ones,
\* and those a death left behind, are taken up again.
Retried(r) == r.state # "verified"

\* The checks of apply, then reserveRun: intent is durable before a push.  A
\* run that exists is taken up for the plan of this call, whatever its own
\* is, when the fingerprints are equal.
reserveRun ==
  /\ At("reserve")
  /\ LET m == call.m
         p == call.plan
     IN IF ~ApplyAllowed(p) \/ (runs[m] # NoRun /\ runs[m].print # call.print)
        THEN Throw /\ UNCHANGED runs
        ELSE IF runs[m] = NoRun
        THEN /\ runs' = [runs EXCEPT ![m] =
                  [state |-> "intent_persisted", plan |-> p,
                   print |-> call.print, attempt |-> 0,
                   git |-> None, api |-> None]]
             /\ GoTo("initial")
        ELSE /\ GoTo(IF Retried(runs[m]) THEN "initial" ELSE "returned")
             /\ UNCHANGED runs
  /\ UNCHANGED <<truthVars, now, remote, moves, seen, flight, pushes, plans>>

SetRun(state) == runs' = [runs EXCEPT ![call.m].state = state]

\* failRun: the outcome is stored, and the call throws.
failRun(state) == SetRun(state) /\ Throw

\* Mutant: the attempt is not counted in the run.
recordAttemptUncounted == SetRun("remote_attempted")
\* The run is durably "attempted" before the push leaves.
recordAttempt ==
  runs' = [runs EXCEPT ![call.m].state = "remote_attempted",
                       ![call.m].attempt = @ + 1]

\* finishVerified up to its API readback.
recordReconciled ==
  /\ runs' = [runs EXCEPT ![call.m].state = "remote_reconciled",
                          ![call.m].git = remote]
  /\ GoTo("api")

initialReadback ==
  /\ At("initial")
  /\ \/ /\ remote = call.plan.new
        /\ recordReconciled
     \/ /\ remote \notin {call.plan.new, call.plan.old}
        /\ failRun("failed")       \* remote_base_mismatch
     \/ /\ remote = call.plan.old /\ remote # call.plan.new
        /\ recordAttempt /\ GoTo("push")
  /\ UNCHANGED <<truthVars, now, remote, moves, seen, flight, pushes, plans>>

\* What the helper reports decides nothing but an error text.
push ==
  /\ At("push")
  /\ flight' = flight \cup {[m |-> call.m, old |-> call.plan.old, new |-> call.plan.new]}
  /\ pushes' = [pushes EXCEPT ![call.m] = @ + 1]
  /\ GoTo("reconcile")
  /\ UNCHANGED <<truthVars, now, remote, moves, seen, plans, runs>>

reconcile ==
  /\ At("reconcile")
  /\ \/ /\ remote = call.plan.new
        /\ recordReconciled
     \/ /\ remote # call.plan.new
        /\ failRun(IF remote = call.plan.old THEN "failed" ELSE "ambiguous")
  /\ UNCHANGED <<truthVars, now, remote, moves, seen, flight, pushes, plans>>

\* The second readback, over an API that may lag behind the ref.  When the
\* two disagree the run stays reconciled and the call fails.
ApiAgrees(c) == c = call.plan.new
apiReadback(c) ==
  /\ At("api")
  /\ \/ /\ ApiAgrees(c)
        /\ runs' = [runs EXCEPT ![call.m].state = "verified",
                                ![call.m].api = c]
        /\ GoTo("returned")
     \/ ~ApiAgrees(c) /\ Throw /\ UNCHANGED runs
  /\ UNCHANGED <<truthVars, now, remote, moves, seen, flight, pushes, plans>>

\* Authorization withdrawn, a readback that fails, or an event that cannot be
\* appended after the run's record was written: nothing more is recorded.
applyThrows ==
  /\ call # Idle
  /\ call.step \in ApplySteps \ {"threw"}
  /\ Throw
  /\ UNCHANGED <<truthVars, now, remote, moves, seen, flight, pushes, plans, runs>>

\* An operator's apply returns or throws to its caller.
operatorAnswered ==
  /\ call # Idle
  /\ call.m = Operator
  /\ call.step \in {"returned", "threw"}
  /\ call' = Idle
  /\ UNCHANGED <<truthVars, now, remote, moves, seen, flight, pushes, plans, runs>>

\* The process dies; what it sent stays in flight.
crash ==
  /\ call # Idle
  /\ call' = Idle
  /\ UNCHANGED <<truthVars, now, remote, moves, seen, flight, pushes, plans, runs>>

World ==
  \/ tick
  \/ disturbWorkspace
  \/ \E c \in Objects : moveRemote(c)
  \/ \E f \in flight : land(f) \/ lose(f)

\* The steps of an apply, whoever called it.
ApplyStep ==
  \/ reserveRun \/ initialReadback \/ push \/ reconcile
  \/ \E c \in seen : apiReadback(c)
  \/ applyThrows

OperatorCall ==
  \/ workspaceCall
  \/ \E old \in Objects, expires \in Expiries : preview(old, expires)
  \/ \E p \in plans, print \in Fingerprints : apply(p, print)
  \/ operatorAnswered

----------------------------------------------------------------------------
(* Properties                                                              *)

PublicationTypeOK ==
  /\ now \in Clock
  /\ WorkspaceOK
  /\ remote \in Objects
  /\ moves \in 0..MaxMoves
  /\ seen \subseteq Objects
  /\ flight \subseteq [m : Mutations, old : Objects, new : Commits]
  /\ pushes \in [Mutations -> Nat]
  /\ plans \subseteq Plan
  /\ runs \in [Mutations -> Run \cup {NoRun}]

\* Every push that lands moves the ref from an ancestor of the pushed commit
\* (or creates it), however late it lands and whoever moved the ref between
\* the preview, the readbacks and the push.
FastForwardOnly ==
  [][flight' # flight /\ remote' # remote =>
       remote = None \/ <<remote, remote'>> \in Ancestors]_pubVars

\* No push leaves before its intent is durable: each push in flight carries
\* out a stored plan under a stored run, a delivery's the plan of its own run,
\* and no mutation has sent more pushes than the attempts its run records,
\* across deaths and retries.  An operator that gives one fingerprint for two
\* plans has the second one pushed under the run of the first.
IntentBeforePush ==
  /\ \A f \in flight :
       /\ runs[f.m] # NoRun
       /\ \E p \in plans :
            /\ p.old = f.old /\ p.new = f.new
            /\ f.m # Operator => runs[f.m].plan = p
  /\ \A m \in Mutations :
       pushes[m] > 0 => runs[m] # NoRun /\ pushes[m] <= runs[m].attempt
=============================================================================
