-------------------------- MODULE DeploymentService -------------------------
(***************************************************************************)
(* The release and self-host operations of src/deployment/service.ts: each *)
(* request reserves a durable intent, walks a deployment along a path of   *)
(* ledger transitions, and completes its intent with the result.           *)
(*                                                                         *)
(* run() is synchronous, so one request at a time is between its           *)
(* reservation and its result; completeIntent follows an await, so other   *)
(* requests may run before it.  Every database transaction is a step of    *)
(* its own and the service may die, or the call may throw, between any two *)
(* of them.  The sequence a caller expects is compared right after the     *)
(* reservation: a stale one is a call that throws there.                   *)
(***************************************************************************)
EXTENDS DeploymentLedger   \* whose Keys are request ids here

CONSTANTS
  compatibility,       \* the compatibility digest build() freezes
  MaxCrashes,          \* bound on deaths of the service
  Diagnosing           \* whether rows are ever diagnosed from outside

ASSUME CompatibilityAssumption == compatibility \in Compat
ASSUME CrashesAssumption == MaxCrashes \in Nat /\ Diagnosing \in BOOLEAN

VARIABLES
  intents,    \* request_intents: status, request and result per key
  calls,      \* the execute() call in progress for each key
  crashes     \* deaths of the service so far

ledger == vars   \* of DeploymentLedger
serviceVars == <<ledger, intents, calls, crashes>>

BUILD_PATH ==
  << "source_resolving", "source_verified", "building", "testing",
     "packaging", "reproducibility_verifying", "artifact_verified" >>

STAGE_PATH ==
  << "compatibility_verifying", "preflight", "staging",
     "candidate_verifying", "ready_to_activate" >>

ACTIVATE_PATH ==
  << "snapshotting", "guard_arming", "guard_armed", "gateway_installing",
     "gateway_activating", "gateway_accepting_legacy", "baby_installing",
     "baby_activating", "baby_accepting", "restart_accepting",
     "chatgpt_accepting", "success_marking", "guard_disarming",
     "succeeded" >>

\* Mutant: a rollback that died half way is always started over.
RollbackPathFromStart(s) ==
  << "rollback_requested", "rolling_back", "rolled_back" >>

\* rollback(): the rest of the path from the state the row is in.
RollbackPath(s) ==
  CASE s = "rollback_requested" -> << "rolling_back", "rolled_back" >>
    [] s = "rolling_back" -> << "rolled_back" >>
    [] OTHER -> << "rollback_requested", "rolling_back", "rolled_back" >>

\* repair()
RepairStates == {"partial", "ambiguous", "unknown", "rollback_failed"}

RepairPath(s) ==
  IF s = "rollback_failed"
  THEN << "rolling_back", "rolled_back" >>
  ELSE << "reconciling", "rollback_requested", "rolling_back",
          "rolled_back" >>

\* status, verify, prune, source.get, evidence.get and acceptance.run (whose
\* evidence row no transition cites) complete without touching the row.
Operations == {"build", "stage", "activate", "rollback", "repair", "observe"}
Request == [op : Operations, d : Deployments]

NoCall == [pc |-> "idle"]
NoIntent == [status |-> "absent"]

\* The calls whose run() has not returned: at most one at a time.
Running(k) == calls[k].pc \notin {"idle", "complete"}
NobodyRuns == \A k \in Keys : ~Running(k)

ServiceInit ==
  /\ Init
  /\ intents = [k \in Keys |-> NoIntent]
  /\ calls = [k \in Keys |-> NoCall]
  /\ crashes = 0

----------------------------------------------------------------------------
(* execute(): reserveIntent, run, completeIntent                           *)

\* A key that was used before answers conflict, pending or the stored
\* result, without a write.  Every operation but build needs its row.
reserveIntent(k, request) ==
  /\ NobodyRuns
  /\ calls[k] = NoCall
  /\ intents[k] = NoIntent
  /\ request.op # "build" => request.d \in created
  /\ intents' = [intents EXCEPT ![k] =
                   [status |-> "pending", request |-> request]]
  /\ calls' = [calls EXCEPT ![k] = [pc |-> "start", request |-> request]]
  /\ UNCHANGED <<ledger, crashes>>

\* The call walks `path' next; `marker' is advance()'s successMarkerDigest.
Walk(request, path) ==
  [pc |-> "advance", request |-> request, path |-> path, marker |-> None]

\* The call returns result(): what the row says now.
Finish(request, s) ==
  [pc |-> "complete", request |-> request, result |-> s]

build(k) ==
  LET d == calls[k].request.d
  IN  /\ calls[k].pc = "start" /\ calls[k].request.op = "build"
      /\ \E g \in Generations, r \in Requests :
           createDeployment(d, g, k, r)
      /\ calls' = [calls EXCEPT ![k] = Walk(@.request, BUILD_PATH)]
      /\ UNCHANGED <<intents, crashes>>

\* The path each of the other operations walks, if it may start.
MayStart(op, d) ==
  /\ op = "rollback" => ~terminal(d)
  /\ op = "repair" => state[d] \in RepairStates

PathOf(op, s) ==
  CASE op = "stage" -> STAGE_PATH
    [] op = "activate" -> ACTIVATE_PATH
    [] op = "rollback" -> RollbackPath(s)
    [] op = "repair" -> RepairPath(s)

startPath(k) ==
  LET request == calls[k].request
  IN  /\ calls[k].pc = "start"
      /\ request.op \in {"stage", "activate", "rollback", "repair"}
      /\ MayStart(request.op, request.d)
      /\ calls' = [calls EXCEPT ![k] =
                     Walk(request, PathOf(request.op, state[request.d]))]
      /\ UNCHANGED <<ledger, intents, crashes>>

observe(k) ==
  LET request == calls[k].request
  IN  /\ calls[k].pc = "start" /\ request.op = "observe"
      /\ calls' = [calls EXCEPT ![k] = Finish(request, state[request.d])]
      /\ UNCHANGED <<ledger, intents, crashes>>

----------------------------------------------------------------------------
(* advance()                                                               *)

\* Mutant: a state without a rule is passed over like the current one.
SkipsUnreachable(d, next) == <<state[d], next>> \notin TransitionRules

\* The path element is the state the row is already in.
Skips(d, next) == state[d] = next

advanceSkip(k) ==
  /\ calls[k].pc = "advance" /\ calls[k].path # <<>>
  /\ Skips(calls[k].request.d, Head(calls[k].path))
  /\ calls' = [calls EXCEPT ![k].path = Tail(@)]
  /\ UNCHANGED <<ledger, intents, crashes>>

\* appendEvidence for the kinds the rule requires.  A success marker that
\* the row already carries is cited again instead.
advanceEvidence(k) ==
  LET d == calls[k].request.d
      next == Head(calls[k].path)
      required == REQUIRED_EVIDENCE[next] \cap TrackedKinds
      reuses == "success.marker" \in required /\ successMarker[d] # None
  IN  /\ calls[k].pc = "advance" /\ calls[k].path # <<>>
      /\ <<state[d], next>> \in TransitionRules
      /\ \E digest \in Digests :
           LET new == {[kind |-> kind, digest |-> digest] :
                         kind \in required \ (IF reuses
                                              THEN {"success.marker"} ELSE {})}
               old == IF reuses
                      THEN {[kind |-> "success.marker",
                             digest |-> successMarker[d]]} ELSE {}
               marker == IF "success.marker" \in required /\ ~reuses
                         THEN digest ELSE calls[k].marker
           IN  /\ evidence' = [evidence EXCEPT ![d] = @ \cup new]
               /\ calls' = [calls EXCEPT ![k] =
                    [pc |-> "transition", request |-> @.request,
                     path |-> @.path, marker |-> marker, cites |-> new \cup old]]
      /\ UNCHANGED <<created, generation, createKey, createRequest, state,
                     stateSequence, guardArmed, successMarker, products,
                     intents, crashes>>

\* database.transition() with the row read at the top of the loop.
advanceTransition(k) ==
  LET d == calls[k].request.d
      next == Head(calls[k].path)
      marker == IF calls[k].marker # None THEN calls[k].marker
                ELSE successMarker[d]
      in == [nextState |-> next,
             guardStatus |->
               CASE next = "guard_armed" -> "armed"
                 [] next \in {"succeeded", "rolled_back"} -> "disarmed"
                 [] OTHER -> None,
             successMarkerDigest |->
               IF next \in {"guard_disarming", "succeeded"}
               THEN marker ELSE None,
             evidence |-> calls[k].cites]
  IN  /\ calls[k].pc = "transition"
      /\ transition(d, [generation |-> generation[d],
                               state |-> state[d],
                               sequence |-> stateSequence[d]], in)
      /\ calls' = [calls EXCEPT ![k] =
           [pc |-> "advance", request |-> @.request, path |-> Tail(@.path),
            marker |-> @.marker]]
      /\ UNCHANGED <<intents, crashes>>

\* build() freezes both product manifests after its path.
addProducts(k) ==
  LET d == calls[k].request.d
  IN  /\ calls[k].pc = "advance" /\ calls[k].path = <<>>
      /\ calls[k].request.op = "build"
      /\ \E p \in DEPLOYMENT_PRODUCTS :
           /\ p = "baby-quirt-mcp" => products[d]["baby-quirt"] # None
           /\ addProduct(d, p, compatibility)
      /\ UNCHANGED <<intents, calls, crashes>>

\* Mutant: the products are frozen by a later request.
ResultReadyEarly(k) == calls[k].pc = "advance" /\ calls[k].path = <<>>

ResultReady(k) ==
  /\ calls[k].pc = "advance" /\ calls[k].path = <<>>
  /\ calls[k].request.op = "build"
       => \A p \in DEPLOYMENT_PRODUCTS :
            products[calls[k].request.d][p] # None

result(k) ==
  /\ ResultReady(k)
  /\ calls' = [calls EXCEPT ![k] = Finish(@.request, state[@.request.d])]
  /\ UNCHANGED <<ledger, intents, crashes>>

completeIntent(k) ==
  /\ calls[k].pc = "complete"
  /\ intents' = [intents EXCEPT ![k] =
                   [status |-> "completed", request |-> @.request,
                    result |-> calls[k].result]]
  /\ calls' = [calls EXCEPT ![k] = NoCall]
  /\ UNCHANGED <<ledger, crashes>>

----------------------------------------------------------------------------
(* Failures                                                                *)

\* A check of the operation or of the ledger, the signing key or SQLite
\* throws: the caller gets the error, the intent stays pending.
callThrows(k) ==
  /\ calls[k].pc # "idle"
  /\ calls' = [calls EXCEPT ![k] = NoCall]
  /\ UNCHANGED <<ledger, intents, crashes>>

\* The service dies: every call is lost, the database is not.
crash ==
  /\ crashes < MaxCrashes
  /\ \E k \in Keys : calls[k] # NoCall
  /\ calls' = [k \in Keys |-> NoCall]
  /\ crashes' = crashes + 1
  /\ UNCHANGED <<ledger, intents>>

\* Nothing under src/ ever writes a state that repair() accepts: another
\* client of the database diagnoses a row while no request runs.
diagnose(d) ==
  /\ Diagnosing
  /\ NobodyRuns
  /\ \E s \in RepairStates :
       transition(d, [generation |-> generation[d], state |-> state[d],
                             sequence |-> stateSequence[d]],
                         [nextState |-> s, guardStatus |-> None,
                          successMarkerDigest |-> None, evidence |-> {}])
  /\ UNCHANGED <<intents, calls, crashes>>

serviceStep(k) ==
  \/ build(k) \/ startPath(k) \/ observe(k)
  \/ advanceSkip(k) \/ advanceEvidence(k) \/ advanceTransition(k)
  \/ addProducts(k) \/ result(k) \/ completeIntent(k)

ServiceNext ==
  \/ \E k \in Keys :
       \/ \E request \in Request : reserveIntent(k, request)
       \/ serviceStep(k)
       \/ callThrows(k)
  \/ crash
  \/ \E d \in Deployments : diagnose(d)

ServiceSpec == ServiceInit /\ [][ServiceNext]_serviceVars

----------------------------------------------------------------------------
(* Properties                                                              *)

CallPc == {"idle", "start", "advance", "transition", "complete"}

\* The ledger's types, one run() at a time, and a call only for a pending
\* intent of the same request.
ServiceTypeOK ==
  /\ TypeOK
  /\ \A k \in Keys :
       /\ calls[k].pc \in CallPc
       /\ calls[k] # NoCall
            => /\ intents[k].status = "pending"
               /\ intents[k].request = calls[k].request
       /\ intents[k].status \in {"absent", "pending", "completed"}
  /\ \A j, k \in Keys : Running(j) /\ Running(k) => j = k
  /\ crashes \in 0..MaxCrashes

\* The state an operation promises when it answers.
TargetOf(op) ==
  CASE op = "build" -> "artifact_verified"
    [] op = "stage" -> "ready_to_activate"
    [] op = "activate" -> "succeeded"
    [] op \in {"rollback", "repair"} -> "rolled_back"

\* The result stored for a retry of the request is the state the operation
\* promises, whatever rows, restarts and other requests it met on its way;
\* a completed build has frozen two compatible manifests.
CompletedMeansReached ==
  \A k \in Keys :
    intents[k].status = "completed" /\ intents[k].request.op # "observe" =>
      /\ intents[k].result = TargetOf(intents[k].request.op)
      /\ intents[k].request.op = "build"
           => ProductsCompatible(intents[k].request.d)

\* A deployment is answered with one outcome: of all activations, rollbacks
\* and repairs requested for it, under any keys, at most one completes, so
\* no caller holds a success for a deployment another saw rolled back.
SingleOutcome ==
  \A j, k \in Keys :
    /\ intents[j].status = "completed" /\ intents[k].status = "completed"
    /\ intents[j].request.d = intents[k].request.d
    /\ {intents[j].request.op, intents[k].request.op}
         \subseteq {"activate", "rollback", "repair"}
    => j = k

\* From state s with guard bit `armed' the transitions of path are allowed.
PathOpen(armed, s, path) ==
  \A i \in 1..Len(path) :
    LET from == IF i = 1 THEN s ELSE path[i - 1]
    IN  \/ i = 1 /\ s = path[1]
        \/ AssertTransitionAllowed(armed, from,
             [nextState |-> path[i],
              guardStatus |-> IF path[i] = "rolled_back"
                              THEN "disarmed" ELSE None,
              successMarkerDigest |-> None,
              evidence |-> EvidenceRef])

Recoverable(d) ==
  \E op \in {"rollback", "repair"} :
    MayStart(op, d) /\ PathOpen(guardArmed[d], state[d],
                                PathOf(op, state[d]))

\* "Cancellation after arming becomes rollback intent": whenever no request
\* runs, a deployment whose guard is armed can be rolled back by a release
\* operation, wherever an activation, rollback or repair died.
ArmedRecoverable ==
  \A d \in created : NobodyRuns /\ guardArmed[d] => Recoverable(d)
=============================================================================
