-------------------------- MODULE DeliveryPublisher --------------------------
(***************************************************************************)
(* The compound publication of a delivery (GitHubDeliveryPublisher.publish *)
(* of src/github/provider-delivery.ts) and the provider operations it      *)
(* drives: push, draft pull request, workflow wait, artifact capture, each *)
(* under a durable run of its own so that a later publish() resumes at the *)
(* first stage whose result the delivery does not hold.                    *)
(*                                                                         *)
(* The push is SafePublication's preview and apply.  Pull requests,        *)
(* workflows and artifacts live on GitHub: their transport is external and *)
(* may answer anything its types allow.  A provider call made outside a    *)
(* delivery (workflow logs included) takes the same steps and is left out. *)
(***************************************************************************)
EXTENDS SafePublication

CONSTANTS
  Deliveries,      \* deliveries: each is also the id of its push mutation
  ExpectedOld,     \* expectedRemoteOldObject of every delivery's request
  ExpiresAt,       \* expiresAt of every delivery's request
  WorkflowDeadline,
  MaxPolls,        \* maximumWorkflowAttempts
  MaxRunAttempts   \* bound on the attempts (reruns) of a workflow run

ASSUME DeliveriesAssumption == Mutations = Deliveries \cup {Operator}
                               /\ Operator \notin Deliveries
ASSUME RequestAssumption ==
  /\ ExpectedOld \in Objects
  /\ ExpiresAt \in Clock /\ WorkflowDeadline \in Clock
  /\ MaxPolls \in Nat \ {0} /\ MaxRunAttempts \in Nat \ {0}

Workflow == [sha : Commits, attempt : 1..MaxRunAttempts]
Conclusion == {"running", "success", "failure"}

ASSUME NoWorkflowAssumption == None \notin Workflow

\* github_provider_runs: the child runs of a delivery ("key" is what the
\* semantic digest of the child request depends on) and the delivery itself.
ChildKinds == {"pr", "workflow", "artifacts"}
NoChild == [state |-> "none"]
ChildState == {"intent_persisted", "remote_attempted", "remote_reconciled",
               "verified", "failed", "ambiguous"}
PrChild == [state : ChildState, key : Commits]
WorkflowChild == [state : ChildState, key : Workflow, attempt : 0..MaxPolls]
ArtifactsChild == [state : ChildState, key : Workflow \X Commits]

NoDelivery == [state |-> "none"]
DeliveryState == {"intent_persisted", "push_verified", "pr_verified",
                  "workflow_verified", "artifacts_verified", "completed",
                  "failed", "cancelled"}
Delivery == [state : DeliveryState, push : Objects, pr : Objects,
             workflow : Workflow \cup {None}, artifacts : Objects,
             partialSuccess : BOOLEAN]
Terminal(r) == r.state \in {"completed", "failed", "cancelled"}

VARIABLES
  deliveries,  \* the compound runs and their accumulated results
  children     \* their child runs

vars == <<truthVars, now, remote, moves, seen, flight, pushes, plans, runs, call,
          deliveries, children>>
gitVars == <<truthVars, now, remote, moves, seen, flight, pushes, plans, runs>>

Init ==
  /\ PublicationInit
  /\ deliveries = [d \in Deliveries |-> NoDelivery]
  /\ children = [d \in Deliveries |-> [k \in ChildKinds |-> NoChild]]

InPublish(step) == At(step) /\ call.m \in Deliveries
Child(k) == children[call.m][k]
SetChild(k, r) == children' = [children EXCEPT ![call.m][k] = r]
ChildTo(k, state) == children' = [children EXCEPT ![call.m][k].state = state]

----------------------------------------------------------------------------
(* publish: reserve and resume                                             *)

\* The first stage the stored result lacks.
ResumeAt(r) ==
  IF r.push = None THEN "preview"
  ELSE IF r.pr = None THEN "pr"
  ELSE IF r.workflow = None THEN "find"
  ELSE IF r.artifacts = None THEN "artifacts" ELSE "complete"

\* The row of a new delivery.
reserve(d) ==
  /\ deliveries[d] = NoDelivery
  /\ deliveries' = [deliveries EXCEPT ![d] =
       [state |-> "intent_persisted", push |-> None, pr |-> None,
        workflow |-> None, artifacts |-> None, partialSuccess |-> FALSE]]

\* Replays of completed, failed and cancelled deliveries answer from the row.
publish(d) ==
  /\ call = Idle
  /\ deliveries[d] = NoDelivery \/ deliveries[d].push = None => AttemptsLeft(d)
  /\ \/ /\ reserve(d)
        /\ call' = [step |-> "preview", m |-> d]
     \/ /\ deliveries[d] # NoDelivery /\ ~Terminal(deliveries[d])
        /\ call' = [step |-> ResumeAt(deliveries[d]), m |-> d]
        /\ UNCHANGED deliveries
  /\ UNCHANGED <<gitVars, children>>

\* transition(): the stage's result and state in one write.
Record(field, value, state, step) ==
  /\ deliveries' = [deliveries EXCEPT ![call.m][field] = value,
                                      ![call.m].state = state]
  /\ call' = [step |-> step, m |-> call.m]

----------------------------------------------------------------------------
(* Stage 1: push                                                           *)

\* Every publish() that holds no push previews again, with the same request.
previewPush ==
  /\ InPublish("preview")
  /\ LET p == PlanOf(ExpectedOld, ExpiresAt)
     IN IF PreviewAllowed(ExpectedOld, ExpiresAt) /\ ~registerPlanConflict(p)
        THEN /\ plans' = plans \cup {p}
             /\ call' = [step |-> "reserve", m |-> call.m, plan |-> p, print |-> p]
        ELSE Throw /\ UNCHANGED plans
  /\ UNCHANGED <<truthVars, now, remote, moves, seen, flight, pushes, runs,
                 deliveries, children>>

\* apply() returned: its readback must be the planned commit.
pushVerified ==
  /\ InPublish("returned")
  /\ IF runs[call.m].git = call.plan.new
     THEN Record("push", runs[call.m].git, "push_verified", "pr")
     ELSE Throw /\ UNCHANGED deliveries
  /\ UNCHANGED <<gitVars, children>>

----------------------------------------------------------------------------
(* Stage 2: upsertPullRequest and verifyPullRequest                        *)

Commit == deliveries[call.m].push

\* registry.reserve() and the answers of an existing run.
reservePullRequest ==
  /\ InPublish("pr")
  /\ LET c == Child("pr")
     IN \/ /\ c = NoChild
           /\ SetChild("pr", [state |-> "intent_persisted", key |-> Commit])
           /\ GoTo("prFind")
        \/ /\ c # NoChild /\ UNCHANGED children
           /\ GoTo(IF c.key # Commit \/ c.state = "failed" THEN "threw"
                   ELSE IF c.state = "verified" THEN "prVerify" ELSE "prFind")
  /\ UNCHANGED <<gitVars, deliveries>>

\* pullRequestMatches on what the transport found.
findPullRequest(matches) ==
  /\ InPublish("prFind")
  /\ IF matches
     THEN GoTo("prReconciled") /\ UNCHANGED children
     ELSE ChildTo("pr", "remote_attempted") /\ GoTo("prWrite")
  /\ UNCHANGED <<gitVars, deliveries>>

\* The write, its outcome, and the readback that settles it.
writePullRequest(outcome, matches) ==
  /\ InPublish("prWrite")
  /\ IF matches
     THEN GoTo("prReconciled") /\ UNCHANGED children
     ELSE /\ ChildTo("pr", IF outcome = "failed" THEN "failed" ELSE "ambiguous")
          /\ Throw
  /\ UNCHANGED <<gitVars, deliveries>>

finishPullRequest ==
  /\ \/ /\ InPublish("prReconciled")
        /\ ChildTo("pr", "remote_reconciled") /\ GoTo("prVerified")
     \/ /\ InPublish("prVerified")
        /\ ChildTo("pr", "verified") /\ GoTo("prVerify")
  /\ UNCHANGED <<gitVars, deliveries>>

\* verifyPullRequest of the number read back, which is of "headCommit" now.
verifyPullRequest(headCommit) ==
  /\ InPublish("prVerify")
  /\ IF headCommit = Commit
     THEN Record("pr", headCommit, "pr_verified", "find")
     ELSE Throw /\ UNCHANGED deliveries
  /\ UNCHANGED <<gitVars, children>>

----------------------------------------------------------------------------
(* Stage 3: findWorkflow and waitWorkflow                                  *)

\* Mutant: any run the transport answers with will do.
AnyCommit(w) == TRUE
\* The transport's answer must be a run of exactly the pushed commit.
ExactCommit(w) == w.sha = Commit
findWorkflow(w) ==
  /\ InPublish("find")
  /\ IF ExactCommit(w)
     THEN call' = [step |-> "wait", m |-> call.m, workflow |-> w]
     ELSE Throw
  /\ UNCHANGED <<gitVars, deliveries, children>>

reserveWait ==
  /\ InPublish("wait")
  /\ LET c == Child("workflow")
     IN \/ /\ c = NoChild
           /\ SetChild("workflow", [state |-> "intent_persisted",
                                    key |-> call.workflow, attempt |-> 0])
           /\ GoTo("poll")
        \/ /\ c # NoChild /\ UNCHANGED children
           /\ GoTo(IF c.key # call.workflow \/ c.state = "failed" THEN "threw"
                   ELSE IF c.state = "verified" THEN "waited" ELSE "poll")
  /\ UNCHANGED <<gitVars, deliveries>>

\* One turn of the loop: give up, or read the same run and attempt again and
\* store what was read.
PollsLeft == Child("workflow").attempt < MaxPolls /\ now <= WorkflowDeadline
poll(conclusion) ==
  /\ InPublish("poll")
  /\ IF PollsLeft
     THEN /\ SetChild("workflow", [state |-> "remote_reconciled", key |-> call.workflow,
                                   attempt |-> Child("workflow").attempt + 1])
          /\ GoTo(CASE conclusion = "running" -> "poll"
                    [] conclusion = "success" -> "succeeded"
                    [] OTHER                  -> "unsuccessful")
     ELSE ChildTo("workflow", "failed") /\ Throw
  /\ UNCHANGED <<gitVars, deliveries>>

settleWait ==
  /\ \/ InPublish("succeeded") /\ ChildTo("workflow", "verified") /\ GoTo("waited")
     \/ InPublish("unsuccessful") /\ ChildTo("workflow", "failed") /\ Throw
  /\ UNCHANGED <<gitVars, deliveries>>

workflowVerified ==
  /\ InPublish("waited")
  /\ Record("workflow", Child("workflow").key, "workflow_verified", "artifacts")
  /\ UNCHANGED <<gitVars, children>>

----------------------------------------------------------------------------
(* Stage 4: captureWorkflowArtifacts, and completion                       *)

\* A failed capture, unlike a failed wait or pull request, is tried again.
reserveCapture ==
  /\ InPublish("artifacts")
  /\ LET c == Child("artifacts")
         key == <<deliveries[call.m].workflow, Commit>>
     IN \/ /\ c = NoChild
           /\ SetChild("artifacts", [state |-> "intent_persisted", key |-> key])
           /\ GoTo("capture")
        \/ /\ c # NoChild /\ UNCHANGED children
           /\ GoTo(IF c.key # key THEN "threw"
                   ELSE IF c.state = "verified" THEN "captured" ELSE "capture")
  /\ UNCHANGED <<gitVars, deliveries>>

\* "source" is the commit every listed artifact says it was built from;
\* "sound": none missing, expired, of another size or digest, or stored
\* differently.
captureArtifacts(source, sound) ==
  /\ InPublish("capture")
  /\ IF source = Commit /\ sound
     THEN ChildTo("artifacts", "verified") /\ GoTo("captured")
     ELSE ChildTo("artifacts", "failed") /\ Throw
  /\ UNCHANGED <<gitVars, deliveries>>

artifactsVerified ==
  /\ InPublish("captured")
  /\ Record("artifacts", Child("artifacts").key[2], "artifacts_verified", "complete")
  /\ UNCHANGED <<gitVars, children>>

\* The row is completed; an event has still to be appended.
complete ==
  /\ InPublish("complete")
  /\ deliveries' = [deliveries EXCEPT ![call.m].state = "completed"]
  /\ call' = [step |-> "answer", m |-> call.m]
  /\ UNCHANGED <<gitVars, children>>

answer ==
  /\ InPublish("answer")
  /\ call' = Idle
  /\ UNCHANGED <<gitVars, deliveries, children>>

----------------------------------------------------------------------------
(* Errors                                                                  *)

\* Authorization withdrawn, a rate limit, a changed workflow identity, an
\* error of the transport, or of the database between a record and its event:
\* nothing more is recorded and the call unwinds.  The error of a pull
\* request's write is caught, that of the readback after it is not.
providerThrows ==
  /\ call # Idle /\ call.m \in Deliveries
  /\ call.step \notin ApplySteps
  /\ Throw
  /\ UNCHANGED <<gitVars, deliveries, children>>

\* The catch block: what the stored row holds decides how the delivery ends,
\* also when that row is completed already.
catchError ==
  /\ InPublish("threw")
  /\ LET partial == Commit # None
     IN deliveries' = [deliveries EXCEPT
          ![call.m].state = IF partial THEN "cancelled" ELSE "failed",
          ![call.m].partialSuccess = partial]
  /\ call' = Idle
  /\ UNCHANGED <<gitVars, children>>

----------------------------------------------------------------------------

PublisherStep ==
  \/ previewPush \/ pushVerified
  \/ reservePullRequest \/ finishPullRequest
  \/ \E b \in BOOLEAN : findPullRequest(b)
  \/ \E o \in {"completed", "failed", "unknown"}, b \in BOOLEAN : writePullRequest(o, b)
  \/ \E c \in Commits : verifyPullRequest(c)
  \/ \E w \in Workflow : findWorkflow(w)
  \/ reserveWait \/ settleWait \/ workflowVerified
  \/ \E s \in Conclusion : poll(s)
  \/ reserveCapture \/ artifactsVerified \/ complete \/ answer
  \/ \E c \in Commits, b \in BOOLEAN : captureArtifacts(c, b)
  \/ providerThrows \/ catchError

Next ==
  \/ (World \/ ApplyStep \/ OperatorCall \/ crash) /\ UNCHANGED <<deliveries, children>>
  \/ \E d \in Deliveries : publish(d)
  \/ PublisherStep

Spec == Init /\ [][Next]_vars

----------------------------------------------------------------------------
(* Properties                                                              *)

PublishSteps == {"preview", "pr", "prFind", "prWrite", "prReconciled",
                 "prVerified", "prVerify", "find", "artifacts", "capture",
                 "captured", "complete", "answer", "threw"}
WaitSteps == {"wait", "poll", "succeeded", "unsuccessful", "waited", "threw"}

\* Rows, runs and the call in progress have their types.
TypeOK ==
  /\ PublicationTypeOK
  /\ call \in {Idle} \cup ApplyCall \cup [step : PublishSteps, m : Deliveries]
             \cup [step : WaitSteps, m : Deliveries, workflow : Workflow]
  /\ deliveries \in [Deliveries -> Delivery \cup {NoDelivery}]
  /\ \A d \in Deliveries :
       /\ DOMAIN children[d] = ChildKinds
       /\ children[d]["pr"] \in PrChild \cup {NoChild}
       /\ children[d]["workflow"] \in WorkflowChild \cup {NoChild}
       /\ children[d]["artifacts"] \in ArtifactsChild \cup {NoChild}

\* A completed delivery is about one commit: the one its own push run
\* verified, that the remote ref really held, that its pull request showed,
\* its workflow ran on and its artifacts were built from, and every child run
\* behind those results is verified; deaths and resumed calls included.
CompletedExact ==
  \A d \in Deliveries : deliveries[d].state = "completed" =>
    LET r == deliveries[d]
        c == r.push
    IN /\ c \in seen /\ c # None
       /\ runs[d].state = "verified" /\ runs[d].git = c /\ runs[d].api = c
       /\ r.pr = c /\ r.artifacts = c /\ r.workflow.sha = c
       /\ children[d]["workflow"].key = r.workflow
       /\ \A k \in ChildKinds : children[d][k].state = "verified"

\* The catch block of the very call that completed delivery d cancels it.
CancelsCompleted(d) ==
  /\ At("threw") /\ call.m = d
  /\ deliveries[d].state = "completed"
  /\ deliveries'[d] = [deliveries[d] EXCEPT !.state = "cancelled",
                                           !.partialSuccess = TRUE]

\* Settled work is never redone: a verified push run does not change and
\* sends no further push; no call takes up a completed, failed or cancelled
\* delivery, and it and its child runs do not change.  The one exception is
\* a completed delivery whose event could not be appended: the same call
\* then records it as cancelled.
SettledFinal ==
  [][/\ \A m \in Mutations : runs[m].state = "verified" =>
          runs'[m] = runs[m] /\ pushes'[m] = pushes[m]
     /\ \A d \in Deliveries : Terminal(deliveries[d]) =>
          /\ deliveries'[d] = deliveries[d] \/ CancelsCompleted(d)
          /\ children'[d] = children[d]
          /\ call = Idle => call' = Idle \/ call'.m # d]_vars
=============================================================================
