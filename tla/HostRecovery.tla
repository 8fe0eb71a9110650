---------------------------- MODULE HostRecovery ----------------------------
(***************************************************************************)
(* What a guarded deployment does to the host and what the controller puts *)
(* back: SnapshotManager (src/deployment/snapshot.ts), the restore of      *)
(* FilesystemGuardHost (src/controller/filesystem-host.ts) and the units   *)
(* it stops and starts.  GuardController is about the guard's records and  *)
(* pointers; this module is about contents and running services.           *)
(*                                                                         *)
(* The snapshot's targets are grouped as the restore groups them.  The     *)
(* content of a group is a version number, or Partial while its targets    *)
(* are removed or half written.  A controller call holds the lock of       *)
(* ControllerLock; a call started by the guard's timer runs in the unit's  *)
(* sandbox, which mounts most targets read-only.                           *)
(***************************************************************************)
EXTENDS Integers

CONSTANTS
  Procs,      \* controller processes
  Sandboxed,  \* those started by baby-quirt-deploy-guard@.timer
  MaxVersion  \* bound on the versions of a group's content

Products == {"baby", "gateway"}
Groups == Products \cup {"caddy"}
Partial == -1

VARIABLES
  phase,      \* the deployment: "none", "capture", "saved", "armed"
  overdue,    \* the deadline of the guard has passed
  outcome,    \* the terminal record: rollback.json or the latest recovery
  taken,      \* groups captured so far
  snapshot,   \* the captured content of each group
  content,    \* the content of each group
  link,       \* the release each product's current pointer names
  serving,    \* the release each product's service runs
  stage       \* where each controller call is in restoreSnapshot

recoveryVars == <<phase, overdue, outcome, taken, snapshot, content, link,
                  serving, stage>>

Release == {"known", "candidate"}
Content == {Partial} \cup 0..MaxVersion
Outcome == {"none", "rolled_back", "rollback_failed"}

\* A step of the restore, of one group or of the whole host.
At(step) == <<step, "host">>
RestoreStages ==
  ({"validate", "stopGateway", "stopBaby", "runtime", "start", "verify"}
     \X {"host"})
  \cup ({"remove", "write", "readback", "pointers"} \X Groups)
Recording(o) == <<"record", o>>
Rolled == Recording("rolled_back")
Failed == Recording("rollback_failed")
Idle == At("idle")
Done == At("done")

RecoveryInit ==
  /\ phase = "none" /\ overdue = FALSE /\ outcome = "none"
  /\ taken = {}
  /\ snapshot = [g \in Groups |-> 0]
  /\ content = [g \in Groups |-> 0]
  /\ link = [p \in Products |-> "known"]
  /\ serving = [p \in Products |-> "known"]
  /\ stage = [p \in Procs |-> Idle]

----------------------------------------------------------------------------
(* The deployment: snapshot, guard, activation                             *)

\* capture() reads one target after the other while the services run.
captureTarget(g) ==
  /\ phase \in {"none", "capture"}
  /\ g \notin taken /\ content[g] # Partial
  /\ taken' = taken \cup {g}
  /\ snapshot' = [snapshot EXCEPT ![g] = content[g]]
  /\ phase' = "capture"
  /\ UNCHANGED <<overdue, outcome, content, link, serving, stage>>

\* persist() builds the directory under another name and renames it.
persistSnapshot ==
  /\ phase = "capture" /\ taken = Groups
  /\ phase' = "saved"
  /\ UNCHANGED <<overdue, outcome, taken, snapshot, content, link, serving,
                 stage>>

\* A throw or a death on the way leaves at most a building directory.
captureFails ==
  /\ phase = "capture"
  /\ phase' = "none" /\ taken' = {}
  /\ UNCHANGED <<overdue, outcome, snapshot, content, link, serving, stage>>

\* arm(): the guard binds the persisted snapshot.
armGuard ==
  /\ phase = "saved"
  /\ phase' = "armed"
  /\ UNCHANGED <<overdue, outcome, taken, snapshot, content, link, serving,
                 stage>>

\* The orchestrator installs the candidate's files, moves the pointer and
\* restarts the service; it stops at the deadline.
activateCandidate(p) ==
  /\ phase = "armed" /\ ~overdue
  /\ link[p] = "known" /\ content[p] < MaxVersion
  /\ link' = [link EXCEPT ![p] = "candidate"]
  /\ serving' = [serving EXCEPT ![p] = "candidate"]
  /\ content' = [content EXCEPT ![p] = @ + 1]
  /\ UNCHANGED <<phase, overdue, outcome, taken, snapshot, stage>>

deadlinePasses ==
  /\ phase = "armed" /\ ~overdue
  /\ overdue' = TRUE
  /\ UNCHANGED <<phase, outcome, taken, snapshot, content, link, serving,
                 stage>>

----------------------------------------------------------------------------
(* Services                                                                *)

\* A running service changes its own files and database.
serviceWrites(p) ==
  /\ serving[p] # "none"
  /\ content[p] \in 0..MaxVersion - 1
  /\ content' = [content EXCEPT ![p] = @ + 1]
  /\ UNCHANGED <<phase, overdue, outcome, taken, snapshot, link, serving,
                 stage>>

\* baby-quirt.socket stays active when the service is stopped: a client that
\* connects starts what the pointer names.
socketActivates ==
  /\ serving["baby"] = "none"
  /\ serving' = [serving EXCEPT !["baby"] = link["baby"]]
  /\ UNCHANGED <<phase, overdue, outcome, taken, snapshot, content, link,
                 stage>>

\* A reboot: both services start with what the pointers name, before the
\* timer evaluates the guard again.
servicesReboot == serving' = link

----------------------------------------------------------------------------
(* restoreSnapshot                                                         *)

goto(p, next) == stage' = [stage EXCEPT ![p] = next]
Restoring(p) == stage[p] \in RestoreStages

\* evaluate() and manualRecover() under the lock: an overdue guard without
\* outcome, or a recorded failure, is restored; else the call returns.
beginCall(p) ==
  /\ stage[p] = Idle
  /\ goto(p, IF \/ phase = "armed" /\ overdue /\ outcome = "none"
                \/ outcome = "rollback_failed" /\ p \notin Sandboxed
             THEN At("validate") ELSE Done)
  /\ UNCHANGED <<phase, overdue, outcome, taken, snapshot, content, link,
                 serving>>

\* load() and the pointer fence.
validateSnapshot(p) ==
  /\ stage[p] = At("validate")
  /\ goto(p, At("stopGateway"))
  /\ UNCHANGED <<phase, overdue, outcome, taken, snapshot, content, link,
                 serving>>

\* Mutant: only the baby service is stopped.
stopBabyOnly(p) ==
  /\ stage[p] = At("stopGateway")
  /\ goto(p, At("stopBaby"))
  /\ UNCHANGED <<phase, overdue, outcome, taken, snapshot, content, link,
                 serving>>

\* systemctl stop baby-quirt-mcp.service
stopGateway(p) ==
  /\ stage[p] = At("stopGateway")
  /\ serving' = [serving EXCEPT !["gateway"] = "none"]
  /\ goto(p, At("stopBaby"))
  /\ UNCHANGED <<phase, overdue, outcome, taken, snapshot, content, link>>

\* systemctl stop baby-quirt.service
stopBaby(p) ==
  /\ stage[p] = At("stopBaby")
  /\ serving' = [serving EXCEPT !["baby"] = "none"]
  /\ goto(p, <<"remove", "baby">>)
  /\ UNCHANGED <<phase, overdue, outcome, taken, snapshot, content, link>>

\* restoreTarget: rmSync of the target.  In the timer's sandbox the first
\* target outside ReadWritePaths throws: of every group, not all are inside.
removeTarget(p, g) ==
  /\ stage[p] = <<"remove", g>>
  /\ content' = [content EXCEPT ![g] = Partial]
  /\ goto(p, IF p \in Sandboxed THEN Failed ELSE <<"write", g>>)
  /\ UNCHANGED <<phase, overdue, outcome, taken, snapshot, link, serving>>

\* ... then files, links and directories are written anew.
writeTarget(p, g) ==
  /\ stage[p] = <<"write", g>>
  /\ content' = [content EXCEPT ![g] = snapshot[g]]
  /\ goto(p, <<"readback", g>>)
  /\ UNCHANGED <<phase, overdue, outcome, taken, snapshot, link, serving>>

AfterGroup(g) ==
  CASE g = "baby" -> <<"remove", "gateway">>
    [] g = "gateway" -> <<"remove", "caddy">>
    [] g = "caddy" -> At("runtime")

\* The inventory of the group must be the snapshot's.
readbackTarget(p, g) ==
  /\ stage[p] = <<"readback", g>>
  /\ goto(p, IF content[g] # snapshot[g] THEN Failed
             ELSE IF g \in Products THEN <<"pointers", g>> ELSE AfterGroup(g))
  /\ UNCHANGED <<phase, overdue, outcome, taken, snapshot, content, link,
                 serving>>

\* restoreProductPointers of a product, after its targets.
restorePointers(p, g) ==
  /\ stage[p] = <<"pointers", g>>
  /\ link' = [link EXCEPT ![g] = "known"]
  /\ goto(p, AfterGroup(g))
  /\ UNCHANGED <<phase, overdue, outcome, taken, snapshot, content, serving>>

\* tmpfiles, daemon-reload, caddy validate and reload.
recreateRuntime(p) ==
  /\ stage[p] = At("runtime")
  /\ goto(p, At("start"))
  /\ UNCHANGED <<phase, overdue, outcome, taken, snapshot, content, link,
                 serving>>

\* systemctl start of the socket, which is active, and of the gateway.
startKnownGood(p) ==
  /\ stage[p] = At("start")
  /\ serving' = [serving EXCEPT !["gateway"] =
                   IF @ = "none" THEN link["gateway"] ELSE @]
  /\ goto(p, At("verify"))
  /\ UNCHANGED <<phase, overdue, outcome, taken, snapshot, content, link>>

\* Both units are active and all pointers are the expected ones.
verifyKnownGood(p) ==
  /\ stage[p] = At("verify")
  /\ goto(p, IF \A q \in Products : link[q] = "known"
             THEN Rolled ELSE Failed)
  /\ UNCHANGED <<phase, overdue, outcome, taken, snapshot, content, link,
                 serving>>

\* Any file operation or command throws; a group in work stays as it is.
restoreThrows(p) ==
  /\ Restoring(p)
  /\ goto(p, Failed)
  /\ UNCHANGED <<phase, overdue, outcome, taken, snapshot, content, link,
                 serving>>

\* The evidence record of the outcome, and the return.
recordRestore(p) ==
  /\ stage[p] \in {Rolled, Failed}
  /\ outcome' = stage[p][2]
  /\ goto(p, Done)
  /\ UNCHANGED <<phase, overdue, taken, snapshot, content, link, serving>>

restoreSnapshot(p) ==
  \/ validateSnapshot(p) \/ stopGateway(p) \/ stopBaby(p)
  \/ \E g \in Groups :
       removeTarget(p, g) \/ writeTarget(p, g) \/ readbackTarget(p, g)
  \/ \E g \in Products : restorePointers(p, g)
  \/ recreateRuntime(p) \/ startKnownGood(p) \/ verifyKnownGood(p)
  \/ restoreThrows(p) \/ recordRestore(p)

deploymentStep ==
  \/ \E g \in Groups : captureTarget(g)
  \/ persistSnapshot \/ captureFails \/ armGuard
  \/ \E p \in Products : activateCandidate(p)
  \/ deadlinePasses

serviceStep == (\E p \in Products : serviceWrites(p)) \/ socketActivates

----------------------------------------------------------------------------

RecoveryTypeOK ==
  /\ phase \in {"none", "capture", "saved", "armed"}
  /\ overdue \in BOOLEAN /\ outcome \in Outcome
  /\ taken \subseteq Groups
  /\ snapshot \in [Groups -> Content] /\ content \in [Groups -> Content]
  /\ link \in [Products -> Release]
  /\ serving \in [Products -> Release \cup {"none"}]
  /\ stage \in [Procs -> RestoreStages \cup {Idle, Done, Rolled, Failed}]

\* What the restore's start of the gateway relies on: gateway and caddy are
\* exactly as captured, baby too unless its socket started it meanwhile, and
\* no pointer names the candidate.
ExactHost ==
  /\ \A g \in {"gateway", "caddy"} : content[g] = snapshot[g]
  /\ content["baby"] = snapshot["baby"] \/ serving["baby"] # "none"
  /\ \A p \in Products : link[p] = "known"
=============================================================================
