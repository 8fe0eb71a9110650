# Baby Quirt: a TLA+ verification project

Baby Quirt is a privileged service on one host. It receives signed requests
over a Unix socket and runs jobs, terminals, file and artifact operations,
releases of itself and of its gateway, and an automated delivery lane. A small
independent controller, started by a systemd timer, restores the previous
release when an activated one is not confirmed before a deadline.

This directory holds TLA+ modules translated from the TypeScript under
`src/src/`, TLC configurations that check them on small instances, and TLAPS
proofs for every value of the constants. `PROJECT.json` maps each definition to
the source lines it models and lists runs, mutants, hazards and theorems. Paths
below are relative to `src/` unless they start with `tla/`.

## 1. Inventory

| Component | Source | State | Operations |
|---|---|---|---|
| Deployment state machine and ledger | `src/deployment/state-machine.ts`, `database.ts` | SQLite rows: deployment, event log, products, evidence, intents | createDeployment, addProduct, appendEvidence, transition, reserveIntent, completeIntent |
| Release and self-host service | `src/deployment/service.ts` | none of its own: walks of ledger transactions behind a durable intent | build, stage, activate, rollback, repair, status reads |
| Rollback controller | `src/controller/controller.ts`, `contract.ts`, `storage.ts` | signed files: guard record, generation records, success, disarmed and rollback dispositions | arm, commitSuccess, disarm, evaluate (timer), read, manualRecover |
| Controller global lock | `src/controller/storage.ts` | one lock file | withGlobalLock |
| Guard host and pointer activation | `src/controller/filesystem-host.ts`, `src/deployment/activation.ts`, `src/install/symlinks.ts` | the `current` and `previous` links of two products, running services | restore, activateGatewayCandidate, activateBabyCandidate |
| Snapshots | `src/deployment/snapshot.ts` | the captured targets of three groups (Baby, gateway, Caddy) | capture, persist, load, restoreTarget, readback |
| Controller bootstrap | `src/controller/bootstrap.ts`, `cli.ts` | immutable release directories, links `current`, `previous`, `slots/a`, `slots/b` | install |
| Rehearsal | `src/rehearsal/nspawn-runner.ts`, `ops/rehearsal/baby-quirt-host-certification.mjs` | a lock file, one ZFS clone, one machine and one evidence directory per run, the signed receipt | run (preflight, clone, mount, boot, verify, cleanup, receipt), the guest's checks and suites |
| Request authentication and replay store | `src/server.ts`, `src/auth/authenticator.ts`, `src/state/replay-store.ts`, `src/operations/registry.ts` | idempotency entries, nonces, one JSON file | authenticate, reserve, commitNonce, complete, signed response |
| Jobs | `src/jobs/manager.ts`, `src/state/store.ts`, `src/process/identity.ts` | one record file per job, process table | start, cancel, adopt, prune, recover, close and error handlers |
| Artifacts | `src/artifacts/manager.ts` | manifest file, upload files, digest-named objects | createFromFile, beginUpload, uploadChunk, finalize, abort |
| Automated delivery | `src/delivery/persistence.ts`, `service.ts` | SQLite rows: run, events, leases, child jobs, artifacts, evidence, intents | plan, advance, cancel, rollback, acquire / renew / release lease, record*, intents |
| PTY sessions | `src/pty/manager.ts` | one record file per session, its tmux server and output pipe | create, input, resize, close, recover |
| Files | `src/files/manager.ts` | the file system | replace (with digest preconditions), write, patch, copy, move, remove |
| GitHub authority and publication | `src/github/*` | SQLite rows: workspaces, push plans and runs, provider runs; a Git worktree; the remote ref | materialize, createCommit, preview, apply, publish and its four stages |
| Archives, wire protocol, support code | see `PROJECT.json` | none | validation, packing, process I/O |

How they interact:

- A request passes the **request pipeline** first. Its dispatch calls **jobs**,
  **artifacts**, the **release service** or the **delivery service**. The
  pipeline's idempotency entry and the service's own durable intents are two
  layers of the same promise (once, with one answer).
- The **release service** only moves rows of the **ledger**. Each of its
  operations is several SQLite transactions, so a crash or an error can fall
  between any two, and other requests can run between them.
- The **rollback controller** shares no memory with the service: they meet at
  the guard's files and at the pointer links of the **host**. Every controller
  call is meant to be exclusive through the **global lock**; the restore of the
  **snapshot** runs under it, stops the services and starts the gateway again.
- An **install of the controller** looks at the guard and then works without a lock.
  **Rehearsals** have a lock, names and directories of their own, but their names live
  in the host's one space of datasets and machines, and their guest works on when the
  runner is gone.
- **Delivery** refers to a deployment by id and copies its state; its controllers
  are separate processes that hold leases on a run.
- **Jobs**, **terminals** and **files** share the service process: a restart recovers
  first the jobs, then the tmux sessions, before the socket is listened on. The
  commands of jobs write the paths that the file operations replace.
- A **publication** reads the **workspace** that repository truth materialized,
  pushes under a durable run, and settles the outcome by reading the remote back;
  the **delivery publisher** builds on it and on the pull request, workflow and
  artifact answers of GitHub.

What is hard here, and a unit test hardly reaches: a controller that dies
between two file creations or inside one; two controllers racing for a lock
file; a caller that continues after the deadline of its own guard; a service
restart while a request is executing; a process id that is reused; a lease that
expires while its holder works; an interrupted copy of an object; a push that
lands after its client gave up; a restore that dies between two targets while a
service is started by its socket; two installs that race for the same links; a
host command that took effect and was reported as failed. The full list,
each item at its line, is `hazards` in `PROJECT.json`.

What makes each component correct: a ledger row has a guard exactly when its
state says that a rollback is possible, and can always be closed; a release
operation that is recorded as complete reached its target; an armed guard always
ends in success or in an exact restore, and the gateway is started only on that; the
controller's links name complete releases; a rehearsal receipt is true and its runner
touches nothing of others; a replaced file is whole after any crash; a request is dispatched once and answered
with its own result; no record says finished about a live process; a finalized
artifact is the bytes its record names; a delivery row is what its event log
says; a push only fast-forwards, and a completed delivery is about one commit.

## 2. Modules

Each component has a module (publication has three, one per layer), one `MC...` module with the constants of its runs
and its proofs in a `...Proofs` module: DeploymentProofs has those of the ledger and of
the service, GuardControllerProofs also the refinement of GuardContract,
HostProgramsProofs also the lock alone, SupervisorProofs those of the three managers.
Two modules compose others: Supervisor (jobs, terminals, files) and HostPrograms (lock,
restore, installs, rehearsals).

### DeploymentLedger

`TransitionRules` is the table of `state-machine.ts` as a set of edges;
`AssertTransitionAllowed` has the conjuncts of `assertTransitionAllowed` in the
order of the code (edge, guard bit required, guard bit excluded, guard readback,
marker binding). Variables are the columns of the deployment row (`state`,
`stateSequence`, `guardArmed`, `successMarker`), its identity, its products and
its evidence. `createDeployment`, `addProduct`, `appendEvidence` and `transition`
are one action per SQLite transaction. A `transition` takes `seen`, the row as
its caller read it, so stale callers are part of the model; `TransitionFence`
is the compare-and-swap that stops them. Digests, request bodies and
compatibility strings are opaque values. Of the evidence kinds only
`TrackedKinds` are told apart.

### DeploymentService

Extends DeploymentLedger with `calls` (the control point of each request key) and
`intents`; its specification is `ServiceSpec`, whose steps on the rows are the
ledger's own operations, and whose names are kept apart by the prefix `Service`.
`reserveIntent`, `startPath`,
`advanceEvidence`, `advanceTransition`, `addProducts`, `completeIntent` are the
transactions of one operation in the order of `service.ts`, `callThrows` an error
between any two, `crash` the end of the process. `diagnose` stands for an outside
writer that moves a row to a diagnostic state; the code reaches those states only
through the ledger's own interface. `run()` is synchronous, so one request at a time
is between its reservation and its result; `completeIntent` follows an await, so
others may run before it. `fixtureMode` is on: without it the operations
that change a deployment, and those of the delivery service, refuse to run.

### GuardController

State: for each deployment the guard record (`guardFile`, `signed`), the outcome
files (`success`, `disarmed`, `rollback`), the recorded `generations`, the
pointers `ptr`, the call that holds the lock (`op`), the activation of each
orchestrator and the clock. Each file is `absent`, `torn` or `ok`, and each file
creation is a step, so a death can fall between any two. `arm`, `commitSuccess`,
`disarm`, `evaluate` and `manualRecover` start from the guards of
`controller.ts`; `restoreFence`, `restoreCurrent`, `restorePrevious` and
`restoreVerify` follow `filesystem-host.ts` link by link; `activateFence`,
`activatePrevious`, `activateCurrent` follow `activation.ts` and
`install/symlinks.ts`. Record signatures
are assumed to verify when the file is whole: a torn file is exactly one that does
not parse. The controller's calls are mutually exclusive here; whether they really
are is the question of ControllerLock. Configurations choose `Faults`:
`crash`, `torn` (a death inside a write), `service` (a stop or start fails),
`late` (an orchestrator that keeps going after the deadline), `manual`
(break-glass recovery). `activation.ts` does not look at the deadline: that the
orchestrator stops by itself without `late` is `CallerInTime`, an assumption about
a program outside the repository.

### GuardContract

The promise without files, calls, clock and crashes: three variables (the `phase` of
each deployment's guard, the host it `saved`, the `host`) and four actions (`Arm`,
`Block`, `Change`, `Resolve`). GuardController implements it: `GuardPhase` reads the
phase off the records on disk, `saved` off the signed guard and `host` off the
pointers. The steps of a call are stutters or `Change`, the record that ends it is
`Resolve`, and a death inside the write of `guard.json` is `Block`: a guard that is in
force and that nothing resolves.

### ControllerLock

`withGlobalLock` at the grain of its file system calls: exclusive open, write,
examination of a lock that was there, rename of a stale one, the existence check
after the loop, the action, the token comparison, unlink. A lock file is an inode
with its creator and whether its contents are written. A write may fail before or after
the file is complete (`writeFails`: `fsync`, `close` and the directory's `fsync` come
last), and so may the rename of a stale lock (`renameFails`) and the read or unlink of
the release, whose error is swallowed (`releaseFails`). Any process may die anywhere.

### HostRecovery

What GuardController leaves out: contents and services. The targets of a snapshot are
three groups, as the restore groups them; the content of a group is a version number
or `Partial`. `captureTarget` to `armGuard` are the deployment up to its guard,
`activateCandidate` and `serviceWrites` change contents, `socketActivates` is
`baby-quirt.socket`, which the restore does not stop. `restoreSnapshot` has one action
per target operation and systemd command in the order of `filesystem-host.ts`, each of
which may throw (`restoreThrows`). A call in `Sandboxed` is one of the guard's timer,
whose unit mounts part of every group read-only.

### ControllerBootstrap

`install()` of `bootstrap.ts`: the guard check, the exclusive directory, the copies, the
readback, and three links by rename. `installThrows` and `installDies` end it where it
is.

### HostCertification and RehearsalRunner

HostCertification is the guest's program as a function from one record to its next
ones; `missed` remembers what the program may have forgotten, so that "passed" can be
compared with what happened. RehearsalRunner is `run()` by host command. `Executed` says
that a command may land and be reported as failed; datasets and machines are found by
name, so `foreignTakes` may hold a run's name at any point; a machine that takes it
between `machinectl show` and `terminate` is `late`, as the code cannot tell it from its
own. `forget` is the end of `run()`'s locals.

### HostPrograms

The composition: `lockStep` and `callStep` interleave ControllerLock with the restore
under it, `installStep` reads the guard of HostRecovery, `rehearsalStep` runs beside,
`hostReboots` takes all of them and removes the lock in `/run`. `overlapped` is a history
variable: two calls have been past the lock at once, which `lock_exclusion` shows to be
possible. The variable `kind` of `MCHostPrograms` chooses which programs a behaviour has.

### RequestPipeline

A message is an id, a payload fingerprint, a nonce and a timestamp. `admit` is
authentication, the freshness window, exact and semantic replay, the nonce and
the persistence of the reservation, in the code's order; `replay` answers from the
store; `executeOperation`, `respond` and `signFails` are the asynchronous end of
the dispatch; `restart` reloads the file, and `load` starts with an empty store where
the file cannot be read (`losses` counts these). A `persist` may fail before or after its
rename. Entries lapse when the clock passes their retention. Framing and
signatures are functions of the message, not state.

### JobManager

Job records, their creation order, the start in progress (`busy`), the close
handlers of this service process (`watched`), and a process table in which
process ids are reused by jobs and by strangers (`foreignStart`). `createJob`,
`spawn`, `saveStarted` are the three durable points of a start. `recover` is the
restart of the service over the records it finds, and `startDies` a death inside
it. The write of a job's last record may fail, which the close handler swallows
(`unsaved`). The module has no specification of its own: Supervisor composes it.

### PtyManager, FileManager and Supervisor

A session has a record (`active`, `closed`, `lost`) and a tmux session that outlives
the service: `none`, `running`, or `piped` to its output file. tmux is external. Its
commands may fail at any time, and `pipe-pane -o` toggles, as tmux documents it:
it opens a pipe where there is none and closes the one there is. That is why
`recoverSessions` closes the pipe first (`Repiped`). The program at the end of the pipe
is assumed to live as long as the session. `create`, `openPipe` and `savePtySession`
are the three points of a creation at which it may fail or the service may die;
`Recovered` is what recovery makes of one session and `HalfRecovered` what a death
inside it may leave. Sizes, bytes and offsets are left out.

FileManager has the file operations by system call. A path holds a content, nothing or
`Torn`; `disk` is what it may hold after a power loss, which only `fsync` narrows, and
`parent` tells whether its directory was created (`createParents`) and never synced. The
operations are synchronous, so no handler runs between their calls, but other programs
write the same paths (`outsideWrites`), each call may throw and each may be the last.

Supervisor is the service process of the three managers: one handler at a time, deaths
and reboots that hit all, and `startService`, which recovers jobs and then sessions.
`startServiceDies` is a death among the jobs or among the sessions.

### DeliveryLedger

`run`, `events`, `leases`, `children`, `artifacts`, `evidence`, `intents` are the
tables of `persistence.ts`. Every method that writes a row is an action with the
fence it checks; `controllerStep` gathers what a controller process may call, with
rows it read earlier and any time its clock may claim (`Claimed`: up to `MaxSkew` ahead,
since the code checks a timestamp's format only), and `serviceStep` what requests do. States are
restricted to a set `States` chosen by the configuration; the code has no rules
between delivery states beyond terminal ones being final.

### RepositoryTruth, SafePublication and DeliveryPublisher

Three layers, each extending the one before. **RepositoryTruth** is the worktree
(`head`, `clean`) and its registered row (`workspace`): `materialize`, with a death
between the worktree and its row, `createCommit`, and others who edit files or move
HEAD. **SafePublication** adds push plans, durable runs, the destination ref
(`remote`), the pushes in flight and the call in progress. `preview` and `apply` are
the code's checks in its order; `reserveRun`, `initialReadback`, `push`, `reconcile`
and `apiReadback` are the steps between which the clock, the ref and the workspace
move, and the process may die. A push leaves `flight` by landing, if the ref is still
what `--force-with-lease` names, or by being lost; its client may be gone by then. The
API may answer with any value the ref has held. **DeliveryPublisher** is `publish()`:
the delivery row, its child runs, and its four stages (push, pull request, workflow,
artifacts), resumed where the stored result ends. GitHub's pull requests, runs and
artifacts are external and memoryless: each answer is any answer, and what is
checked is what the code makes of it.

The services are synchronous, so there is one call at a time. The mutation's
idempotency fingerprint is a digest over mutation and plan where the publisher computes
it; an operator's is any member of `Fingerprints`, as `apply` takes it unchecked.
A completed delivery is written before its event: `answer` ends the call or throws, and
the catch block then cancels the row. Authorization may be
withdrawn at any step (`applyThrows`, `providerThrows`). The contents of events and
observations, which no decision reads, are left out.

### ArtifactStore

Contents are short sequences of units, so digests (equality of contents), offsets,
lengths and overlap are exact. `manifest`, `uploads` and `objects` are what is on
disk; `op` is the call in progress and its next file operation; `acked` is the
bytes that were acknowledged to the uploader. `sourceChanges` is another program
that writes the file an artifact is created from. `interrupted` ends a call between
any two file operations and inside the copy of an object, which it may leave unfinished
or unverified under its final name (`LeftByCopy`, remembered in `leftovers`).
`uploadChunk` may write fewer bytes than it was given and still be answered in full
(`dropped` has the positions); a later chunk beyond the end of the file leaves a hole,
which reads as `Zero`.

## 3. Runs

| Run | Shows |
|---|---|
| `ledger` | Two deployments race to be created with reused keys, generations and bodies, one is walked through every transition sequence of up to eight steps, by callers that may hold an old row: keys and generations stay unique; post-arm states have a guard and clean states none; a stale caller moves nothing; success is backed by its own evidence; no row is wedged |
| `guard` | Two deployments, controller crashes, failing services: the host stays inside the fence of the active guard, the gateway moves first, every guard resolves, and the controller implements GuardContract |
| `guard_faults` | All faults together, late orchestrators too: one active guard, one outcome, the timer of an active guard is never answered as stale, and an activation moves a pointer only after its own guard was armed and, up to the deadline, while it is unresolved |
| `guard_torn` (violation) | A death inside the write of `success.json` |
| `host` | Controller calls with their restore, installs and rehearsals, with deaths, reboots, failing lock files, socket activation and foreign names: no returned call leaves its lock and a lone call gets past what dead ones left; the gateway is started only on the exact snapshot; the controller's links name complete releases; receipts stay true and nothing of others is taken down |
| `lock_exclusion` (violation) | Two callers of the lock act at the same time |
| `service` | Four requests of every kind over one deployment with a crash: stored results are true, outcomes are single, an armed row can be rolled back |
| `requests` | Duplicated, delayed and re-signed messages, concurrent dispatches, crashes, failed writes and an unreadable store file: dispatched once unless the store was lost, answered with their own result |
| `supervisor` | Two jobs, two reusable process ids, two sessions, restarts that die, reboots, retention: no finished record has a live process; a live active session is captured while the service runs; a replaced file is whole, whatever throws, dies or loses power, unless its directory was new; every running record of a dead process resolves, unless its last write failed |
| `delivery` | Two plans claim one id, two controllers with stale rows and with clocks behind or ahead: the row is its log, leases are exclusive until they lapse, what is terminal or recorded stays |
| `publish` | A delivery and an operator publish from one workspace while others move workspace and ref, pushes land late, the API lags and the process dies: intents precede pushes, pushes only fast-forward, settled work is not redone, a completed delivery is about one commit |
| `artifacts` | Interleaved creations and chunked uploads, with short writes, interrupted between any two file operations and inside copies: finalized is exact unless an interrupted copy had left the object, finalized is immutable, and what is missing of an acknowledged chunk is what its own write did not take |

### Bounds, and why they are enough

- `ledger`: two identifiers, keys, generations and bodies give every collision of
  a creation. After creation, no action relates two rows, so the constraint
  `WalkOne` follows only the row `d1` beyond the creations. `MaxSequence = 8` is
  longer than the longest detour that matters (arm, partial, reconcile, roll back,
  fail, reconcile, roll back, close); the theorems drop the bound.
- `guard`: two deployments are what exclusivity and staleness need, deadlines in
  `1..2` give one before and one after the end of the activation, two crashes give
  a crash of the recovery from a crash.
- `host`: the retry loop is bounded by two attempts in the code; three controller
  processes are a creator, one that examines and one that replaces, one of them in the
  timer's sandbox. Two installs of two releases race for every link, two runners for the
  names of one run, with one foreign name. One death or reboot lets a call meet what
  another left. `Bounded` keeps the product of the three kinds finite in practice:
  calls, installs and rehearsals share no state but the guard that installs look at, so
  each behaviour has programs of one kind; the third call joins only before a
  deployment, nothing is activated beside installs, a rehearsal meets a death or a
  foreign name but not both, and a guest that missed a check has one runner. The
  theorems have none of these bounds.
- `service`: four keys are a build, a forward operation, a rollback and a repair or
  a retry of any of these. `MaxSequence = 32` is never reached.
- `requests`: two ids, fingerprints and nonces give each replay, conflict and
  nonce collision; `MaxTime` exceeds `Retention`, so entries lapse and messages are
  sent again; the ratio `Retention > 2 * MaxAge` is that of the code's values.
- `supervisor`: `MaxRetention = 1` with two jobs makes retention prune a job while
  another runs; two restarts let a record be adopted, or half recovered, and then
  recovered again. `MaxStarted = 2` allows two jobs, two sessions or one of each:
  jobs and sessions share nothing but the service process. `MaxFileOps = 3` is two
  operations and a write by others, or three operations, on two paths; `EitherKind`
  follows file operations only where no job or session was started.
- `delivery`: two events per run with `MAX_EVENTS_PER_RUN = 2` reach the limit.
  The constraint `OneTable` explores leases, children, artifacts, evidence and
  intents one at a time: their guards read the run only, never each other.
  `MaxSkew = 1` lets a clock that is ahead displace a holder before its expiry.
- `publish`: three commits, one with two children that are no ancestors of each
  other, give fast-forwards and divergence; the run starts with and without a
  worktree and with and without the branch. One delivery and one operator contend
  for the ref, others move workspace or ref once, two attempts give a retry after
  a death, two workflow attempts a rerun, and the clock passes both the workflow's
  deadline and the expiry of the plan. One fingerprint of the operator is enough for
  two plans to share it.
- `artifacts`: two ids with contents of up to three units, of which an artifact may have
  two, give empty, short, overlapping and over-long chunks, holes, and two artifacts with
  the same object; `Zero` is one of the units, so a hole can pass for data; uploads
  promise nothing or both length and digest. Sources and chunks are one content of each
  length, chosen so that they fit each other.

`CHECK_DEADLOCK FALSE` is set everywhere because every bounded instance may come
to rest: deployments close, keys are used up, the clock reaches its cap.

### Fairness

No fairness is assumed of callers, orchestrators or operators.

- `GuardController`: the clock advances; a call that holds the lock runs to its end
  unless it dies; the timer evaluates each deployment. The unit has
  `Persistent=true` and fires every 15 seconds, so it also fires after a reboot.
- `ControllerLock` and `HostPrograms`: a process that entered `withGlobalLock` keeps
  running; the function blocks nowhere.
- `Supervisor`: systemd restarts the service (`Restart=on-failure`) and started calls
  go on, file operations too, which are synchronous. Child events get strong fairness: the event loop queues an event while a
  handler runs and delivers it afterwards, so handlers that keep coming cannot starve
  it.

The other specifications state safety only.

## 4. Proofs

All theorems hold for any constants that satisfy the assumptions named in the
modules. Each is listed in `PROJECT.json`.

- **DeploymentProofs, the ledger.** `GuardInv` is type correctness, `Fresh` (what does
  not exist has initial columns), and the two halves of `GuardSafety`,
  `PostArmGuarded` and `ArmedNeverClean`. They are only inductive together: a step into a post-arm state needs
  the bit of the state it comes from, and a step into a clean state needs that
  the bit was cleared by it. `GuardBitSticky`, `CreationUnique`, `MarkerBacked` and
  `CanTerminalize` follow with it. `GuardBitSticky` is about callers with an old row too:
  it needs the compare-and-swap (`TransitionFence`), without which a row moves from a
  state it no longer has.
- **DeploymentProofs, the service.** `ServiceInv` has four parts. `RowsInv` is the
  ledger's `GuardInv` and the states and manifests the service leaves; `LedgerStep` shows that every
  service step is one of the ledger's or only adds evidence. `CallsInv` says that one
  `run()` at a time works, for a pending intent. `WalkInv` ties the rest of a call's
  path to its promise: the path ends in the operation's target, which the row has reached
  when the path is empty. Without it `CompletedMeansReached` is not inductive, as the result
  is stored after other requests may have moved the row. `OutcomeInv` says why outcomes
  are single: once one is answered, or about to be, the row is `succeeded` or
  `rolled_back`, and any other call for it is an activation that stands before its first
  transition, which `DecidedStuck` shows to be refused. `ArmedRecoverable` follows from
  `RowsInv` alone: of the states with an armed guard each has a way back
  (`BackOpen`) whose edges are rules (`BackRules`) without another condition (`BackAllowed`).
- **GuardControllerProofs.** `SafetyInv` adds to the properties what a call knows
  while it runs: `ArmInv` (a guard half armed is the only candidate and its
  generation is above all recorded ones) and `RollbackInv` (the rollback in
  progress is of a guard with no other outcome). It holds under every fault.
  `ActivationGuarded` does too. It is proved with `BookInv`: which outcome files and
  activation steps can go together (`Bookkeeping`), and what the call in progress has
  found: no other record of its deployment, or an expired deadline (`CallDecided`).
  `RestorePossible` is proved from `FenceInv`, which has `Bookkeeping` and
  what the call in progress relies on (`OpFence`): the pointers an arming call
  compared, the deadline a rollback found expired. It assumes that there are no late
  orchestrators and no break-glass recovery: with these the fence can be broken, and the
  code answers with `rollback_failed`.
  `GatewayFirst` needs `OrderInv`: a candidate no guard was armed for is nowhere in use
  (`Unseen`), no guard was armed on a host that ran its candidate (`OwnFresh`), an
  activation that is done with the gateway finds it where it left it until the deadline
  (`GatewayHeld`), and a rollback past its first pointer has taken the candidate from
  Baby (`RestoreOrder`). The same two assumptions hold for it.
  `GuardImplementsContract` follows from the first two invariants and `CallInv`: a
  rollback about to be recorded as complete has the signed pointers, and an arming call
  meets no torn guard. It has the two assumptions as well, as a late orchestrator changes
  a host whose guard is resolved.
- **HostProgramsProofs.** The lock alone: `LockInv` has `OwnerInv`, a written lock file
  at the path belongs to a process that has not finished with it, or to one that died or
  met an I/O error on it.
  Then four independent invariants of the composition, without the
  bounds of the run. `LockInv` again, now with reboots and everything beside the lock.
  `InstallInv`: an install that links has read its release back, and expects one that
  was complete. `RunInv`: at most one runner works on a run (`OneRunner`, from the
  exclusive directory), what it `Knows` of machine and dataset at each point (at
  `terminate` a machine that came after its `show` is possible, and is the one exception
  of `ForeignUntouched`), and
  `Certified`, which says where a check that a guest missed still shows; `Truthful`
  follows a receipt after its runner is gone. `RestoreInv`: a restore is a call under
  the lock, of an overdue guard, and unless calls overlapped it has `RestoredTo` its
  stage, which needs that the gateway is down from its stop to its start.
- **RequestPipelineProofs.** `AdmissionInv` says that each admission of the last
  retention window is covered by an entry on disk and by a nonce
  (`AdmissionsCovered`), so a crash or a failed write cannot forget it; exactness
  over all time follows since a message is timely only for less than that window. Both
  are for admissions with no lost store between them, which is counted in an `epoch`;
  across a loss only timeliness bounds a second dispatch (`AdmissionsTimely`).
  `ReplyMatches` needs `ReplyInv`: a completed entry, in memory and in the file, is
  the answer of a dispatch of the id and payload it is filed under, and a dispatch
  carries the message it was started for. The entry a dispatch completes may have been
  pruned and its id taken by another payload, so neither half is enough.
- **ArtifactStoreProofs.** `StoreInv` is type correctness and that a call keeps the
  record it read; `ObjectInv` says that an object is incomplete only if it is the copy in
  progress or a leftover of an interrupted one, that neither is ever written again under
  the same name, and that a call about to save a finalized record has its object.
  `FinalizedExact` and `FinalizedImmutable` follow. `AckInv` follows the acknowledged bytes
  through the calls: a chunk, as far as it was written, comes after them before it is
  acknowledged itself, and an object that is published holds them, but for the `dropped`
  positions, before its record names it. All of this is proved with deaths inside copies
  and with short writes.
- **DeliveryPublisherProofs.** `IInv` is `TypeInv`, `CallInv` (an apply past its
  reservation has a stored run, for a delivery the run of its own plan, and one about to
  push has recorded an attempt that no push has used), `PlansInv` (every stored plan is a fast-forward, and
  every run carries out one) and `PushInv`, which is `IntentBeforePush`.
  `FastForwardOnly` follows because a push lands only on the commit its plan started
  from. `CallInv` is what makes it inductive: the ref, the clock and the workspace may
  all have moved since the plan was made, and nothing else ties the push to it.
  `CompletedExact` and `SettledFinal` need `StageInv`: a verified push run, and one
  about to become verified, read the planned commit back from the ref (`RunsInv`), each
  result of a row rests on the one before it and on its own verified child run
  (`RowOK`), and a call is at the first stage its row lacks (`StageOK`), which is what
  keeps a resumed call from redoing a stage. The call that completed a delivery is the
  only one that may still change it, and only to `cancelled` (`CancelsCompleted`).
- **DeliveryLedgerProofs.** `IInv` is type correctness, `ProjectionMatchesLog`,
  `LeasePointerExact` and `DisplacedLapsed`: a lease that was displaced had expired by
  the clock its displacer claimed, so no earlier than `MaxSkew` before its expiry.
  `UnexpiredHolderFenced` follows from the last two, as the holder's lease can then only be the active one. `HistoryFinal`
  is proved action by action from `IInv`.
- **SupervisorProofs.** Three invariants for what shares the process. `JobsInv`: a job
  has one process at most (`OwnersInv`), a start in progress knows its child
  (`BusyInv`), and handlers and records that claim a live process know which one it is
  (`KnownInv`), so that the end of that process is the end of the job although process
  ids are reused. `PtyInv`: a session being created has no record, and a pipe exactly
  from `pipe-pane` on. `FilesInv`: what a power loss may leave in a path includes its
  content, has no mixture unless the path was written in place, and after an answered
  durable replace is that content if the directory of the path is kept (`DiskInv`); a path
  whose unsynced directory met a power loss is remembered in `unkept`.

Every invariant and action property of the passing runs is stated by a theorem. Only
model-checked is liveness (`GuardResolves`, `LoneCallActs`, `RunningResolves`): it rests
on fairness and so on ENABLED, which TLAPS does not handle here. Type invariants
are proved and not checked again by a run; those of DeliveryPublisher,
ControllerBootstrap, HostRecovery and RehearsalRunner are part of the invariants above.

The assumptions on constants are those the modules name. Most say that bounds are natural
numbers and that markers differ from data (`None` is no workflow, `free` and `foreign`
are no jobs). Two come from the code: `RetentionAssumption` relates the configured times
as its values do, and `TargetsAssumption` gives each deployment a candidate directory of
its own, as the inactive install refuses one that exists
(`src/install/safe-extract.ts:41`); `GatewayFirst` depends on it.

## 5. Where the code disagrees with its own text

With a run:

- `guard_torn`: `readSuccessMarker` (`src/controller/controller.ts:251`) parses
  `success.json` where nothing catches a half-written file. Every later
  `evaluate()` throws and the guard never restores, although
  `docs/STANDALONE_DEPLOYMENT_V2.md:35` says that caller loss and reboot "must
  leave the independent guard able to restore the exact snapshot."
- `lock_exclusion`: between the examination of a stale lock and its rename the
  path can have become another caller's lock (`src/controller/storage.ts:138`).

Found while modelling, described by the models but without a run:

- The timer's unit (`ops/systemd/baby-quirt-deploy-guard@.service:16`, `:25`) is
  `ProtectSystem=strict`, and its `ReadWritePaths` lack `/etc/tmpfiles.d`, `/etc/caddy`,
  `/var/lib/baby-quirt-mcp` and most of `/var/lib/baby-quirt`. A restore started by the
  timer throws at the first such target and records `rollback_failed`; only a call
  outside the sandbox completes it (compare `docs/STANDALONE_DEPLOYMENT_V2.md:35` above).
- `stopCandidateServices` stops both services but not `baby-quirt.socket`
  (`src/controller/filesystem-host.ts:35`). A client that connects during a restore
  starts what the pointer names, and `startKnownGoodServices` and `verifyKnownGood` look
  at the socket and the gateway only, so `rolled_back` can be recorded while the
  candidate Baby runs. `ExactHost` has this exception and no other.
- An install of the controller checks the guard (`src/controller/bootstrap.ts:233`) and
  then takes no lock: a guard can be armed meanwhile. Of two racing installs the later
  link wins and a fallback may be lost, though never to an incomplete release. A death
  inside the copies leaves a directory that refuses this release id for good (`:260`).
- Temporary names with a process id (`src/deployment/snapshot.ts:570`,
  `src/controller/bootstrap.ts:305`) collide with what a dead process with the same id
  left. A capture reads its targets one by one while the services run.
- A lock file whose `fsync`, `close` or directory `fsync` throws after the write
  (`src/controller/storage.ts:156`-`:164`), or whose release cannot read or unlink it
  (`:186`-`:194`), stays complete after its call has ended. Later calls are refused as
  long as the process that left it lives; `NoLeakedLock` has this exception.
- An activation goes on after its deadline, also when its guard has been resolved
  meanwhile: neither the pointers' nor the services' steps look at the clock or at the
  records again (`src/deployment/activation.ts:21`-`:109`). `ActivationGuarded` is what is
  left: its guard was armed, and up to the deadline it is unresolved.
- A machine that takes the run's name between `machinectl show` and `terminate`
  (`src/rehearsal/nspawn-runner.ts:765`-`:778`) is terminated although it is not the
  runner's. `ForeignUntouched` has this exception.
- `docs/SECURITY.md:83` says that the replay store is "written after successful dispatch"
  and that a crash between accepting a request and persisting the store "can create a
  replay window". That is outdated: the reservation and its nonce are persisted before
  the dispatch, and `OncePerRetention` holds through crashes at every point. The window
  the code does have is another one: a store file that cannot be read or parsed is
  replaced by an empty store (`src/state/replay-store.ts:63`), and a timely message is
  then dispatched again. `OncePerRetention` and `ExactOnce` have this exception.
- A durable replacement with `createParents` creates missing directories and syncs only
  the immediate parent of the file (`src/files/manager.ts:143`, `:259`, `:313`-`:320`), so
  an answered one may be gone with its directories after a power loss. `ReplacedWhole` has
  this exception.
- A failing write of the last record of a job is swallowed (`src/jobs/manager.ts:230`-
  `:234`): the record stays `running` for as long as this service lives. `RunningResolves`
  has this exception.
- A file replacement checks its precondition and renames later
  (`src/files/manager.ts:284`, `:312`): a write by another program in between is lost.
  `write`, `patch` and `copy` work in place and leave a torn file when they die.
- The rehearsal lock has the stale rename of the controller's lock, but two runners of one run
  are told apart by the exclusive evidence directory (`OneRunner`).
- After a rollback that crashed before it recorded its disposition,
  `commitSuccess` and `disarm` are still accepted (`src/controller/controller.ts:101`),
  so success can be recorded over pointers that were partly restored; compare the
  refusal at `:129`.
- The close handler of a job saves the record it captured at the start over a
  cancelled one (`src/jobs/manager.ts:231`); `src/operations/definitions.ts:199` says
  "Persist cancellation and signal an identified job process group." A process whose
  record was not saved after `spawn` (`:196`) is never examined again.
- A creation of a terminal that fails before its record is saved leaves a tmux session
  without one, and `close` records `closed` also when the kill failed
  (`src/pty/manager.ts:93`, `:250`).
- A delivery whose process dies after `apply()` verified the push and before
  `push_verified` is stored does not continue: the next `publish()` previews again,
  is refused (`remote_base_mismatch` or `publication_plan_conflict`) and ends `failed`
  with `partialSuccess` false, although the commit was pushed.
  `docs/GITHUB_AUTHORITY_CHECKPOINT_F_V1.md:34` says "restart-safe continuation" and
  `:36` "cancelled with `partialSuccess: true`".
- `apply()` takes the caller's fingerprint as it is (`src/github/safe-publication.ts:757`)
  and compares the stored plan only through it (`:399`). An operator that gives the same
  mutation and fingerprint for a second plan has it pushed under the run of the first, so
  its own intent was never persisted, against the comment at `:759`. `IntentBeforePush`
  has this exception; deliveries compute the fingerprint and are not exposed to it.
- `transition()` updates the delivery row and then appends an event
  (`src/github/provider-delivery.ts:1348`-`:1355`). If the append throws after `completed`
  was written, the catch block (`:1299`-`:1316`) records the delivery as `cancelled` with
  `partialSuccess`. `SettledFinal` has this exception.
- An expired plan cannot be reconciled any more. A workflow that was rerun
  between two calls, a rate limit or a run not yet visible end a delivery for good,
  while a failed artifact capture is tried again.
- `cancelJob` signals the recorded process group without comparing identities
  (`src/jobs/manager.ts:306`; `docs/FAILURE_RISK_REGISTER_V2.md:48`).
- An object that an interrupted copy left is trusted by a later call because its name
  exists (`src/artifacts/manager.ts:215`, `:402`). A death inside the copy leaves one, and
  without any death so does a source that was changed and removed during the copy: the
  `statSync` at `:249` throws outside the `try` that would have unlinked the object.
  `FinalizedExact` has this exception.
- `uploadChunk` ignores the count that `writeSync` returns (`:347`): a short write is
  acknowledged in full. A later chunk then leaves a hole, and a chunk with the `finalize`
  flag accepts the file when no digest was promised; `AckedKept` says that nothing else is lost.
- An interrupted `finalize` leaves an uploading record without a file, which can only be
  aborted. The legacy `finalize` flag of a chunk accepts trailing bytes that were never
  acknowledged.
- A lease is granted by the `acquiredAt` its caller claims
  (`src/delivery/persistence.ts:1216`, `:1532`), which is checked for its format only: a
  controller whose clock is ahead displaces a holder whose lease has not expired.
  `UnexpiredHolderFenced` gives the bound.
- Product compatibility is compared on one edge only (`src/deployment/database.ts:994`).
- An intent stays pending when its operation throws (`src/deployment/service.ts:140`),
  so a retry with the same key is refused.
- Delivery: `cancel` and `rollback` declare no `expectedSequence`, but `advance()`
  defaults it to 0, so they conflict as soon as the run has moved. A retry of
  `advance()` is a conflict where the contract says `semantic_replay_or_conflict`.
  No rule relates delivery states, and `ROLLBACK_FAILED` is terminal although
  `docs/adr/0001-automated-delivery-lane.md` says that it "becomes manual recovery
  required".

## 6. Not modelled, and what comes next

Assumed of the outside: the orchestrator stops at its deadline unless `late`
(`guard_faults` has late ones), clocks of controllers are at most `MaxSkew` ahead,
acceptance may come or not, processes exit at any time, the source of an artifact
may be written by others. The test hook `stopAfterState` is left out. Byte-level
parsing (wire frames, archives), pure validation of plans, publication requests and
rehearsal plans (`src/rehearsal/nspawn-contract.ts`, `nspawn-input.ts`), command line and
configuration have no state to check. `installInactiveCandidate` extracts an archive
beside the pointers and decides nothing by what it finds there.

Plan, in this order:

1. The authority registry of GitHub, whose grants the publication assumes.
2. Composition of ledger, controller and host: one deployment from its row to its guard.
