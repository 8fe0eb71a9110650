-------------------------- MODULE RequestPipeline ---------------------------
(***************************************************************************)
(* The request path of the supervisor: Authenticator.authenticate          *)
(* (src/auth/authenticator.ts), the replay store (src/state/replay-store   *)
(* .ts) and OperationRegistry.dispatch (src/operations/registry.ts) behind *)
(* BabyQuirtServer.handleRequest (src/server.ts).                          *)
(*                                                                         *)
(* authenticate() is synchronous and ends with the reservation on disk;    *)
(* dispatch() awaits its operation, so any number of requests are in       *)
(* progress at once.  The network may duplicate, delay and reorder signed  *)
(* messages.  Principal, key, host, signature and peer checks are          *)
(* functions of the message alone: the messages here are the ones that     *)
(* pass them.                                                              *)
(***************************************************************************)
EXTENDS Integers, Sequences, FiniteSets

CONSTANTS
  Ids,            \* request ids, the idempotency keys
  Fingerprints,   \* semantic fingerprints: operation, principal, payload
  Nonces,         \* nonces of signed messages
  MaxAge,         \* requestMaxAgeMs
  Retention,      \* nonceRetentionMs = idempotencyRetentionMs
  MaxTime,        \* bound on the clock
  MaxFailures,    \* bound on crashes and failed writes
  MaxAdmissions   \* bound on dispatched requests

\* config.ts: five minutes against a day, and timestamps may lie ahead.
ASSUME RetentionAssumption ==
  MaxAge \in Nat /\ Retention \in Nat /\ Retention > 2 * MaxAge
ASSUME BoundsAssumption ==
  MaxTime \in Nat /\ MaxFailures \in Nat /\ MaxAdmissions \in Nat

Time == 0..MaxTime
Message == [id : Ids, fp : Fingerprints, nonce : Nonces, timestamp : Time]
Response == [id : Ids, fp : Fingerprints, run : Nat]

Absent == [status |-> "absent"]
Entry == [status : {"pending"}, fp : Fingerprints, hash : Message,
          storedAt : Time]
         \cup [status : {"completed"}, fp : Fingerprints, hash : Message,
               response : Response, storedAt : Time]
Unseen == -1
NoReply == [m |-> Absent]

VARIABLES
  now,         \* Date.now()
  idempotency, \* data.idempotency by request id (writers keep it unique)
  nonces,      \* data.nonces: when each was seen, or Unseen
  saved,       \* replay-store.json
  calls,       \* dispatches in progress
  admissions,  \* history: the requests handed to dispatch, in order
  reply,       \* the last response written to a socket
  losses,      \* history: starts that found the store file unreadable
  failures     \* crashes and failed writes so far

store == <<idempotency, nonces>>
vars == <<now, idempotency, nonces, saved, calls, admissions, reply, losses,
          failures>>

\* A request handed to dispatch, with the losses of the store before it.
Admission == [m : Message, at : Time, epoch : Nat]

Call == [m : Message, run : Nat, pc : {"executing", "executed"}]

Init ==
  /\ now = 0
  /\ idempotency = [i \in Ids |-> Absent]
  /\ nonces = [n \in Nonces |-> Unseen]
  /\ saved = [idempotency |-> idempotency, nonces |-> nonces]
  /\ calls = {}
  /\ admissions = <<>>
  /\ reply = NoReply
  /\ losses = 0
  /\ failures = 0

----------------------------------------------------------------------------
(* replay-store.ts                                                         *)

\* prune(): what is left of the store now.  Every lookup prunes first.
Live(i) ==
  IF idempotency[i] # Absent /\ now - idempotency[i].storedAt < Retention
  THEN idempotency[i] ELSE Absent
LiveNonce(n) ==
  IF nonces[n] # Unseen /\ now - nonces[n] < Retention
  THEN nonces[n] ELSE Unseen

\* getIdempotentResponse and checkSemantic.  At most one entry has the
\* message's hash: the one of its request id.
ExactReplay(m) ==
  Live(m.id).status = "completed" /\ Live(m.id).hash = m

\* Mutant: the fingerprints are not compared.
SemanticReplayAnyPayload(m) == Live(m.id).status = "completed"

SemanticReplay(m) ==
  Live(m.id).status = "completed" /\ Live(m.id).fp = m.fp

SemanticMiss(m) == Live(m.id) = Absent

\* tryCommitNonce succeeds.
NonceUnused(m) == LiveNonce(m.nonce) = Unseen

\* The store after tryCommitNonce and reserveSemantic.
Reserved(m) ==
  [i \in Ids |-> IF i = m.id
                 THEN [status |-> "pending", fp |-> m.fp, hash |-> m,
                       storedAt |-> now]
                 ELSE Live(i)]
Committed(m) ==
  [n \in Nonces |-> IF n = m.nonce THEN now ELSE LiveNonce(n)]

\* The store after storeIdempotentResponse: found by request id alone.
Completed(call) ==
  [i \in Ids |-> IF i = call.m.id
                 THEN [status |-> "completed", fp |-> call.m.fp,
                       hash |-> call.m, storedAt |-> now,
                       response |-> [id |-> call.m.id, fp |-> call.m.fp,
                                     run |-> call.run]]
                 ELSE Live(i)]

\* Mutant: the reservation is only persisted with the response.
persistLater == saved' = saved

\* persist(): temporary file, fsync, rename.
persist == saved' = [idempotency |-> idempotency', nonces |-> nonces']

\* persist() throws before its rename or, from the directory's fsync, after.
persistFails == saved' = saved \/ persist

----------------------------------------------------------------------------
(* authenticator.ts                                                        *)

\* Mutant: only messages from the future are refused.
NotAhead(m) == m.timestamp - now <= MaxAge

\* Math.abs(Date.now() - requestTime) <= requestMaxAgeMs
Timely(m) == m.timestamp - now <= MaxAge /\ now - m.timestamp <= MaxAge

\* What the history keeps of a dispatched request.
admitted(m) == [m |-> m, at |-> now, epoch |-> losses]

\* The request is admitted: nonce and reservation are durable, dispatch
\* starts.  If persist() throws the caller gets operation_failed and the
\* store in memory keeps the reservation.
admit(m) ==
  /\ Len(admissions) < MaxAdmissions
  /\ Timely(m)
  /\ ~ExactReplay(m) /\ SemanticMiss(m)
  /\ NonceUnused(m)
  /\ idempotency' = Reserved(m)
  /\ nonces' = Committed(m)
  /\ \/ /\ persist
        /\ calls' = calls \cup {[m |-> m, run |-> Len(admissions) + 1,
                                 pc |-> "executing"]}
        /\ admissions' = Append(admissions, admitted(m))
        /\ UNCHANGED failures
     \/ /\ failures < MaxFailures
        /\ failures' = failures + 1
        /\ persistFails
        /\ UNCHANGED <<calls, admissions>>
  /\ UNCHANGED <<now, reply, losses>>

\* IdempotentReplay: the stored response is written again.  The conflict,
\* in-progress, expired and nonce errors change nothing.
replay(m) ==
  /\ Timely(m)
  /\ ExactReplay(m) \/ SemanticReplay(m)
  /\ reply' = [m |-> m, response |-> Live(m.id).response]
  /\ UNCHANGED <<now, store, saved, calls, admissions, losses, failures>>

----------------------------------------------------------------------------
(* registry.ts: dispatch                                                   *)

\* executeOperation: an error becomes the result.
executeOperation(call) ==
  /\ call \in calls /\ call.pc = "executing"
  /\ calls' = (calls \ {call}) \cup {[call EXCEPT !.pc = "executed"]}
  /\ UNCHANGED <<now, store, saved, admissions, reply, losses, failures>>

\* signReceipt, storeIdempotentResponse, persist; then the socket write.
respond(call) ==
  /\ call \in calls /\ call.pc = "executed"
  /\ calls' = calls \ {call}
  /\ idempotency' = Completed(call)
  /\ nonces' = [n \in Nonces |-> LiveNonce(n)]
  /\ \/ /\ persist
        /\ reply' = [m |-> call.m,
                     response |-> idempotency'[call.m.id].response]
        /\ UNCHANGED failures
     \/ /\ failures < MaxFailures
        /\ failures' = failures + 1
        /\ persistFails
        /\ UNCHANGED reply
  /\ UNCHANGED <<now, admissions, losses>>

\* signReceipt throws after the operation took effect: nothing is stored.
signFails(call) ==
  /\ failures < MaxFailures
  /\ call \in calls /\ call.pc = "executed"
  /\ calls' = calls \ {call}
  /\ failures' = failures + 1
  /\ UNCHANGED <<now, store, saved, admissions, reply, losses>>

----------------------------------------------------------------------------
(* server.ts: stop and restart                                             *)

\* load() of a store file.  A file that cannot be read or parsed is caught
\* and gives an empty store; an array that is not there is an empty one.
load(file, lost) ==
  [idempotency |-> IF "idempotency" \in lost
                   THEN [i \in Ids |-> Absent] ELSE file.idempotency,
   nonces |-> IF "nonces" \in lost
              THEN [n \in Nonces |-> Unseen] ELSE file.nonces]

\* stop() persists the store; a crash does not.  start() loads the file,
\* and writes nothing until the next persist().
restart ==
  /\ failures < MaxFailures
  /\ failures' = failures + 1
  /\ calls' = {}
  /\ saved' \in {saved, [idempotency |-> idempotency, nonces |-> nonces]}
  /\ \E lost \in SUBSET {"idempotency", "nonces"} :
       /\ idempotency' = load(saved', lost).idempotency
       /\ nonces' = load(saved', lost).nonces
       /\ losses' = IF lost = {} THEN losses ELSE losses + 1
  /\ UNCHANGED <<now, admissions, reply>>

Tick ==
  /\ now < MaxTime
  /\ now' = now + 1
  /\ UNCHANGED <<store, saved, calls, admissions, reply, losses, failures>>

Next ==
  \/ Tick
  \/ restart
  \/ \E m \in Message : admit(m) \/ replay(m)
  \/ \E call \in calls :
       executeOperation(call) \/ respond(call) \/ signFails(call)

Spec == Init /\ [][Next]_vars

----------------------------------------------------------------------------
(* Properties                                                              *)

TypeOK ==
  /\ now \in Time
  /\ idempotency \in [Ids -> Entry \cup {Absent}]
  /\ nonces \in [Nonces -> Time \cup {Unseen}]
  /\ saved \in [idempotency : [Ids -> Entry \cup {Absent}],
                nonces : [Nonces -> Time \cup {Unseen}]]
  /\ calls \subseteq Call
  /\ admissions \in Seq(Admission)
  /\ reply \in [m : Message, response : Response] \cup {NoReply}
  /\ losses \in 0..failures
  /\ failures \in 0..MaxFailures

\* "Replay nonce accepted before persistence - durable request intent
\* before dispatch": a request id is dispatched at most once per retention
\* window, whatever crashed, was retried or was signed again, and whether or
\* not the earlier dispatch ever answered.  The one exception is a start in
\* between that found the store file unreadable and went on without it.
OncePerRetention ==
  \A i, j \in 1..Len(admissions) :
    i < j /\ admissions[i].m.id = admissions[j].m.id
      => \/ admissions[j].at - admissions[i].at >= Retention
         \/ admissions[j].epoch > admissions[i].epoch

\* One signed message is dispatched at most once, ever, as long as the store
\* file can be read: by the time its entry has been pruned its timestamp is
\* too old, ahead as it may have been.  If the store was lost it is at least
\* not dispatched again later than twice the age a request may have: "A
\* corrupt store is fail-safe ...; timestamps ... still apply".
ExactOnce ==
  \A i, j \in 1..Len(admissions) :
    i < j /\ admissions[i].m = admissions[j].m
      => /\ admissions[j].epoch > admissions[i].epoch
         /\ admissions[j].at - admissions[i].at <= 2 * MaxAge

\* A nonce admits one request per retention window, across request ids and
\* restarts, with the same exception.
NonceOnce ==
  \A i, j \in 1..Len(admissions) :
    i < j /\ admissions[i].m.nonce = admissions[j].m.nonce
      => \/ admissions[j].at - admissions[i].at >= Retention
         \/ admissions[j].epoch > admissions[i].epoch

\* Whoever gets a response gets the one of a dispatch of its own request id
\* and payload, also when an entry was pruned under a dispatch in progress
\* and its id reused for another payload before it was stored.
ReplyMatches ==
  reply # NoReply =>
    /\ reply.response.id = reply.m.id /\ reply.response.fp = reply.m.fp
    /\ reply.response.run \in 1..Len(admissions)
    /\ admissions[reply.response.run].m.id = reply.m.id
    /\ admissions[reply.response.run].m.fp = reply.m.fp
=============================================================================
