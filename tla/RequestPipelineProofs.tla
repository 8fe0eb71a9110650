------------------------ MODULE RequestPipelineProofs -----------------------
(***************************************************************************)
(* Proofs about RequestPipeline, for any sets of request ids, payloads and *)
(* nonces, any retention above twice the request age, and any number of    *)
(* crashes and failed writes.                                              *)
(***************************************************************************)
EXTENDS RequestPipeline, SequenceTheorems, TLAPS

\* The pruned store has the types of the store.
LEMMA LiveType ==
  ASSUME TypeOK
  PROVE  /\ \A i \in Ids : Live(i) \in Entry \cup {Absent}
         /\ \A n \in Nonces : LiveNonce(n) \in Time \cup {Unseen}
  BY DEF TypeOK, Live, LiveNonce

\* The fields of an entry, by its status.
LEMMA EntryFields ==
  ASSUME NEW e \in Entry \cup {Absent}
  PROVE  /\ e # Absent => e.storedAt \in Time /\ e.fp \in Fingerprints
                          /\ e.hash \in Message
         /\ e.status = "completed" => e # Absent /\ e.response \in Response
         /\ e = Absent => e.status = "absent"
  BY DEF Entry, Absent

\* What the store holds after a reservation or a completion has its types.
LEMMA WrittenType ==
  ASSUME TypeOK
  PROVE  /\ \A m \in Message :
              /\ Reserved(m) \in [Ids -> Entry \cup {Absent}]
              /\ Committed(m) \in [Nonces -> Time \cup {Unseen}]
         /\ \A call \in Call :
              Completed(call) \in [Ids -> Entry \cup {Absent}]
         /\ [n \in Nonces |-> LiveNonce(n)] \in [Nonces -> Time \cup {Unseen}]
<1>1. now \in Time
  BY DEF TypeOK
<1>2. ASSUME NEW m \in Message
      PROVE  [status |-> "pending", fp |-> m.fp, hash |-> m,
              storedAt |-> now] \in Entry
  BY <1>1 DEF Entry, Message
<1>3. ASSUME NEW call \in Call
      PROVE  [status |-> "completed", fp |-> call.m.fp, hash |-> call.m,
              storedAt |-> now,
              response |-> [id |-> call.m.id, fp |-> call.m.fp,
                            run |-> call.run]] \in Entry
  <2>1. call.m \in Message /\ call.run \in Nat
    BY DEF Call
  <2>2. call.m.id \in Ids /\ call.m.fp \in Fingerprints
    BY <2>1 DEF Message
  <2> QED BY <1>1, <2>1, <2>2 DEF Entry, Response
<1>4. ASSUME NEW m \in Message
      PROVE  Reserved(m) \in [Ids -> Entry \cup {Absent}]
  BY <1>2, LiveType DEF Reserved
<1>5. ASSUME NEW m \in Message
      PROVE  Committed(m) \in [Nonces -> Time \cup {Unseen}]
  BY <1>1, LiveType DEF Committed
<1>6. ASSUME NEW call \in Call
      PROVE  Completed(call) \in [Ids -> Entry \cup {Absent}]
  BY <1>3, LiveType DEF Completed
<1> QED BY <1>4, <1>5, <1>6, LiveType

\* Type correctness of the pipeline's state and histories.
THEOREM RequestsTypeOK == Spec => []TypeOK
<1>1. Init => TypeOK
  BY BoundsAssumption DEF Init, TypeOK, Time, NoReply
<1>2. TypeOK /\ [Next]_vars => TypeOK'
  <2> SUFFICES ASSUME TypeOK, [Next]_vars PROVE TypeOK'
    OBVIOUS
  <2>1. CASE UNCHANGED vars
    BY <2>1 DEF TypeOK, vars
  <2>2. CASE Tick
    BY <2>2, BoundsAssumption DEF TypeOK, Tick, store, Time
  <2>3. CASE restart
    <3>1. PICK lost \in SUBSET {"idempotency", "nonces"} :
            /\ idempotency' = load(saved', lost).idempotency
            /\ nonces' = load(saved', lost).nonces
            /\ losses' = IF lost = {} THEN losses ELSE losses + 1
      BY <2>3 DEF restart
    <3>2. saved' \in [idempotency : [Ids -> Entry \cup {Absent}],
                      nonces : [Nonces -> Time \cup {Unseen}]]
      BY <2>3 DEF TypeOK, restart
    <3>3. /\ idempotency' \in [Ids -> Entry \cup {Absent}]
          /\ nonces' \in [Nonces -> Time \cup {Unseen}]
      BY <3>1, <3>2 DEF load
    <3>4. losses' \in 0..failures' /\ failures' \in 0..MaxFailures
      BY <2>3, <3>1, BoundsAssumption DEF TypeOK, restart
    <3> QED
      BY <2>3, <3>2, <3>3, <3>4 DEF TypeOK, restart
  <2>4. ASSUME NEW m \in Message, admit(m) PROVE TypeOK'
    <3>1. /\ idempotency' \in [Ids -> Entry \cup {Absent}]
          /\ nonces' \in [Nonces -> Time \cup {Unseen}]
      BY <2>4, WrittenType DEF admit
    <3>2. CASE persist
               /\ calls' = calls \cup {[m |-> m, run |-> Len(admissions) + 1,
                                        pc |-> "executing"]}
               /\ admissions' = Append(admissions, admitted(m))
               /\ UNCHANGED failures
      <4>1. Len(admissions) + 1 \in Nat
        BY DEF TypeOK
      <4>2. calls' \subseteq Call
        BY <3>2, <4>1 DEF TypeOK, Call
      <4>3. admissions' \in Seq(Admission)
        BY <3>2, BoundsAssumption DEF TypeOK, Admission, admitted
      <4> QED BY <2>4, <3>1, <3>2, <4>2, <4>3 DEF TypeOK, admit, persist
    <3>3. CASE /\ failures < MaxFailures
               /\ failures' = failures + 1
               /\ persistFails
               /\ UNCHANGED <<calls, admissions>>
      BY <2>4, <3>1, <3>3, BoundsAssumption
         DEF TypeOK, admit, persist, persistFails
    <3> QED BY <2>4, <3>2, <3>3 DEF admit
  <2>5. ASSUME NEW m \in Message, replay(m) PROVE TypeOK'
    <3>1. Live(m.id) \in Entry \cup {Absent}
      BY LiveType DEF Message
    <3>2. Live(m.id).response \in Response
      BY <2>5, <3>1, EntryFields DEF replay, ExactReplay, SemanticReplay
    <3> QED BY <2>5, <3>2 DEF TypeOK, replay, store
  <2>6. ASSUME NEW call \in calls, executeOperation(call) PROVE TypeOK'
    <3>1. [call EXCEPT !.pc = "executed"] \in Call
      BY DEF TypeOK, Call
    <3> QED BY <2>6, <3>1 DEF TypeOK, executeOperation, store
  <2>7. ASSUME NEW call \in calls, respond(call) PROVE TypeOK'
    <3>1. call \in Call
      BY DEF TypeOK
    <3>2. /\ idempotency' \in [Ids -> Entry \cup {Absent}]
          /\ nonces' \in [Nonces -> Time \cup {Unseen}]
      BY <2>7, <3>1, WrittenType DEF respond
    <3>3. call.m \in Message /\ call.m.id \in Ids
      BY <3>1 DEF Call, Message
    <3>4. idempotency'[call.m.id].response \in Response
      <4>1. idempotency'[call.m.id].status = "completed"
        BY <2>7, <3>3 DEF respond, Completed
      <4> QED BY <3>2, <3>3, <4>1, EntryFields
    <3> QED BY <2>7, <3>2, <3>3, <3>4, BoundsAssumption
            DEF TypeOK, respond, persist, persistFails
  <2>8. ASSUME NEW call \in calls, signFails(call) PROVE TypeOK'
    BY <2>8, BoundsAssumption DEF TypeOK, signFails, store
  <2> QED BY <2>1, <2>2, <2>3, <2>4, <2>5, <2>6, <2>7, <2>8 DEF Next
<1> QED BY <1>1, <1>2, PTL DEF Spec

----------------------------------------------------------------------------
(* At most one dispatch per retention window                               *)

\* A request that was dispatched within the retention window, and since the
\* store was last lost, has an entry and a nonce at least as recent, in
\* memory and in the file.
Covers(t, a, entries, seen) ==
  \/ t - a.at >= Retention
  \/ /\ entries[a.m.id] # Absent /\ entries[a.m.id].storedAt >= a.at
     /\ seen[a.m.nonce] >= a.at

AdmissionsCovered ==
  \A i \in 1..Len(admissions) :
    /\ admissions[i].at <= now /\ admissions[i].epoch <= losses
    /\ admissions[i].epoch = losses =>
         /\ Covers(now, admissions[i], idempotency, nonces)
         /\ Covers(now, admissions[i], saved.idempotency, saved.nonces)

\* A dispatched request was timely.
AdmissionsTimely ==
  \A i \in 1..Len(admissions) :
    LET a == admissions[i]
    IN  a.m.timestamp - a.at <= MaxAge /\ a.at - a.m.timestamp <= MaxAge

AdmissionInv ==
  AdmissionsCovered /\ OncePerRetention /\ NonceOnce /\ AdmissionsTimely

\* The fields of a dispatched request.
LEMMA AdmissionType ==
  ASSUME TypeOK, NEW i \in 1..Len(admissions)
  PROVE  /\ admissions[i] \in Admission
         /\ admissions[i].m \in Message /\ admissions[i].at \in Int
         /\ admissions[i].m.timestamp \in Int /\ admissions[i].epoch \in Int
<1>1. admissions \in Seq(Admission)
  BY DEF TypeOK
<1>2. admissions[i] \in Admission
  BY <1>1, ElementOfSeq
<1>3. admissions[i].m \in Message /\ admissions[i].at \in Int
      /\ admissions[i].epoch \in Int
  BY <1>2 DEF Time, Admission
<1>4. admissions[i].m.timestamp \in Int
  BY <1>3 DEF Message, Time
<1> QED BY <1>2, <1>3, <1>4

\* Pruning keeps what covers a dispatched request.
LEMMA PruneCovers ==
  ASSUME TypeOK, NEW a \in Admission,
         Covers(now, a, idempotency, nonces), now - a.at < Retention
  PROVE  /\ Live(a.m.id) # Absent /\ Live(a.m.id).storedAt >= a.at
         /\ LiveNonce(a.m.nonce) >= a.at /\ LiveNonce(a.m.nonce) # Unseen
<1>1. a.m.id \in Ids /\ a.m.nonce \in Nonces /\ a.at \in Int /\ a.at >= 0
  BY DEF Message, Time, Admission
<1>2. /\ idempotency[a.m.id] \in Entry \cup {Absent}
      /\ nonces[a.m.nonce] \in Int /\ now \in Int
  BY <1>1 DEF TypeOK, Time, Unseen
<1>3. idempotency[a.m.id] # Absent => idempotency[a.m.id].storedAt \in Int
  BY <1>2, EntryFields DEF Time
<1> QED BY <1>1, <1>2, <1>3, RetentionAssumption
        DEF Covers, Live, LiveNonce, Unseen

\* Every write to the store keeps the dispatched requests covered.
LEMMA WriteCovers ==
  ASSUME TypeOK, AdmissionsCovered, NEW i \in 1..Len(admissions),
         admissions[i].epoch = losses
  PROVE  /\ \A m \in Message :
              Covers(now, admissions[i], Reserved(m), Committed(m))
         /\ \A call \in Call :
              Covers(now, admissions[i], Completed(call),
                     [n \in Nonces |-> LiveNonce(n)])
<1> DEFINE a == admissions[i]
<1>1. a \in Admission
  BY AdmissionType
<1>2. a.m.id \in Ids /\ a.m.nonce \in Nonces /\ a.at \in Int /\ a.at <= now
      /\ now \in Int
  BY <1>1 DEF TypeOK, AdmissionsCovered, Message, Time, Admission
<1>3. CASE now - a.at >= Retention
  BY <1>3 DEF Covers
<1>4. CASE ~(now - a.at >= Retention)
  <2>1. now - a.at < Retention
    BY <1>2, <1>4, RetentionAssumption
  <2>2. /\ Live(a.m.id) # Absent /\ Live(a.m.id).storedAt >= a.at
        /\ LiveNonce(a.m.nonce) >= a.at
    <3>1. Covers(now, a, idempotency, nonces)
      BY DEF AdmissionsCovered
    <3> HIDE DEF a
    <3> QED BY <1>1, <2>1, <3>1, PruneCovers
  <2>3. ASSUME NEW m \in Message
        PROVE  Covers(now, a, Reserved(m), Committed(m))
    <3>1. Reserved(m)[a.m.id] # Absent /\ Reserved(m)[a.m.id].storedAt >= a.at
      BY <1>2, <2>2 DEF Reserved, Absent
    <3>2. Committed(m)[a.m.nonce] >= a.at
      BY <1>2, <2>2 DEF Committed
    <3> QED BY <3>1, <3>2 DEF Covers
  <2>4. ASSUME NEW call \in Call
        PROVE  Covers(now, a, Completed(call), [n \in Nonces |-> LiveNonce(n)])
    <3>1. /\ Completed(call)[a.m.id] # Absent
          /\ Completed(call)[a.m.id].storedAt >= a.at
      BY <1>2, <2>2 DEF Completed, Absent
    <3>2. [n \in Nonces |-> LiveNonce(n)][a.m.nonce] >= a.at
      BY <1>2, <2>2
    <3> QED BY <3>1, <3>2 DEF Covers
  <2> QED BY <2>3, <2>4
<1> QED BY <1>3, <1>4

\* AdmissionInv is inductive, given the types.
LEMMA AdmissionStep ==
  ASSUME TypeOK, TypeOK', AdmissionInv, [Next]_vars
  PROVE  AdmissionInv'
<1>0. /\ now \in Int /\ now' \in Int /\ Retention \in Int /\ MaxAge \in Int
      /\ \A i \in 1..Len(admissions) :
           /\ admissions[i] \in Admission
           /\ admissions[i].m \in Message /\ admissions[i].at \in Int
           /\ admissions[i].epoch \in Int
      /\ losses \in Int
  BY RetentionAssumption, AdmissionType DEF TypeOK, Time
<1>1. ASSUME now' >= now, UNCHANGED <<admissions, losses>>,
             \A i \in 1..Len(admissions) : admissions[i].epoch = losses =>
               /\ Covers(now, admissions[i], idempotency', nonces')
               /\ Covers(now, admissions[i], saved'.idempotency,
                         saved'.nonces)
      PROVE  AdmissionInv'
  <2>1. AdmissionsCovered'
    BY <1>0, <1>1 DEF AdmissionInv, AdmissionsCovered, Covers
  <2> QED BY <1>1, <2>1
          DEF AdmissionInv, OncePerRetention, NonceOnce, AdmissionsTimely
<1>2. CASE UNCHANGED <<store, saved, admissions, losses>> /\ now' >= now
  BY <1>1, <1>2 DEF AdmissionInv, AdmissionsCovered, store
<1>3. CASE restart
  <2>1. PICK lost \in SUBSET {"idempotency", "nonces"} :
          /\ idempotency' = load(saved', lost).idempotency
          /\ nonces' = load(saved', lost).nonces
          /\ losses' = IF lost = {} THEN losses ELSE losses + 1
    BY <1>3 DEF restart
  <2>2. CASE lost = {}
    <3>1. /\ losses' = losses /\ UNCHANGED <<now, admissions>>
          /\ idempotency' = saved'.idempotency /\ nonces' = saved'.nonces
      BY <1>3, <2>1, <2>2 DEF restart, load
    <3>2. CASE saved' = saved
      BY <1>0, <1>1, <3>1, <3>2 DEF AdmissionInv, AdmissionsCovered
    <3>3. CASE saved' = [idempotency |-> idempotency, nonces |-> nonces]
      BY <1>0, <1>1, <3>1, <3>3 DEF AdmissionInv, AdmissionsCovered
    <3> QED BY <1>3, <3>2, <3>3 DEF restart
  <2>3. CASE lost # {}
    <3>1. losses' = losses + 1 /\ UNCHANGED <<now, admissions>>
      BY <1>3, <2>1, <2>3 DEF restart
    <3>2. AdmissionsCovered'
      BY <1>0, <3>1 DEF AdmissionInv, AdmissionsCovered
    <3> QED BY <3>1, <3>2
            DEF AdmissionInv, OncePerRetention, NonceOnce, AdmissionsTimely
  <2> QED BY <2>2, <2>3
<1>4. ASSUME NEW m \in Message, admit(m) PROVE AdmissionInv'
  <2>1. \A i \in 1..Len(admissions) : admissions[i].epoch = losses =>
          Covers(now, admissions[i], idempotency', nonces')
    BY <1>4, WriteCovers DEF AdmissionInv, admit
  <2>2. CASE persistFails /\ UNCHANGED <<calls, admissions>>
    BY <1>0, <1>1, <1>4, <2>1, <2>2
       DEF admit, AdmissionInv, AdmissionsCovered, persist, persistFails
  <2>3. CASE /\ persist
             /\ admissions' = Append(admissions, admitted(m))
    <3> DEFINE n == Len(admissions)
               new == [m |-> m, at |-> now, epoch |-> losses]
    <3>1. /\ n \in Nat /\ Len(admissions') = n + 1
          /\ \A i \in 1..n : admissions'[i] = admissions[i]
          /\ admissions'[n + 1] = new
      BY <2>3 DEF TypeOK, admitted
    <3>2. now' = now /\ losses' = losses /\ m.id \in Ids /\ m.nonce \in Nonces
          /\ m.timestamp \in Int
      BY <1>4 DEF admit, Message, Time
    <3>3. /\ idempotency'[m.id] # Absent
          /\ idempotency'[m.id].storedAt = now
          /\ nonces'[m.nonce] = now
          /\ saved'.idempotency = idempotency' /\ saved'.nonces = nonces'
      BY <1>4, <2>3, <3>2 DEF admit, Reserved, Committed, Absent, persist
    <3>4. Covers(now, new, idempotency', nonces')
      BY <1>0, <3>3 DEF Covers
    <3>5. \A i \in 1..n : admissions[i].epoch = losses =>
            /\ admissions[i].m.id = m.id => now - admissions[i].at >= Retention
            /\ admissions[i].m.nonce = m.nonce
                 => now - admissions[i].at >= Retention
      <4> SUFFICES ASSUME NEW i \in 1..n, admissions[i].epoch = losses,
                          now - admissions[i].at < Retention
                   PROVE  /\ admissions[i].m.id # m.id
                          /\ admissions[i].m.nonce # m.nonce
        BY <1>0
      <4>1. Covers(now, admissions[i], idempotency, nonces)
        BY DEF AdmissionInv, AdmissionsCovered
      <4>2. /\ Live(admissions[i].m.id) # Absent
            /\ LiveNonce(admissions[i].m.nonce) # Unseen
        BY <1>0, <4>1, PruneCovers
      <4> QED BY <1>4, <4>2 DEF admit, SemanticMiss, NonceUnused
    <3>6. AdmissionsCovered'
      <4> SUFFICES ASSUME NEW i \in 1..(n + 1)
                   PROVE  /\ admissions'[i].at <= now
                          /\ admissions'[i].epoch <= losses
                          /\ admissions'[i].epoch = losses =>
                               Covers(now, admissions'[i], idempotency', nonces')
        BY <3>1, <3>2, <3>3 DEF AdmissionsCovered
      <4>1. CASE i \in 1..n
        BY <2>1, <3>1, <4>1 DEF AdmissionInv, AdmissionsCovered
      <4>2. CASE i = n + 1
        BY <1>0, <3>1, <3>4, <4>2
      <4> QED BY <3>1, <4>1, <4>2
    <3>7. OncePerRetention' /\ NonceOnce'
      <4> SUFFICES ASSUME NEW i \in 1..(n + 1), NEW j \in 1..(n + 1), i < j
                   PROVE  /\ admissions'[i].m.id = admissions'[j].m.id
                               => \/ admissions'[j].at - admissions'[i].at
                                       >= Retention
                                  \/ admissions'[j].epoch
                                       > admissions'[i].epoch
                          /\ admissions'[i].m.nonce = admissions'[j].m.nonce
                               => \/ admissions'[j].at - admissions'[i].at
                                       >= Retention
                                  \/ admissions'[j].epoch
                                       > admissions'[i].epoch
        BY <3>1 DEF OncePerRetention, NonceOnce
      <4>1. i \in 1..n
        BY <3>1
      <4>2. CASE j \in 1..n
        BY <3>1, <4>1, <4>2 DEF AdmissionInv, OncePerRetention, NonceOnce
      <4>3. CASE j = n + 1
        <5>1. admissions[i].epoch <= losses /\ admissions[i].epoch \in Int
          BY <1>0, <4>1 DEF AdmissionInv, AdmissionsCovered
        <5> QED BY <1>0, <3>1, <3>5, <4>1, <4>3, <5>1
      <4> QED BY <3>1, <4>2, <4>3
    <3>8. AdmissionsTimely'
      <4>1. m.timestamp - now <= MaxAge /\ now - m.timestamp <= MaxAge
        BY <1>4 DEF admit, Timely
      <4> SUFFICES ASSUME NEW i \in 1..(n + 1)
                   PROVE  /\ admissions'[i].m.timestamp - admissions'[i].at
                               <= MaxAge
                          /\ admissions'[i].at - admissions'[i].m.timestamp
                               <= MaxAge
        BY <3>1 DEF AdmissionsTimely
      <4>2. CASE i \in 1..n
        BY <3>1, <4>2 DEF AdmissionInv, AdmissionsTimely
      <4>3. CASE i = n + 1
        BY <3>1, <4>1, <4>3
      <4> QED BY <3>1, <4>2, <4>3
    <3> QED BY <3>6, <3>7, <3>8 DEF AdmissionInv
  <2> QED BY <1>4, <2>2, <2>3 DEF admit
<1>5. ASSUME NEW call \in calls, respond(call) PROVE AdmissionInv'
  <2>1. \A i \in 1..Len(admissions) : admissions[i].epoch = losses =>
          Covers(now, admissions[i], idempotency', nonces')
    <3>1. call \in Call
      BY DEF TypeOK
    <3> QED BY <1>5, <3>1, WriteCovers DEF AdmissionInv, respond
  <2> QED BY <1>0, <1>1, <1>5, <2>1
          DEF respond, persist, persistFails, AdmissionInv, AdmissionsCovered
<1>6. CASE UNCHANGED vars \/ Tick \/ (\E m \in Message : replay(m))
           \/ (\E call \in calls : executeOperation(call) \/ signFails(call))
  BY <1>0, <1>2, <1>6
     DEF vars, Tick, replay, executeOperation, signFails, store
<1> QED BY <1>3, <1>4, <1>5, <1>6 DEF Next

\* Between two starts that found the store file unreadable, a request id is
\* dispatched at most once per retention window, and so is a nonce
\* (reserveSemantic and tryCommitNonce are on disk before dispatch).
THEOREM RequestsOncePerRetention == Spec => [](OncePerRetention /\ NonceOnce)
<1>1. Init => AdmissionInv
  BY DEF Init, AdmissionInv, AdmissionsCovered, OncePerRetention, NonceOnce,
         AdmissionsTimely
<1>2. TypeOK /\ TypeOK' /\ AdmissionInv /\ [Next]_vars => AdmissionInv'
  BY AdmissionStep
<1>3. AdmissionInv => OncePerRetention /\ NonceOnce
  BY DEF AdmissionInv
<1> QED BY <1>1, <1>2, <1>3, RequestsTypeOK, PTL DEF Spec

\* No signed message is dispatched twice while the store file can be read: a
\* second dispatch of its request id comes a retention window later, when
\* its timestamp has expired.  After load() gave up an unreadable file it is
\* dispatched again within twice the request age at most.
THEOREM RequestsExactOnce == Spec => []ExactOnce
<1>1. Init => AdmissionInv
  BY DEF Init, AdmissionInv, AdmissionsCovered, OncePerRetention, NonceOnce,
         AdmissionsTimely
<1>2. TypeOK /\ TypeOK' /\ AdmissionInv /\ [Next]_vars => AdmissionInv'
  BY AdmissionStep
<1>3. TypeOK /\ AdmissionInv => ExactOnce
  <2> SUFFICES ASSUME TypeOK, AdmissionInv,
                      NEW i \in 1..Len(admissions),
                      NEW j \in 1..Len(admissions), i < j,
                      admissions[i].m = admissions[j].m
               PROVE  /\ admissions[j].epoch > admissions[i].epoch
                      /\ admissions[j].at - admissions[i].at <= 2 * MaxAge
    BY DEF ExactOnce
  <2>1. /\ admissions[i].at \in Int /\ admissions[j].at \in Int
        /\ admissions[i].m.timestamp \in Int
    BY AdmissionType
  <2>2. \/ admissions[j].at - admissions[i].at >= Retention
        \/ admissions[j].epoch > admissions[i].epoch
    BY DEF AdmissionInv, OncePerRetention
  <2>3. /\ admissions[j].at - admissions[j].m.timestamp <= MaxAge
        /\ admissions[i].m.timestamp - admissions[i].at <= MaxAge
    BY DEF AdmissionInv, AdmissionsTimely
  <2>4. admissions[j].at - admissions[i].at <= 2 * MaxAge
    BY <2>1, <2>3, RetentionAssumption
  <2> QED BY <2>1, <2>2, <2>4, RetentionAssumption
<1> QED BY <1>1, <1>2, <1>3, RequestsTypeOK, PTL DEF Spec

----------------------------------------------------------------------------
(* Every response is the one of a dispatch of its own request              *)

\* Response r comes from a dispatch, among those of the log, of a request
\* with this id and payload.
Answers(r, id, fp, log) ==
  /\ r.id = id /\ r.fp = fp
  /\ r.run \in 1..Len(log)
  /\ log[r.run].m.id = id /\ log[r.run].m.fp = fp

\* A completed entry answers the request it is filed under, and the message
\* whose hash it keeps is such a request.
EntriesAnswer(entries, log) ==
  \A i \in Ids :
    entries[i].status = "completed" =>
      /\ entries[i].hash.id = i /\ entries[i].hash.fp = entries[i].fp
      /\ Answers(entries[i].response, i, entries[i].fp, log)

\* A dispatch in progress carries the message it was started for.
CallsAdmitted ==
  \A call \in calls :
    call.run \in 1..Len(admissions) /\ admissions[call.run].m = call.m

ReplyInv ==
  /\ EntriesAnswer(idempotency, admissions)
  /\ EntriesAnswer(saved.idempotency, admissions)
  /\ CallsAdmitted
  /\ ReplyMatches

\* The history of dispatches only grows.
LEMMA AdmissionsGrow ==
  ASSUME TypeOK, [Next]_vars
  PROVE  /\ 1..Len(admissions) \subseteq 1..Len(admissions')
         /\ \A k \in 1..Len(admissions) : admissions'[k] = admissions[k]
<1>1. CASE UNCHANGED admissions
  BY <1>1
<1>2. ASSUME NEW m \in Message,
             admissions' = Append(admissions, admitted(m))
      PROVE  /\ 1..Len(admissions) \subseteq 1..Len(admissions')
             /\ \A k \in 1..Len(admissions) : admissions'[k] = admissions[k]
  <2>1. /\ Len(admissions) \in Nat /\ Len(admissions') = Len(admissions) + 1
        /\ \A k \in 1..Len(admissions) : admissions'[k] = admissions[k]
    BY <1>2 DEF TypeOK
  <2> QED BY <2>1
<1>3. \/ UNCHANGED admissions
      \/ \E m \in Message :
           admissions' = Append(admissions, admitted(m))
  BY DEF Next, vars, Tick, restart, admit, replay, executeOperation, respond,
         signFails
<1> QED BY <1>1, <1>2, <1>3

\* What answers a request under a log answers it under a longer one.
LEMMA AnswersKept ==
  ASSUME TypeOK, [Next]_vars
  PROVE  /\ \A r, id, fp : Answers(r, id, fp, admissions)
                             => Answers(r, id, fp, admissions')
         /\ \A entries : EntriesAnswer(entries, admissions)
                           => EntriesAnswer(entries, admissions')
<1>1. ASSUME NEW r, NEW id, NEW fp, Answers(r, id, fp, admissions)
      PROVE  Answers(r, id, fp, admissions')
  BY <1>1, AdmissionsGrow DEF Answers
<1> QED BY <1>1 DEF EntriesAnswer

\* Pruning, reserving and completing keep the entries answering.
LEMMA WriteAnswers ==
  ASSUME TypeOK, EntriesAnswer(idempotency, admissions), CallsAdmitted
  PROVE  /\ \A m \in Message : EntriesAnswer(Reserved(m), admissions)
         /\ \A call \in calls : EntriesAnswer(Completed(call), admissions)
         /\ \A i \in Ids : Live(i).status = "completed" =>
              /\ Live(i).hash.id = i /\ Live(i).hash.fp = Live(i).fp
              /\ Answers(Live(i).response, i, Live(i).fp, admissions)
<1>1. ASSUME NEW i \in Ids, Live(i).status = "completed"
      PROVE  /\ Live(i).hash.id = i /\ Live(i).hash.fp = Live(i).fp
             /\ Answers(Live(i).response, i, Live(i).fp, admissions)
  <2>1. Live(i) = idempotency[i]
    BY <1>1 DEF Live, Absent
  <2> QED BY <1>1, <2>1 DEF EntriesAnswer
<1>2. ASSUME NEW m \in Message
      PROVE  EntriesAnswer(Reserved(m), admissions)
  <2> SUFFICES ASSUME NEW i \in Ids, Reserved(m)[i].status = "completed"
               PROVE  Reserved(m)[i] = Live(i)
    BY <1>1 DEF EntriesAnswer
  <2> QED BY DEF Reserved
<1>3. ASSUME NEW call \in calls
      PROVE  EntriesAnswer(Completed(call), admissions)
  <2> SUFFICES ASSUME NEW i \in Ids, Completed(call)[i].status = "completed"
               PROVE  /\ Completed(call)[i].hash.id = i
                      /\ Completed(call)[i].hash.fp = Completed(call)[i].fp
                      /\ Answers(Completed(call)[i].response, i,
                                 Completed(call)[i].fp, admissions)
    BY DEF EntriesAnswer
  <2>1. CASE i # call.m.id
    <3>1. Completed(call)[i] = Live(i)
      BY <2>1 DEF Completed
    <3> QED BY <1>1, <3>1
  <2>2. CASE i = call.m.id
    <3>1. /\ Completed(call)[i].hash = call.m
          /\ Completed(call)[i].fp = call.m.fp
          /\ Completed(call)[i].response
               = [id |-> call.m.id, fp |-> call.m.fp, run |-> call.run]
      BY <2>2 DEF Completed
    <3>2. call.run \in 1..Len(admissions) /\ admissions[call.run].m = call.m
      BY DEF CallsAdmitted
    <3> QED BY <2>2, <3>1, <3>2 DEF Answers
  <2> QED BY <2>1, <2>2
<1> QED BY <1>1, <1>2, <1>3

\* ReplyInv is inductive, given the types.
LEMMA ReplyStep ==
  ASSUME TypeOK, TypeOK', ReplyInv, [Next]_vars
  PROVE  ReplyInv'
<1>1. /\ EntriesAnswer(idempotency, admissions')
      /\ EntriesAnswer(saved.idempotency, admissions')
  BY AnswersKept DEF ReplyInv
<1>2. \A call \in calls :
        call.run \in 1..Len(admissions') /\ admissions'[call.run].m = call.m
  BY AdmissionsGrow DEF ReplyInv, CallsAdmitted
<1>3. UNCHANGED reply => ReplyMatches'
  <2> SUFFICES ASSUME UNCHANGED reply, reply # NoReply
               PROVE  Answers(reply.response, reply.m.id, reply.m.fp,
                              admissions')
    BY DEF ReplyMatches, Answers
  <2>1. Answers(reply.response, reply.m.id, reply.m.fp, admissions)
    BY DEF ReplyInv, ReplyMatches, Answers
  <2> QED BY <2>1, AnswersKept
<1>4. /\ \A m \in Message : EntriesAnswer(Reserved(m), admissions')
      /\ \A call \in calls : EntriesAnswer(Completed(call), admissions')
  BY WriteAnswers, AnswersKept DEF ReplyInv
<1>5. CASE UNCHANGED vars \/ Tick
  BY <1>1, <1>2, <1>3, <1>5 DEF ReplyInv, CallsAdmitted, vars, Tick, store
<1>6. CASE restart
  <2>1. UNCHANGED reply /\ calls' = {}
    BY <1>6 DEF restart
  <2>2. /\ \/ saved'.idempotency = saved.idempotency
           \/ saved'.idempotency = idempotency
        /\ \/ idempotency' = saved'.idempotency
           \/ idempotency' = [i \in Ids |-> Absent]
    BY <1>6 DEF restart, load
  <2>3. EntriesAnswer([i \in Ids |-> Absent], admissions')
    BY DEF EntriesAnswer, Absent
  <2> QED BY <1>1, <1>3, <2>1, <2>2, <2>3 DEF ReplyInv, CallsAdmitted
<1>7. ASSUME NEW m \in Message, admit(m) PROVE ReplyInv'
  <2>1. UNCHANGED reply /\ idempotency' = Reserved(m)
    BY <1>7 DEF admit
  <2>2. \/ saved' = saved \/ saved'.idempotency = idempotency'
    BY <1>7 DEF admit, persist, persistFails
  <2>3. CallsAdmitted'
    <3>1. CASE UNCHANGED calls
      BY <1>2, <3>1 DEF CallsAdmitted
    <3>2. CASE /\ calls' = calls \cup {[m |-> m, run |-> Len(admissions) + 1,
                                        pc |-> "executing"]}
               /\ admissions' = Append(admissions, admitted(m))
      <4>1. /\ Len(admissions) \in Nat
            /\ Len(admissions') = Len(admissions) + 1
            /\ admissions'[Len(admissions) + 1] = admitted(m)
            /\ admitted(m).m = m
        BY <3>2 DEF TypeOK, admitted
      <4> QED BY <1>2, <3>2, <4>1 DEF CallsAdmitted
    <3> QED BY <1>7, <3>1, <3>2 DEF admit
  <2> QED BY <1>1, <1>3, <1>4, <2>1, <2>2, <2>3 DEF ReplyInv
<1>8. ASSUME NEW m \in Message, replay(m) PROVE ReplyInv'
  <2>1. UNCHANGED <<idempotency, saved, calls, admissions>>
    BY <1>8 DEF replay, store
  <2>2. ReplyMatches'
    <3>1. m.id \in Ids
      BY DEF Message
    <3>2. /\ Live(m.id).hash.id = m.id /\ Live(m.id).hash.fp = Live(m.id).fp
          /\ Answers(Live(m.id).response, m.id, Live(m.id).fp, admissions)
      BY <1>8, <3>1, WriteAnswers
         DEF ReplyInv, replay, ExactReplay, SemanticReplay
    <3>3. Live(m.id).fp = m.fp
      BY <1>8, <3>2 DEF replay, ExactReplay, SemanticReplay
    <3> QED BY <1>8, <2>1, <3>2, <3>3 DEF ReplyMatches, Answers, replay
  <2> QED BY <1>1, <1>2, <2>1, <2>2 DEF ReplyInv, CallsAdmitted
<1>9. ASSUME NEW call \in calls, executeOperation(call) PROVE ReplyInv'
  <2>1. UNCHANGED <<idempotency, saved, reply, admissions>>
    BY <1>9 DEF executeOperation, store
  <2>2. CallsAdmitted'
    <3>1. /\ [call EXCEPT !.pc = "executed"].m = call.m
          /\ [call EXCEPT !.pc = "executed"].run = call.run
      BY DEF TypeOK, Call
    <3>2. ASSUME NEW c \in calls'
          PROVE  c.run \in 1..Len(admissions') /\ admissions'[c.run].m = c.m
      <4>1. c \in calls \/ c = [call EXCEPT !.pc = "executed"]
        BY <1>9 DEF executeOperation
      <4> QED BY <1>2, <3>1, <4>1
    <3> QED BY <3>2 DEF CallsAdmitted
  <2> QED BY <1>1, <1>3, <2>1, <2>2 DEF ReplyInv
<1>10. ASSUME NEW call \in calls, respond(call) PROVE ReplyInv'
  <2>1. /\ idempotency' = Completed(call) /\ calls' \subseteq calls
        /\ UNCHANGED admissions
    BY <1>10 DEF respond
  <2>2. saved' = saved \/ saved'.idempotency = idempotency'
    BY <1>10 DEF respond, persist, persistFails
  <2>3. CASE UNCHANGED reply
    BY <1>1, <1>2, <1>3, <1>4, <2>1, <2>2, <2>3 DEF ReplyInv, CallsAdmitted
  <2>4. CASE reply' = [m |-> call.m,
                       response |-> idempotency'[call.m.id].response]
    <3>1. call.m.id \in Ids
      BY DEF TypeOK, Call, Message
    <3>2. idempotency'[call.m.id].response
            = [id |-> call.m.id, fp |-> call.m.fp, run |-> call.run]
      BY <2>1, <3>1 DEF Completed
    <3>3. ReplyMatches'
      BY <1>2, <2>4, <3>2 DEF ReplyMatches
    <3> QED BY <1>1, <1>2, <1>4, <2>1, <2>2, <3>3 DEF ReplyInv, CallsAdmitted
  <2> QED BY <1>10, <2>3, <2>4 DEF respond
<1>11. ASSUME NEW call \in calls, signFails(call) PROVE ReplyInv'
  BY <1>1, <1>2, <1>3, <1>11 DEF ReplyInv, CallsAdmitted, signFails, store
<1> QED BY <1>5, <1>6, <1>7, <1>8, <1>9, <1>10, <1>11 DEF Next

\* Whoever gets a response gets the one of a dispatch of its own request id
\* and payload: getIdempotentResponse and checkSemantic serve no other, also
\* when the entry was pruned and its id reserved again under a dispatch that
\* storeIdempotentResponse then files by request id alone.
THEOREM RequestsReplyMatches == Spec => []ReplyMatches
<1>1. Init => ReplyInv
  BY DEF Init, ReplyInv, EntriesAnswer, CallsAdmitted, ReplyMatches, Absent
<1>2. TypeOK /\ TypeOK' /\ ReplyInv /\ [Next]_vars => ReplyInv'
  BY ReplyStep
<1>3. ReplyInv => ReplyMatches
  BY DEF ReplyInv
<1> QED BY <1>1, <1>2, <1>3, RequestsTypeOK, PTL DEF Spec
=============================================================================
