------------------------ MODULE ArtifactStoreProofs ------------------------
(***************************************************************************)
(* Proofs about ArtifactStore, for any artifacts, contents and bounds and  *)
(* whatever dies or throws: finalized artifacts are immutable, and exact   *)
(* but for digests whose object an interrupted copy left; acknowledged     *)
(* bytes that were written are kept.                                       *)
(***************************************************************************)
EXTENDS ArtifactStore, SequenceTheorems, TLAPS

\* A content is a sequence, so its length is a number.
LEMMA ContentLength ==
  ASSUME NEW c \in Contents
  PROVE  Len(c) \in Nat /\ c \in [1..Len(c) -> Units] /\ Len(c) <= MaxLength
<1>1. PICK n \in 0..MaxLength : c \in [1..n -> Units]
  BY DEF Contents
<1>2. n \in Nat
  BY <1>1, BoundsAssumption
<1>3. c \in Seq(Units) /\ Len(c) = n
  BY <1>1, <1>2
<1> QED BY <1>1, <1>2, <1>3, BoundsAssumption

\* A function on an initial segment within the bound is a content.
LEMMA ContentIntro ==
  ASSUME NEW n \in 0..MaxLength, NEW c \in [1..n -> Units]
  PROVE  c \in Contents
  BY DEF Contents

\* Writing inside the bound, at whatever offset, leaves a content.
LEMMA OverlayType ==
  ASSUME NEW file \in Contents, NEW data \in Contents,
         NEW offset \in Nat, offset + Len(data) <= MaxLength
  PROVE  Overlay(file, offset, data) \in Contents
<1> DEFINE end == offset + Len(data)
           n == IF end > Len(file) THEN end ELSE Len(file)
<1>1. /\ Len(file) \in Nat /\ file \in [1..Len(file) -> Units]
      /\ Len(data) \in Nat /\ data \in [1..Len(data) -> Units]
      /\ Len(file) <= MaxLength
  BY ContentLength
<1>2. n \in 0..MaxLength
  BY <1>1, BoundsAssumption
<1>3. ASSUME NEW k \in 1..n
      PROVE  (IF k > offset /\ k <= end THEN data[k - offset]
              ELSE IF k <= Len(file) THEN file[k] ELSE Zero) \in Units
  <2>1. CASE k > offset /\ k <= end
    <3>1. k - offset \in 1..Len(data)
      BY <1>1, <2>1
    <3> QED BY <1>1, <2>1, <3>1
  <2>2. CASE ~(k > offset /\ k <= end)
    <3>1. k <= Len(file) => k \in 1..Len(file)
      BY <1>1
    <3> QED BY <1>1, <2>2, <3>1, UnitsAssumption
  <2> QED BY <2>1, <2>2
<1>4. Overlay(file, offset, data) \in [1..n -> Units]
  BY <1>3 DEF Overlay
<1> QED BY <1>2, <1>4, ContentIntro

\* The part of a chunk that a dying process wrote is a content.
LEMMA PartOfChunk ==
  ASSUME NEW data \in Contents, NEW n \in 0..Len(data)
  PROVE  SubSeq(data, 1, n) \in Contents /\ Len(SubSeq(data, 1, n)) = n
<1>1. Len(data) \in Nat /\ data \in [1..Len(data) -> Units]
      /\ Len(data) <= MaxLength
  BY ContentLength
<1>2. n \in 0..MaxLength /\ n \in Nat
  BY <1>1, BoundsAssumption
<1>3. data \in Seq(Units)
  BY <1>1
<1>4. SubSeq(data, 1, n) \in Seq(Units) /\ Len(SubSeq(data, 1, n)) = n
  BY <1>1, <1>2, <1>3
<1>5. SubSeq(data, 1, n) \in [1..n -> Units]
  BY <1>4, LenProperties
<1> QED BY <1>2, <1>4, <1>5, ContentIntro

\* The fields of the call in progress, by its step.
LEMMA OpFields ==
  ASSUME NEW o \in Op
  PROVE  /\ o # Idle => o.id \in Ids /\ o.step # "idle"
         /\ o.step \in {"persist", "copy", "created", "published"}
              => o.sha256 \in Contents
         /\ o.step \in {"persist", "copy", "created"}
              => o \in [step : {"persist", "copy", "created"}, id : Ids,
                        sha256 : Contents, fresh : BOOLEAN]
         /\ o.step = "begun" => o.expectedSize \in Nat \cup {None}
                                /\ o.expectedSha256 \in Contents \cup {None}
         /\ o.step = "chunk" => o.data \in Contents /\ o.written \in Nat
  BY DEF Op, Idle

\* The fields of a record.
LEMMA RecordFields ==
  ASSUME NEW r \in ArtifactRecord \cup {NoRecord}, r # NoRecord
  PROVE  r \in ArtifactRecord /\ r.size \in Nat /\ r.status # "none"
  BY DEF ArtifactRecord, NoRecord

\* What the types rest on: a call in progress still has the record it began
\* with.
StoreInv ==
  /\ TypeOK
  /\ op.step \in {"chunk", "finalize", "abort", "published"}
       => Uploading(op.id)
  /\ op.step \in {"persist", "copy", "created", "begun"}
       => manifest[op.id] = NoRecord

LEMMA StoreInvInit == Init => StoreInv
<1> SUFFICES ASSUME Init PROVE StoreInv
  OBVIOUS
<1>1. TypeOK
  BY DEF Init, TypeOK, Op, NoRecord
<1>2. op.step = "idle"
  BY DEF Init, Idle
<1> QED BY <1>1, <1>2 DEF StoreInv

\* saveManifest writes a record of the right type for the call's artifact,
\* and ends the call.
LEMMA SavePreserves ==
  ASSUME StoreInv, op # Idle, NEW r \in ArtifactRecord,
         saveManifest(op.id, r)
  PROVE  StoreInv'
<1>1. op.id \in Ids
  BY OpFields DEF StoreInv, TypeOK
<1>2. /\ manifest' = [manifest EXCEPT ![op.id] = r]
      /\ op' = Idle /\ uploads' = uploads /\ objects' = objects
  BY DEF saveManifest, files
<1>3. TypeOK'
  BY <1>1, <1>2 DEF StoreInv, TypeOK, Op
<1>4. op'.step = "idle"
  BY <1>2 DEF Idle
<1> QED BY <1>3, <1>4 DEF StoreInv

LEMMA StoreInvNext == StoreInv /\ [Next]_vars => StoreInv'
<1> SUFFICES ASSUME StoreInv, [Next]_vars PROVE StoreInv'
  OBVIOUS
<1> USE DEF files
<1>0. TypeOK
  BY DEF StoreInv
<1>1. ASSUME NEW i \in Ids, NEW c \in Sources, createFromFile(i, c)
      PROVE  StoreInv'
  <2>1. op' = [step |-> "persist", id |-> i, sha256 |-> c, fresh |-> TRUE]
        /\ manifest' = manifest /\ uploads' = uploads /\ objects' = objects
        /\ manifest[i] = NoRecord
    BY <1>1 DEF createFromFile, NewId
  <2>2. TypeOK'
    BY <1>0, <2>1, InputsAssumption DEF TypeOK, Op
  <2> QED BY <2>1, <2>2 DEF StoreInv, Uploading
<1>2. ASSUME sourceChanges PROVE StoreInv'
  <2>1. /\ manifest' = manifest /\ uploads' = uploads /\ objects' = objects
        /\ op.step \in {"persist", "copy"}
        /\ op' = [op EXCEPT !.fresh = FALSE]
    BY <1>2 DEF sourceChanges
  <2>2. /\ op' \in [step : {"persist", "copy", "created"}, id : Ids,
                    sha256 : Contents, fresh : BOOLEAN]
        /\ op'.step = op.step /\ op'.id = op.id
    BY <1>0, <2>1, OpFields DEF TypeOK
  <2>3. TypeOK'
    BY <1>0, <2>1, <2>2 DEF TypeOK, Op
  <2> QED BY <2>1, <2>2, <2>3 DEF StoreInv, Uploading
<1>3. ASSUME persistObject PROVE StoreInv'
  <2>1. /\ manifest' = manifest /\ uploads' = uploads
        /\ op.step = "persist"
        /\ \/ op' = [op EXCEPT !.step = "created"]
           \/ op' = [op EXCEPT !.step = "copy"]
        /\ objects' \in {objects, [objects EXCEPT ![op.sha256] = "torn"]}
    BY <1>3 DEF persistObject
  <2>2. /\ op' \in [step : {"persist", "copy", "created"}, id : Ids,
                    sha256 : Contents, fresh : BOOLEAN]
        /\ op'.step \in {"created", "copy"} /\ op'.id = op.id
    BY <1>0, <2>1, OpFields DEF TypeOK
  <2>3. TypeOK'
    BY <1>0, <2>1, <2>2, OpFields DEF TypeOK, Op
  <2> QED BY <2>1, <2>2, <2>3 DEF StoreInv, Uploading
<1>4. ASSUME capture PROVE StoreInv'
  <2>1. /\ manifest' = manifest /\ uploads' = uploads
        /\ op.step = "copy"
        /\ op' \in {Idle, [op EXCEPT !.step = "created"]}
        /\ \E left \in {"ok", "absent"} :
             objects' = [objects EXCEPT ![op.sha256] = left]
    BY <1>4 DEF capture
  <2>2. /\ op' \in Op
        /\ op'.step \in {"created", "idle"}
        /\ op'.step = "created" => op'.id = op.id
    <3>1. CASE op' = Idle
      BY <3>1 DEF Op, Idle
    <3>2. CASE op' = [op EXCEPT !.step = "created"]
      BY <1>0, <2>1, <3>2, OpFields DEF TypeOK, Op
    <3> QED BY <2>1, <3>1, <3>2
  <2>3. TypeOK'
    BY <1>0, <2>1, <2>2, OpFields DEF TypeOK
  <2> QED BY <2>1, <2>2, <2>3 DEF StoreInv, Uploading
<1>5. ASSUME saveCreated PROVE StoreInv'
  <2>1. op # Idle /\ op.sha256 \in Contents
    BY <1>0, <1>5, OpFields DEF saveCreated, TypeOK, Idle
  <2>2. [status |-> "finalized", sha256 |-> op.sha256,
         size |-> Len(op.sha256), expectedSize |-> None,
         expectedSha256 |-> None] \in ArtifactRecord
    BY <2>1, ContentLength DEF ArtifactRecord
  <2> QED BY <1>5, <2>1, <2>2, SavePreserves DEF saveCreated
<1>6. ASSUME NEW i \in Ids, NEW e \in Expectations,
             beginUpload(i, e[1], e[2])
      PROVE  StoreInv'
  <2>1. /\ op' = [step |-> "begun", id |-> i, expectedSize |-> e[1],
                  expectedSha256 |-> e[2]]
        /\ manifest' = manifest /\ objects' = objects
        /\ uploads' = [uploads EXCEPT ![i] = <<>>]
        /\ manifest[i] = NoRecord
    BY <1>6 DEF beginUpload, NewId
  <2>2. e[1] \in Nat \cup {None} /\ e[2] \in Contents \cup {None}
    BY ExpectationsAssumption
  <2>3. <<>> \in Contents
    <3>1. <<>> \in Seq(Units) /\ Len(<<>>) = 0
      OBVIOUS
    <3>2. <<>> \in [1..Len(<<>>) -> Units]
      BY <3>1, LenProperties
    <3>3. 0 \in 0..MaxLength
      BY BoundsAssumption
    <3> QED BY <3>1, <3>2, <3>3, ContentIntro
  <2>4. TypeOK'
    BY <1>0, <2>1, <2>2, <2>3 DEF TypeOK, Op
  <2>5. ~Uploading(i)
    BY <2>1 DEF Uploading, NoRecord
  <2> QED BY <1>0, <2>1, <2>4, <2>5 DEF StoreInv, TypeOK, Uploading
<1>7. ASSUME saveBegun PROVE StoreInv'
  <2>1. op # Idle /\ op.id \in Ids
    BY <1>0, <1>7, OpFields DEF saveBegun, TypeOK, Idle
  <2> DEFINE r == [status |-> "uploading", sha256 |-> None, size |-> 0,
                   expectedSize |-> op.expectedSize,
                   expectedSha256 |-> op.expectedSha256]
  <2>2. r \in ArtifactRecord
    BY <1>0, <1>7, OpFields DEF saveBegun, TypeOK, ArtifactRecord
  <2> QED BY <1>7, <2>1, <2>2, SavePreserves DEF saveBegun
<1>8. ASSUME NEW i \in Ids, NEW data \in Chunks, NEW flag \in BOOLEAN,
             NEW offset \in 0..MaxLength, offset + Len(data) <= MaxLength,
             NEW n \in 0..Len(data), uploadChunk(i, offset, data, n, flag)
      PROVE  StoreInv'
  <2> DEFINE part == SubSeq(data, 1, n)
  <2>1. /\ Uploading(i) /\ uploads[i] \in Contents
        /\ manifest' = manifest /\ objects' = objects
        /\ uploads' = [uploads EXCEPT ![i] =
                         Overlay(uploads[i], offset, part)]
        /\ op' = [step |-> "chunk", id |-> i, data |-> data,
                  written |-> n, finalize |-> flag]
    BY <1>0, <1>8 DEF uploadChunk, TypeOK
  <2>2. data \in Contents /\ Len(data) \in Nat /\ n \in Nat /\ offset \in Nat
    BY InputsAssumption, BoundsAssumption, ContentLength
  <2>3. part \in Contents /\ offset + Len(part) <= MaxLength
    BY <1>8, <2>2, PartOfChunk, BoundsAssumption
  <2> HIDE DEF part
  <2>4. Overlay(uploads[i], offset, part) \in Contents
    BY <2>1, <2>2, <2>3, OverlayType
  <2>5. op' \in Op /\ op'.step = "chunk" /\ op'.id = i
    BY <2>1, <2>2 DEF Op
  <2>6. TypeOK'
    BY <1>0, <2>1, <2>4, <2>5 DEF TypeOK
  <2> QED BY <2>1, <2>5, <2>6 DEF StoreInv, Uploading
<1>9. ASSUME saveChunk PROVE StoreInv'
  <2> DEFINE i == op.id
             end == manifest[i].size + Len(op.data)
  <2>1. /\ op.step = "chunk" /\ uploads' = uploads /\ objects' = objects
        /\ manifest' = [manifest EXCEPT ![i].size = end]
        /\ op' \in {Idle, [step |-> "finalize", id |-> i]}
    BY <1>9 DEF saveChunk
  <2>2. i \in Ids /\ op.data \in Contents /\ Uploading(i)
    BY <1>0, <2>1, OpFields DEF StoreInv, TypeOK, Idle
  <2>3. manifest[i] \in ArtifactRecord
    BY <1>0, <2>2, RecordFields DEF TypeOK, Uploading, NoRecord
  <2>4. manifest'[i] \in ArtifactRecord /\ manifest'[i].status = "uploading"
    <3>1. manifest'[i] = [manifest[i] EXCEPT !.size = end]
      BY <1>0, <2>1, <2>2 DEF TypeOK
    <3>2. end \in Nat
      BY <2>2, <2>3, ContentLength DEF ArtifactRecord
    <3> HIDE DEF end
    <3> QED BY <2>2, <2>3, <3>1, <3>2 DEF ArtifactRecord, Uploading
  <2>5. manifest' \in [Ids -> ArtifactRecord \cup {NoRecord}]
    BY <1>0, <2>1, <2>2, <2>4 DEF TypeOK
  <2>6. op' \in Op
    BY <2>1, <2>2 DEF Op
  <2>7. TypeOK'
    BY <1>0, <2>1, <2>5, <2>6 DEF TypeOK
  <2>8. /\ op'.step \in {"idle", "finalize"}
        /\ op'.step = "finalize" => op'.id = i
    BY <2>1 DEF Idle
  <2> QED BY <2>2, <2>4, <2>7, <2>8 DEF StoreInv, Uploading
<1>10. ASSUME NEW i \in Ids, Uploading(i), AsExpected(i, Len(uploads[i]),
                                                      uploads[i]),
              PublishUpload(i)
       PROVE  StoreInv'
  <2>1. /\ uploads[i] \in Contents
    BY <1>0, <1>10 DEF AsExpected, TypeOK
  <2>2. /\ manifest' = manifest
        /\ op' = [step |-> "published", id |-> i, sha256 |-> uploads[i]]
        /\ uploads' = [uploads EXCEPT ![i] = None]
        /\ objects' \in {objects, [objects EXCEPT ![uploads[i]] = "ok"]}
    BY <1>10 DEF PublishUpload
  <2>3. TypeOK'
    BY <1>0, <2>1, <2>2 DEF TypeOK, Op
  <2>4. uploads'[i] = None /\ \A j \in Ids \ {i} : uploads'[j] = uploads[j]
    BY <1>0, <2>2 DEF TypeOK
  <2> QED BY <1>10, <2>2, <2>3, <2>4 DEF StoreInv, Uploading
<1>11. ASSUME NEW i \in Ids, NEW n, NEW c, finalize(i, n, c)
       PROVE  StoreInv'
  <2>1. n = Len(uploads[i]) /\ c = uploads[i]
    BY <1>11 DEF finalize, AsExpected
  <2> QED BY <1>10, <1>11, <2>1 DEF finalize
<1>12. ASSUME finalizeLegacy PROVE StoreInv'
  <2>1. op.step = "finalize" /\ op.id \in Ids /\ Uploading(op.id)
    BY <1>0, <1>12, OpFields DEF finalizeLegacy, StoreInv, TypeOK, Idle
  <2>2. CASE op' = Idle /\ UNCHANGED <<manifest, files, history>>
    <3>1. TypeOK'
      BY <1>0, <2>2 DEF TypeOK, Op
    <3> QED BY <2>2, <3>1 DEF StoreInv, Uploading, Idle
  <2>3. CASE PublishUpload(op.id) /\ \E n, c : AsExpected(op.id, n, c)
    <3>1. AsExpected(op.id, Len(uploads[op.id]), uploads[op.id])
      BY <2>3 DEF AsExpected
    <3> QED BY <1>10, <2>1, <2>3, <3>1
  <2> QED BY <1>12, <2>2, <2>3 DEF finalizeLegacy
<1>13. ASSUME saveFinalized PROVE StoreInv'
  <2>1. /\ op # Idle /\ op.id \in Ids /\ op.sha256 \in Contents
        /\ Uploading(op.id)
    BY <1>0, <1>13, OpFields DEF saveFinalized, StoreInv, TypeOK, Idle
  <2> DEFINE r == [manifest[op.id] EXCEPT !.status = "finalized",
                     !.sha256 = op.sha256, !.size = Len(op.sha256)]
  <2>2. manifest[op.id] \in ArtifactRecord
    BY <1>0, <2>1, RecordFields DEF TypeOK, Uploading, NoRecord
  <2>3. r \in ArtifactRecord /\ r.status = "finalized"
    BY <2>1, <2>2, ContentLength DEF ArtifactRecord
  <2> QED BY <1>13, <2>1, <2>3, SavePreserves DEF saveFinalized
<1>14. ASSUME NEW i \in Ids, abort(i) PROVE StoreInv'
  <2>1. /\ manifest' = manifest /\ objects' = objects
        /\ uploads' = [uploads EXCEPT ![i] = None]
        /\ op' = [step |-> "abort", id |-> i] /\ Uploading(i)
    BY <1>14 DEF abort
  <2>2. TypeOK'
    BY <1>0, <2>1 DEF TypeOK, Op
  <2>3. uploads'[i] = None /\ \A j \in Ids \ {i} : uploads'[j] = uploads[j]
    BY <1>0, <2>1 DEF TypeOK
  <2> QED BY <2>1, <2>2, <2>3 DEF StoreInv, Uploading
<1>15. ASSUME saveAborted PROVE StoreInv'
  <2>1. op # Idle /\ op.id \in Ids /\ Uploading(op.id)
    BY <1>0, <1>15, OpFields DEF saveAborted, StoreInv, TypeOK, Idle
  <2> DEFINE r == [manifest[op.id] EXCEPT !.status = "aborted"]
  <2>2. manifest[op.id] \in ArtifactRecord
    BY <1>0, <2>1, RecordFields DEF TypeOK, Uploading, NoRecord
  <2>3. r \in ArtifactRecord /\ r.status = "aborted"
    BY <2>2 DEF ArtifactRecord
  <2> QED BY <1>15, <2>1, <2>3, SavePreserves DEF saveAborted
<1>16. ASSUME interrupted PROVE StoreInv'
  <2>1. /\ manifest' = manifest /\ uploads' = uploads /\ op' = Idle
        /\ op # Idle
    BY <1>16 DEF interrupted
  <2>2. objects' \in [Contents -> {"absent", "torn", "ok"}]
    <3>1. CASE op.step = "copy"
      <4>1. PICK left \in {"absent", "torn", "ok"} :
              objects' = [objects EXCEPT ![op.sha256] = left]
        BY <1>16, <3>1 DEF interrupted, LeftByCopy
      <4> QED BY <1>0, <4>1 DEF TypeOK
    <3>2. CASE op.step # "copy"
      BY <1>0, <1>16, <3>2 DEF interrupted, TypeOK
    <3> QED BY <3>1, <3>2
  <2>3. TypeOK'
    BY <1>0, <2>1, <2>2 DEF TypeOK, Op
  <2> QED BY <2>1, <2>3 DEF StoreInv, Uploading, Idle
<1>17. ASSUME UNCHANGED vars PROVE StoreInv'
  BY <1>17 DEF vars, StoreInv, TypeOK, Uploading
<1>18. ASSUME NEW i \in Ids, clientStep(i) PROVE StoreInv'
  BY <1>1, <1>6, <1>8, <1>11, <1>14, <1>18 DEF clientStep
<1> QED
  BY <1>2, <1>3, <1>4, <1>5, <1>7, <1>9, <1>12, <1>13, <1>15, <1>16, <1>17,
     <1>18 DEF Next

\* The records, the files and the call in progress keep their types under
\* every interruption, also if objects are left half copied: no operation
\* of the code writes a record another one could not read.
THEOREM ArtifactsTypeOK == Spec => []TypeOK
<1>1. StoreInv => TypeOK
  BY DEF StoreInv
<1> QED BY <1>1, StoreInvInit, StoreInvNext, PTL DEF Spec

----------------------------------------------------------------------------
(* Finalized artifacts are exact                                           *)

\* The object of c is complete, or was left by an interrupted copy.
Present(c) ==
  objects[c] = "ok" \/ (c \in leftovers /\ objects[c] = "torn")

\* What a finalized record says, with the objects there are.
Exact(r) ==
  /\ r.sha256 \in Contents
  /\ Present(r.sha256)
  /\ r.size = Len(r.sha256)
  /\ r.expectedSize \in {None, r.size}
  /\ r.expectedSha256 \in {None, r.sha256}

\* Only the copy in progress and leftovers are torn, and a call that is
\* about to save a finalized record has its object and the record's
\* expectations.
ObjectInv ==
  /\ \A c \in Contents : objects[c] = "torn"
       => c \in leftovers \/ (op.step = "copy" /\ op.sha256 = c)
  /\ \A c \in leftovers : objects[c] = "torn"
  /\ op.step = "copy" =>
       objects[op.sha256] = "torn" /\ op.sha256 \notin leftovers
  /\ op.step \in {"created", "published"} => Present(op.sha256)
  /\ op.step = "published" =>
       /\ manifest[op.id].expectedSize \in {None, Len(op.sha256)}
       /\ manifest[op.id].expectedSha256 \in {None, op.sha256}
  /\ \A i \in Ids : manifest[i].status = "finalized" => Exact(manifest[i])

\* An object that is complete or left over is never written again: a copy
\* begins with, and an upload is moved to, a name that is free.
LEMMA PresentKept ==
  ASSUME StoreInv, ObjectInv, [Next]_vars, NEW c \in Contents, Present(c)
  PROVE  objects'[c] = objects[c] /\ leftovers \subseteq leftovers'
<1> USE DEF files, history
<1>1. /\ objects[c] # "absent"
      /\ op.step = "copy" => op.sha256 # c
  BY DEF Present, ObjectInv
<1>2. objects \in [Contents -> {"absent", "torn", "ok"}]
  BY DEF StoreInv, TypeOK
<1>3. ASSUME NEW d, NEW x, objects' = [objects EXCEPT ![d] = x], d # c
      PROVE  objects'[c] = objects[c]
  BY <1>2, <1>3
<1>4. CASE persistObject
  BY <1>1, <1>3, <1>4 DEF persistObject
<1>5. CASE capture
  BY <1>1, <1>3, <1>5 DEF capture
<1>6. CASE interrupted
  <2>1. leftovers \subseteq leftovers'
    BY <1>6 DEF interrupted
  <2>2. objects'[c] = objects[c]
    BY <1>1, <1>3, <1>6 DEF interrupted
  <2> QED BY <2>1, <2>2
<1>7. ASSUME NEW i, PublishUpload(i)
      PROVE  objects'[c] = objects[c] /\ leftovers' = leftovers
  BY <1>1, <1>3, <1>7 DEF PublishUpload
<1>8. CASE finalizeLegacy
  <2>1. CASE PublishUpload(op.id)
    BY <1>7, <2>1
  <2>2. CASE UNCHANGED <<manifest, files, history>>
    BY <2>2
  <2> QED BY <1>8, <2>1, <2>2 DEF finalizeLegacy
<1>9. CASE \/ saveCreated \/ saveBegun \/ saveChunk \/ saveFinalized
           \/ saveAborted \/ sourceChanges \/ UNCHANGED vars
  <2>1. objects' = objects /\ leftovers' = leftovers
    BY <1>9 DEF saveCreated, saveBegun, saveChunk, saveFinalized,
                saveAborted, saveManifest, sourceChanges, vars
  <2> QED BY <2>1
<1>10. ASSUME NEW i \in Ids, clientStep(i)
       PROVE  objects'[c] = objects[c] /\ leftovers' = leftovers
  <2>1. CASE \E n, d : finalize(i, n, d)
    BY <1>7, <2>1 DEF finalize
  <2>2. CASE \/ \E d : createFromFile(i, d)
             \/ \E n, d : beginUpload(i, n, d)
             \/ \E o, d, n, f : uploadChunk(i, o, d, n, f)
             \/ abort(i)
    BY <2>2 DEF createFromFile, beginUpload, uploadChunk, abort
  <2> QED BY <1>10, <2>1, <2>2 DEF clientStep
<1> QED BY <1>4, <1>5, <1>6, <1>8, <1>9, <1>10 DEF Next

\* A step that keeps the manifest keeps the finalized artifacts.
LEMMA ExactStays ==
  ASSUME ObjectInv, manifest' = manifest,
         \A c \in Contents : Present(c) => Present(c)'
  PROVE  \A i \in Ids :
           manifest'[i].status = "finalized" => Exact(manifest[i])'
  BY DEF ObjectInv, Exact

\* A step that saves one record, exact if it is finalized, keeps the others.
LEMMA ExactSaved ==
  ASSUME StoreInv, ObjectInv, op # Idle, op.step # "copy", NEW r,
         saveManifest(op.id, r), UNCHANGED history,
         r.status = "finalized" => Exact(r)
  PROVE  ObjectInv'
<1>1. /\ op.id \in Ids /\ objects' = objects /\ op' = Idle
      /\ leftovers' = leftovers
      /\ manifest' = [manifest EXCEPT ![op.id] = r]
  BY OpFields DEF StoreInv, TypeOK, saveManifest, files, history
<1>2. manifest'[op.id] = r
      /\ \A i \in Ids \ {op.id} : manifest'[i] = manifest[i]
  BY <1>1 DEF StoreInv, TypeOK
<1>3. \A i \in Ids : manifest'[i].status = "finalized" => Exact(manifest[i])'
  BY <1>1, <1>2 DEF ObjectInv, Exact, Present
<1> QED BY <1>1, <1>3 DEF ObjectInv, Idle

\* A step that leaves objects alone and goes to a step that owes nothing.
LEMMA ObjectsUntouched ==
  ASSUME ObjectInv, manifest' = manifest, objects' = objects,
         leftovers' = leftovers, op.step # "copy",
         op'.step \notin {"copy", "created", "published"}
  PROVE  ObjectInv'
<1>1. \A i \in Ids : manifest'[i].status = "finalized" => Exact(manifest[i])'
  BY ExactStays DEF Present
<1> QED BY <1>1 DEF ObjectInv

LEMMA ObjectInvInit == Init => ObjectInv
  BY DEF Init, ObjectInv, Idle, NoRecord

LEMMA ObjectInvNext == StoreInv /\ ObjectInv /\ [Next]_vars => ObjectInv'
<1> SUFFICES ASSUME StoreInv, ObjectInv, [Next]_vars PROVE ObjectInv'
  OBVIOUS
<1> USE DEF files, history
<1>0. TypeOK /\ \A c \in Contents : Present(c) => Present(c)'
  <2>1. ASSUME NEW c \in Contents, Present(c) PROVE Present(c)'
    <3>1. objects'[c] = objects[c] /\ leftovers \subseteq leftovers'
      BY <2>1, PresentKept
    <3> QED BY <2>1, <3>1 DEF Present
  <2> QED BY <2>1 DEF StoreInv
<1>1. ASSUME NEW i \in Ids, NEW c, createFromFile(i, c)
      PROVE  ObjectInv'
  BY <1>1, ObjectsUntouched DEF createFromFile, Idle
<1>2. ASSUME sourceChanges PROVE ObjectInv'
  <2>1. /\ manifest' = manifest /\ objects' = objects
        /\ leftovers' = leftovers /\ op.step \in {"persist", "copy"}
        /\ op' = [op EXCEPT !.fresh = FALSE]
    BY <1>2 DEF sourceChanges
  <2>2. op'.step = op.step /\ op'.sha256 = op.sha256
    BY <1>0, <2>1, OpFields DEF TypeOK
  <2>3. \A i \in Ids :
          manifest'[i].status = "finalized" => Exact(manifest[i])'
    BY <1>0, <2>1, ExactStays
  <2> QED BY <2>1, <2>2, <2>3 DEF ObjectInv
<1>3. ASSUME persistObject PROVE ObjectInv'
  <2>1. /\ op.step = "persist" /\ manifest' = manifest
        /\ leftovers' = leftovers /\ op.sha256 \in Contents
    BY <1>0, <1>3, OpFields DEF persistObject, TypeOK
  <2>2. op \in [step : {"persist", "copy", "created"}, id : Ids,
                sha256 : Contents, fresh : BOOLEAN]
    BY <1>0, <2>1, OpFields DEF TypeOK
  <2>3. \A c \in Contents : objects[c] = "torn" => c \in leftovers
    BY <2>1 DEF ObjectInv
  <2>4. \A i \in Ids :
          manifest'[i].status = "finalized" => Exact(manifest[i])'
    BY <1>0, <2>1, ExactStays
  <2>5. CASE /\ objects[op.sha256] # "absent"
             /\ op' = [op EXCEPT !.step = "created"] /\ objects' = objects
    <3>1. Present(op.sha256)
      BY <1>0, <2>1, <2>3, <2>5 DEF TypeOK, Present
    <3>2. op'.step = "created" /\ op'.sha256 = op.sha256
      BY <2>2, <2>5
    <3>3. Present(op.sha256)'
      BY <2>1, <2>5, <3>1, <3>2 DEF Present
    <3> QED BY <2>1, <2>3, <2>4, <2>5, <3>2, <3>3 DEF ObjectInv
  <2>6. CASE /\ objects[op.sha256] = "absent"
             /\ op' = [op EXCEPT !.step = "copy"]
             /\ objects' = [objects EXCEPT ![op.sha256] = "torn"]
    <3>1. op'.step = "copy" /\ op'.sha256 = op.sha256
      BY <2>2, <2>6
    <3>2. /\ objects'[op.sha256] = "torn"
          /\ \A c \in Contents \ {op.sha256} : objects'[c] = objects[c]
      BY <1>0, <2>1, <2>6 DEF TypeOK
    <3>3. op.sha256 \notin leftovers
      BY <2>6 DEF ObjectInv
    <3>4. \A c \in leftovers : objects'[c] = "torn"
      BY <1>0, <2>6, <3>3 DEF ObjectInv, TypeOK
    <3> QED BY <2>1, <2>3, <2>4, <3>1, <3>2, <3>3, <3>4 DEF ObjectInv
  <2> QED BY <1>3, <2>5, <2>6 DEF persistObject
<1>4. ASSUME NEW left \in {"ok", "absent", "torn"}, op.step = "copy",
             manifest' = manifest,
             objects' = [objects EXCEPT ![op.sha256] = left],
             leftovers' = IF left = "torn" THEN leftovers \cup {op.sha256}
                          ELSE leftovers,
             \/ op' = Idle
             \/ left = "ok" /\ op' = [op EXCEPT !.step = "created"]
      PROVE  ObjectInv'
  <2>1. /\ op.sha256 \in Contents /\ op.sha256 \notin leftovers
        /\ op \in [step : {"persist", "copy", "created"}, id : Ids,
                   sha256 : Contents, fresh : BOOLEAN]
    BY <1>0, <1>4, OpFields DEF TypeOK, ObjectInv
  <2>2. /\ objects'[op.sha256] = left
        /\ \A c \in Contents \ {op.sha256} : objects'[c] = objects[c]
    BY <1>0, <1>4, <2>1 DEF TypeOK
  <2>3. \A c \in Contents : objects'[c] = "torn" => c \in leftovers'
    BY <1>4, <2>2 DEF ObjectInv
  <2>4. \A c \in leftovers' : objects'[c] = "torn"
    <3>1. \A c \in leftovers : objects'[c] = "torn"
      BY <1>0, <1>4, <2>1 DEF ObjectInv, TypeOK
    <3> QED BY <1>4, <2>2, <3>1
  <2>5. \A i \in Ids :
          manifest'[i].status = "finalized" => Exact(manifest[i])'
    BY <1>0, <1>4, ExactStays
  <2>6. CASE op' = Idle
    BY <2>3, <2>4, <2>5, <2>6 DEF ObjectInv, Idle
  <2>7. CASE left = "ok" /\ op' = [op EXCEPT !.step = "created"]
    <3>1. op'.step = "created" /\ op'.sha256 = op.sha256
      BY <2>1, <2>7
    <3>2. Present(op.sha256)'
      BY <2>2, <2>7, <3>1 DEF Present
    <3> QED BY <2>3, <2>4, <2>5, <3>1, <3>2 DEF ObjectInv
  <2> QED BY <1>4, <2>6, <2>7
<1>5. ASSUME capture PROVE ObjectInv'
  <2>1. CASE op.fresh
    BY <1>4, <1>5, <2>1 DEF capture
  <2>2. CASE ~op.fresh
    BY <1>4, <1>5, <2>2 DEF capture
  <2> QED BY <2>1, <2>2
<1>6. ASSUME saveCreated PROVE ObjectInv'
  <2>1. op # Idle /\ op.step = "created" /\ op.sha256 \in Contents
    BY <1>0, <1>6, OpFields DEF saveCreated, TypeOK, Idle
  <2> DEFINE r == [status |-> "finalized", sha256 |-> op.sha256,
                   size |-> Len(op.sha256), expectedSize |-> None,
                   expectedSha256 |-> None]
  <2>2. Exact(r)
    BY <2>1 DEF Exact, ObjectInv
  <2> QED BY <1>6, <2>1, <2>2, ExactSaved DEF saveCreated
<1>7. ASSUME NEW i \in Ids, NEW n, NEW c, beginUpload(i, n, c)
      PROVE  ObjectInv'
  BY <1>7, ObjectsUntouched DEF beginUpload, Idle
<1>8. ASSUME saveBegun PROVE ObjectInv'
  <2>1. op # Idle /\ op.step = "begun"
    BY <1>8 DEF saveBegun, Idle
  <2> QED BY <1>8, <2>1, ExactSaved DEF saveBegun
<1>9. ASSUME NEW i, NEW offset, NEW data, NEW n, NEW flag,
             uploadChunk(i, offset, data, n, flag)
      PROVE  ObjectInv'
  <2>1. /\ manifest' = manifest /\ objects' = objects
        /\ leftovers' = leftovers /\ op.step = "idle"
        /\ op'.step = "chunk"
    BY <1>9 DEF uploadChunk, Idle
  <2> QED BY <2>1, ObjectsUntouched
<1>10. ASSUME saveChunk PROVE ObjectInv'
  <2>1. /\ op.step = "chunk" /\ op.id \in Ids /\ Uploading(op.id)
        /\ objects' = objects /\ leftovers' = leftovers
        /\ manifest' = [manifest EXCEPT ![op.id].size =
                          manifest[op.id].size + Len(op.data)]
        /\ op'.step \in {"idle", "finalize"}
    BY <1>0, <1>10, OpFields DEF saveChunk, StoreInv, TypeOK, Idle
  <2>2. manifest'[op.id].status = "uploading"
        /\ \A i \in Ids \ {op.id} : manifest'[i] = manifest[i]
    <3>1. manifest[op.id] \in ArtifactRecord
      BY <1>0, <2>1, RecordFields DEF TypeOK, Uploading, NoRecord
    <3>2. manifest'[op.id] = [manifest[op.id] EXCEPT !.size =
                                manifest[op.id].size + Len(op.data)]
      BY <1>0, <2>1 DEF TypeOK
    <3>3. manifest'[op.id].status = manifest[op.id].status
      BY <3>1, <3>2 DEF ArtifactRecord
    <3> QED BY <1>0, <2>1, <3>3 DEF TypeOK, Uploading
  <2>3. \A i \in Ids :
          manifest'[i].status = "finalized" => Exact(manifest[i])'
    BY <2>1, <2>2 DEF ObjectInv, Exact, Present
  <2> QED BY <2>1, <2>3 DEF ObjectInv
<1>11. ASSUME NEW i \in Ids, NEW n, NEW c, AsExpected(i, n, c),
              PublishUpload(i), op.step # "copy"
       PROVE  ObjectInv'
  <2>1. /\ uploads[i] \in Contents
        /\ manifest[i].expectedSize \in {None, Len(uploads[i])}
        /\ manifest[i].expectedSha256 \in {None, uploads[i]}
    BY <1>0, <1>11 DEF AsExpected, TypeOK
  <2>2. /\ manifest' = manifest /\ leftovers' = leftovers
        /\ op' = [step |-> "published", id |-> i, sha256 |-> uploads[i]]
        /\ objects' = IF objects[uploads[i]] = "absent"
                      THEN [objects EXCEPT ![uploads[i]] = "ok"] ELSE objects
    BY <1>11 DEF PublishUpload
  <2>3. /\ \A d \in Contents : objects[d] = "torn" => d \in leftovers
        /\ \A d \in leftovers : objects[d] = "torn"
    BY <1>11 DEF ObjectInv
  <2>4. /\ \A d \in Contents \ {uploads[i]} : objects'[d] = objects[d]
        /\ \A d \in leftovers : objects'[d] = "torn"
        /\ objects'[uploads[i]] = IF objects[uploads[i]] = "absent"
                                  THEN "ok" ELSE objects[uploads[i]]
    BY <1>0, <2>1, <2>2, <2>3 DEF TypeOK
  <2>5. \A d \in Contents : objects'[d] = "torn" => d \in leftovers'
    BY <2>2, <2>3, <2>4
  <2>6. objects[uploads[i]] \in {"absent", "torn", "ok"}
    BY <1>0, <2>1 DEF TypeOK
  <2>7. Present(op.sha256)'
    BY <2>1, <2>2, <2>3, <2>4, <2>6 DEF Present
  <2>8. \A j \in Ids :
          manifest'[j].status = "finalized" => Exact(manifest[j])'
    BY <1>0, <2>2, ExactStays
  <2> QED BY <2>1, <2>2, <2>4, <2>5, <2>7, <2>8 DEF ObjectInv
<1>12. ASSUME NEW i \in Ids, NEW n, NEW c, finalize(i, n, c)
       PROVE  ObjectInv'
  BY <1>11, <1>12 DEF finalize, Idle
<1>13. ASSUME finalizeLegacy PROVE ObjectInv'
  <2>1. op.step = "finalize" /\ op.id \in Ids
    BY <1>0, <1>13, OpFields DEF finalizeLegacy, TypeOK, Idle
  <2>2. CASE op' = Idle /\ UNCHANGED <<manifest, files, history>>
    BY <2>1, <2>2, ObjectsUntouched DEF Idle
  <2>3. CASE PublishUpload(op.id) /\ \E n, c : AsExpected(op.id, n, c)
    BY <1>11, <2>1, <2>3
  <2> QED BY <1>13, <2>2, <2>3 DEF finalizeLegacy
<1>14. ASSUME saveFinalized PROVE ObjectInv'
  <2>1. /\ op # Idle /\ op.step = "published" /\ op.id \in Ids
        /\ op.sha256 \in Contents /\ Uploading(op.id)
    BY <1>0, <1>14, OpFields DEF saveFinalized, StoreInv, TypeOK, Idle
  <2> DEFINE r == [manifest[op.id] EXCEPT !.status = "finalized",
                     !.sha256 = op.sha256, !.size = Len(op.sha256)]
  <2>2. manifest[op.id] \in ArtifactRecord
    BY <1>0, <2>1, RecordFields DEF TypeOK, Uploading, NoRecord
  <2>3. /\ r.sha256 = op.sha256 /\ r.size = Len(op.sha256)
        /\ r.expectedSize = manifest[op.id].expectedSize
        /\ r.expectedSha256 = manifest[op.id].expectedSha256
    BY <2>2 DEF ArtifactRecord
  <2>4. Exact(r)
    BY <2>1, <2>3 DEF Exact, ObjectInv
  <2> QED BY <1>14, <2>1, <2>4, ExactSaved DEF saveFinalized
<1>15. ASSUME NEW i \in Ids, abort(i) PROVE ObjectInv'
  BY <1>15, ObjectsUntouched DEF abort, Idle
<1>16. ASSUME saveAborted PROVE ObjectInv'
  <2>1. op # Idle /\ op.step = "abort" /\ op.id \in Ids /\ Uploading(op.id)
    BY <1>0, <1>16, OpFields DEF saveAborted, StoreInv, TypeOK, Idle
  <2>2. manifest[op.id] \in ArtifactRecord
    BY <1>0, <2>1, RecordFields DEF TypeOK, Uploading, NoRecord
  <2>3. [manifest[op.id] EXCEPT !.status = "aborted"].status = "aborted"
    BY <2>2 DEF ArtifactRecord
  <2> QED BY <1>16, <2>1, <2>3, ExactSaved DEF saveAborted
<1>17. ASSUME interrupted PROVE ObjectInv'
  <2>1. CASE op.step = "copy"
    <3>1. PICK left \in {"ok", "absent", "torn"} :
            /\ objects' = [objects EXCEPT ![op.sha256] = left]
            /\ leftovers' = IF left = "torn" THEN leftovers \cup {op.sha256}
                            ELSE leftovers
      BY <1>17, <2>1 DEF interrupted, LeftByCopy
    <3> QED BY <1>4, <1>17, <2>1, <3>1 DEF interrupted
  <2>2. CASE op.step # "copy"
    BY <1>17, <2>2, ObjectsUntouched DEF interrupted, Idle
  <2> QED BY <2>1, <2>2
<1>18. ASSUME UNCHANGED vars PROVE ObjectInv'
  BY <1>18 DEF vars, ObjectInv, Exact, Present
<1>19. ASSUME NEW i \in Ids, clientStep(i) PROVE ObjectInv'
  BY <1>1, <1>7, <1>9, <1>12, <1>15, <1>19 DEF clientStep
<1> QED
  BY <1>2, <1>3, <1>5, <1>6, <1>8, <1>10, <1>13, <1>14, <1>16, <1>17, <1>18,
     <1>19 DEF Next

\* The object of every finalized artifact is exactly what its record says,
\* unless an interrupted copy left the object of that digest, for any number
\* of artifacts, interrupted calls and changed source files (persistObject,
\* finalize).
THEOREM ArtifactsFinalizedExact == Spec => []FinalizedExact
<1>1. ObjectInv => FinalizedExact
  BY DEF ObjectInv, FinalizedExact, Exact, Present
<1>2. Init => StoreInv /\ ObjectInv
  BY StoreInvInit, ObjectInvInit
<1>3. StoreInv /\ ObjectInv /\ [Next]_vars => (StoreInv /\ ObjectInv)'
  BY StoreInvNext, ObjectInvNext
<1> QED BY <1>1, <1>2, <1>3, PTL DEF Spec

\* A step writes no record but the one of the call in progress, which is
\* new or still uploading.
LEMMA ClosedRecordsKept ==
  ASSUME StoreInv, [Next]_vars, NEW i \in Ids,
         manifest[i].status \in {"finalized", "aborted"}
  PROVE  manifest'[i] = manifest[i]
<1>0. TypeOK
  BY DEF StoreInv
<1>1. ASSUME NEW r, op # Idle, saveManifest(op.id, r),
             manifest[op.id] = NoRecord \/ Uploading(op.id)
      PROVE  manifest'[i] = manifest[i]
  <2>1. op.id \in Ids /\ manifest' = [manifest EXCEPT ![op.id] = r]
    BY <1>0, <1>1, OpFields DEF TypeOK, saveManifest
  <2>2. op.id # i
    BY <1>1 DEF Uploading, NoRecord
  <2> QED BY <1>0, <2>1, <2>2 DEF TypeOK
<1>2. CASE saveCreated \/ saveBegun
  <2>1. op # Idle /\ manifest[op.id] = NoRecord
    BY <1>2 DEF saveCreated, saveBegun, StoreInv, Idle
  <2> QED BY <1>1, <1>2, <2>1 DEF saveCreated, saveBegun
<1>3. CASE saveFinalized \/ saveAborted
  <2>1. op # Idle /\ Uploading(op.id)
    BY <1>3 DEF saveFinalized, saveAborted, StoreInv, Idle
  <2> QED BY <1>1, <1>3, <2>1 DEF saveFinalized, saveAborted
<1>4. CASE saveChunk
  <2>1. /\ op.id \in Ids /\ Uploading(op.id)
        /\ manifest' = [manifest EXCEPT ![op.id].size =
                          manifest[op.id].size + Len(op.data)]
    BY <1>0, <1>4, OpFields DEF saveChunk, StoreInv, TypeOK, Idle
  <2>2. op.id # i
    BY <2>1 DEF Uploading
  <2> QED BY <1>0, <2>1, <2>2 DEF TypeOK
<1>5. CASE \/ persistObject \/ capture \/ finalizeLegacy \/ interrupted
           \/ sourceChanges \/ UNCHANGED vars
  BY <1>5 DEF persistObject, capture, finalizeLegacy, PublishUpload,
              interrupted, sourceChanges, vars
<1>6. ASSUME NEW j \in Ids, clientStep(j)
      PROVE  manifest'[i] = manifest[i]
  BY <1>6 DEF clientStep, createFromFile, beginUpload, uploadChunk, finalize,
              PublishUpload, abort
<1> QED BY <1>2, <1>3, <1>4, <1>5, <1>6 DEF Next

\* Finalized and aborted artifacts never change, and no object is taken away
\* from a finalized one or written again, whatever dies inside a copy.
THEOREM ArtifactsFinalizedImmutable == Spec => FinalizedImmutable
<1> DEFINE Unchanged ==
      \A i \in Ids :
        manifest[i].status \in {"finalized", "aborted"} =>
          /\ manifest'[i] = manifest[i]
          /\ manifest[i].status = "finalized" =>
               objects'[manifest[i].sha256] = objects[manifest[i].sha256]
<1>1. ASSUME StoreInv, ObjectInv, [Next]_vars
      PROVE  Unchanged
  <2> SUFFICES ASSUME NEW i \in Ids,
                      manifest[i].status \in {"finalized", "aborted"}
               PROVE  /\ manifest'[i] = manifest[i]
                      /\ manifest[i].status = "finalized" =>
                           objects'[manifest[i].sha256]
                             = objects[manifest[i].sha256]
    OBVIOUS
  <2>1. manifest'[i] = manifest[i]
    BY <1>1, ClosedRecordsKept
  <2>2. ASSUME manifest[i].status = "finalized"
        PROVE  objects'[manifest[i].sha256] = objects[manifest[i].sha256]
    BY <1>1, <2>2, PresentKept DEF ObjectInv, Exact
  <2> QED BY <2>1, <2>2
<1>2. Init => StoreInv /\ ObjectInv
  BY StoreInvInit, ObjectInvInit
<1>3. StoreInv /\ ObjectInv /\ [Next]_vars => (StoreInv /\ ObjectInv)'
  BY StoreInvNext, ObjectInvNext
<1>4. StoreInv /\ ObjectInv /\ [Next]_vars => [Unchanged]_vars
  BY <1>1
<1> QED BY <1>2, <1>3, <1>4, PTL DEF Spec, FinalizedImmutable
----------------------------------------------------------------------------
(* Acknowledged bytes are kept                                             *)

\* What was acknowledged of artifact i is as long as its record says, and
\* the upload, and later the object, holds what was written of it.
Kept(i) ==
  /\ manifest[i] = NoRecord => acked[i] = <<>>
  /\ Uploading(i) => Len(acked[i]) = manifest[i].size
  /\ Uploading(i) /\ uploads[i] # None
       => Holds(uploads[i], acked[i], dropped[i])
  /\ manifest[i].status = "finalized" =>
       Holds(manifest[i].sha256, acked[i], dropped[i])

\* The positions of a chunk that follows bytes and was not written whole.
Missing(bytes, data, n) == (Len(bytes) + n + 1)..(Len(bytes) + Len(data))

\* A written chunk follows the acknowledged bytes before it is acknowledged
\* itself, and a published object holds them before its record is saved.
AckInv ==
  /\ acked \in [Ids -> Seq(Units)]
  /\ DOMAIN dropped = Ids
  /\ dropped = [i \in Ids |-> dropped[i]]
  /\ \A i \in Ids : Kept(i)
  /\ op.step = "chunk" =>
       /\ uploads[op.id] # None
       /\ Holds(uploads[op.id], acked[op.id] \o op.data, dropped[op.id]
                  \cup Missing(acked[op.id], op.data, op.written))
  /\ op.step = "published" => Holds(op.sha256, acked[op.id], dropped[op.id])

\* A chunk of which n units were written at the end of what was acknowledged
\* keeps that and extends it by those, whatever an earlier, interrupted or
\* short chunk left there.
LEMMA OverlayHolds ==
  ASSUME NEW file \in Contents, NEW data \in Contents, NEW n \in 0..Len(data),
         NEW bytes \in Seq(Units), NEW gaps, Holds(file, bytes, gaps)
  PROVE  LET new == Overlay(file, Len(bytes), SubSeq(data, 1, n)) IN
         /\ Holds(new, bytes, gaps)
         /\ Holds(new, bytes \o data, gaps \cup Missing(bytes, data, n))
<1> DEFINE offset == Len(bytes)
           part == SubSeq(data, 1, n)
           end == offset + n
           m == IF end > Len(file) THEN end ELSE Len(file)
           new == Overlay(file, offset, part)
<1>1. /\ Len(file) \in Nat /\ Len(data) \in Nat /\ offset \in Nat /\ n \in Nat
      /\ data \in Seq(Units) /\ Len(part) = n
      /\ \A k \in 1..n : part[k] = data[k]
  <2>1. /\ Len(file) \in Nat /\ Len(data) \in Nat /\ n \in Nat
        /\ data \in Seq(Units) /\ offset \in Nat
    BY ContentLength
  <2>2. Len(part) = n
    BY PartOfChunk
  <2>3. \A k \in 1..n : part[k] = data[k]
    BY <2>1
  <2> QED BY <2>1, <2>2, <2>3
<1>2. m \in Nat /\ m >= end /\ m >= Len(file) /\ end \in Nat
  BY <1>1
<1>3. new = [k \in 1..m |-> IF k > offset /\ k <= end THEN part[k - offset]
                            ELSE IF k <= Len(file) THEN file[k] ELSE Zero]
  BY <1>1 DEF Overlay
<1>4. Len(new) = m
  <2> DEFINE S == {new[k] : k \in 1..m}
  <2>1. new \in [1..m -> S]
    BY <1>3
  <2> HIDE DEF new, S
  <2> QED BY <1>2, <2>1
<1>5. \A k \in 1..offset : k <= Len(file) => k <= m /\ new[k] = file[k]
  <2> SUFFICES ASSUME NEW k \in 1..offset, k <= Len(file)
               PROVE  k <= m /\ new[k] = file[k]
    OBVIOUS
  <2>1. k \in 1..m /\ ~(k > offset)
    BY <1>1, <1>2
  <2> QED BY <1>3, <2>1
<1>6. \A k \in (offset + 1)..end : k <= m /\ new[k] = data[k - offset]
  <2> SUFFICES ASSUME NEW k \in (offset + 1)..end
               PROVE  k <= m /\ new[k] = data[k - offset]
    OBVIOUS
  <2>1. k \in 1..m /\ k > offset /\ k <= end /\ k - offset \in 1..n
    BY <1>1, <1>2
  <2> QED BY <1>1, <1>3, <2>1
<1>7. /\ Len(bytes \o data) = offset + Len(data)
      /\ \A k \in 1..(offset + Len(data)) : (bytes \o data)[k]
            = IF k <= offset THEN bytes[k] ELSE data[k - offset]
  BY <1>1
<1> HIDE DEF new
<1>8. Holds(new, bytes, gaps)
  BY <1>4, <1>5 DEF Holds
<1>9. ASSUME NEW k \in 1..(offset + Len(data)), k \notin gaps,
             k \notin Missing(bytes, data, n)
      PROVE  k <= Len(new) /\ new[k] = (bytes \o data)[k]
  <2>1. CASE k <= offset
    <3>1. k \in 1..offset
      BY <1>1, <2>1
    <3>2. k <= Len(new) /\ new[k] = bytes[k]
      BY <1>8, <1>9, <3>1 DEF Holds
    <3> QED BY <1>7, <2>1, <3>2
  <2>2. CASE ~(k <= offset)
    <3>1. k \in (offset + 1)..end
      BY <1>1, <1>9, <2>2 DEF Missing
    <3> QED BY <1>4, <1>6, <1>7, <2>2, <3>1
  <2> QED BY <2>1, <2>2
<1>10. Holds(new, bytes \o data, gaps \cup Missing(bytes, data, n))
  BY <1>7, <1>9 DEF Holds
<1> QED BY <1>8, <1>10 DEF new

\* A step that keeps the records and the acknowledgements, drops at most
\* uploads or writes some that have no record, and owes nothing after it.
LEMMA AckUntouched ==
  ASSUME AckInv, manifest' = manifest, UNCHANGED <<acked, dropped>>,
         \A i \in Ids : Uploading(i) => uploads'[i] \in {uploads[i], None},
         op'.step \notin {"chunk", "published"}
  PROVE  AckInv'
<1>1. ASSUME NEW i \in Ids PROVE Kept(i)'
  BY DEF AckInv, Kept, Uploading
<1> QED BY <1>1 DEF AckInv

\* A step that saves one record which keeps what was acknowledged.
LEMMA AckSaved ==
  ASSUME StoreInv, AckInv, op # Idle, NEW r, saveManifest(op.id, r),
         UNCHANGED <<acked, dropped>>, r # NoRecord,
         r.status = "uploading" =>
           /\ r.size = Len(acked[op.id])
           /\ uploads[op.id] # None
                => Holds(uploads[op.id], acked[op.id], dropped[op.id]),
         r.status = "finalized" =>
           Holds(r.sha256, acked[op.id], dropped[op.id])
  PROVE  AckInv'
<1>1. /\ op.id \in Ids /\ op' = Idle /\ uploads' = uploads
      /\ manifest' = [manifest EXCEPT ![op.id] = r]
  BY OpFields DEF StoreInv, TypeOK, saveManifest, files
<1>2. manifest'[op.id] = r
      /\ \A i \in Ids \ {op.id} : manifest'[i] = manifest[i]
  BY <1>1 DEF StoreInv, TypeOK
<1>3. ASSUME NEW i \in Ids PROVE Kept(i)'
  <2>1. CASE i = op.id
    BY <1>1, <1>2, <2>1 DEF Kept, Uploading
  <2>2. CASE i # op.id
    BY <1>1, <1>2, <2>2 DEF AckInv, Kept, Uploading
  <2> QED BY <2>1, <2>2
<1> QED BY <1>1, <1>3 DEF AckInv, Idle

LEMMA AckInvInit == Init => AckInv
<1> SUFFICES ASSUME Init PROVE AckInv
  OBVIOUS
<1>1. acked \in [Ids -> Seq(Units)] /\ \A i \in Ids : acked[i] = <<>>
  BY DEF Init
<1>2. \A i \in Ids : manifest[i].status = "none"
  BY DEF Init, NoRecord
<1>3. /\ op.step = "idle" /\ DOMAIN dropped = Ids
      /\ dropped = [i \in Ids |-> dropped[i]]
  BY DEF Init, Idle
<1> QED BY <1>1, <1>2, <1>3 DEF AckInv, Kept, Uploading

LEMMA AckInvNext ==
  StoreInv /\ StoreInv' /\ AckInv /\ [Next]_vars => AckInv'
<1> SUFFICES ASSUME StoreInv, StoreInv', AckInv, [Next]_vars PROVE AckInv'
  OBVIOUS
<1> USE DEF files, history
<1>0. TypeOK
  BY DEF StoreInv
<1>1. ASSUME NEW i \in Ids, NEW c, createFromFile(i, c)
      PROVE  AckInv'
  <2>1. op'.step = "persist" /\ UNCHANGED <<manifest, uploads, acked, dropped>>
    BY <1>1 DEF createFromFile
  <2> QED BY <2>1, AckUntouched
<1>2. ASSUME sourceChanges PROVE AckInv'
  <2>1. /\ UNCHANGED <<manifest, uploads, acked, dropped>>
        /\ op.step \in {"persist", "copy"}
        /\ op' = [op EXCEPT !.fresh = FALSE]
    BY <1>2 DEF sourceChanges
  <2>2. op'.step = op.step
    BY <1>0, <2>1, OpFields DEF TypeOK
  <2> QED BY <2>1, <2>2, AckUntouched
<1>3. ASSUME persistObject PROVE AckInv'
  <2>1. /\ UNCHANGED <<manifest, uploads, acked, dropped>> /\ op.step = "persist"
        /\ \/ op' = [op EXCEPT !.step = "created"]
           \/ op' = [op EXCEPT !.step = "copy"]
    BY <1>3 DEF persistObject
  <2>2. op'.step \in {"created", "copy"}
    BY <1>0, <2>1, OpFields DEF TypeOK
  <2> QED BY <2>1, <2>2, AckUntouched
<1>4. ASSUME capture PROVE AckInv'
  <2>1. /\ UNCHANGED <<manifest, uploads, acked, dropped>> /\ op.step = "copy"
        /\ op' \in {Idle, [op EXCEPT !.step = "created"]}
    BY <1>4 DEF capture
  <2>2. op'.step \in {"created", "idle"}
    BY <1>0, <2>1, OpFields DEF TypeOK, Idle
  <2> QED BY <2>1, <2>2, AckUntouched
<1>5. ASSUME saveCreated PROVE AckInv'
  <2>1. /\ op # Idle /\ op.sha256 \in Contents /\ op.id \in Ids
        /\ manifest[op.id] = NoRecord
    BY <1>0, <1>5, OpFields DEF saveCreated, StoreInv, TypeOK, Idle
  <2>2. acked[op.id] = <<>>
    BY <2>1 DEF AckInv, Kept
  <2>3. Holds(op.sha256, acked[op.id], dropped[op.id])
    BY <2>2 DEF Holds
  <2> DEFINE r == [status |-> "finalized", sha256 |-> op.sha256,
                   size |-> Len(op.sha256), expectedSize |-> None,
                   expectedSha256 |-> None]
  <2>4. /\ r.status = "finalized" /\ r.sha256 = op.sha256 /\ r # NoRecord
        /\ saveManifest(op.id, r) /\ UNCHANGED <<acked, dropped>>
    BY <1>5 DEF saveCreated, NoRecord
  <2> HIDE DEF r
  <2> QED BY <2>1, <2>3, <2>4, AckSaved
<1>6. ASSUME NEW i \in Ids, NEW n, NEW c, beginUpload(i, n, c)
      PROVE  AckInv'
  <2>1. /\ op'.step = "begun" /\ UNCHANGED <<manifest, acked, dropped>>
        /\ uploads' = [uploads EXCEPT ![i] = <<>>] /\ ~Uploading(i)
    BY <1>6 DEF beginUpload, NewId, Uploading, NoRecord
  <2>2. \A j \in Ids : Uploading(j) => uploads'[j] = uploads[j]
    BY <1>0, <2>1 DEF TypeOK
  <2> QED BY <2>1, <2>2, AckUntouched
<1>7. ASSUME saveBegun PROVE AckInv'
  <2>1. /\ op # Idle /\ op.id \in Ids /\ manifest[op.id] = NoRecord
    BY <1>0, <1>7, OpFields DEF saveBegun, StoreInv, TypeOK, Idle
  <2>2. acked[op.id] = <<>>
    BY <2>1 DEF AckInv, Kept
  <2>3. Holds(uploads[op.id], acked[op.id], dropped[op.id])
    BY <2>2 DEF Holds
  <2> DEFINE r == [status |-> "uploading", sha256 |-> None, size |-> 0,
                   expectedSize |-> op.expectedSize,
                   expectedSha256 |-> op.expectedSha256]
  <2>4. /\ r.status = "uploading" /\ r.size = 0 /\ r # NoRecord
        /\ saveManifest(op.id, r) /\ UNCHANGED <<acked, dropped>>
    BY <1>7 DEF saveBegun, NoRecord
  <2>5. r.size = Len(acked[op.id])
    BY <2>2, <2>4
  <2> HIDE DEF r
  <2> QED BY <2>1, <2>3, <2>4, <2>5, AckSaved
<1>8. ASSUME NEW i \in Ids, NEW data \in Contents, NEW flag, NEW offset,
             offset + Len(data) <= MaxLength,
             NEW n \in 0..Len(data), uploadChunk(i, offset, data, n, flag)
      PROVE  AckInv'
  <2> DEFINE new == Overlay(uploads[i], offset, SubSeq(data, 1, n))
  <2>1. /\ Uploading(i) /\ uploads[i] # None /\ offset = manifest[i].size
        /\ UNCHANGED <<manifest, acked, dropped>>
        /\ uploads' = [uploads EXCEPT ![i] = new]
        /\ op' = [step |-> "chunk", id |-> i, data |-> data,
                  written |-> n, finalize |-> flag]
    BY <1>0, <1>8 DEF uploadChunk, Contiguous, TypeOK
  <2>2. /\ uploads[i] \in Contents /\ offset = Len(acked[i])
        /\ acked[i] \in Seq(Units)
        /\ Holds(uploads[i], acked[i], dropped[i])
    BY <1>0, <2>1 DEF TypeOK, AckInv, Kept
  <2>3. /\ Holds(new, acked[i], dropped[i])
        /\ Holds(new, acked[i] \o data,
                 dropped[i] \cup Missing(acked[i], data, n))
    BY <2>2, OverlayHolds
  <2> HIDE DEF new
  <2>4. /\ uploads'[i] = new
        /\ \A j \in Ids \ {i} : uploads'[j] = uploads[j]
    BY <1>0, <2>1 DEF TypeOK
  <2>5. uploads'[i] # None
    <3> DEFINE part == SubSeq(data, 1, n)
    <3>1. /\ part \in Contents /\ Len(part) = n /\ n \in Nat
          /\ Len(data) \in Nat /\ offset \in Nat
      BY <2>2, PartOfChunk, ContentLength
    <3>2. offset + Len(part) <= MaxLength
      BY <1>8, <3>1, BoundsAssumption
    <3> HIDE DEF part
    <3>3. Overlay(uploads[i], offset, part) \in Contents
      BY <2>2, <3>1, <3>2, OverlayType
    <3> QED BY <2>4, <3>3, NoneAssumption DEF new, part
  <2>6. ASSUME NEW j \in Ids PROVE Kept(j)'
    <3>1. CASE j = i
      <4>1. manifest'[i].status = "uploading" /\ manifest'[i] # NoRecord
            /\ manifest'[i].size = Len(acked'[i]) /\ acked'[i] = acked[i]
        BY <2>1, <2>2 DEF Uploading, NoRecord
      <4> QED BY <2>1, <2>3, <2>4, <3>1, <4>1 DEF Kept, Uploading
    <3>2. CASE j # i
      BY <2>1, <2>4, <3>2 DEF AckInv, Kept, Uploading
    <3> QED BY <3>1, <3>2
  <2> QED BY <2>1, <2>3, <2>4, <2>5, <2>6 DEF AckInv
<1>9. ASSUME saveChunk PROVE AckInv'
  <2> DEFINE i == op.id
             longer == acked[i] \o op.data
             gaps == dropped[i] \cup Missing(acked[i], op.data, op.written)
             end == manifest[i].size + Len(op.data)
  <2>1. /\ op.step = "chunk" /\ uploads' = uploads
        /\ manifest' = [manifest EXCEPT ![i].size = end]
        /\ acked' = [acked EXCEPT ![i] = longer]
        /\ dropped' = [dropped EXCEPT ![i] = dropped[i] \cup
             (manifest[i].size + op.written + 1)..end]
        /\ op' \in {Idle, [step |-> "finalize", id |-> i]}
    BY <1>9 DEF saveChunk, AckInv
  <2>2. /\ i \in Ids /\ op.data \in Contents
        /\ Uploading(i) /\ uploads[i] # None
        /\ Holds(uploads[i], longer, gaps)
        /\ Len(acked[i]) = manifest[i].size /\ acked[i] \in Seq(Units)
    BY <1>0, <2>1, OpFields DEF StoreInv, AckInv, Kept, TypeOK, Idle
  <2>3. longer \in Seq(Units) /\ Len(longer) = end
    <3>1. op.data \in Seq(Units)
      BY <2>2, ContentLength
    <3>2. longer \in Seq(Units) /\ Len(longer) = Len(acked[i]) + Len(op.data)
      BY <2>2, <3>1, ConcatProperties, Zenon
    <3> HIDE DEF longer
    <3> QED BY <2>2, <3>2
  <2>4. dropped' = [dropped EXCEPT ![i] = gaps]
    BY <2>1, <2>2 DEF Missing
  <2> HIDE DEF longer, gaps, end
  <2>5. /\ acked' \in [Ids -> Seq(Units)] /\ acked'[i] = longer
        /\ \A j \in Ids \ {i} : acked'[j] = acked[j]
    BY <2>1, <2>2, <2>3 DEF AckInv
  <2>6. /\ DOMAIN dropped' = Ids /\ dropped' = [j \in Ids |-> dropped'[j]]
        /\ dropped'[i] = gaps
        /\ \A j \in Ids \ {i} : dropped'[j] = dropped[j]
    BY <2>2, <2>4 DEF AckInv
  <2>7. /\ manifest'[i] = [manifest[i] EXCEPT !.size = end]
        /\ \A j \in Ids \ {i} : manifest'[j] = manifest[j]
    BY <1>0, <2>1, <2>2 DEF TypeOK
  <2>8. manifest'[i].size = end /\ manifest'[i].status = "uploading"
    <3>1. manifest[i] \in ArtifactRecord
      BY <1>0, <2>2, RecordFields DEF TypeOK, Uploading, NoRecord
    <3> QED BY <2>2, <2>7, <3>1 DEF ArtifactRecord, Uploading
  <2>9. ASSUME NEW j \in Ids PROVE Kept(j)'
    <3>1. CASE j = i
      <4>1. Holds(uploads'[i], acked'[i], dropped'[i])
        BY <2>1, <2>2, <2>5, <2>6
      <4>2. manifest'[i] # NoRecord /\ Len(acked'[i]) = manifest'[i].size
        BY <2>3, <2>5, <2>8 DEF NoRecord
      <4> QED BY <2>8, <3>1, <4>1, <4>2 DEF Kept, Uploading
    <3>2. CASE j # i
      BY <2>1, <2>5, <2>6, <2>7, <3>2 DEF AckInv, Kept, Uploading
    <3> QED BY <3>1, <3>2
  <2>10. op'.step \in {"idle", "finalize"}
    BY <2>1 DEF Idle
  <2> QED BY <2>5, <2>6, <2>9, <2>10 DEF AckInv
<1>10. ASSUME NEW i \in Ids, Uploading(i), uploads[i] # None,
              PublishUpload(i)
       PROVE  AckInv'
  <2>1. /\ UNCHANGED <<manifest, acked, dropped>>
        /\ op' = [step |-> "published", id |-> i, sha256 |-> uploads[i]]
        /\ uploads' = [uploads EXCEPT ![i] = None]
    BY <1>10 DEF PublishUpload
  <2>2. uploads'[i] = None /\ \A j \in Ids \ {i} : uploads'[j] = uploads[j]
    BY <1>0, <2>1 DEF TypeOK
  <2>3. Holds(uploads[i], acked[i], dropped[i])
    BY <1>10 DEF AckInv, Kept
  <2>4. ASSUME NEW j \in Ids PROVE Kept(j)'
    BY <2>1, <2>2 DEF AckInv, Kept, Uploading
  <2> QED BY <2>1, <2>3, <2>4 DEF AckInv
<1>11. ASSUME NEW i \in Ids, NEW n, NEW c, finalize(i, n, c)
       PROVE  AckInv'
  BY <1>10, <1>11 DEF finalize, AsExpected
<1>12. ASSUME finalizeLegacy PROVE AckInv'
  <2>1. op.step = "finalize" /\ op.id \in Ids /\ Uploading(op.id)
    BY <1>0, <1>12, OpFields DEF finalizeLegacy, StoreInv, TypeOK, Idle
  <2>2. CASE op' = Idle /\ UNCHANGED <<manifest, files, history>>
    BY <2>2, AckUntouched DEF Idle
  <2>3. CASE PublishUpload(op.id) /\ uploads[op.id] # None
    BY <1>10, <2>1, <2>3
  <2> QED BY <1>12, <2>2, <2>3 DEF finalizeLegacy, AsExpected
<1>13. ASSUME saveFinalized PROVE AckInv'
  <2>1. /\ op # Idle /\ op.id \in Ids /\ op.sha256 \in Contents
        /\ Uploading(op.id) /\ Holds(op.sha256, acked[op.id], dropped[op.id])
    BY <1>0, <1>13, OpFields DEF saveFinalized, StoreInv, AckInv, TypeOK, Idle
  <2> DEFINE r == [manifest[op.id] EXCEPT !.status = "finalized",
                     !.sha256 = op.sha256, !.size = Len(op.sha256)]
  <2>2. manifest[op.id] \in ArtifactRecord
    BY <1>0, <2>1, RecordFields DEF TypeOK, Uploading, NoRecord
  <2>3. r.status = "finalized" /\ r.sha256 = op.sha256 /\ r # NoRecord
    BY <2>2 DEF ArtifactRecord, NoRecord
  <2>4. saveManifest(op.id, r) /\ UNCHANGED <<acked, dropped>>
    BY <1>13 DEF saveFinalized
  <2> HIDE DEF r
  <2> QED BY <2>1, <2>3, <2>4, AckSaved
<1>14. ASSUME NEW i \in Ids, abort(i) PROVE AckInv'
  <2>1. /\ UNCHANGED <<manifest, acked, dropped>> /\ op'.step = "abort"
        /\ uploads' = [uploads EXCEPT ![i] = None]
    BY <1>14 DEF abort
  <2>2. \A j \in Ids : uploads'[j] \in {uploads[j], None}
    BY <1>0, <2>1 DEF TypeOK
  <2> QED BY <2>1, <2>2, AckUntouched
<1>15. ASSUME saveAborted PROVE AckInv'
  <2>1. op # Idle /\ op.id \in Ids /\ Uploading(op.id)
    BY <1>0, <1>15, OpFields DEF saveAborted, StoreInv, TypeOK, Idle
  <2> DEFINE r == [manifest[op.id] EXCEPT !.status = "aborted"]
  <2>2. manifest[op.id] \in ArtifactRecord
    BY <1>0, <2>1, RecordFields DEF TypeOK, Uploading, NoRecord
  <2>3. r.status = "aborted" /\ r # NoRecord
    BY <2>2 DEF ArtifactRecord, NoRecord
  <2>4. saveManifest(op.id, r) /\ UNCHANGED <<acked, dropped>>
    BY <1>15 DEF saveAborted
  <2> HIDE DEF r
  <2> QED BY <2>1, <2>3, <2>4, AckSaved
<1>16. ASSUME interrupted PROVE AckInv'
  BY <1>16, AckUntouched DEF interrupted, Idle
<1>17. ASSUME UNCHANGED vars PROVE AckInv'
  BY <1>17 DEF vars, AckInv, Kept, Uploading
<1>18. ASSUME NEW i \in Ids, clientStep(i) PROVE AckInv'
  BY <1>1, <1>6, <1>8, <1>11, <1>14, <1>18, InputsAssumption DEF clientStep
<1> QED
  BY <1>2, <1>3, <1>4, <1>5, <1>7, <1>9, <1>12, <1>13, <1>15, <1>16, <1>17,
     <1>18 DEF Next

\* Bytes whose chunk was answered, and that writeSync took, stay where they
\* are in the upload and in the artifact made from it: chunks are contiguous
\* with the size in the manifest, not with the file an interrupted chunk
\* left longer or a short one left shorter.
THEOREM ArtifactsAckedKept == Spec => []AckedKept
<1>1. AckInv => AckedKept
  BY DEF AckInv, Kept, AckedKept
<1> QED BY <1>1, StoreInvInit, StoreInvNext, AckInvInit, AckInvNext, PTL
        DEF Spec
=============================================================================
