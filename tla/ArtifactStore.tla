--------------------------- MODULE ArtifactStore ---------------------------
(***************************************************************************)
(* Artifacts of the supervisor (src/artifacts/manager.ts): a manifest of   *)
(* records, one file per upload in progress, and content-addressed objects *)
(* that finalized records point to.                                        *)
(*                                                                         *)
(* Every call is synchronous, so calls do not overlap; but a call changes  *)
(* several files, and the process may die, or a file operation may throw,  *)
(* between any two of them.  A content is a short sequence of units and    *)
(* stands for its SHA-256 as well.  The manifest is replaced atomically.   *)
(***************************************************************************)
EXTENDS Integers, Sequences

CONSTANTS
  Ids,                   \* artifact ids (randomUUID)
  Units,                 \* what contents are made of
  Zero,                  \* what a hole in a file reads as
  maximumArtifactBytes,  \* in units
  MaxLength,             \* bound on uploads, which the code does not bound
  Sources,               \* contents of files artifacts are created from
  Chunks,                \* contents of chunks
  Expectations,          \* sizes and digests uploads are begun with
  None                   \* undefined

Contents == UNION {[1..n -> Units] : n \in 0..MaxLength}

ASSUME UnitsAssumption == Zero \in Units
ASSUME NoneAssumption == None \notin Contents \cup Nat
ASSUME BoundsAssumption ==
  maximumArtifactBytes \in Nat \ {0} /\ MaxLength \in Nat
ASSUME InputsAssumption ==
  Sources \subseteq Contents /\ Chunks \subseteq Contents
ASSUME ExpectationsAssumption ==
  Expectations \subseteq (Nat \cup {None}) \X (Contents \cup {None})

VARIABLES
  manifest,  \* manifest.json
  uploads,   \* uploads/<id>.upload
  objects,   \* sha256/<digest>: absent, exactly that content, or torn
  op,        \* the call in progress and its next step
  acked,     \* history: the bytes whose upload was answered
  dropped,   \* history: those of them, by position, that were not written
  leftovers  \* history: digests whose torn object an interrupted copy left

files == <<uploads, objects>>
history == <<acked, dropped, leftovers>>
vars == <<manifest, uploads, objects, op, acked, dropped, leftovers>>

NoRecord == [status |-> "none"]
\* path follows from the status: the upload, the object of sha256, or ''.
ArtifactRecord ==
  [status : {"uploading", "finalized", "aborted"},
   sha256 : Contents \cup {None}, size : Nat,
   expectedSize : Nat \cup {None}, expectedSha256 : Contents \cup {None}]

\* The call in progress, by its next step.
Idle == [step |-> "idle"]
Op ==
  {Idle}
    \cup [step : {"persist", "copy", "created"}, id : Ids, sha256 : Contents,
          fresh : BOOLEAN]
    \cup [step : {"begun"}, id : Ids, expectedSize : Nat \cup {None},
          expectedSha256 : Contents \cup {None}]
    \cup [step : {"chunk"}, id : Ids, data : Contents, written : Nat,
          finalize : BOOLEAN]
    \cup [step : {"finalize", "abort"}, id : Ids]
    \cup [step : {"published"}, id : Ids, sha256 : Contents]

Init ==
  /\ manifest = [i \in Ids |-> NoRecord]
  /\ uploads = [i \in Ids |-> None]
  /\ objects = [c \in Contents |-> "absent"]
  /\ op = Idle
  /\ acked = [i \in Ids |-> <<>>]
  /\ dropped = [i \in Ids |-> {}]
  /\ leftovers = {}

\* A random id is new to the manifest and to the uploads.
NewId(i) == manifest[i] = NoRecord /\ uploads[i] = None

\* hashFile refuses what exceeds the bound.
Hashable(c) == Len(c) <= maximumArtifactBytes

\* saveManifest with the record of i; the call returns.
saveManifest(i, record) ==
  /\ manifest' = [manifest EXCEPT ![i] = record]
  /\ op' = Idle
  /\ UNCHANGED files

----------------------------------------------------------------------------
(* createFromFile                                                          *)

\* hashFile of a source file with content c: a change while it reads is
\* noticed and refused.
createFromFile(i, c) ==
  /\ op = Idle
  /\ NewId(i)
  /\ Hashable(c)
  /\ op' = [step |-> "persist", id |-> i, sha256 |-> c, fresh |-> TRUE]
  /\ UNCHANGED <<manifest, files, history>>

\* Somebody writes the source file after it was hashed.
sourceChanges ==
  /\ op.step \in {"persist", "copy"}
  /\ op' = [op EXCEPT !.fresh = FALSE]
  /\ UNCHANGED <<manifest, files, history>>

\* An object that exists is taken as it is, otherwise a copy is begun.
persistObject ==
  /\ op.step = "persist"
  /\ \/ /\ objects[op.sha256] # "absent"
        /\ op' = [op EXCEPT !.step = "created"]
        /\ UNCHANGED objects
     \/ /\ objects[op.sha256] = "absent"
        /\ op' = [op EXCEPT !.step = "copy"]
        /\ objects' = [objects EXCEPT ![op.sha256] = "torn"]
  /\ UNCHANGED <<manifest, uploads, history>>

\* Mutant: what was copied is kept whatever happened to the source.
captureUnchecked ==
  /\ op.step = "copy"
  /\ objects' = [objects EXCEPT ![op.sha256] = IF op.fresh THEN "ok" ELSE "torn"]
  /\ op' = [op EXCEPT !.step = "created"]
  /\ UNCHANGED <<manifest, uploads, history>>

\* The copy ends; identity, size and digest of the source are compared with
\* the hashed ones, and the copy is removed if they differ.
capture ==
  /\ op.step = "copy"
  /\ \/ /\ op.fresh
        /\ objects' = [objects EXCEPT ![op.sha256] = "ok"]
        /\ op' = [op EXCEPT !.step = "created"]
     \/ /\ ~op.fresh
        /\ objects' = [objects EXCEPT ![op.sha256] = "absent"]
        /\ op' = Idle
  /\ UNCHANGED <<manifest, uploads, history>>

saveCreated ==
  /\ op.step = "created"
  /\ saveManifest(op.id,
       [status |-> "finalized", sha256 |-> op.sha256, size |-> Len(op.sha256),
        expectedSize |-> None, expectedSha256 |-> None])
  /\ UNCHANGED history

----------------------------------------------------------------------------
(* Uploads                                                                 *)

\* The empty file first, then the record.
beginUpload(i, n, c) ==
  /\ op = Idle
  /\ NewId(i)
  /\ uploads' = [uploads EXCEPT ![i] = <<>>]
  /\ op' = [step |-> "begun", id |-> i, expectedSize |-> n,
            expectedSha256 |-> c]
  /\ UNCHANGED <<manifest, objects, history>>

saveBegun ==
  /\ op.step = "begun"
  /\ saveManifest(op.id,
       [status |-> "uploading", sha256 |-> None, size |-> 0,
        expectedSize |-> op.expectedSize,
        expectedSha256 |-> op.expectedSha256])
  /\ UNCHANGED history

\* Mutant: a finalized artifact may be changed.
NotAborted(i) == manifest[i].status \in {"uploading", "finalized"}

\* Chunks, finalize and abort want an artifact that is being uploaded.
Uploading(i) == manifest[i].status = "uploading"

\* Mutant: any offset inside the file.
InsideUpload(i, offset) == offset <= Len(uploads[i])

\* Chunks must be contiguous.
Contiguous(i, offset) == offset = manifest[i].size

\* The file after data was written to it at offset: what lies between its
\* end and an offset beyond it is a hole.
Overlay(file, offset, data) ==
  LET end == offset + Len(data) IN
  [k \in 1..(IF end > Len(file) THEN end ELSE Len(file)) |->
     IF k > offset /\ k <= end THEN data[k - offset]
     ELSE IF k <= Len(file) THEN file[k] ELSE Zero]

\* The chunk is written and synced.  writeSync takes the first n units of
\* it, at least one if there is one; the call does not look at the count.
uploadChunk(i, offset, data, n, finalize) ==
  /\ op = Idle
  /\ Uploading(i) /\ uploads[i] # None
  /\ Contiguous(i, offset)
  /\ n = 0 => data = <<>>
  /\ uploads' = [uploads EXCEPT ![i] =
                   Overlay(@, offset, SubSeq(data, 1, n))]
  /\ op' = [step |-> "chunk", id |-> i, data |-> data, written |-> n,
            finalize |-> finalize]
  /\ UNCHANGED <<manifest, objects, history>>

\* The size is saved, with the whole chunk counted; with the legacy flag
\* finalize() follows.
saveChunk ==
  LET i == op.id
      start == manifest[i].size
      end == start + Len(op.data) IN
  /\ op.step = "chunk"
  /\ manifest' = [manifest EXCEPT ![i].size = end]
  /\ acked' = [acked EXCEPT ![i] = @ \o op.data]
  /\ dropped' = [dropped EXCEPT ![i] =
                   @ \cup (start + op.written + 1)..end]
  /\ op' = IF op.finalize THEN [step |-> "finalize", id |-> i] ELSE Idle
  /\ UNCHANGED <<files, leftovers>>

\* The upload is what the caller and the record expect, and small enough.
AsExpected(i, n, c) ==
  /\ uploads[i] # None /\ Hashable(uploads[i])
  /\ Len(uploads[i]) = n /\ uploads[i] = c
  /\ manifest[i].expectedSize \in {None, n}
  /\ manifest[i].expectedSha256 \in {None, c}

\* The upload becomes the object of its digest, or is dropped if there is
\* one.
PublishUpload(i) ==
  /\ objects' = IF objects[uploads[i]] = "absent"
                THEN [objects EXCEPT ![uploads[i]] = "ok"] ELSE objects
  /\ uploads' = [uploads EXCEPT ![i] = None]
  /\ op' = [step |-> "published", id |-> i, sha256 |-> uploads[i]]
  /\ UNCHANGED <<manifest, history>>

finalize(i, n, c) ==
  /\ op = Idle
  /\ Uploading(i) /\ AsExpected(i, n, c)
  /\ PublishUpload(i)

\* finalize() from the legacy flag: what the record does not say is taken
\* from the file.
OrElse(x, y) == IF x = None THEN y ELSE x

finalizeLegacy ==
  /\ op.step = "finalize"
  /\ LET i == op.id IN
     \/ /\ AsExpected(i, OrElse(manifest[i].expectedSize, Len(uploads[i])),
                         OrElse(manifest[i].expectedSha256, uploads[i]))
        /\ PublishUpload(i)
     \/ /\ op' = Idle       \* refused: the chunk stays
        /\ UNCHANGED <<manifest, files, history>>

saveFinalized ==
  /\ op.step = "published"
  /\ saveManifest(op.id,
       [manifest[op.id] EXCEPT !.status = "finalized",
          !.sha256 = op.sha256, !.size = Len(op.sha256)])
  /\ UNCHANGED history

abort(i) ==
  /\ op = Idle
  /\ Uploading(i)
  /\ uploads' = [uploads EXCEPT ![i] = None]
  /\ op' = [step |-> "abort", id |-> i]
  /\ UNCHANGED <<manifest, objects, history>>

saveAborted ==
  /\ op.step = "abort"
  /\ saveManifest(op.id, [manifest[op.id] EXCEPT !.status = "aborted"])
  /\ UNCHANGED history

----------------------------------------------------------------------------
(* Interruptions                                                           *)

\* What an interrupted copy leaves.  A throw inside the copy removes it, if
\* that succeeds.  A death leaves a part of the source or all of it, and so
\* does a throw after the copy: of a close, or of the stat of a source that
\* was removed, when nothing was compared yet.
LeftByCopy ==
  {"absent"} \cup (IF op.fresh THEN {"ok"} ELSE {})
    \cup (IF op.fresh /\ op.sha256 = <<>> THEN {} ELSE {"torn"})

\* The process dies, or a file operation throws, before the next step.
interrupted ==
  /\ op # Idle
  /\ op' = Idle
  /\ \/ /\ op.step = "copy"
        /\ \E left \in LeftByCopy :
             /\ objects' = [objects EXCEPT ![op.sha256] = left]
             /\ leftovers' = IF left = "torn" THEN leftovers \cup {op.sha256}
                             ELSE leftovers
     \/ op.step # "copy" /\ UNCHANGED <<objects, leftovers>>
  /\ UNCHANGED <<manifest, uploads, acked, dropped>>

clientStep(i) ==
  \/ \E c \in Sources : createFromFile(i, c)
  \/ \E e \in Expectations : beginUpload(i, e[1], e[2])
  \/ \E data \in Chunks, flag \in BOOLEAN, offset \in 0..MaxLength :
       /\ offset + Len(data) <= MaxLength
       /\ \E n \in 0..Len(data) : uploadChunk(i, offset, data, n, flag)
  \/ \E n \in 0..MaxLength, c \in Contents : finalize(i, n, c)
  \/ abort(i)

Next ==
  \/ \E i \in Ids : clientStep(i)
  \/ persistObject \/ capture \/ saveCreated
  \/ saveBegun \/ saveChunk \/ finalizeLegacy \/ saveFinalized \/ saveAborted
  \/ interrupted \/ sourceChanges

Spec == Init /\ [][Next]_vars

----------------------------------------------------------------------------
(* Properties                                                              *)

\* Types of the records, the files and the call in progress.
TypeOK ==
  /\ manifest \in [Ids -> ArtifactRecord \cup {NoRecord}]
  /\ uploads \in [Ids -> Contents \cup {None}]
  /\ objects \in [Contents -> {"absent", "torn", "ok"}]
  /\ op \in Op

\* "Verify size and SHA-256, then make an upload immutable and digest-
\* addressed": the object of every finalized artifact exists and is, byte
\* for byte, what the record says, whatever was interrupted before and
\* whoever wrote the source meanwhile.  The one exception is a digest whose
\* object an interrupted copy had left unfinished or unverified, which
\* existsSync takes for the artifact; nothing else leaves a wrong object.
FinalizedExact ==
  \A i \in Ids :
    manifest[i].status = "finalized" =>
      /\ \/ objects[manifest[i].sha256] = "ok"
         \/ /\ manifest[i].sha256 \in leftovers
            /\ objects[manifest[i].sha256] = "torn"
      /\ manifest[i].size = Len(manifest[i].sha256)
      /\ manifest[i].expectedSize \in {None, manifest[i].size}
      /\ manifest[i].expectedSha256 \in {None, manifest[i].sha256}

\* The file has these bytes, but for the positions in gaps.
Holds(file, bytes, gaps) ==
  \A k \in 1..Len(bytes) :
    k \notin gaps => k <= Len(file) /\ file[k] = bytes[k]

\* Bytes whose upload was answered are not lost or changed by interrupted,
\* short and repeated chunks: the upload has them as long as it exists, and
\* so does the artifact made from it.  What is missing of a chunk is what
\* its own writeSync did not take, never a byte of another one.
AckedKept ==
  \A i \in Ids :
    /\ Uploading(i) /\ uploads[i] # None =>
         Holds(uploads[i], acked[i], dropped[i])
    /\ manifest[i].status = "finalized" =>
         Holds(manifest[i].sha256, acked[i], dropped[i])

\* Finalized and aborted artifacts are immutable, and no later upload,
\* creation, abort or interruption takes an object away from its readers.
FinalizedImmutable ==
  [][\A i \in Ids :
       manifest[i].status \in {"finalized", "aborted"} =>
         /\ manifest'[i] = manifest[i]
         /\ manifest[i].status = "finalized" =>
              objects'[manifest[i].sha256] = objects[manifest[i].sha256]]_vars
=============================================================================
