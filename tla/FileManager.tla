---------------------------- MODULE FileManager -----------------------------
(***************************************************************************)
(* FileManager (src/files/manager.ts): the file operations of the          *)
(* supervisor.  They are synchronous, so no other handler runs between     *)
(* their system calls, but commands of jobs and other programs write the   *)
(* same paths, each call may throw, the process may die at each, and a     *)
(* power loss keeps only what was synced.  A path holds one of the         *)
(* contents of interest, nothing, or Torn: some other bytes; its parent    *)
(* directories, which an operation creates when they are missing, are its  *)
(* own.                                                                    *)
(***************************************************************************)
EXTENDS Integers

CONSTANTS
  Paths,
  Data,         \* whole contents
  Absent,       \* no file
  Torn,         \* part of a content
  MaxFileOps    \* bound on operations and writes by others

VARIABLES
  file,      \* what each path holds
  disk,      \* what it may hold after a power loss
  fop,       \* the operation in progress
  fileOps,   \* operations begun so far
  parent,    \* its parent directories: missing, created and never synced
             \* (fresh), or on disk (kept)
  torn,      \* paths where bytes were written in place or left unsynced
             \* since the last durable replace
  acked,     \* the content of a durable replace that nothing changed since
  unkept     \* paths whose parents were not on disk at a power loss since
             \* then

fileVars == <<file, disk, fop, fileOps, parent, torn, acked, unkept>>

Contents == Data \cup {Absent, Torn}
NoFileOp == [step |-> "none"]

FilesInit ==
  /\ file = [p \in Paths |-> Absent]
  /\ disk = [p \in Paths |-> {Absent}]
  /\ fop = NoFileOp
  /\ fileOps = 0
  /\ parent = [p \in Paths |-> "kept"]
  /\ torn = {}
  /\ acked = [p \in Paths |-> Absent]
  /\ unkept = {}

begin(op) ==
  /\ fop = NoFileOp
  /\ fileOps < MaxFileOps
  /\ fileOps' = fileOps + 1
  /\ fop' = op

\* Path p now holds c; a power loss keeps what it held, or one of `landing'.
put(p, c, landing) ==
  /\ file' = [file EXCEPT ![p] = c]
  /\ disk' = [disk EXCEPT ![p] = @ \cup landing]
  /\ acked' = [acked EXCEPT ![p] = Absent]
  /\ UNCHANGED unkept

\* mkdirSync of the parents that are missing; nobody syncs their entries.
createParents(p) ==
  parent' = [parent EXCEPT ![p] = IF @ = "missing" THEN "fresh" ELSE @]

----------------------------------------------------------------------------
(* replace                                                                 *)

\* Confinement and type checks create missing parents on the way (or throw,
\* without createParents); then expectedAbsent or expectedSha256 against what
\* the path holds; a payload with neither accepts any content.
replace(p, d, expected, durable) ==
  /\ expected \in {"any"} \cup Contents
  /\ expected # "any" => file[p] = expected
  /\ begin([step |-> "write", path |-> p, data |-> d, durable |-> durable])
  /\ createParents(p)
  /\ UNCHANGED <<file, disk, torn, acked, unkept>>

\* The temporary file, exclusive and under a random name: its bytes, mode,
\* owner and, for a durable call, fsync.
writeTemporary ==
  /\ fop.step = "write"
  /\ fop' = [fop EXCEPT !.step = "rename"]
  /\ UNCHANGED <<file, disk, fileOps, parent, torn, acked, unkept>>

renameTemporary ==
  /\ fop.step = "rename"
  /\ put(fop.path, fop.data, {fop.data} \cup IF fop.durable THEN {} ELSE {Torn})
  /\ torn' = IF fop.durable THEN torn ELSE torn \cup {fop.path}
  /\ fop' = IF fop.durable THEN [fop EXCEPT !.step = "directory"] ELSE NoFileOp
  /\ UNCHANGED <<fileOps, parent>>

\* Mutant: the directory is not synced before the answer.
answerUnsynced ==
  LET p == fop.path
  IN  /\ fop.step = "directory"
      /\ fop' = NoFileOp
      /\ IF file[p] = fop.data
         THEN /\ torn' = torn \ {p}
              /\ acked' = [acked EXCEPT ![p] = fop.data]
              /\ unkept' = unkept \ {p}
         ELSE UNCHANGED <<torn, acked, unkept>>
      /\ UNCHANGED <<file, disk, fileOps, parent>>

\* fsync of the immediate directory, which makes its entry for the file
\* durable but not the entries that lead to a directory just created.  The
\* answer's digest is of what the path holds, so a caller that finds another
\* one there knows of another writer.
syncDirectory ==
  LET p == fop.path
  IN  /\ fop.step = "directory"
      /\ fop' = NoFileOp
      /\ IF file[p] = fop.data
         THEN /\ IF parent[p] = "kept"
                 THEN /\ disk' = [disk EXCEPT ![p] = {fop.data}]
                      /\ torn' = torn \ {p}
                 ELSE UNCHANGED <<disk, torn>>
              /\ acked' = [acked EXCEPT ![p] = fop.data]
              /\ unkept' = unkept \ {p}
         ELSE UNCHANGED <<disk, torn, acked, unkept>>
      /\ UNCHANGED <<file, fileOps, parent>>

----------------------------------------------------------------------------
(* The other operations                                                    *)

\* write and patch change the file in place, copy the destination: the first
\* bytes make it Torn.
writeInPlace(p, d) ==
  /\ begin([step |-> "bytes", path |-> p, data |-> d])
  /\ put(p, Torn, {Torn})
  /\ createParents(p)
  /\ torn' = torn \cup {p}

\* write without an offset, or with one into an existing file.
write(p, d) == writeInPlace(p, d)

patch(p, d) == file[p] # Absent /\ writeInPlace(p, d)

copy(from, to, overwrite) ==
  /\ file[from] # Absent /\ from # to
  /\ overwrite \/ file[to] = Absent
  /\ writeInPlace(to, file[from])

lastBytes ==
  /\ fop.step = "bytes"
  /\ put(fop.path, fop.data, {fop.data})
  /\ fop' = NoFileOp
  /\ UNCHANGED <<fileOps, parent, torn>>

\* rename: the destination may come to hold whatever of the source is synced.
move(from, to, overwrite) ==
  /\ file[from] # Absent /\ from # to
  /\ overwrite \/ file[to] = Absent
  /\ fop = NoFileOp /\ fileOps < MaxFileOps
  /\ fileOps' = fileOps + 1
  /\ file' = [file EXCEPT ![to] = file[from], ![from] = Absent]
  /\ disk' = [disk EXCEPT ![to] = @ \cup disk[from] \cup {file[from]},
                          ![from] = @ \cup {Absent}]
  /\ torn' = IF from \in torn THEN torn \cup {to} ELSE torn
  /\ acked' = [acked EXCEPT ![to] = Absent, ![from] = Absent]
  /\ createParents(to)
  /\ UNCHANGED <<fop, unkept>>

\* The file, or with `recursive' a directory above it.
remove(p, recursive) ==
  /\ fop = NoFileOp /\ fileOps < MaxFileOps
  /\ fileOps' = fileOps + 1
  /\ \/ /\ ~recursive /\ file[p] # Absent
        /\ UNCHANGED parent
     \/ /\ recursive /\ parent[p] # "missing"
        /\ parent' = [parent EXCEPT ![p] = "missing"]
  /\ put(p, Absent, {Absent})
  /\ UNCHANGED <<fop, torn>>

\* A call throws: the finally block removes the temporary file, and what was
\* written in place and the parents that were created stay.
operationThrows ==
  /\ fop # NoFileOp
  /\ fop' = NoFileOp
  /\ UNCHANGED <<file, disk, fileOps, parent, torn, acked, unkept>>

beginFileOperation ==
  \E p \in Paths :
    \/ \E d \in Data, durable \in BOOLEAN, e \in {"any"} \cup Contents :
         replace(p, d, e, durable)
    \/ \E d \in Data : write(p, d) \/ patch(p, d)
    \/ \E q \in Paths, o \in BOOLEAN : copy(p, q, o) \/ move(p, q, o)
    \/ \E recursive \in BOOLEAN : remove(p, recursive)

continueFileOperation ==
  writeTemporary \/ renameTemporary \/ syncDirectory \/ lastBytes
    \/ operationThrows

----------------------------------------------------------------------------
(* The host                                                                *)

\* Another program writes the file, whole or not.
outsideWrites(p, d) ==
  /\ fileOps < MaxFileOps
  /\ fileOps' = fileOps + 1
  /\ put(p, d, {Torn, d})
  /\ createParents(p)
  /\ torn' = torn \cup {p}
  /\ UNCHANGED fop

\* The process dies: a temporary file may stay, under its own name.
fileCrash ==
  fop' = NoFileOp
    /\ UNCHANGED <<file, disk, fileOps, parent, torn, acked, unkept>>

\* The host loses power.  Parents that were created or removed and whose
\* entries were not synced may be gone, with the file, or there.
fileReboot ==
  /\ \E gone \in SUBSET {p \in Paths : parent[p] # "kept"} :
       /\ file' \in {f \in [Paths -> Contents] :
                      \A p \in Paths :
                        IF p \in gone THEN f[p] = Absent ELSE f[p] \in disk[p]}
       /\ parent' = [p \in Paths |->
                        IF p \in gone THEN "missing" ELSE "kept"]
  /\ disk' = [p \in Paths |-> {file'[p]}]
  /\ unkept' = unkept \cup {p \in Paths : parent[p] # "kept"}
  /\ fop' = NoFileOp
  /\ UNCHANGED <<fileOps, torn, acked>>

\* No throw, death or power loss at any point of a durable replace leaves a
\* mixture in a path that nobody writes in place, and one that was answered
\* and not changed since is there after every restart.  The one exception is
\* a power loss while parent directories that were created for it had never
\* been synced: replace() syncs the immediate directory only.
ReplacedWhole ==
  \A p \in Paths :
    /\ p \notin torn => file[p] # Torn
    /\ acked[p] # Absent => file[p] = acked[p] \/ p \in unkept
=============================================================================
