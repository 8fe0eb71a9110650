----------------------------- MODULE Supervisor -----------------------------
(***************************************************************************)
(* The supervisor's jobs, interactive sessions and file operations in one  *)
(* service process: one handler at a time, deaths that hit all of them,    *)
(* and recover() (src/operations/registry.ts), which examines jobs and     *)
(* then sessions before the socket is listened on.  Jobs and sessions are  *)
(* the other writers of the files.                                         *)
(***************************************************************************)
EXTENDS JobManager

CONSTANTS
  Sessions,     \* session ids
  Paths, Data, Absent, Torn, MaxFileOps,
  MaxStarted    \* bound on the jobs and sessions started, together

ASSUME MaxStartedAssumption == MaxStarted \in Nat /\ MaxFileOps \in Nat
ASSUME ContentsAssumption == Absent # Torn /\ {Absent, Torn} \cap Data = {}

VARIABLES sessions, pane, opening
VARIABLES file, disk, fop, fileOps, parent, torn, acked, unkept

Pty == INSTANCE PtyManager
Files == INSTANCE FileManager

ptyVars == <<sessions, pane, opening>>
fileVars == <<file, disk, fop, fileOps, parent, torn, acked, unkept>>
vars == <<jobVars, ptyVars, fileVars>>

Init == JobsInit /\ Pty!PtyInit /\ Files!FilesInit

Started == Len(created) + Cardinality({s \in Sessions : Pty!Exists(s)})

\* A handler of one manager runs while the others have none in progress.
jobHandler ==
  /\ opening = Pty!NotOpening /\ fop = Files!NoFileOp
  /\ JobHandler
  /\ created' # created => Started < MaxStarted
  /\ UNCHANGED <<ptyVars, fileVars>>

ptyHandler ==
  /\ busy = NotBusy /\ fop = Files!NoFileOp
  /\ Pty!PtyHandler
  /\ opening = Pty!NotOpening /\ opening' # opening => Started < MaxStarted
  /\ UNCHANGED <<jobVars, fileVars>>

beginFile ==
  /\ up /\ busy = NotBusy /\ opening = Pty!NotOpening
  /\ Files!beginFileOperation
  /\ UNCHANGED <<jobVars, ptyVars>>

continueFile == Files!continueFileOperation /\ UNCHANGED <<jobVars, ptyVars>>

\* Children and panes end, and write files.
hostStep ==
  \/ HostStep /\ UNCHANGED <<ptyVars, fileVars>>
  \/ (\E s \in Sessions : Pty!paneExit(s)) /\ UNCHANGED <<jobVars, fileVars>>
  \/ /\ \E p \in Paths, d \in Data \cup {Torn} : Files!outsideWrites(p, d)
     /\ UNCHANGED <<jobVars, ptyVars>>

serviceDies ==
  \/ crash /\ Pty!ptyCrash /\ Files!fileCrash
  \/ reboot /\ Pty!ptyReboot /\ Files!fileReboot

\* start(): recover() before the socket is listened on.
startService == start /\ Pty!recoverSessions /\ UNCHANGED fileVars

\* The service dies again on the way: among the jobs, or after them.
startServiceDies ==
  /\ \/ (\E S \in SUBSET Jobs : startDies(S)) /\ UNCHANGED ptyVars
     \/ startDies(Jobs) /\ Pty!recoverSessionsDies
  /\ UNCHANGED fileVars

Next ==
  \/ jobHandler \/ ptyHandler \/ beginFile \/ continueFile \/ hostStep
  \/ serviceDies \/ startService \/ startServiceDies

\* Started calls go on, systemd restarts the service, and the event loop
\* delivers a child's event, which is queued while handlers run, in the end.
deliverable == opening = Pty!NotOpening /\ fop = Files!NoFileOp
Fairness ==
  /\ WF_vars(spawn /\ UNCHANGED <<ptyVars, fileVars>>)
  /\ WF_vars((saveStarted \/ saveStartedFails)
               /\ UNCHANGED <<ptyVars, fileVars>>)
  /\ WF_vars((Pty!openPipe \/ Pty!savePtySession \/ Pty!createFails)
               /\ UNCHANGED <<jobVars, fileVars>>)
  /\ WF_vars(continueFile)
  /\ WF_vars(startService)
  /\ \A j \in Jobs :
       /\ SF_vars(deliverable /\ childError(j)
                    /\ UNCHANGED <<ptyVars, fileVars>>)
       /\ SF_vars(deliverable /\ childClose(j)
                    /\ UNCHANGED <<ptyVars, fileVars>>)

Spec == Init /\ [][Next]_vars /\ Fairness

----------------------------------------------------------------------------
(* Properties                                                              *)

\* Rows, processes, panes and the handler in progress have their types.
TypeOK ==
  /\ JobsTypeOK
  /\ sessions \in [Sessions -> Pty!Status]
  /\ pane \in [Sessions -> Pty!Pane]
  /\ opening \in {Pty!NotOpening} \cup [step : {"pipe", "save"}, session : Sessions]
  /\ busy = NotBusy \/ opening = Pty!NotOpening
  /\ file \in [Paths -> Files!Contents] /\ acked \in [Paths -> Files!Contents]
  /\ disk \in [Paths -> SUBSET Files!Contents]
  /\ fop \in {Files!NoFileOp}
           \cup [step : {"write", "rename", "directory"}, path : Paths,
                 data : Data, durable : BOOLEAN]
           \cup [step : {"bytes"}, path : Paths, data : Files!Contents]
  /\ parent \in [Paths -> {"missing", "fresh", "kept"}]
  /\ torn \subseteq Paths /\ unkept \subseteq Paths
  /\ fileOps \in 0..MaxFileOps

\* While the service runs, a session recorded as active that is alive has
\* its output captured, whichever commands failed and wherever earlier
\* recoveries died: a read that finds no new bytes means there are none.
OutputCaptured ==
  up => \A s \in Sessions :
          sessions[s] = "active" /\ pane[s] # "none" => pane[s] = "piped"

\* A durable replace leaves the old or the new content (FileManager).
ReplacedWhole == Files!ReplacedWhole
=============================================================================
