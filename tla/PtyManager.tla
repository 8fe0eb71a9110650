----------------------------- MODULE PtyManager -----------------------------
(***************************************************************************)
(* Interactive sessions of the supervisor (src/pty/manager.ts): each runs  *)
(* in a tmux server of its own that outlives the service, has a record in  *)
(* the state store, and writes its output to a file through pipe-pane.     *)
(*                                                                         *)
(* tmux is external: a command may fail at any time, and a session ends    *)
(* when its shell does.  "pipe-pane -o" toggles: it opens a pipe where     *)
(* there is none and closes the one there is.  The program at the end of   *)
(* the pipe runs as long as the session.  Sizes, input bytes and offsets   *)
(* are left out, and read(), which changes nothing.                        *)
(***************************************************************************)

CONSTANT Sessions   \* session ids

VARIABLES
  sessions,   \* status in the session's record, "none" without one
  pane,       \* its tmux session: "none", "running", or "piped" to the file
  opening,    \* the create() in progress
  up          \* the service runs

Status == {"none", "active", "closed", "lost"}
Pane == {"none", "running", "piped"}
NotOpening == [step |-> "none"]
Exists(s) == sessions[s] # "none" \/ pane[s] # "none"

PtyInit ==
  /\ sessions = [s \in Sessions |-> "none"]
  /\ pane = [s \in Sessions |-> "none"]
  /\ opening = NotOpening

----------------------------------------------------------------------------
(* tmux                                                                    *)

\* pipe-pane without a command, and with -o and one.
PipeClosed(p) == "running"
PipeToggled(p) == IF p = "running" THEN "piped" ELSE "running"

\* The shell ends, or is killed with the service's control group.
paneExit(s) ==
  /\ pane[s] # "none"
  /\ pane' = [pane EXCEPT ![s] = "none"]
  /\ UNCHANGED <<sessions, opening>>

----------------------------------------------------------------------------
(* create                                                                  *)

\* new-session, ...
create(s) ==
  /\ up /\ opening = NotOpening
  /\ ~Exists(s)
  /\ pane' = [pane EXCEPT ![s] = "running"]
  /\ opening' = [step |-> "pipe", session |-> s]
  /\ UNCHANGED sessions

\* ... pipe-pane, ...
openPipe ==
  /\ up /\ opening.step = "pipe"
  /\ pane[opening.session] # "none"
  /\ pane' = [pane EXCEPT ![opening.session] = PipeToggled(@)]
  /\ opening' = [opening EXCEPT !.step = "save"]
  /\ UNCHANGED sessions

\* ... and the record, once the pane answered with its process id.
savePtySession ==
  /\ up /\ opening.step = "save"
  /\ sessions' = [sessions EXCEPT ![opening.session] = "active"]
  /\ opening' = NotOpening
  /\ UNCHANGED pane

\* A command or the write fails: what was started stays, without a record.
createFails ==
  /\ up /\ opening # NotOpening
  /\ opening' = NotOpening
  /\ UNCHANGED <<sessions, pane>>

----------------------------------------------------------------------------
(* input, resize and close                                                 *)

\* ensureActive, as input() and resize() begin: has-session fails, mostly
\* because the session is gone.
ensureActive(s) ==
  /\ up /\ opening = NotOpening
  /\ sessions[s] = "active"
  /\ sessions' = [sessions EXCEPT ![s] = "lost"]
  /\ UNCHANGED <<pane, opening>>

\* A kill-session that fails is taken for a session that is gone.
close(s) ==
  /\ up /\ opening = NotOpening
  /\ sessions[s] # "none"
  /\ sessions' = [sessions EXCEPT ![s] = "closed"]
  /\ pane' \in {pane, [pane EXCEPT ![s] = "none"]}
  /\ UNCHANGED opening

----------------------------------------------------------------------------
(* Restarts                                                                *)

\* Mutant: the old pipe is not closed before the new one is opened.
RepipedUnclosed(p) == PipeToggled(p)
\* The pane after both of recoverSessions' commands.
Repiped(p) == PipeToggled(PipeClosed(p))

\* What recoverSessions makes of an active session <<record, pane>>.
Recovered(p) ==
  IF p = "none" THEN {<<"lost", p>>}
  ELSE {<<"active", Repiped(p)>>, <<"lost", p>>, <<"lost", PipeClosed(p)>>}

\* What it may leave when the service dies on the way (in one session only;
\* no other is looked at after it).
HalfRecovered(p) ==
  Recovered(p) \cup {<<"active", p>>}
    \cup (IF p = "none" THEN {} ELSE {<<"active", PipeClosed(p)>>})

recoverTo(outcomes(_)) ==
  /\ \E f \in [Sessions -> Status \X Pane] :
       /\ \A s \in Sessions :
            f[s] \in IF sessions[s] = "active" THEN outcomes(pane[s])
                     ELSE {<<sessions[s], pane[s]>>}
       /\ sessions' = [s \in Sessions |-> f[s][1]]
       /\ pane' = [s \in Sessions |-> f[s][2]]
  /\ UNCHANGED opening

recoverSessions == recoverTo(Recovered)
recoverSessionsDies == recoverTo(HalfRecovered)

\* The service dies; tmux servers live on until the host goes down.
ptyCrash == opening' = NotOpening /\ UNCHANGED <<sessions, pane>>
ptyReboot == /\ opening' = NotOpening
             /\ pane' = [s \in Sessions |-> "none"]
             /\ UNCHANGED sessions

PtyHandler ==
  \/ openPipe \/ savePtySession \/ createFails
  \/ \E s \in Sessions : create(s) \/ ensureActive(s) \/ close(s)
=============================================================================
