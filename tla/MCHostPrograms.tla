---------------------- MODULE MCHostPrograms ----------------------
(* An instance of HostPrograms for TLC.  Controller calls,         *)
(* installs and rehearsals share no state but the guard that       *)
(* installs look at, so each behaviour has programs of one kind.   *)
(* A third call joins only on a host without a deployment, nothing *)
(* is activated beside installs, a rehearsal meets a death or a    *)
(* foreign name, not both, and a guest that missed a check has one *)
(* runner.                                                         *)
EXTENDS HostPrograms, TLC

CONSTANTS p1, p2, p3, i1, i2, c1, c2, a1, a2, r1

VARIABLE kind   \* the kind of programs that run

MCInit == HostInit /\ kind \in {"calls", "installs", "rehearsal"}

MCNext ==
  /\ \/ kind = "calls" /\ (controllerStep \/ hostStep)
     \/ kind = "installs" /\ (installStep \/ hostStep)
     \/ kind = "rehearsal" /\ rehearsalStep
     \/ hostReboots
  /\ kind' = kind

MCSpec ==
  /\ MCInit /\ [][MCNext]_<<hostVars, kind>>
  /\ \A p \in Procs : WF_hostVars(lockStep(p))

Untouched == content = [g \in Recovery!Groups |-> 0]

Bounded ==
  /\ kind = "calls" => pc[p3] = "idle" \/ (phase = "none" /\ Untouched)
  /\ kind = "installs" => Untouched
  /\ kind = "rehearsal" =>
       deaths + foreign <= 1 /\ (guest[r1].missed => at[a2] = "idle")
====================================================================
