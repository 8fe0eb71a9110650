------------------------ MODULE MCSupervisor ------------------------
(* Instances of Supervisor for TLC.  File operations share no state   *)
(* with jobs and sessions, so behaviours have either.                 *)
EXTENDS Supervisor, TLC

CONSTANTS j1, j2, p1, p2, s1, s2, f1, f2, d1, d2

EitherKind ==
  fileOps = 0 \/ (created = <<>> /\ \A s \in Sessions : ~Pty!Exists(s))
=====================================================================
