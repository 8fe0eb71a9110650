----------------------- MODULE MCControllerLock -----------------------
(* Instances of ControllerLock for TLC.                                 *)
EXTENDS ControllerLock, TLC

CONSTANTS p1, p2, p3
=======================================================================
