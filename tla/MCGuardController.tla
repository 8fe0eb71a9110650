----------------------- MODULE MCGuardController -----------------------
(* Instances of GuardController for TLC: candidate releases are named    *)
(* after their deployments.                                              *)
EXTENDS GuardController, TLC

CONSTANTS d1, d2, r0

MCTargets == {r0} \cup Deployments
MCCandidate == [d \in Deployments |-> d]
Symmetry == Permutations(Deployments)
=========================================================================
