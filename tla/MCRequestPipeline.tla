----------------------- MODULE MCRequestPipeline -----------------------
(* Instances of RequestPipeline for TLC.                                 *)
EXTENDS RequestPipeline, TLC

CONSTANTS i1, i2, f1, f2, n1, n2

Symmetry == Permutations(Ids) \cup Permutations(Fingerprints)
              \cup Permutations(Nonces)
=========================================================================
