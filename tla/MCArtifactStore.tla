-------------------------- MODULE MCArtifactStore --------------------------
(* The instance of ArtifactStore for TLC.                                  *)
EXTENDS ArtifactStore, TLC

CONSTANTS i1, i2, u, v

\* Chunks that fit each other, a hole (u) and the source files in several
\* ways, and the empty file, of which no copy is torn.
MCChunks == {<<>>, <<v>>, <<u, v>>}
MCSources == {<<>>, <<v>>, <<u, v>>}

\* Uploads that promise nothing, and uploads that promise both.
MCExpectations == {<<None, None>>, <<2, <<u, v>>>>}

Symmetry == Permutations({i1, i2})
=============================================================================
