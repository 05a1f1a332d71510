-------------------------- MODULE MCArtifactStore --------------------------
(***************************************************************************)
(* Three calls on two results, one of which is too large for the store.    *)
(***************************************************************************)
EXTENDS ArtifactStore, TLC

CONSTANTS a, b, c1, c2, c3

MCCalls    == {c1, c2, c3}
MCContents == {a, b}
MCFitting  == {a}
Symmetry   == Permutations(MCCalls)
=============================================================================
