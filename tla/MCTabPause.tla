----------------------------- MODULE MCTabPause -----------------------------
(* A page and one cross-origin frame in it. *)
EXTENDS TabPause, TLC

CONSTANTS page, inner

MCFrames == {page, inner}
Symmetry == Permutations(MCFrames)
=============================================================================
