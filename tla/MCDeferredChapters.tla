------------------------- MODULE MCDeferredChapters -------------------------
(* A test in each of two tabs of a chapter. *)
EXTENDS DeferredChapters, TLC

CONSTANTS quiz, exam, r1, r2

MCJobs == {quiz, exam}
MCTab  == [j \in MCJobs |-> IF j = quiz THEN 1 ELSE 2]
MCTurns == {r1, r2}
Symmetry == Permutations(MCTurns)
=============================================================================
