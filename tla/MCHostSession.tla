--------------------------- MODULE MCHostSession ---------------------------
(* A page with a top frame and a frame in it.                              *)
EXTENDS HostSession

CONSTANTS top, inner

MCFrames == {top, inner}
MCBelow  == [f \in MCFrames |-> IF f = top THEN MCFrames ELSE {f}]
=============================================================================
