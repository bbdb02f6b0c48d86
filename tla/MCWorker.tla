------------------------------ MODULE MCWorker ------------------------------
(* Model-checking instance of Worker: two request threads over a page of    *)
(* questions.                                                               *)
EXTENDS Worker
=============================================================================
