------------------------------- MODULE Layers -------------------------------
(* One function over another: the operator @@ of the module TLC under a    *)
(* name whose definition the provers can expand.                           *)

\* f where it is defined, and g elsewhere
f ++ g == [k \in DOMAIN f \cup DOMAIN g |-> IF k \in DOMAIN f THEN f[k] ELSE g[k]]
=============================================================================
