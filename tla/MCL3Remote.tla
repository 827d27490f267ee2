---------------------------- MODULE MCL3Remote ----------------------------
(* L3Remote with small sets of threads and keys. *)
EXTENDS L3Remote

Symmetry == {[t \in Callers |-> IF t = a THEN b ELSE IF t = b THEN a ELSE t] : a, b \in Callers}
=============================================================================
