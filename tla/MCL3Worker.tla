---------------------------- MODULE MCL3Worker ----------------------------
(* L3Worker on a short clock: 2 and 5 ticks for 25 s and 80 s, neither a multiple. *)
EXTENDS L3Worker
=============================================================================
