------------------------- MODULE MCProxyConnection -------------------------
(* Instances of ProxyConnection for TLC. *)
EXTENDS ProxyConnection
=============================================================================
