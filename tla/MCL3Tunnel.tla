---------------------------- MODULE MCL3Tunnel ----------------------------
(* L3Tunnel with small sets of threads, groups and remotes. *)
EXTENDS L3Tunnel
=============================================================================
