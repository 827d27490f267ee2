---------------------------- MODULE MCTcpTunnel ----------------------------
(* Instances of TcpTunnel for TLC. *)
EXTENDS TcpTunnel
=============================================================================
