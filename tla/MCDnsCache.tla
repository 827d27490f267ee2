----------------------------- MODULE MCDnsCache -----------------------------
(* A name that moves between a managed and another address, and two more to *)
(* fill a cache of two entries.                                             *)
EXTENDS DnsCache, TLC

Symmetry == Permutations(Threads)
TwoZones == {<<"public">>, <<"public", "intranet">>}
=============================================================================
