------------------------------- MODULE MCCAbi -------------------------------
(* CAbi with lists of none, one and two items. *)
EXTENDS CAbi, TLC

Size(n, fields) ==
    [bytes |-> n, strings |-> n, methods |-> n, cookies |-> n, ips |-> n, domains |-> 2 - n, dns |-> n,
     groups |-> n, addresses |-> 2 - n, excluded |-> n, present |-> fields]
SomeSizes == {Size(0, {"last_event_message"}), Size(2, {"dns_server", "last_error"})}
Symmetry == Permutations(Threads)
=============================================================================
