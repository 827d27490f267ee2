----------------------------- MODULE MCConnect -----------------------------
(* Two addresses, the first of IPv6 and the second of IPv4, two interfaces. *)
EXTENDS Connect

Family2 == <<"v6", "v4">>
Outcomes == {"answers", "resets", "refuses", "silent"}

\* Every network in which the interfaces matter: any outcome of each address on
\* each interface, an unbound socket behaving like the first interface's.
AllReaches ==
    {[p \in Addrs \X Indexes |-> IF p[2] = Unbound THEN r[p[1], "en0"] ELSE r[p]] :
        r \in [Addrs \X Ifaces -> Outcomes]}

\* Networks that fail slowly or answer on one interface only.
FewReaches ==
    {[p \in Addrs \X Indexes |->
        IF p[1] = 1 THEN "silent" ELSE IF p[2] \in good THEN "answers" ELSE bad] :
        good \in {{"en0"}, {"en1"}, {}}, bad \in {"silent", "refuses", "resets"}}

OneFamily == <<"v4", "v4">>
=============================================================================
