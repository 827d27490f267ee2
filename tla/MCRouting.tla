----------------------------- MODULE MCRouting -----------------------------
(* Names of up to three labels over two, eight addresses in two blocks.    *)
EXTENDS Routing, TLC

Rule2 == [ports : {<<1, 1>>, <<1, 2>>}, protocol : {"all", "tcp", "udp"}, app : {"x"}]
Rule1 == [ports : {<<2, 2>>}, protocol : {"all", "tcp", "icmp"}, app : {"x"}]

Texts == {<<"a">>, <<"a", "b">>, <<"*", "b">>, <<"*", "a", "b">>, <<"*", "*", "b">>,
          <<"a", "*">>, <<"*">>, <<"a", "*", "b">>, <<"*", "a">>, <<"*a", "b">>, <<"a b">>}

MCUnstar == ("*" :> "") @@ ("*a" :> "a")

Domains(texts, rules, statics) ==
    {[text |-> t, static |-> s] @@ r : t \in texts, r \in rules, s \in statics}
Ranges(bounds, rules) == {[min |-> b[1], max |-> b[2]] @@ r : b \in bounds, r \in rules}

MCHostNames == {<<"a">>, <<"b">>} \cup ({"a", "b"} \X {"a", "b"}) \cup {<<"a", "a", "b">>,
            <<"b", "a", "b">>, <<"a", "b", "">>, <<"b", "b", "a">>, <<"a", "">>, <<"a", "a b">>}
MCIps == 0..7
MCNodes == {<<[name |-> <<"a", "b">>], 1>>, <<[ip |-> 3], 2>>}
MCResolve == [n \in MCHostNames |->
                CASE n \in {<<"a", "b">>, <<"a", "b", "">>} -> <<2>>
                  [] n = <<"b", "a">> -> <<5, 6>>
                  [] n = <<"a">> -> <<3>>
                  [] n = <<"a", "">> -> <<4>>
                  [] n = <<"b", "a", "b">> -> <<7>>
                  [] OTHER -> <<>>]

Listings == Domains(Texts, Rule2, {None, 2}) \cup
            Ranges({<<2, 3>>, <<3, 3>>, <<3, 4>>, <<4, 7>>, <<4, 3>>}, Rule1) \cup {[v6 |-> "block"]}
=============================================================================
