------------------------------ MODULE FlowAuth ------------------------------
(***************************************************************************)
(* What an L3 remote promises about the authorisation of a flow: it is     *)
(* asked for at most once, answered only when asked, failed only while it  *)
(* has no answer, and a failed flow stays failed.                          *)
(***************************************************************************)
CONSTANT Flows

VARIABLE auth

Init == auth = [f \in Flows |-> "new"]

Ask(f) ==
    /\ auth[f] = "new"
    /\ auth' = [auth EXCEPT ![f] = "asked"]

\* The node may answer again; the last answer counts.
Answer(f, answer) ==
    /\ auth[f] \in {"asked", "granted", "denied"}
    /\ auth' = [auth EXCEPT ![f] = answer]

Fail(f) ==
    /\ auth[f] \in {"new", "asked"}
    /\ auth' = [auth EXCEPT ![f] = "failed"]

Next ==
    \E f \in Flows :
        Ask(f) \/ Fail(f) \/ \E answer \in {"granted", "denied"} : Answer(f, answer)

Spec == Init /\ [][Next]_auth
=============================================================================
