-------------------------- MODULE SessionLifecycle --------------------------
(***************************************************************************)
(* What the handshake promises of a session, whatever the order of the     *)
(* requests about it: it is offered once, judged at most once, and then    *)
(* granted or refused for good; an offer nobody takes up may be dropped.   *)
(***************************************************************************)
CONSTANT Sids

VARIABLE life

Stages == {"unborn", "offered", "judging", "granted", "refused", "dropped"}

Init == life = [s \in Sids |-> "unborn"]

Move(s, from, to) == life[s] = from /\ life' = [life EXCEPT ![s] = to]

\* One sweep may drop several offers.
Drop ==
    \E S \in SUBSET {s \in Sids : life[s] = "offered"} :
        life' = [s \in Sids |-> IF s \in S THEN "dropped" ELSE life[s]]

Next ==
    \/ Drop
    \/ \E s \in Sids :
         \/ Move(s, "unborn", "offered")
         \/ Move(s, "offered", "judging")
         \/ Move(s, "judging", "granted")
         \/ Move(s, "judging", "refused")

Spec == Init /\ [][Next]_life
=============================================================================
