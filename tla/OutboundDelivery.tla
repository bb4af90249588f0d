--------------------------- MODULE OutboundDelivery ---------------------------
(***************************************************************************)
(* What the outbound queue promises for one durable delivery, without      *)
(* rows, claims, leases and processes: when its payloads may reach the     *)
(* recipient, when it may be tried again, and what the completion owner    *)
(* may be told.                                                            *)
(***************************************************************************)
EXTENDS Naturals

CONSTANT N   \* payloads of the delivery

VARIABLES
    stage,   \* how far the delivery is
    got,     \* got[i]: how often the recipient got payload i
    told     \* what the completion owner was told for good

\* "open": whoever takes it may send it.  "tried": a send may have begun.
\* "doubt": a send may have succeeded.  "closing": given up, and the completion
\* owner is to be told.
Stages == {"none", "open", "tried", "doubt", "closing", "over"}

Nothing == \A i \in 1 .. N : got[i] = 0

Init ==
    /\ stage = "none"
    /\ got = [i \in 1 .. N |-> 0]
    /\ told = "waiting"

\* The delivery is accepted, or is sent once without being kept
Accept ==
    /\ stage = "none" /\ stage' \in {"open", "over"}
    /\ UNCHANGED <<got, told>>

Try ==
    /\ stage = "open" /\ stage' = "tried"
    /\ UNCHANGED <<got, told>>

\* It may be sent anew only when no part of it arrived
Reopen ==
    /\ stage = "tried" /\ Nothing /\ stage' = "open"
    /\ UNCHANGED <<got, told>>

Doubt ==
    /\ stage = "tried" /\ stage' = "doubt"
    /\ UNCHANGED <<got, told>>

GiveUp ==
    /\ stage \in {"open", "tried", "doubt"} /\ stage' = "closing"
    /\ UNCHANGED <<got, told>>

End ==
    /\ stage \notin {"none", "over"} /\ stage' = "over"
    /\ UNCHANGED <<got, told>>

\* A payload arrives: for the first time, and never of an open delivery
Arrive(i) ==
    /\ stage \notin {"none", "open"} /\ got[i] = 0
    /\ got' = [got EXCEPT ![i] = 1]
    /\ UNCHANGED <<stage, told>>

\* The completion owner is told once
Tell ==
    /\ told = "waiting" /\ told' \in {"delivered", "suppressed"}
    /\ told' = "delivered" => ~Nothing
    /\ UNCHANGED <<stage, got>>

Next ==
    \/ Accept \/ Try \/ Reopen \/ Doubt \/ GiveUp \/ End \/ Tell
    \/ \E i \in 1 .. N : Arrive(i)

Spec == Init /\ [][Next]_<<stage, got, told>>
=============================================================================
