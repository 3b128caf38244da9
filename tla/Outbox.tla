------------------------------- MODULE Outbox -------------------------------
(***************************************************************************)
(* What the event log promises its callers: a fact is durable before it    *)
(* can be visible in the stream, it is visible before it is settled (its   *)
(* row reads as published), and none of the three is ever taken back.      *)
(***************************************************************************)
CONSTANT Ids

VARIABLES durable, visible, settled

Init == durable = {} /\ visible = {} /\ settled = {}

Commit ==
    \E id \in Ids \ durable :
        /\ durable' = durable \cup {id}
        /\ UNCHANGED <<visible, settled>>

Show ==
    \E S \in SUBSET durable :
        /\ visible' = visible \cup S
        /\ UNCHANGED <<durable, settled>>

Settle ==
    \E S \in SUBSET visible :
        /\ settled' = settled \cup S
        /\ UNCHANGED <<durable, visible>>

Next == Commit \/ Show \/ Settle

Spec == Init /\ [][Next]_<<durable, visible, settled>>
=============================================================================
