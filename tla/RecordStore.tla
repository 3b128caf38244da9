---------------------------- MODULE RecordStore ----------------------------
(***************************************************************************)
(* What a runtime store promises its callers: one copy of the records, and *)
(* reads that answer with what that copy holds.                            *)
(***************************************************************************)
EXTENDS Integers

CONSTANTS Keys, Data, NoData

VARIABLES
    store,  \* the record of each key, NoData for none
    reply   \* the answer to the last read: the keys asked for, and their records

vars == <<store, reply>>

Init ==
    /\ store \in [Keys -> Data \cup {NoData}]
    /\ reply = <<>>

\* Upserts and deletes of any set of keys.
Write ==
    /\ store' \in [Keys -> Data \cup {NoData}]
    /\ UNCHANGED reply

Read ==
    /\ \E asked \in SUBSET Keys : reply' = [k \in asked |-> store[k]]
    /\ UNCHANGED store

Next == Write \/ Read

Spec == Init /\ [][Next]_vars
=============================================================================
