-------------------------- MODULE MCEventPipeline --------------------------
(* A small instance of EventPipeline for TLC. *)
EXTENDS EventPipeline

MCBytes(d) == IF d = NoData THEN 0 ELSE 1
MCMerge(d, e) == e
MCPrefixOf(s) == NoSource

\* The first fact writes two records, and the second of them finds the partition
\* full; the second fact deletes a record of the first.  The source is the
\* identifier that Append gave the envelope, with the index of the mutation.
Change(o, k, s, v, d) == [op |-> o, key |-> k, source |-> s, version |-> v, data |-> d]

MCEventsOf(id) ==
    IF id = 1
    THEN <<Change("upsert", "k1", "1#0", 1, "d"), Change("upsert", "k2", "1#1", 1, "d")>>
    ELSE <<Change("delete", "k1", "2", 2, NoData)>>

\* The instance is one the theorem about AckedReflected speaks of.
ASSUME PlainInstance == PlainFacts /\ ~AckIgnoresContext
=============================================================================
