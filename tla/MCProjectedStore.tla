-------------------------- MODULE MCProjectedStore --------------------------
(* Small instances of ProjectedStore for TLC. *)
EXTENDS ProjectedStore, TLC

Seqs == INSTANCE SequencesExt

MCBytes(d) == IF d = NoData THEN 0 ELSE 1
MCMerge(d, e) == e

\* A source identifier is a record and a version; every one has the prefix
\* "state".
MCSources == Keys \X (0..MaxVersion)
MCPrefixOf(s) == "state"

Empty == [k \in Keys |-> NoData]
Seeded == [k \in Keys |-> CHOOSE d \in Data : TRUE]

Recs(K) == {<<[key |-> k, data |-> d]>> : k \in K, d \in Data}
Asks(K) == {<<[key |-> k, data |-> NoData]>> : k \in K}

Reads == {Request("get", r) : r \in Asks(Keys)} \cup {Request("list", <<>>)}
Singles(K) == {Request("upsert", r) : r \in Recs(K)} \cup {Request("delete", r) : r \in Asks(K)}

Batch(d) == Seqs!SetToSeq({[key |-> k, data |-> d] : k \in Keys})

\* One caller: single writes, and deletes of every key in one batch.
AnyCall(t) == Reads \cup Singles(Keys) \cup {Request("delete", Batch(NoData))}

\* Racing callers: batches of upserts as well.
AnyBatch(t) == AnyCall(t) \cup {Request("upsert", Batch(d)) : d \in Data}

\* Callers that keep a scope of two records moving across a limit of one.
ListOrWrite(t) ==
    {Request("list", <<>>)} \cup Singles({CHOOSE k \in Keys : TRUE})

\* Racing callers that each write and delete a record of their own.
OwnKey == CHOOSE f \in [Threads -> Keys] : IsInjective(f)
OwnCalls(t) == Reads \cup Singles({OwnKey[t]})

MCSymmetry == Permutations(Threads)
=============================================================================
