---------------------------- MODULE HermesApply ----------------------------
(***************************************************************************)
(* The apply core of a Hermes projection partition                         *)
(* (server-kit/go/hermes/apply.go): what one accepted, stale, duplicate or *)
(* rejected mutation does to the partition.  A partition is a record       *)
(*                                                                         *)
(*   ver        version of the entry in each record cell, 0 for a nil cell *)
(*   data       payload of each entry, NoData for a nil cell               *)
(*   tomb       version of the tombstone of each key, 0 for none           *)
(*   tombOrder  the keys whose tombstones are kept, oldest first           *)
(*   applied    the remembered source identifiers                          *)
(*   applyOrder the same identifiers, oldest first                         *)
(*   fence      per source prefix: replay fence version and reference      *)
(*              count; refs = 0 is an absent map entry                     *)
(*   epoch      publication counter                                        *)
(*   watermark  highest accepted version                                   *)
(*   records    the counter compared with MaxRecords                       *)
(*   bytes      the counter compared with MaxBytes                         *)
(*                                                                         *)
(* Metrics (rejectedApplies, indexCompactions) and the secondary indexes   *)
(* are not part of this model.                                             *)
(***************************************************************************)
EXTENDS Integers, Sequences, FiniteSets

CONSTANTS
    Keys,              \* record keys of the partition
    Data, NoData,      \* payloads, and the payload of a nil cell
    Bytes(_),          \* estimateRecordBytes
    Merge(_, _),       \* RecordData.Merge: the second payload laid over the first
    Sources, NoSource, \* source identifiers, and the empty identifier
    Prefixes,          \* the parts before the first colon
    PrefixOf(_),       \* the prefix of a source, outside Prefixes when it has no colon
    MaxRecords, MaxBytes, MaxTombstones, MaxAppliedEvents

\* normalizeSpec replaces every missing bound by a positive default.
ASSUME BoundsPositive ==
    /\ MaxRecords \in Nat \ {0}
    /\ MaxBytes \in Nat \ {0}
    /\ MaxTombstones \in Nat \ {0}
    /\ MaxAppliedEvents \in Nat \ {0}

ASSUME PayloadsWellFormed ==
    /\ NoData \notin Data
    /\ Bytes(NoData) = 0
    /\ \A d \in Data : Bytes(d) \in Nat
    /\ \A d, e \in Data : Merge(d, e) \in Data

ASSUME SourcesWellFormed == NoSource \notin Sources

ASSUME FiniteKeys == IsFiniteSet(Keys)

Live(p) == {k \in Keys : p.ver[k] > 0}

Scoped(s) == PrefixOf(s) \in Prefixes

\* An apply outcome: what the handler reports, and the partition it leaves.
Outcome(s, p) == [state |-> s, part |-> p]

States == {"applied", "duplicate", "ignored", "rejected"}

Max2(a, b) == IF a >= b THEN a ELSE b

-----------------------------------------------------------------------------
(* Versions and the replay fence.                                          *)

\* An event without a version takes the one after the current epoch.
EffectiveVersion(p, v) == IF v > 0 THEN v ELSE p.epoch + 1

Fenced(p, s, v) ==
    /\ Scoped(s)
    /\ p.fence[PrefixOf(s)].refs > 0
    /\ v <= p.fence[PrefixOf(s)].version

AlreadyApplied(p, s, v) ==
    /\ s # NoSource
    /\ s \in p.applied \/ Fenced(p, s, v)

AddRef(f, s, v) ==
    IF Scoped(s)
    THEN [f EXCEPT ![PrefixOf(s)] = [version |-> Max2(@.version, v), refs |-> @.refs + 1]]
    ELSE f

\* Mutation: the fence goes with any of its sources.
DropRefWhole(f, s) ==
    IF Scoped(s) THEN [f EXCEPT ![PrefixOf(s)] = [version |-> 0, refs |-> 0]] ELSE f

\* The fence of a prefix is deleted with its last reference.
DropRef(f, s) ==
    IF Scoped(s)
    THEN [f EXCEPT ![PrefixOf(s)] = IF @.refs <= 1
                                    THEN [version |-> 0, refs |-> 0]
                                    ELSE [version |-> @.version, refs |-> @.refs - 1]]
    ELSE f

\* The window holds at most MaxAppliedEvents sources before the append, so
\* the eviction loop of the code runs at most once.
RememberApplied(p, s, v) ==
    LET order == Append(p.applyOrder, s)
        fence == AddRef(p.fence, s, v)
        full  == Len(order) > MaxAppliedEvents
        old   == Head(order)
    IN IF s = NoSource \/ s \in p.applied
       THEN p
       ELSE [p EXCEPT
               !.applied    = IF full THEN (@ \cup {s}) \ {old} ELSE @ \cup {s},
               !.applyOrder = IF full THEN Tail(order) ELSE order,
               !.fence      = IF full THEN DropRef(fence, old) ELSE fence]

-----------------------------------------------------------------------------
(* Mutations of one key.                                                   *)

BlockedByNewerTombstone(p, k, v) == v < p.tomb[k]

\* A key is appended to the eviction order only when it has no tombstone, but
\* an upsert that clears a tombstone leaves the key in the order.  As above,
\* the eviction loop runs at most once.
RememberTombstone(p, k, v) ==
    LET order == IF p.tomb[k] = 0 THEN Append(p.tombOrder, k) ELSE p.tombOrder
        tomb  == [p.tomb EXCEPT ![k] = v]
        full  == Len(order) > MaxTombstones
    IN [p EXCEPT
          !.tombOrder = IF full THEN Tail(order) ELSE order,
          !.tomb      = IF full THEN [tomb EXCEPT ![Head(order)] = 0] ELSE tomb]

\* Mutation: an upsert over a tombstone leaves the tombstone.
StoreEntryBesideTombstone(p, k, d, v) ==
    [p EXCEPT
       !.ver     = [@ EXCEPT ![k] = v],
       !.data    = [@ EXCEPT ![k] = d],
       !.records = IF p.ver[k] = 0 THEN @ + 1 ELSE @,
       !.bytes   = @ + Bytes(d) - Bytes(p.data[k])]

\* Mutation: a replaced payload stays counted.
StoreEntryAddingBytes(p, k, d, v) ==
    [p EXCEPT
       !.ver     = [@ EXCEPT ![k] = v],
       !.data    = [@ EXCEPT ![k] = d],
       !.tomb    = IF p.ver[k] = 0 THEN [@ EXCEPT ![k] = 0] ELSE @,
       !.records = IF p.ver[k] = 0 THEN @ + 1 ELSE @,
       !.bytes   = @ + Bytes(d)]

\* Storing an entry in the cell of k: an entry that was not there clears the
\* tombstone and is counted.
StoreEntry(p, k, d, v) ==
    [p EXCEPT
       !.ver     = [@ EXCEPT ![k] = v],
       !.data    = [@ EXCEPT ![k] = d],
       !.tomb    = IF p.ver[k] = 0 THEN [@ EXCEPT ![k] = 0] ELSE @,
       !.records = IF p.ver[k] = 0 THEN @ + 1 ELSE @,
       !.bytes   = @ + Bytes(d) - Bytes(p.data[k])]

\* Mutation: deleting an absent record is counted.
ClearEntryUncounted(p, k) ==
    [p EXCEPT
       !.ver     = [@ EXCEPT ![k] = 0],
       !.data    = [@ EXCEPT ![k] = NoData],
       !.records = @ - 1,
       !.bytes   = @ - Bytes(p.data[k])]

ClearEntry(p, k) ==
    [p EXCEPT
       !.ver     = [@ EXCEPT ![k] = 0],
       !.data    = [@ EXCEPT ![k] = NoData],
       !.records = IF p.ver[k] = 0 THEN @ ELSE @ - 1,
       !.bytes   = @ - Bytes(p.data[k])]

\* Mutation: only tombstones are compared.
StaleByTombstone(p, k, v) == BlockedByNewerTombstone(p, k, v)

Stale(p, k, v) == BlockedByNewerTombstone(p, k, v) \/ v < p.ver[k]

OverBytes(p, k, d) == p.bytes + Bytes(d) - Bytes(p.data[k]) > MaxBytes

\* Mutation: off by one at the limit.
OverRecordsLate(p, k) == p.ver[k] = 0 /\ p.records > MaxRecords

\* Mutation: the limit also counts against a key that has its record.
OverRecordsOnUpdate(p, k) == p.records >= MaxRecords

OverRecords(p, k) == p.ver[k] = 0 /\ p.records >= MaxRecords

Upsert(p, k, d, v) ==
    CASE Stale(p, k, v) -> Outcome("ignored", p)
      [] ~Stale(p, k, v) /\ (OverRecords(p, k) \/ OverBytes(p, k, d)) -> Outcome("rejected", p)
      [] OTHER -> Outcome("applied", StoreEntry(p, k, d, v))

Patch(p, k, d, v) ==
    LET merged == Merge(p.data[k], d)
    IN CASE Stale(p, k, v) \/ p.ver[k] = 0 -> Outcome("ignored", p)
         [] ~(Stale(p, k, v) \/ p.ver[k] = 0) /\ OverBytes(p, k, merged) -> Outcome("rejected", p)
         [] OTHER -> Outcome("applied", StoreEntry(p, k, merged, v))

Delete(p, k, v) ==
    IF v < p.ver[k] \/ (p.ver[k] = 0 /\ BlockedByNewerTombstone(p, k, v))
    THEN Outcome("ignored", p)
    ELSE Outcome("applied", RememberTombstone(ClearEntry(p, k), k, v))

\* One record retired by evictExpiredLocked: the tombstone carries the
\* record's own version.
Expire(p, k) == RememberTombstone(ClearEntry(p, k), k, p.ver[k])

-----------------------------------------------------------------------------
(* One event of a batch.                                                   *)

Ops == {"upsert", "patch", "delete", "invalid"}

\* "invalid" stands for every event that fails normalisation, scope validation
\* or the operation switch.
ApplyMutation(p, e, v) ==
    CASE e.op = "upsert"  -> Upsert(p, e.key, e.data, v)
      [] e.op = "patch"   -> Patch(p, e.key, e.data, v)
      [] e.op = "delete"  -> Delete(p, e.key, v)
      [] OTHER            -> Outcome("rejected", p)

\* Mutation: the last version seen, not the highest.
ObserveLastVersion(p, v) == [p EXCEPT !.watermark = v]

ObserveWatermark(p, v) == [p EXCEPT !.watermark = Max2(@, v)]

\* Duplicates and rejections leave the partition alone; an ignored event is
\* still remembered as applied, and only an applied one moves the watermark.
ApplyEvent(p, e) ==
    LET v == EffectiveVersion(p, e.version)
        m == ApplyMutation(p, e, v)
        q == RememberApplied(m.part, e.source, v)
    IN CASE AlreadyApplied(p, e.source, v) -> Outcome("duplicate", p)
         [] ~AlreadyApplied(p, e.source, v) /\ m.state = "rejected" -> m
         [] ~AlreadyApplied(p, e.source, v) /\ m.state = "ignored"  -> Outcome("ignored", q)
         [] OTHER -> Outcome("applied", ObserveWatermark(q, v))

\* Mutation: the epoch is not advanced.
FinishApplyQuietly(p, accepted) == p

\* finishApplyLocked: one epoch per batch that applied something.
FinishApply(p, accepted) == IF accepted THEN [p EXCEPT !.epoch = @ + 1] ELSE p

-----------------------------------------------------------------------------
(* Construction and replacement.                                           *)

NoFence == [f \in Prefixes |-> [version |-> 0, refs |-> 0]]

NewPartition ==
    [ver |-> [k \in Keys |-> 0], data |-> [k \in Keys |-> NoData],
     tomb |-> [k \in Keys |-> 0], tombOrder |-> <<>>,
     applied |-> {}, applyOrder |-> <<>>, fence |-> NoFence,
     epoch |-> 0, watermark |-> 0, records |-> 0, bytes |-> 0]

\* The bytes of one cell, each named by the key and its position, and the
\* number of bytes of all cells.
ByteCells(k, d) == {k} \X (1..Bytes(d))

TotalBytes(data) == Cardinality(UNION {ByteCells(k, data[k]) : k \in Keys})

\* A snapshot numbers the keys it holds 1, 2, ... in the order the source
\* streams them, each once; the other keys have number 0.
Loaded(ver) == {k \in Keys : ver[k] > 0}

Numbering(ver) ==
    /\ ver \in [Keys -> 0..Cardinality(Keys)]
    /\ \A j, k \in Loaded(ver) : ver[j] = ver[k] => j = k
    /\ \A k \in Loaded(ver) : ver[k] <= Cardinality(Loaded(ver))

\* What bulkLoadFrom accepts: every upsert of the replacement partition fits.
LoadFits(ver, data) ==
    /\ Cardinality(Loaded(ver)) <= MaxRecords
    /\ TotalBytes(data) \in 0..MaxBytes

\* The swap under the lock.  Everything but the replay fence is replaced, and
\* the watermark restarts at the number of loaded records.
BulkLoad(p, ver, data) ==
    [ver |-> ver, data |-> data,
     tomb |-> [k \in Keys |-> 0], tombOrder |-> <<>>,
     applied |-> {}, applyOrder |-> <<>>, fence |-> p.fence,
     epoch |-> p.epoch + 1, watermark |-> Cardinality(Loaded(ver)),
     records |-> Cardinality(Loaded(ver)), bytes |-> TotalBytes(data)]

-----------------------------------------------------------------------------
(* What is true of every partition the operators above build.              *)

Partition ==
    [ver : [Keys -> Nat], data : [Keys -> Data \cup {NoData}],
     tomb : [Keys -> Nat], tombOrder : Seq(Keys),
     applied : SUBSET Sources, applyOrder : Seq(Sources),
     fence : [Prefixes -> [version : Nat, refs : Nat]],
     epoch : Nat, watermark : Nat, records : Int, bytes : Int]

\* The sources of one prefix that the window remembers.
Remembered(p, f) == {s \in p.applied : PrefixOf(s) = f}

TombstonesOf(p) ==
    /\ \A k \in Keys : p.tomb[k] > 0 =>
          /\ p.ver[k] = 0
          /\ \E i \in DOMAIN p.tombOrder : p.tombOrder[i] = k
    /\ Len(p.tombOrder) <= MaxTombstones

WindowOf(p) ==
    /\ IsFiniteSet(p.applied)
    /\ p.applied = {p.applyOrder[i] : i \in DOMAIN p.applyOrder}
    /\ \A i, j \in DOMAIN p.applyOrder : p.applyOrder[i] = p.applyOrder[j] => i = j
    /\ Len(p.applyOrder) <= MaxAppliedEvents
    /\ \A f \in Prefixes : p.fence[f].refs >= Cardinality(Remembered(p, f))

CountersOf(p) ==
    /\ p.records = Cardinality(Live(p))
    /\ p.records <= MaxRecords
    /\ p.bytes <= MaxBytes

BytesOf(p) == p.bytes = TotalBytes(p.data)

\* Patching needs a payload to merge into, so a cell with a version has one.
EntriesOf(p) == \A k \in Keys : p.ver[k] > 0 => p.data[k] \in Data

Sound(p) ==
    /\ p \in Partition /\ EntriesOf(p) /\ TombstonesOf(p) /\ WindowOf(p)
    /\ CountersOf(p) /\ BytesOf(p)

CoveredBy(p, w) == \A k \in Keys : p.ver[k] <= w /\ p.tomb[k] <= w

\* What the operators above take for an event.
WellFormed(e) ==
    /\ e.key \in Keys
    /\ e.source \in Sources \cup {NoSource}
    /\ e.version \in Nat
    /\ e.op \in {"upsert", "patch"} => e.data \in Data
=============================================================================
