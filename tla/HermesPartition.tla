-------------------------- MODULE HermesPartition --------------------------
(***************************************************************************)
(* One Hermes projection partition as a state machine: batches applied     *)
(* under the partition mutex (applyBatchObserving and applyRecords in      *)
(* server-kit/go/hermes/apply.go), TTL retirement at the start of a batch, *)
(* and the snapshot swap of bulkLoadFrom (rebuild.go).  Readers take no    *)
(* lock, so every state below, the ones inside a batch included, is a      *)
(* state a reader can see.                                                 *)
(***************************************************************************)
EXTENDS HermesApply

CONSTANTS
    TTL,         \* whether the projection retires records (spec.TTL > 0)
    Versions,    \* versions events carry, 0 for an unversioned event
    MaxBatch,    \* model bound: events of one batch
    MaxEpoch     \* model bound: publications

ASSUME TTL \in BOOLEAN
ASSUME VersionsNat == Versions \subseteq Nat
ASSUME ModelBounds == MaxBatch \in Nat /\ MaxEpoch \in Nat

VARIABLES
    part,      \* the partition
    phase,     \* "idle": mutex free; "evict", "apply": held by a batch
    room,      \* events the batch may still hold
    accepted,  \* result.Applied > 0
    published  \* what the last epoch published: history, read by properties only

vars == <<part, phase, room, accepted, published>>

\* Only an upsert or a patch carries a payload that matters.
Event ==
    [op : {"upsert", "patch"}, key : Keys, source : Sources \cup {NoSource},
     version : Versions, data : Data]
    \cup
    [op : {"delete", "invalid"}, key : Keys, source : Sources \cup {NoSource},
     version : Versions, data : {NoData}]

View(p) == [ver |-> p.ver, data |-> p.data]

Init ==
    /\ part = NewPartition
    /\ phase = "idle"
    /\ room = 0
    /\ accepted = FALSE
    /\ published = View(NewPartition)

BeginBatch ==
    /\ phase = "idle"
    /\ part.epoch < MaxEpoch
    /\ phase' = "evict"
    /\ room' = MaxBatch
    /\ accepted' = FALSE
    /\ UNCHANGED <<part, published>>

\* evictExpiredLocked visits the live records in map order and retires those
\* whose deadline has passed; any of them may have.
EvictExpired(k) ==
    /\ TTL
    /\ phase = "evict"
    /\ k \in Live(part)
    /\ part' = Expire(part, k)
    /\ UNCHANGED <<phase, room, accepted, published>>

ApplyNext(e) ==
    /\ phase \in {"evict", "apply"}
    /\ room > 0
    /\ LET r == ApplyEvent(part, e)
       IN /\ part' = r.part
          /\ accepted' = (accepted \/ r.state = "applied")
    /\ phase' = "apply"
    /\ room' = room - 1
    /\ UNCHANGED published

\* The batch is exhausted, its context is cancelled, or a system error ends it.
EndBatch ==
    /\ phase \in {"evict", "apply"}
    /\ part' = FinishApply(part, accepted)
    /\ published' = IF part'.epoch > part.epoch THEN View(part') ELSE published
    /\ phase' = "idle"
    /\ room' = 0
    /\ accepted' = FALSE

\* The replacement is built outside the mutex from a source stream; a stream
\* that fails or does not fit changes nothing.
Load(ver, data) ==
    /\ phase = "idle"
    /\ part.epoch < MaxEpoch
    /\ Numbering(ver)
    /\ \A k \in Keys : (data[k] = NoData) <=> (ver[k] = 0)
    /\ LoadFits(ver, data)
    /\ part' = BulkLoad(part, ver, data)
    /\ published' = View(part')
    /\ UNCHANGED <<phase, room, accepted>>

Next ==
    \/ BeginBatch
    \/ \E k \in Keys : EvictExpired(k)
    \/ \E e \in Event : ApplyNext(e)
    \/ EndBatch
    \/ \E ver \in [Keys -> 0..Cardinality(Keys)], data \in [Keys -> Data \cup {NoData}] :
          Load(ver, data)

Spec == Init /\ [][Next]_vars

-----------------------------------------------------------------------------
(* Properties.                                                             *)

\* Every component of the partition has its type; no delete takes the record
\* counter below zero.
TypeOK ==
    /\ part \in Partition
    /\ part.records \in Nat
    /\ phase \in {"idle", "evict", "apply"}
    /\ room \in 0..MaxBatch
    /\ accepted \in BOOLEAN
    /\ published \in [ver : [Keys -> Nat], data : [Keys -> Data \cup {NoData}]]

\* A key is never live and tombstoned at once, and no tombstone escapes the
\* eviction order that bounds them (upsertLocked, deleteLocked,
\* rememberTombstoneLocked): the tombstones stay within MaxTombstones.
TombstonesSound == TombstonesOf(part)

\* The remembered sources and their order list the same identifiers, each
\* once, within MaxAppliedEvents; and a replay fence is held by at least as
\* many references as the window has sources of its prefix, so a fence is never
\* dropped while a remembered source still relies on it
\* (rememberAppliedLocked, through duplicates, evictions and bulk loads).
DedupWindowSound == WindowOf(part)

\* The record counter is the number of live records, and both counters stay
\* within MaxRecords and MaxBytes, through every order of upserts, patches,
\* deletes, expiries and bulk loads.
CountersSound == CountersOf(part)

\* The byte counter is the size of the live records: no upsert, patch, delete,
\* expiry or bulk load makes it drift from them.
BytesExact == BytesOf(part)

\* No live record and no tombstone is newer than the source watermark: a
\* snapshot labelled with the watermark holds nothing beyond it
\* (observeSourceWatermark against cells, tombstones and bulk loads).
WatermarkCovers == CoveredBy(part, part.watermark)

\* Between batches every live record is the one the last epoch published: a
\* reader that finds the epoch unchanged can have missed an expiry, never a
\* write (finishApplyLocked).
SincePublished ==
    \A k \in Live(part) : part.ver[k] = published.ver[k] /\ part.data[k] = published.data[k]

EpochCoversWrites == phase = "idle" => SincePublished

\* Inside a batch no step replaces a record by an older version or installs a
\* record below a tombstone of its key, nor does the watermark fall; the epoch
\* never falls at all (upsertLocked, patchLocked, deleteLocked,
\* evictExpiredLocked, finishApplyLocked, bulkLoadFrom).
NoRegress ==
    /\ part'.epoch >= part.epoch
    /\ phase # "idle" =>
        /\ part'.watermark >= part.watermark
        /\ \A k \in Keys : part'.ver[k] > 0 =>
              part'.ver[k] >= part.ver[k] /\ part'.ver[k] >= part.tomb[k]

NeverRegresses == [][NoRegress]_vars

\* The partition takes the event: no replay, not stale, and there is room.
Fresh(p, e) ==
    /\ e.op \in {"upsert", "delete"} /\ e.version > 0
    /\ ~AlreadyApplied(p, e.source, e.version) /\ ~Stale(p, e.key, e.version)
    /\ e.op = "upsert" => ~OverRecords(p, e.key) /\ ~OverBytes(p, e.key, e.data)

\* The tombstone of a delete is not evicted as it is added.
TombstoneFits(p, e) ==
    e.op = "delete" => p.tomb[e.key] > 0 \/ Len(p.tombOrder) < MaxTombstones

\* The records after two events, in this order.
AfterBoth(p, e, f) == View(ApplyEvent(ApplyEvent(p, e).part, f).part)

\* Delivery order does not matter to the newest event of a key: an upsert or delete
\* the partition takes and any event of its key with an older version, be it an
\* upsert, a patch or a delete, applied, dropped or rejected, leave the same records
\* in either order (applyEventLocked and the handlers under it: staleness, tombstones,
\* replay fences and both limits have to agree on it).
NewestWins ==
    phase = "idle" =>
      \A new \in {e \in Event : Fresh(part, e) /\ TombstoneFits(part, e)} :
        \A old \in {e \in Event : e.key = new.key /\ e.version \in 1..(new.version - 1)} :
          old.source # new.source \/ old.source = NoSource =>
            AfterBoth(part, old, new) = AfterBoth(part, new, old)

\* HermesDeleteDominates (hermes_hotplane.md): a step that retires a record
\* leaves the tombstone that keeps older events out.
DeleteLeavesTombstone ==
    [][phase # "idle" =>
         \A k \in Keys : part.ver[k] > 0 /\ part'.ver[k] = 0 => part'.tomb[k] > 0]_vars
=============================================================================
