----------------------- MODULE HermesPartitionProofs -----------------------
(***************************************************************************)
(* Safety of one Hermes partition for every set of keys, payloads and      *)
(* sources, every limit, batch size and number of publications.            *)
(***************************************************************************)
EXTENDS HermesPartition, HermesApplyProofs

\* The inductive invariant: the partition is sound and covered by its
\* watermark, and while nothing was accepted since the last publication the
\* live records are the published ones.
IInv ==
    /\ TypeOK
    /\ EntriesOf(part)
    /\ TombstonesSound
    /\ DedupWindowSound
    /\ CountersSound
    /\ BytesExact
    /\ WatermarkCovers
    /\ phase = "idle" => ~accepted
    /\ ~accepted => SincePublished

LEMMA IInvSound ==
    ASSUME IInv
    PROVE  Sound(part) /\ CoveredBy(part, part.watermark)
BY DEF IInv, TypeOK, Sound, TombstonesSound, DedupWindowSound, CountersSound, BytesExact, WatermarkCovers

LEMMA SoundRecords ==
    ASSUME NEW p, Sound(p)
    PROVE  p.records \in Nat
BY LiveFinite DEF Sound, CountersOf

LEMMA SoundIInv ==
    ASSUME Sound(part), CoveredBy(part, part.watermark),
           phase \in {"idle", "evict", "apply"}, room \in 0..MaxBatch, accepted \in BOOLEAN,
           published \in [ver : [Keys -> Nat], data : [Keys -> Data \cup {NoData}]],
           phase = "idle" => ~accepted, ~accepted => SincePublished
    PROVE  IInv
BY SoundRecords DEF IInv, TypeOK, Sound, TombstonesSound, DedupWindowSound, CountersSound, BytesExact,
   WatermarkCovers

\* Events of the model are events the lemmas of the apply core speak of.
LEMMA EventsWellFormed ==
    ASSUME NEW e \in Event
    PROVE  WellFormed(e)
<1>1. CASE e.op \in {"upsert", "patch"}
  BY <1>1, VersionsNat, Zenon DEF Event, WellFormed
<1>2. CASE e.op \notin {"upsert", "patch"}
  BY <1>2, VersionsNat, Zenon DEF Event, WellFormed
<1> QED BY <1>1, <1>2

\* Every snapshot of a partition's cells has the type of the published one.
LEMMA ViewType ==
    ASSUME NEW p \in Partition
    PROVE  /\ View(p) \in [ver : [Keys -> Nat], data : [Keys -> Data \cup {NoData}]]
           /\ View(p).ver = p.ver /\ View(p).data = p.data
BY DEF View, Partition

LEMMA InitIInv == Init => IInv
<1> SUFFICES ASSUME Init PROVE IInv
  OBVIOUS
<1>1. Sound(part) /\ CoveredBy(part, part.watermark)
  BY NewPartitionSound DEF Init
<1>2. published \in [ver : [Keys -> Nat], data : [Keys -> Data \cup {NoData}]]
      /\ published.ver = part.ver /\ published.data = part.data
  BY <1>1, ViewType DEF Init, Sound
<1>3. SincePublished
  BY <1>2 DEF SincePublished, Live
<1>4. phase \in {"idle", "evict", "apply"} /\ room \in 0..MaxBatch /\ accepted = FALSE
  BY ModelBounds DEF Init
<1> QED
  BY <1>1, <1>2, <1>3, <1>4, SoundIInv, Zenon

-----------------------------------------------------------------------------
(* One lemma per action: what it does to the partition, in the terms the   *)
(* invariant and the action property share.                                *)

StepSound ==
    /\ Sound(part') /\ CoveredBy(part', part'.watermark)
    /\ NoRegress

LEMMA BeginBatchStep ==
    ASSUME IInv, BeginBatch
    PROVE  IInv' /\ StepSound
<1>1. part' = part /\ published' = published /\ phase' = "evict" /\ room' = MaxBatch
      /\ accepted' = FALSE /\ phase = "idle"
  BY DEF BeginBatch
<1>2. Sound(part') /\ CoveredBy(part', part'.watermark)
  BY <1>1, IInvSound
<1>3. SincePublished'
  BY <1>1 DEF IInv, SincePublished, Live
<1>4. IInv'
  <2>0. MaxBatch \in 0..MaxBatch
    BY ModelBounds
  <2>1. room' \in 0..MaxBatch /\ accepted' \in BOOLEAN /\ phase' \in {"idle", "evict", "apply"}
    BY <1>1, <2>0, Zenon
  <2>2. published' \in [ver : [Keys -> Nat], data : [Keys -> Data \cup {NoData}]]
    BY <1>1 DEF IInv, TypeOK
  <2> QED
    BY <1>1, <1>2, <1>3, <2>1, <2>2, SoundRecords
     DEF IInv, TypeOK, Sound, TombstonesSound,
       DedupWindowSound, CountersSound, BytesExact, WatermarkCovers
<1>5. NoRegress
  BY <1>1 DEF NoRegress, IInv, TypeOK, Partition
<1> QED
  BY <1>2, <1>4, <1>5 DEF StepSound

LEMMA EvictExpiredStep ==
    ASSUME IInv, NEW k \in Keys, EvictExpired(k)
    PROVE  IInv' /\ StepSound
<1>1. /\ part' = Expire(part, k) /\ part.ver[k] > 0 /\ phase = "evict"
      /\ phase' = phase /\ room' = room /\ accepted' = accepted /\ published' = published
  BY DEF EvictExpired, Live
<1>2. Sound(part) /\ CoveredBy(part, part.watermark)
  BY IInvSound
<1>3. part.ver \in [Keys -> Nat] /\ part.tomb \in [Keys -> Nat]
      /\ part.watermark \in Nat /\ part.epoch \in Nat
  BY <1>2 DEF Sound, Partition
<1>4. Succeeds(part, part', part.ver[k])
  BY <1>1, <1>2, <1>3, RetireSucceeds DEF Expire
<1>5. CoveredBy(part', part'.watermark)
  BY <1>2, <1>3, <1>4 DEF Succeeds, CoveredBy
<1>6. \A j \in Keys : part'.ver[j] > 0 => part'.ver[j] = part.ver[j] /\ part'.data[j] = part.data[j]
  BY <1>1, <1>2, ExpireView
<1>7. ~accepted' => SincePublished'
  BY <1>1, <1>3, <1>6 DEF IInv, SincePublished, Live
<1>8. Sound(part')
  BY <1>4 DEF Succeeds
<1>9. IInv'
  BY <1>1, <1>5, <1>7, <1>8, SoundRecords
     DEF IInv, TypeOK, Sound, TombstonesSound,
     DedupWindowSound, CountersSound, BytesExact, WatermarkCovers
<1>10. NoRegress
  BY <1>3, <1>4 DEF NoRegress, Succeeds
<1> QED
  BY <1>5, <1>8, <1>9, <1>10 DEF StepSound

LEMMA ApplyNextStep ==
    ASSUME IInv, NEW e \in Event, ApplyNext(e)
    PROVE  IInv' /\ StepSound
<1> DEFINE r == ApplyEvent(part, e)
<1>1. /\ part' = r.part /\ accepted' = (accepted \/ r.state = "applied")
      /\ phase' = "apply" /\ room' = room - 1 /\ published' = published /\ room > 0
  BY DEF ApplyNext
<1>2. Sound(part) /\ CoveredBy(part, part.watermark)
  BY IInvSound
<1>3. WellFormed(e)
  BY EventsWellFormed
<1>4. /\ Sound(r.part) /\ CoveredBy(r.part, r.part.watermark)
      /\ r.part.epoch = part.epoch /\ r.part.watermark >= part.watermark
      /\ \A k \in Keys : r.part.ver[k] > 0 => r.part.ver[k] >= part.ver[k]
                                             /\ r.part.ver[k] >= part.tomb[k]
      /\ r.state # "applied" => r.part.ver = part.ver /\ r.part.data = part.data
  BY <1>2, <1>3, ApplyEventSound
<1> HIDE DEF r
<1>5. ~accepted' => SincePublished'
  BY <1>1, <1>4, Zenon DEF IInv, SincePublished, Live
<1>6. room' \in 0..MaxBatch /\ accepted' \in BOOLEAN
  BY <1>1, ModelBounds DEF IInv, TypeOK
<1>7. IInv'
  BY <1>1, <1>4, <1>5, <1>6, SoundRecords
     DEF IInv, TypeOK, Sound, TombstonesSound,
     DedupWindowSound, CountersSound, BytesExact, WatermarkCovers
<1>8. part.epoch \in Nat
  BY <1>2 DEF Sound, Partition
<1>9. NoRegress
  BY <1>1, <1>4, <1>8 DEF NoRegress
<1> QED
  BY <1>1, <1>4, <1>7, <1>9 DEF StepSound

LEMMA EndBatchStep ==
    ASSUME IInv, EndBatch
    PROVE  IInv' /\ StepSound
<1>1. /\ part' = FinishApply(part, accepted) /\ phase' = "idle" /\ room' = 0
      /\ published' = (IF part'.epoch > part.epoch THEN View(part') ELSE published)
      /\ accepted' = FALSE
  BY DEF EndBatch
<1>2. Sound(part) /\ CoveredBy(part, part.watermark)
  BY IInvSound
<1>3. /\ Sound(part') /\ part'.ver = part.ver /\ part'.data = part.data
      /\ part'.tomb = part.tomb /\ part'.watermark = part.watermark
      /\ part'.epoch = (IF accepted THEN part.epoch + 1 ELSE part.epoch)
  <2>1. accepted \in BOOLEAN
    BY DEF IInv, TypeOK
  <2> QED BY <1>1, <1>2, <2>1, FinishApplySound
<1>4. CoveredBy(part', part'.watermark)
  BY <1>2, <1>3 DEF CoveredBy
<1>5. published' \in [ver : [Keys -> Nat], data : [Keys -> Data \cup {NoData}]]
      /\ (accepted => published'.ver = part.ver /\ published'.data = part.data)
  <2>1. part.epoch \in Nat
    BY <1>2 DEF Sound, Partition
  <2>2. accepted => part'.epoch > part.epoch
    BY <1>3, <2>1
  <2>3. View(part') \in [ver : [Keys -> Nat], data : [Keys -> Data \cup {NoData}]]
        /\ View(part').ver = part.ver /\ View(part').data = part.data
    BY <1>3, ViewType DEF Sound
  <2>4. published \in [ver : [Keys -> Nat], data : [Keys -> Data \cup {NoData}]]
    BY DEF IInv, TypeOK
  <2> QED BY <1>1, <2>2, <2>3, <2>4
<1>6. SincePublished'
  <2>1. CASE accepted
    BY <1>3, <1>5, <2>1 DEF SincePublished, Live
  <2>2. CASE ~accepted
    <3>1. part'.epoch = part.epoch /\ part.epoch \in Nat
      BY <1>2, <1>3, <2>2 DEF Sound, Partition
    <3>2. published' = published
      BY <1>1, <3>1
    <3> QED BY <1>3, <2>2, <3>2 DEF IInv, SincePublished, Live
  <2> QED BY <2>1, <2>2
<1>7. room' \in 0..MaxBatch
  BY <1>1, ModelBounds
<1>8. IInv'
  BY <1>1, <1>3, <1>4, <1>5, <1>6, <1>7, SoundRecords, Zenon
     DEF IInv, TypeOK, Sound, TombstonesSound,
     DedupWindowSound, CountersSound, BytesExact, WatermarkCovers
<1>9. NoRegress
  <2>1. part.epoch \in Nat /\ part.watermark \in Nat /\ part.ver \in [Keys -> Nat]
        /\ part.tomb \in [Keys -> Nat]
    BY <1>2 DEF Sound, Partition
  <2>2. \A k \in Keys : part.tomb[k] > 0 => part.ver[k] = 0
    BY <1>2 DEF Sound, TombstonesOf
  <2> QED BY <1>3, <2>1, <2>2 DEF NoRegress
<1> QED
  BY <1>3, <1>4, <1>8, <1>9 DEF StepSound

LEMMA LoadStep ==
    ASSUME IInv, NEW ver \in [Keys -> 0..Cardinality(Keys)],
           NEW data \in [Keys -> Data \cup {NoData}], Load(ver, data)
    PROVE  IInv' /\ StepSound
<1>1. /\ part' = BulkLoad(part, ver, data) /\ published' = View(part')
      /\ phase' = phase /\ room' = room /\ accepted' = accepted /\ phase = "idle"
      /\ Numbering(ver) /\ LoadFits(ver, data)
      /\ \A k \in Keys : (data[k] = NoData) <=> (ver[k] = 0)
  BY DEF Load
<1>2. Sound(part)
  BY IInvSound
<1>3. ver \in [Keys -> Nat]
  BY FiniteKeys, FS_CardinalityType
<1>4. Sound(part') /\ CoveredBy(part', part'.watermark) /\ part'.epoch = part.epoch + 1
  BY <1>1, <1>2, <1>3, BulkLoadSound
<1>5. published' \in [ver : [Keys -> Nat], data : [Keys -> Data \cup {NoData}]]
      /\ published'.ver = part'.ver /\ published'.data = part'.data
  BY <1>1, <1>4, ViewType DEF Sound
<1>6. SincePublished'
  BY <1>5 DEF SincePublished, Live
<1>7. IInv'
  BY <1>1, <1>4, <1>5, <1>6, SoundRecords
     DEF IInv, TypeOK, Sound, TombstonesSound,
     DedupWindowSound, CountersSound, BytesExact, WatermarkCovers
<1>8. part.epoch \in Nat
  BY <1>2 DEF Sound, Partition
<1>9. NoRegress
  BY <1>1, <1>4, <1>8 DEF NoRegress
<1> QED
  BY <1>4, <1>7, <1>9 DEF StepSound

-----------------------------------------------------------------------------

LEMMA NextStep ==
    ASSUME IInv, [Next]_vars
    PROVE  IInv' /\ [NoRegress]_vars
<1>1. CASE BeginBatch
  BY <1>1, BeginBatchStep DEF StepSound
<1>2. ASSUME NEW k \in Keys, EvictExpired(k) PROVE IInv' /\ NoRegress
  BY <1>2, EvictExpiredStep DEF StepSound
<1>3. ASSUME NEW e \in Event, ApplyNext(e) PROVE IInv' /\ NoRegress
  BY <1>3, ApplyNextStep DEF StepSound
<1>4. CASE EndBatch
  BY <1>4, EndBatchStep DEF StepSound
<1>5. ASSUME NEW ver \in [Keys -> 0..Cardinality(Keys)],
             NEW data \in [Keys -> Data \cup {NoData}], Load(ver, data)
      PROVE  IInv' /\ NoRegress
  BY <1>5, LoadStep DEF StepSound
<1>6. CASE UNCHANGED vars
  BY <1>6 DEF vars, IInv, TypeOK, EntriesOf, TombstonesSound, DedupWindowSound,
     CountersSound, BytesExact, WatermarkCovers, SincePublished, Live
<1> QED
  BY <1>1, <1>2, <1>3, <1>4, <1>5, <1>6 DEF Next

\* The inductive invariant holds in every reachable state.
THEOREM Invariance == Spec => []IInv
<1>1. IInv /\ [Next]_vars => IInv'
  BY NextStep
<1> QED
  BY InitIInv, <1>1, PTL DEF Spec

\* Every field of the partition keeps its type through all batches, expiries
\* and bulk loads.
THEOREM TypeCorrect == Spec => []TypeOK
<1>1. IInv => TypeOK
  BY DEF IInv
<1> QED
  BY Invariance, <1>1, PTL

\* upsertLocked, deleteLocked and rememberTombstoneLocked never leave a key
\* both live and tombstoned, nor more tombstones than the bound.
THEOREM TombstonesCorrect == Spec => []TombstonesSound
<1>1. IInv => TombstonesSound
  BY DEF IInv
<1> QED
  BY Invariance, <1>1, PTL

\* rememberAppliedLocked keeps the dedup window bounded and free of repeats,
\* and holds a replay fence as long as a remembered source needs it.
THEOREM DedupWindowCorrect == Spec => []DedupWindowSound
<1>1. IInv => DedupWindowSound
  BY DEF IInv
<1> QED
  BY Invariance, <1>1, PTL

\* The counters upsertLocked compares with the limits are exact (records) and
\* never beyond them (records, bytes).
THEOREM CountersCorrect == Spec => []CountersSound
<1>1. IInv => CountersSound
  BY DEF IInv
<1> QED
  BY Invariance, <1>1, PTL

\* The byte counter never drifts from the payloads the cells hold, whatever
\* upserts, patches, deletes, expiries and bulk loads move it (upsertLocked,
\* patchLocked, deleteLocked, evictExpiredLocked, bulkLoadFrom).
THEOREM BytesCorrect == Spec => []BytesExact
<1>1. IInv => BytesExact
  BY DEF IInv
<1> QED
  BY Invariance, <1>1, PTL

\* observeSourceWatermark covers every live record and every tombstone, at
\* every point of a batch a reader may look.
THEOREM WatermarkCorrect == Spec => []WatermarkCovers
<1>1. IInv => WatermarkCovers
  BY DEF IInv
<1> QED
  BY Invariance, <1>1, PTL

\* finishApplyLocked: with the mutex free, the live records are those of the
\* last published epoch.
THEOREM EpochCorrect == Spec => []EpochCoversWrites
<1>1. IInv => EpochCoversWrites
  BY DEF IInv, EpochCoversWrites
<1> QED
  BY Invariance, <1>1, PTL

\* No batch step replaces a record by an older one or lets one in below its
\* tombstone, and neither the epoch nor, in a batch, the watermark falls.
THEOREM NoRegression == Spec => NeverRegresses
<1>1. IInv /\ [Next]_vars => [NoRegress]_vars
  BY NextStep
<1> QED
  BY Invariance, <1>1, PTL DEF Spec, NeverRegresses

-----------------------------------------------------------------------------
(* Delivery order.                                                         *)

\* An absent replay fence has no version.
FencesOf(p) == \A f \in Prefixes : p.fence[f].refs = 0 => p.fence[f].version = 0

\* A mutation writes the cell of its key and no other, and leaves window and fences.
LEMMA MutationFrame ==
    ASSUME NEW p, Sound(p), NEW e, WellFormed(e), NEW v \in Nat \ {0}
    PROVE  LET q == ApplyMutation(p, e, v).part
           IN /\ \A j \in Keys \ {e.key} : q.ver[j] = p.ver[j] /\ q.data[j] = p.data[j]
              /\ q.applied = p.applied /\ q.fence = p.fence
<1> DEFINE k == e.key
           q == ApplyMutation(p, e, v).part
           c == ClearEntry(p, k)
<1>0. p \in Partition /\ k \in Keys
  BY DEF Sound, WellFormed
<1>1. \/ q = p \/ q = RememberTombstone(c, k, v)
      \/ q = StoreEntry(p, k, e.data, v) \/ q = StoreEntry(p, k, Merge(p.data[k], e.data), v)
  <2>1. CASE e.op = "upsert"
    BY <2>1 DEF ApplyMutation, Upsert, Outcome
  <2>2. CASE e.op = "patch"
    BY <2>2 DEF ApplyMutation, Patch, Outcome
  <2>3. CASE e.op = "delete"
    BY <2>3 DEF ApplyMutation, Delete, Outcome
  <2>4. CASE e.op \notin {"upsert", "patch", "delete"}
    BY <2>4 DEF ApplyMutation, Outcome
  <2> QED BY <2>1, <2>2, <2>3, <2>4, Zenon
<1> HIDE DEF q
<1>2. CASE q = p
  BY <1>2 DEF q
<1>3. ASSUME NEW d, q = StoreEntry(p, k, d, v)
      PROVE  /\ \A j \in Keys \ {k} : q.ver[j] = p.ver[j] /\ q.data[j] = p.data[j]
             /\ q.applied = p.applied /\ q.fence = p.fence
  <2>1. /\ q.ver = [p.ver EXCEPT ![k] = v] /\ q.data = [p.data EXCEPT ![k] = d]
        /\ q.applied = p.applied /\ q.fence = p.fence
    BY <1>0, <1>3, Zenon DEF StoreEntry, Partition
  <2>2. p.ver \in [Keys -> Nat] /\ p.data \in [Keys -> Data \cup {NoData}]
    BY <1>0 DEF Partition
  <2> QED BY <2>1, <2>2
<1>4. CASE q = RememberTombstone(c, k, v)
  <2>1. /\ c.ver = [p.ver EXCEPT ![k] = 0] /\ c.data = [p.data EXCEPT ![k] = NoData]
        /\ c.applied = p.applied /\ c.fence = p.fence
    BY <1>0, Zenon DEF ClearEntry, Partition
  <2>2. c \in Partition
    BY <1>0, ClearEntryType
  <2> HIDE DEF c
  <2>3. q.ver = c.ver /\ q.data = c.data /\ q.applied = c.applied /\ q.fence = c.fence
    BY <1>4, <2>2, Zenon DEF RememberTombstone, Partition
  <2>4. p.ver \in [Keys -> Nat] /\ p.data \in [Keys -> Data \cup {NoData}]
    BY <1>0 DEF Partition
  <2> QED BY <2>1, <2>3, <2>4 DEF q
<1> QED BY <1>1, <1>2, <1>3, <1>4 DEF q

\* What an event that carries a version may have changed: the cell and the
\* tombstone of its key, one more remembered source, and fences up to its version.
Touches(p, q, k, s, v) ==
    /\ \A j \in Keys \ {k} : q.ver[j] = p.ver[j] /\ q.data[j] = p.data[j]
    /\ q.ver[k] \in {p.ver[k], 0, v} /\ q.tomb[k] \in {p.tomb[k], 0, v}
    /\ q.applied \subseteq p.applied \cup {s}
    /\ \A f \in Prefixes : q.fence[f].version \in {p.fence[f].version, 0, v}

LEMMA EventTouches ==
    ASSUME NEW p, Sound(p), NEW e, WellFormed(e), e.version > 0
    PROVE  Touches(p, ApplyEvent(p, e).part, e.key, e.source, e.version)
<1> DEFINE v == e.version
           m == ApplyMutation(p, e, v)
           n == RememberApplied(m.part, e.source, v)
           o == ObserveWatermark(n, v)
           r == ApplyEvent(p, e)
<1>0. /\ v \in Nat \ {0} /\ EffectiveVersion(p, v) = v /\ e.key \in Keys
      /\ e.source \in Sources \cup {NoSource}
  BY DEF WellFormed, EffectiveVersion
<1>1. /\ \A j \in Keys \ {e.key} : m.part.ver[j] = p.ver[j] /\ m.part.data[j] = p.data[j]
      /\ m.part.applied = p.applied /\ m.part.fence = p.fence
  BY <1>0, MutationFrame, Zenon
<1>2. Succeeds(p, m.part, v) /\ m.state \in States /\ (m.state # "applied" => m.part = p)
  BY <1>0, MutationSucceeds
<1>3. r.part \in {p, n, o}
  <2> HIDE DEF m
  <2>2. r = LET w == v IN
            CASE AlreadyApplied(p, e.source, w) -> Outcome("duplicate", p)
              [] ~AlreadyApplied(p, e.source, w) /\ m.state = "rejected" -> m
              [] ~AlreadyApplied(p, e.source, w) /\ m.state = "ignored"  -> Outcome("ignored", n)
              [] OTHER -> Outcome("applied", o)
    BY <1>0, Zenon DEF ApplyEvent, m
  <2> HIDE DEF n, o, r
  <2> QED BY <1>2, <2>2 DEF Outcome
<1> HIDE DEF m
<1>4. /\ m.part \in Partition
      /\ m.part.ver[e.key] \in {p.ver[e.key], 0, v} /\ m.part.tomb[e.key] \in {p.tomb[e.key], 0, v}
  BY <1>0, <1>2 DEF Succeeds, Sound
<1>5. /\ n.applied \subseteq m.part.applied \cup {e.source}
      /\ \A f \in Prefixes : n.fence[f].version \in {m.part.fence[f].version, 0, v}
  BY <1>0, <1>4, RememberAppliedValues
<1>6. n.ver = m.part.ver /\ n.data = m.part.data /\ n.tomb = m.part.tomb /\ n \in Partition
  <2>1. n \in Partition
    BY <1>0, <1>4, RememberAppliedType
  <2> QED BY <1>4, <2>1, Zenon DEF RememberApplied, Partition
<1> HIDE DEF n
<1>7. /\ o.ver = n.ver /\ o.data = n.data /\ o.tomb = n.tomb
      /\ o.applied = n.applied /\ o.fence = n.fence
  BY <1>6, Zenon DEF ObserveWatermark, Partition
<1> HIDE DEF o, r
<1>8. Touches(p, p, e.key, e.source, v)
  BY Zenon DEF Touches
<1>9. Touches(p, n, e.key, e.source, v)
  BY <1>1, <1>4, <1>5, <1>6, Zenon DEF Touches
<1>10. Touches(p, o, e.key, e.source, v)
  BY <1>7, <1>9, Zenon DEF Touches
<1> QED BY <1>3, <1>8, <1>9, <1>10, Zenon DEF r

\* Room for an upsert does not depend on what its cell holds.
LEMMA RoomKept ==
    ASSUME NEW p, Sound(p), NEW q, Sound(q), NEW k \in Keys, NEW d \in Data,
           \A j \in Keys \ {k} : q.ver[j] = p.ver[j] /\ q.data[j] = p.data[j],
           ~OverRecords(p, k), ~OverBytes(p, k, d)
    PROVE  ~OverRecords(q, k) /\ ~OverBytes(q, k, d)
<1>0. /\ p \in Partition /\ q \in Partition /\ p.ver \in [Keys -> Nat] /\ q.ver \in [Keys -> Nat]
      /\ p.data \in [Keys -> Data \cup {NoData}] /\ q.data \in [Keys -> Data \cup {NoData}]
      /\ p.records = Cardinality(Live(p)) /\ q.records = Cardinality(Live(q))
      /\ p.records <= MaxRecords /\ p.bytes = TotalBytes(p.data) /\ q.bytes = TotalBytes(q.data)
      /\ p.bytes \in Int /\ q.bytes \in Int
  BY DEF Sound, Partition, CountersOf, BytesOf
<1>1. ~OverRecords(q, k)
  <2> SUFFICES ASSUME q.ver[k] = 0 PROVE q.records < MaxRecords
    <3>1. q.records \in Nat
      BY <1>0, LiveFinite
    <3> QED BY <3>1, BoundsPositive DEF OverRecords
  <2>1. Live(q) = Live(p) \ {k}
    BY <1>0 DEF Live
  <2>2. IsFiniteSet(Live(p)) /\ Cardinality(Live(p)) \in Nat
    BY <1>0, LiveFinite
  <2>3. CASE p.ver[k] = 0
    <3>1. Live(q) = Live(p)
      BY <2>1, <2>3 DEF Live
    <3> QED BY <1>0, <2>2, <2>3, <3>1, BoundsPositive DEF OverRecords
  <2>4. CASE p.ver[k] # 0
    <3>1. k \in Live(p)
      BY <1>0, <2>4 DEF Live
    <3>2. Cardinality(Live(q)) = Cardinality(Live(p)) - 1
      BY <2>1, <2>2, <3>1, FS_RemoveElement, Zenon
    <3> QED BY <1>0, <2>2, <3>2, BoundsPositive
  <2> QED BY <2>3, <2>4
<1>2. ~OverBytes(q, k, d)
  <2>1. q.data = [p.data EXCEPT ![k] = q.data[k]]
    BY <1>0
  <2>2. TotalBytes(q.data) = TotalBytes(p.data) + Bytes(q.data[k]) - Bytes(p.data[k])
    BY <1>0, <2>1, BytesReplaced
  <2>3. Bytes(d) \in Nat /\ Bytes(p.data[k]) \in Nat /\ Bytes(q.data[k]) \in Nat
    BY <1>0, CellBytes
  <2>4. q.bytes + Bytes(d) - Bytes(q.data[k]) = p.bytes + Bytes(d) - Bytes(p.data[k])
    BY <1>0, <2>2, <2>3
  <2> QED BY <2>4 DEF OverBytes
<1> QED BY <1>1, <1>2

\* An older event of the key does not keep the partition from taking the newer one.
LEMMA StillFresh ==
    ASSUME NEW p, Sound(p), FencesOf(p), NEW q, Sound(q), NEW new, WellFormed(new), Fresh(p, new),
           NEW s, NEW v \in Nat, v < new.version, s # new.source \/ s = NoSource,
           Touches(p, q, new.key, s, v)
    PROVE  Fresh(q, new)
<1> DEFINE k == new.key
           w == new.version
<1>0. k \in Keys /\ w \in Nat \ {0} /\ (new.op = "upsert" => new.data \in Data)
  BY DEF Fresh, WellFormed
<1>1. /\ p.ver[k] \in Nat /\ q.ver[k] \in Nat /\ p.tomb[k] \in Nat /\ q.tomb[k] \in Nat
      /\ p.fence \in [Prefixes -> [version : Nat, refs : Nat]]
      /\ q.fence \in [Prefixes -> [version : Nat, refs : Nat]]
  BY <1>0 DEF Sound, Partition
<1>2. ~Stale(q, k, w)
  <2>1. ~(w < p.tomb[k]) /\ ~(w < p.ver[k])
    BY Zenon DEF Fresh, Stale, BlockedByNewerTombstone
  <2>2. q.ver[k] \in {p.ver[k], 0, v} /\ q.tomb[k] \in {p.tomb[k], 0, v}
    BY Zenon DEF Touches
  <2>3. ~(w < q.tomb[k]) /\ ~(w < q.ver[k])
    BY <1>0, <1>1, <2>1, <2>2
  <2> QED BY <2>3, Zenon DEF Stale, BlockedByNewerTombstone
<1>3. ~AlreadyApplied(q, new.source, w)
  <2>1. SUFFICES ASSUME new.source # NoSource PROVE new.source \notin q.applied /\ ~Fenced(q, new.source, w)
    BY Zenon DEF AlreadyApplied
  <2>2. new.source \notin p.applied /\ ~Fenced(p, new.source, w)
    BY <2>1, Zenon DEF Fresh, AlreadyApplied
  <2>3. new.source \notin q.applied
    BY <2>1, <2>2, Zenon DEF Touches
  <2>4. ASSUME Scoped(new.source) PROVE w > q.fence[PrefixOf(new.source)].version
    <3> DEFINE f == PrefixOf(new.source)
    <3>1. f \in Prefixes
      BY <2>4 DEF Scoped
    <3>2. p.fence[f].version \in Nat /\ p.fence[f].refs \in Nat
      BY <1>1, <3>1
    <3>3. ~(p.fence[f].refs > 0 /\ w <= p.fence[f].version)
      BY <2>2, <2>4, Zenon DEF Fenced
    <3>4. p.fence[f].refs = 0 => p.fence[f].version = 0
      BY <3>1, Zenon DEF FencesOf
    <3>5. q.fence[f].version \in {p.fence[f].version, 0, v}
      BY <3>1, Zenon DEF Touches
    <3> HIDE DEF f
    <3>6. w > p.fence[f].version
      BY <1>0, <3>2, <3>3, <3>4
    <3>7. w > q.fence[f].version
      BY <1>0, <3>2, <3>5, <3>6
    <3> QED BY <3>7 DEF f
  <2>5. ~Fenced(q, new.source, w)
    <3>1. ASSUME Scoped(new.source) PROVE q.fence[PrefixOf(new.source)].version \in Nat
      BY <1>1, <3>1 DEF Scoped
    <3> QED BY <1>0, <2>4, <3>1 DEF Fenced
  <2> QED BY <2>3, <2>5
<1>4. ASSUME new.op = "upsert" PROVE ~OverRecords(q, k) /\ ~OverBytes(q, k, new.data)
  BY <1>0, <1>4, RoomKept, Zenon DEF Fresh, Touches
<1> QED BY <1>2, <1>3, <1>4 DEF Fresh

\* An event older than the record or the tombstone of its key changes no record.
LEMMA OlderDropped ==
    ASSUME NEW p, Sound(p), CoveredBy(p, p.watermark), NEW e, WellFormed(e), e.version > 0,
           e.version < p.ver[e.key] \/ (p.ver[e.key] = 0 /\ e.version < p.tomb[e.key])
    PROVE  LET q == ApplyEvent(p, e).part IN q.ver = p.ver /\ q.data = p.data
<1> DEFINE v == e.version
           m == ApplyMutation(p, e, v)
           r == ApplyEvent(p, e)
<1>0. v \in Nat \ {0} /\ EffectiveVersion(p, v) = v /\ e.key \in Keys /\ p.ver[e.key] \in Nat
  BY DEF WellFormed, EffectiveVersion, Sound, Partition
<1>1. m.state \in {"ignored", "rejected"}
  <2>0. Stale(p, e.key, v)
    BY DEF Stale, BlockedByNewerTombstone
  <2>1. CASE e.op = "upsert"
    BY <2>0, <2>1 DEF ApplyMutation, Upsert, Outcome
  <2>2. CASE e.op = "patch"
    BY <2>0, <2>2 DEF ApplyMutation, Patch, Outcome
  <2>3. CASE e.op = "delete"
    BY <2>3 DEF ApplyMutation, Delete, Outcome, BlockedByNewerTombstone
  <2>4. CASE e.op \notin {"upsert", "patch", "delete"}
    BY <2>4 DEF ApplyMutation, Outcome
  <2> QED BY <2>1, <2>2, <2>3, <2>4, Zenon
<1>2. r.state # "applied"
  <2> DEFINE n == RememberApplied(m.part, e.source, v)
             o == ObserveWatermark(n, v)
  <2> HIDE DEF m
  <2>2. r = LET w == v IN
            CASE AlreadyApplied(p, e.source, w) -> Outcome("duplicate", p)
              [] ~AlreadyApplied(p, e.source, w) /\ m.state = "rejected" -> m
              [] ~AlreadyApplied(p, e.source, w) /\ m.state = "ignored"  -> Outcome("ignored", n)
              [] OTHER -> Outcome("applied", o)
    BY <1>0, Zenon DEF ApplyEvent, m
  <2> HIDE DEF n, o, r
  <2> QED BY <1>1, <2>2 DEF Outcome
<1> HIDE DEF m
<1> QED BY <1>2, ApplyEventSound, Zenon

\* A delete that is taken leaves its tombstone when there is a place for it.
LEMMA TombstoneLeft ==
    ASSUME NEW p, Sound(p), NEW e, WellFormed(e), e.op = "delete", Fresh(p, e), TombstoneFits(p, e)
    PROVE  ApplyEvent(p, e).part.tomb[e.key] = e.version
<1> DEFINE k == e.key
           v == e.version
           c == ClearEntry(p, k)
           m == ApplyMutation(p, e, v)
           n == RememberApplied(m.part, e.source, v)
           o == ObserveWatermark(n, v)
           r == ApplyEvent(p, e)
<1>0. /\ p \in Partition /\ k \in Keys /\ v \in Nat \ {0} /\ EffectiveVersion(p, v) = v
      /\ e.source \in Sources \cup {NoSource}
  BY DEF Sound, WellFormed, EffectiveVersion, Fresh
<1>1. m = Outcome("applied", RememberTombstone(c, k, v))
  <2>1. ~(v < p.ver[k]) /\ ~BlockedByNewerTombstone(p, k, v)
    BY Zenon DEF Fresh, Stale
  <2>2. m = Delete(p, k, v)
    BY DEF ApplyMutation
  <2> QED BY <2>1, <2>2, Zenon DEF Delete
<1>2. c \in Partition /\ c.tomb = p.tomb /\ c.tombOrder = p.tombOrder
  BY <1>0, ClearEntryType, Zenon DEF ClearEntry, Partition
<1>3. r = Outcome("applied", o)
  <2>1. ~AlreadyApplied(p, e.source, v) /\ m.state = "applied"
    BY <1>1 DEF Fresh, Outcome
  <2> HIDE DEF m
  <2>2. r = LET w == v IN
            CASE AlreadyApplied(p, e.source, w) -> Outcome("duplicate", p)
              [] ~AlreadyApplied(p, e.source, w) /\ m.state = "rejected" -> m
              [] ~AlreadyApplied(p, e.source, w) /\ m.state = "ignored"  -> Outcome("ignored", n)
              [] OTHER -> Outcome("applied", o)
    BY <1>0, Zenon DEF ApplyEvent, m
  <2> QED BY <2>1, <2>2 DEF Outcome
<1> HIDE DEF c
<1>4. m.part \in Partition /\ m.part.tomb[k] = v
  <2> DEFINE order == IF c.tomb[k] = 0 THEN Append(c.tombOrder, k) ELSE c.tombOrder
             tomb == [c.tomb EXCEPT ![k] = v]
             full == Len(order) > MaxTombstones
  <2>1. m.part = RememberTombstone(c, k, v)
    BY <1>1 DEF Outcome
  <2>2. RememberTombstone(c, k, v) \in Partition
    BY <1>0, <1>2, RememberTombstoneType
  <2>3. RememberTombstone(c, k, v).tomb = IF full THEN [tomb EXCEPT ![Head(order)] = 0] ELSE tomb
    BY <1>2, Zenon DEF RememberTombstone, Partition
  <2>4. p.tomb \in [Keys -> Nat] /\ p.tombOrder \in Seq(Keys) /\ Len(p.tombOrder) <= MaxTombstones
    BY <1>0 DEF Sound, Partition, TombstonesOf
  <2>5. Len(p.tombOrder) \in Nat /\ Len(Append(p.tombOrder, k)) = Len(p.tombOrder) + 1
    BY <1>0, <2>4, LenFacts, AppendFacts
  <2>6. ~full
    <3>1. p.tomb[k] > 0 \/ Len(p.tombOrder) < MaxTombstones
      BY DEF TombstoneFits
    <3>2. CASE c.tomb[k] = 0
      BY <1>0, <1>2, <2>4, <2>5, <3>1, <3>2, BoundsPositive
    <3>3. CASE c.tomb[k] # 0
      BY <1>2, <2>4, <2>5, <3>3, BoundsPositive
    <3> QED BY <3>2, <3>3
  <2>7. tomb[k] = v
    BY <1>0, <1>2, <2>4
  <2> HIDE DEF order, tomb, full
  <2> QED BY <2>1, <2>2, <2>3, <2>6, <2>7, Zenon
<1> HIDE DEF m
<1>5. n.tomb = m.part.tomb /\ n \in Partition
  <2>1. n \in Partition
    BY <1>0, <1>4, RememberAppliedType
  <2> QED BY <1>4, <2>1, Zenon DEF RememberApplied, Partition
<1> HIDE DEF n
<1>6. o.tomb = n.tomb
  BY <1>5, Zenon DEF ObserveWatermark, Partition
<1> HIDE DEF o, r
<1>7. r.part = o
  BY <1>3 DEF Outcome
<1> QED BY <1>4, <1>5, <1>6, <1>7, Zenon DEF r

\* In any sound partition: an upsert or a delete that is taken and an older event of
\* its key leave the same records in either order of delivery.
THEOREM OrderIrrelevant ==
    ASSUME NEW p, Sound(p), CoveredBy(p, p.watermark), FencesOf(p),
           NEW new, WellFormed(new), Fresh(p, new), TombstoneFits(p, new),
           NEW old, WellFormed(old), old.key = new.key, old.version \in 1..(new.version - 1),
           old.source # new.source \/ old.source = NoSource
    PROVE  AfterBoth(p, old, new) = AfterBoth(p, new, old)
<1> DEFINE k == new.key
           w == IF new.op = "upsert" THEN new.version ELSE 0
           d == IF new.op = "upsert" THEN new.data ELSE NoData
           x == ApplyEvent(p, old).part
           y == ApplyEvent(p, new).part
           xy == ApplyEvent(x, new).part
           yx == ApplyEvent(y, old).part
<1>0. /\ k \in Keys /\ new.op \in {"upsert", "delete"} /\ new.version \in Nat \ {0}
      /\ old.version \in Nat /\ old.version > 0 /\ old.version < new.version
  BY DEF Fresh, WellFormed
<1>1. Sound(x) /\ Touches(p, x, k, old.source, old.version)
  BY <1>0, ApplyEventSound, EventTouches, Zenon
<1>2. Sound(y) /\ CoveredBy(y, y.watermark)
  BY ApplyEventSound, Zenon
<1>3. y.ver = [p.ver EXCEPT ![k] = w] /\ y.data = [p.data EXCEPT ![k] = d]
  BY FreshEventApplied, Zenon DEF Fresh
<1>t. new.op = "delete" => y.tomb[k] = new.version
  BY TombstoneLeft, Zenon
<1> HIDE DEF x
<1>4. Fresh(x, new)
  BY <1>0, <1>1, StillFresh, Zenon
<1>5. xy.ver = [x.ver EXCEPT ![k] = w] /\ xy.data = [x.data EXCEPT ![k] = d]
  BY <1>1, <1>4, FreshEventApplied, Zenon DEF Fresh
<1> HIDE DEF y, d
<1>6. /\ p.ver \in [Keys -> Nat] /\ x.ver \in [Keys -> Nat]
      /\ p.data \in [Keys -> Data \cup {NoData}] /\ x.data \in [Keys -> Data \cup {NoData}]
  BY <1>1 DEF Sound, Partition
<1>7. yx.ver = y.ver /\ yx.data = y.data
  <2>1. y.ver[k] = w
    BY <1>0, <1>3, <1>6
  <2>2. \/ old.version < y.ver[old.key]
        \/ y.ver[old.key] = 0 /\ old.version < y.tomb[old.key]
    BY <1>0, <1>t, <2>1
  <2> QED BY <1>0, <1>2, <2>2, OlderDropped, Zenon
<1> HIDE DEF xy, yx, w
<1>8. \A j \in Keys \ {k} : x.ver[j] = p.ver[j] /\ x.data[j] = p.data[j]
  BY <1>1, Zenon DEF Touches
<1>9. [x.ver EXCEPT ![k] = w] = [p.ver EXCEPT ![k] = w]
      /\ [x.data EXCEPT ![k] = d] = [p.data EXCEPT ![k] = d]
  BY <1>0, <1>6, <1>8
<1>10. xy.ver = yx.ver /\ xy.data = yx.data
  BY <1>3, <1>5, <1>7, <1>9, Zenon
<1> QED BY <1>10, Zenon DEF AfterBoth, View, x, y, xy, yx

\* References and versions of the fences go together.
LEMMA RefsKept ==
    ASSUME NEW p \in Partition, FencesOf(p), NEW s \in Sources \cup {NoSource}, NEW v \in Nat
    PROVE  FencesOf(RememberApplied(p, s, v))
<1> DEFINE q == RememberApplied(p, s, v)
           fence == AddRef(p.fence, s, v)
           order == Append(p.applyOrder, s)
           old   == Head(order)
           full  == Len(order) > MaxAppliedEvents
<1>0. p.fence \in [Prefixes -> [version : Nat, refs : Nat]]
  BY DEF Partition
<1>1. CASE s = NoSource \/ s \in p.applied
  BY <1>1 DEF RememberApplied
<1>2. CASE ~(s = NoSource \/ s \in p.applied)
  <2>1. q.fence = IF full THEN DropRef(fence, old) ELSE fence
    BY <1>2, Zenon DEF RememberApplied, Partition
  <2> HIDE DEF order, old, full, q
  <2>2. fence \in [Prefixes -> [version : Nat, refs : Nat]]
    BY <1>0, AddRefValues
  <2>3. \A g \in Prefixes : fence[g].refs = 0 => fence[g].version = 0
    BY <1>0 DEF AddRef, Scoped, FencesOf
  <2> HIDE DEF fence
  <2>4. \A g \in Prefixes : DropRef(fence, old)[g].refs = 0 => DropRef(fence, old)[g].version = 0
    BY <2>2, <2>3 DEF DropRef, Scoped
  <2> QED BY <2>1, <2>3, <2>4, Zenon DEF FencesOf, q
<1> QED BY <1>1, <1>2

LEMMA EventFences ==
    ASSUME NEW p, Sound(p), FencesOf(p), NEW e, WellFormed(e)
    PROVE  FencesOf(ApplyEvent(p, e).part)
<1> DEFINE v == EffectiveVersion(p, e.version)
           m == ApplyMutation(p, e, v)
           n == RememberApplied(m.part, e.source, v)
           o == ObserveWatermark(n, v)
           r == ApplyEvent(p, e)
<1>0. p \in Partition /\ e.version \in Nat /\ e.source \in Sources \cup {NoSource}
  BY DEF Sound, WellFormed
<1>1. v \in Nat \ {0}
  BY <1>0, EffectiveVersionPositive
<1> HIDE DEF v
<1>2. Succeeds(p, m.part, v) /\ m.state \in States /\ (m.state # "applied" => m.part = p)
  BY <1>1, MutationSucceeds
<1>3. m.part.fence = p.fence
  BY <1>1, MutationFrame
<1>4. r.part \in {p, n, o}
  <2> HIDE DEF m
  <2>1. r = CASE AlreadyApplied(p, e.source, v) -> Outcome("duplicate", p)
              [] ~AlreadyApplied(p, e.source, v) /\ m.state = "rejected" -> m
              [] ~AlreadyApplied(p, e.source, v) /\ m.state = "ignored"  -> Outcome("ignored", n)
              [] OTHER -> Outcome("applied", o)
    BY Zenon DEF ApplyEvent, m, v
  <2> HIDE DEF n, o, r
  <2> QED BY <1>2, <2>1 DEF Outcome
<1> HIDE DEF m
<1>5. FencesOf(n) /\ n \in Partition
  <2>1. m.part \in Partition /\ FencesOf(m.part)
    BY <1>2, <1>3, Zenon DEF Succeeds, Sound, FencesOf
  <2>2. v \in Nat
    BY <1>1
  <2> QED BY <1>0, <2>1, <2>2, RefsKept, RememberAppliedType, Zenon
<1> HIDE DEF n
<1>6. FencesOf(o)
  <2>1. o.fence = n.fence
    BY <1>5, Zenon DEF ObserveWatermark, Partition
  <2> QED BY <1>5, <2>1, Zenon DEF FencesOf
<1> HIDE DEF o, r
<1> QED BY <1>4, <1>5, <1>6, Zenon DEF r

\* Every step keeps the fences: expiry, publication and load do not touch them.
LEMMA FencesStep ==
    ASSUME IInv, FencesOf(part), [Next]_vars
    PROVE  FencesOf(part)'
<1>0. Sound(part) /\ part \in Partition
  BY IInvSound DEF Sound
<1>1. CASE BeginBatch \/ UNCHANGED vars
  BY <1>1 DEF BeginBatch, vars, FencesOf
<1>2. ASSUME NEW k \in Keys, EvictExpired(k) PROVE FencesOf(part)'
  <2> DEFINE c == ClearEntry(part, k)
  <2>1. c \in Partition /\ c.fence = part.fence
    BY <1>0, ClearEntryType, Zenon DEF ClearEntry, Partition
  <2>2. part' = RememberTombstone(c, k, part.ver[k])
    BY <1>2, Zenon DEF EvictExpired, Expire
  <2> HIDE DEF c
  <2>3. part'.fence = c.fence
    BY <2>1, <2>2, Zenon DEF RememberTombstone, Partition
  <2> QED BY <2>1, <2>3, Zenon DEF FencesOf
<1>3. ASSUME NEW e \in Event, ApplyNext(e) PROVE FencesOf(part)'
  <2>1. part' = ApplyEvent(part, e).part
    BY <1>3, Zenon DEF ApplyNext
  <2> QED BY <1>0, <2>1, EventsWellFormed, EventFences, Zenon
<1>4. CASE EndBatch
  <2>1. part'.fence = part.fence
    BY <1>0, <1>4, Zenon DEF EndBatch, FinishApply, Partition
  <2> QED BY <2>1, Zenon DEF FencesOf
<1>5. ASSUME NEW ver \in [Keys -> 0..Cardinality(Keys)],
             NEW data \in [Keys -> Data \cup {NoData}], Load(ver, data)
      PROVE  FencesOf(part)'
  <2>1. part'.fence = part.fence
    BY <1>5 DEF Load, BulkLoad
  <2> QED BY <2>1, Zenon DEF FencesOf
<1> QED BY <1>1, <1>2, <1>3, <1>4, <1>5 DEF Next

\* Between batches the order in which the newest event of a key and an older one arrive
\* does not matter to the records (applyEventLocked, upsertLocked, patchLocked,
\* deleteLocked, rememberAppliedLocked).
THEOREM NewestCorrect == Spec => []NewestWins
<1>1. Init => FencesOf(part)
  BY DEF Init, NewPartition, NoFence, FencesOf
<1>2. IInv /\ FencesOf(part) /\ [Next]_vars => FencesOf(part)'
  BY FencesStep
<1>3. IInv /\ FencesOf(part) => NewestWins
  <2> SUFFICES ASSUME IInv, FencesOf(part),
                      NEW new \in Event, Fresh(part, new), TombstoneFits(part, new),
                      NEW old \in Event, old.key = new.key, old.version \in 1..(new.version - 1),
                      old.source # new.source \/ old.source = NoSource
               PROVE  AfterBoth(part, old, new) = AfterBoth(part, new, old)
    BY Zenon DEF NewestWins
  <2> QED BY IInvSound, EventsWellFormed, OrderIrrelevant, Zenon
<1> QED
  BY Invariance, <1>1, <1>2, <1>3, PTL DEF Spec

-----------------------------------------------------------------------------
(* Delivery again.                                                         *)

\* The window evicts its oldest source, never the one just remembered.
LEMMA Remembers ==
    ASSUME NEW p \in Partition, WindowOf(p), NEW s \in Sources, NEW v \in Nat
    PROVE  s \in RememberApplied(p, s, v).applied
<1> DEFINE q == RememberApplied(p, s, v)
           order == Append(p.applyOrder, s)
<1>0. s # NoSource /\ p.applyOrder \in Seq(Sources) /\ Len(p.applyOrder) \in Nat
  BY SourcesWellFormed, LenFacts DEF Partition
<1>1. CASE s \in p.applied
  BY <1>1 DEF RememberApplied
<1>2. CASE s \notin p.applied
  <2>1. q.applied = IF Len(order) > MaxAppliedEvents
                    THEN (p.applied \cup {s}) \ {Head(order)} ELSE p.applied \cup {s}
    BY <1>0, <1>2, Zenon DEF RememberApplied, Partition
  <2>2. ASSUME Len(order) > MaxAppliedEvents PROVE Head(order) # s
    <3>1. /\ order \in Seq(Sources) /\ Len(order) = Len(p.applyOrder) + 1
          /\ \A i \in 1 .. Len(p.applyOrder) : order[i] = p.applyOrder[i]
      BY <1>0, AppendFacts
    <3>2. 1 \in 1..Len(p.applyOrder)
      BY <1>0, <2>2, <3>1, BoundsPositive
    <3>3. Head(order) = order[1]
      BY <3>1
    <3>4. 1 \in DOMAIN p.applyOrder
      BY <1>0, <3>2, LenFacts
    <3>5. p.applyOrder[1] \in p.applied
      BY <3>4, Zenon DEF WindowOf
    <3> QED BY <1>2, <3>1, <3>2, <3>3, <3>5
  <2> HIDE DEF order, q
  <2> QED BY <2>1, <2>2 DEF q
<1> QED BY <1>1, <1>2

\* An event that names its source and was applied or dropped as stale is a duplicate
\* when it comes again at once, in the same batch or after its publication, whatever
\* version it resolves to by then (applyEventLocked, alreadyAppliedLocked).
THEOREM RedeliveryIgnored ==
    ASSUME NEW p, Sound(p), CoveredBy(p, p.watermark), NEW e, WellFormed(e), e.source # NoSource,
           ApplyEvent(p, e).state \in {"applied", "ignored"}, NEW a \in BOOLEAN
    PROVE  LET q == FinishApply(ApplyEvent(p, e).part, a)
           IN ApplyEvent(q, e) = Outcome("duplicate", q)
<1> DEFINE v == EffectiveVersion(p, e.version)
           m == ApplyMutation(p, e, v)
           n == RememberApplied(m.part, e.source, v)
           o == ObserveWatermark(n, v)
           r == ApplyEvent(p, e)
           q == FinishApply(r.part, a)
<1>0. p \in Partition /\ e.version \in Nat /\ e.source \in Sources
  BY DEF Sound, WellFormed
<1>1. v \in Nat \ {0} /\ v \in Nat
  BY <1>0, EffectiveVersionPositive
<1>q. Sound(r.part)
  BY ApplyEventSound, Zenon
<1> HIDE DEF v
<1>2. Succeeds(p, m.part, v) /\ m.state \in States /\ (m.state # "applied" => m.part = p)
  BY <1>1, MutationSucceeds
<1>4. r.part \in {n, o}
  <2> HIDE DEF m
  <2>1. r = CASE AlreadyApplied(p, e.source, v) -> Outcome("duplicate", p)
              [] ~AlreadyApplied(p, e.source, v) /\ m.state = "rejected" -> m
              [] ~AlreadyApplied(p, e.source, v) /\ m.state = "ignored"  -> Outcome("ignored", n)
              [] OTHER -> Outcome("applied", o)
    BY Zenon DEF ApplyEvent, m, v
  <2>2. r.state \in {"applied", "ignored"}
    OBVIOUS
  <2> HIDE DEF n, o, r
  <2> QED BY <2>1, <2>2 DEF Outcome
<1> HIDE DEF m
<1>5. e.source \in n.applied /\ n \in Partition
  <2>1. m.part \in Partition /\ WindowOf(m.part)
    BY <1>2, Zenon DEF Succeeds, Sound
  <2> QED BY <1>0, <1>1, <2>1, Remembers, RememberAppliedType
<1> HIDE DEF n
<1>6. o.applied = n.applied
  BY <1>5, Zenon DEF ObserveWatermark, Partition
<1> HIDE DEF o, r
<1>7. e.source \in r.part.applied
  BY <1>4, <1>5, <1>6, Zenon
<1>8. q.applied = r.part.applied
  BY <1>q, Zenon DEF FinishApply, Sound, Partition
<1> HIDE DEF q
<1>9. \A w : AlreadyApplied(q, e.source, w)
  BY <1>7, <1>8, Zenon DEF AlreadyApplied
<1>10. ApplyEvent(q, e) = Outcome("duplicate", q)
  BY <1>9 DEF ApplyEvent
<1> QED BY <1>10 DEF q, r
=============================================================================
