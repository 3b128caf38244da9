------------------------ MODULE EventPipelineProofs ------------------------
(***************************************************************************)
(* No acknowledged fact is lost to the projection, for any number of rows, *)
(* drainers, faults and redeliveries.  The inductive invariant (PipeInv)   *)
(* joins that of the event log, the soundness of the partition, what the   *)
(* poll in progress still owes, and what keeps an effect from being        *)
(* forgotten: remembered sources belong to reflected events, and the       *)
(* tombstones in use are counted against the deletions of all facts.       *)
(***************************************************************************)
EXTENDS EventPipeline, EventLogProofs, HermesApplyProofs

-----------------------------------------------------------------------------
(* What one event does to the versions of a partition.                     *)

\* From p to q no record goes back; an entry that changes is cleared or written by e.
Advances(p, q, e) ==
    /\ \A k \in Keys : \A v \in Nat : Reached(p, k, v) => Reached(q, k, v)
    /\ \A k \in Keys : q.ver[k] # p.ver[k] =>
          q.ver[k] = 0 \/ (k = e.key /\ e.op = "upsert" /\ q.ver[k] = e.version)
    /\ \/ q.tombOrder = p.tombOrder
       \/ /\ Len(q.tombOrder) = Len(p.tombOrder) + 1
          /\ e.op = "delete" /\ p.tomb[e.key] = 0 /\ p.ver[e.key] <= e.version
          /\ q.tomb[e.key] = e.version

\* A deletion that needs a new tombstone finds room for it.
Room(p, e) ==
    e.op = "delete" /\ p.ver[e.key] <= e.version /\ p.tomb[e.key] = 0
        => Len(p.tombOrder) < MaxTombstones

LEMMA UpsertAdvances ==
    ASSUME NEW p, Sound(p), NEW e, WellFormed(e), e.op = "upsert", e.version > 0
    PROVE  LET m == Upsert(p, e.key, e.data, e.version) IN
           /\ Advances(p, m.part, e)
           /\ m.state \in {"applied", "ignored"} => Reached(m.part, e.key, e.version)
           /\ m.state \in {"applied", "ignored", "rejected"}
           /\ m.state # "applied" => m.part = p
           /\ m.part.applied = p.applied
<1> DEFINE k == e.key
           v == e.version
           q == StoreEntry(p, k, e.data, v)
           no == OverRecords(p, k) \/ OverBytes(p, k, e.data)
<1>0. /\ k \in Keys /\ v \in Nat /\ p.ver \in [Keys -> Nat] /\ p.tomb \in [Keys -> Nat]
      /\ p \in Partition
  BY SMTT(20) DEF WellFormed, Sound, Partition
<1>1. Advances(p, p, e)
  BY Zenon DEF Advances
<1>2. CASE Stale(p, k, v)
  <2>1. Upsert(p, k, e.data, v) = [state |-> "ignored", part |-> p]
    BY <1>2, Zenon DEF Upsert, Outcome
  <2>2. Reached(p, k, v)
    BY <1>0, <1>2 DEF Stale, BlockedByNewerTombstone, Reached
  <2> QED BY <1>1, <2>1, <2>2
<1>3. CASE ~Stale(p, k, v) /\ no
  <2>1. Upsert(p, k, e.data, v) = [state |-> "rejected", part |-> p]
    BY <1>3, Zenon DEF Upsert, Outcome
  <2> QED BY <1>1, <2>1
<1>4. CASE ~Stale(p, k, v) /\ ~no
  <2>1. Upsert(p, k, e.data, v) = [state |-> "applied", part |-> q]
    BY <1>4, Zenon DEF Upsert, Outcome
  <2>2. /\ q.ver = [p.ver EXCEPT ![k] = v]
        /\ q.tomb = IF p.ver[k] = 0 THEN [p.tomb EXCEPT ![k] = 0] ELSE p.tomb
        /\ q.tombOrder = p.tombOrder /\ q.applied = p.applied
    BY <1>0 DEF StoreEntry, Partition
  <2>3. q.ver[k] = v /\ \A j \in Keys \ {k} : q.ver[j] = p.ver[j] /\ q.tomb[j] = p.tomb[j]
    BY <1>0, <2>2
  <2>4. v >= p.ver[k] /\ v >= p.tomb[k]
    BY <1>0, <1>4 DEF Stale, BlockedByNewerTombstone
  <2>5. \A j \in Keys : \A w \in Nat : Reached(p, j, w) => Reached(q, j, w)
    BY <1>0, <2>3, <2>4, SMTT(20) DEF Reached
  <2>6. Advances(p, q, e)
    BY <2>2, <2>3, <2>5 DEF Advances
  <2>7. Reached(q, k, v)
    BY <1>0, <2>3, SMTT(20) DEF Reached
  <2> QED BY <2>1, <2>2, <2>6, <2>7
<1> QED BY <1>2, <1>3, <1>4

LEMMA DeleteAdvances ==
    ASSUME NEW p, Sound(p), NEW e, WellFormed(e), e.op = "delete", e.version > 0, Room(p, e)
    PROVE  LET m == Delete(p, e.key, e.version) IN
           /\ Advances(p, m.part, e)
           /\ Reached(m.part, e.key, e.version)
           /\ m.state \in {"applied", "ignored"}
           /\ m.state # "applied" => m.part = p
           /\ m.part.applied = p.applied
<1> DEFINE k == e.key
           v == e.version
           c == ClearEntry(p, k)
           q == RememberTombstone(c, k, v)
           order == IF p.tomb[k] = 0 THEN Append(p.tombOrder, k) ELSE p.tombOrder
           stale == v < p.ver[k] \/ (p.ver[k] = 0 /\ BlockedByNewerTombstone(p, k, v))
<1>0. /\ k \in Keys /\ v \in Nat /\ p.ver \in [Keys -> Nat] /\ p.tomb \in [Keys -> Nat]
      /\ p \in Partition /\ p.tombOrder \in Seq(Keys)
  BY SMTT(20) DEF WellFormed, Sound, Partition
<1>1. CASE stale
  <2>1. Delete(p, k, v) = [state |-> "ignored", part |-> p]
    BY <1>1, Zenon DEF Delete, Outcome
  <2>2. Reached(p, k, v)
    BY <1>0, <1>1 DEF BlockedByNewerTombstone, Reached
  <2>3. Advances(p, p, e)
    BY Zenon DEF Advances
  <2> QED BY <2>1, <2>2, <2>3
<1>2. CASE ~stale
  <2>1. Delete(p, k, v) = [state |-> "applied", part |-> q]
    BY <1>2, ZenonT(30) DEF Delete, Outcome
  <2>2. /\ c.ver = [p.ver EXCEPT ![k] = 0] /\ c.tomb = p.tomb /\ c.tombOrder = p.tombOrder
        /\ c.applied = p.applied /\ c \in Partition
    BY <1>0, ClearEntryType, Zenon DEF ClearEntry, Partition
  <2>3. Len(order) <= MaxTombstones /\ (p.tomb[k] # 0 => order = p.tombOrder)
        /\ (p.tomb[k] = 0 => Len(order) = Len(p.tombOrder) + 1)
    <3>1. Len(p.tombOrder) <= MaxTombstones /\ Len(p.tombOrder) \in Nat
      BY <1>0 DEF Sound, TombstonesOf
    <3>2. p.tomb[k] = 0 => Len(p.tombOrder) < MaxTombstones
      BY <1>0, <1>2 DEF Room
    <3> QED BY <1>0, <3>1, <3>2, BoundsPositive, SMTT(20)
  <2>4. /\ q.ver = c.ver /\ q.applied = c.applied
        /\ q.tomb = [p.tomb EXCEPT ![k] = v] /\ q.tombOrder = order
    <3>1. ~(Len(order) > MaxTombstones)
      <4>1. Len(order) \in Nat
        BY <1>0
      <4> QED BY <2>3, <4>1, BoundsPositive, SMTT(20)
    <3> HIDE DEF order, c
    <3>2. q = [c EXCEPT !.tombOrder = order, !.tomb = [p.tomb EXCEPT ![k] = v]]
      BY <2>2, <3>1, Zenon DEF RememberTombstone, order
    <3> QED BY <2>2, <3>2 DEF Partition
  <2>5. /\ q.ver[k] = 0 /\ q.tomb[k] = v
        /\ \A j \in Keys \ {k} : q.ver[j] = p.ver[j] /\ q.tomb[j] = p.tomb[j]
    BY <1>0, <2>2, <2>4
  <2>6. v >= p.ver[k] /\ v >= p.tomb[k]
    <3>1. p.tomb[k] > 0 => p.ver[k] = 0
      BY <1>0 DEF Sound, TombstonesOf
    <3> QED BY <1>0, <1>2, <3>1 DEF BlockedByNewerTombstone
  <2>7. \A j \in Keys : \A w \in Nat : Reached(p, j, w) => Reached(q, j, w)
    BY <1>0, <2>5, <2>6, SMTT(20) DEF Reached
  <2>8. Advances(p, q, e)
    <3>1. \A j \in Keys : q.ver[j] # p.ver[j] => q.ver[j] = 0
      BY <2>5, SMTT(20)
    <3>2. \/ q.tombOrder = p.tombOrder
          \/ /\ Len(q.tombOrder) = Len(p.tombOrder) + 1
             /\ p.tomb[k] = 0 /\ p.ver[k] <= v /\ q.tomb[k] = v
      BY <1>0, <2>3, <2>4, <2>5, <2>6, SMTT(20)
    <3> QED BY <2>7, <3>1, <3>2, Zenon DEF Advances
  <2>9. Reached(q, k, v)
    BY <1>0, <2>5 DEF Reached
  <2> QED BY <2>1, <2>2, <2>4, <2>8, <2>9, SMTT(20)
<1> QED BY <1>1, <1>2

\* What Reached and Advances see of a partition is what RememberApplied and
\* ObserveWatermark leave alone.
SameVersions(p, q) == q.ver = p.ver /\ q.tomb = p.tomb /\ q.tombOrder = p.tombOrder

LEMMA RememberAppliedKeeps ==
    ASSUME NEW p \in Partition, NEW s \in Sources \cup {NoSource}, NEW v
    PROVE  LET q == RememberApplied(p, s, v) IN
           SameVersions(p, q) /\ q.applied \subseteq p.applied \cup {s}
<1> DEFINE q == RememberApplied(p, s, v)
<1>1. CASE s = NoSource \/ s \in p.applied
  BY <1>1, Zenon DEF RememberApplied, SameVersions
<1>2. CASE ~(s = NoSource \/ s \in p.applied)
  <2>1. /\ SameVersions(p, q)
        /\ q.applied = p.applied \cup {s} \/ \E old : q.applied = (p.applied \cup {s}) \ {old}
    BY <1>2, Zenon DEF RememberApplied, SameVersions, Partition
  <2> QED BY <2>1
<1> QED BY <1>1, <1>2

LEMMA SameAdvances ==
    ASSUME NEW p, NEW m, NEW q, NEW e, WellFormed(e), Advances(p, m, e), SameVersions(m, q)
    PROVE  Advances(p, q, e) /\ \A v : Reached(m, e.key, v) => Reached(q, e.key, v)
<1>1. q.ver = m.ver /\ q.tomb = m.tomb /\ q.tombOrder = m.tombOrder
  BY DEF SameVersions
<1>2. \A k, v : Reached(m, k, v) => Reached(q, k, v)
  BY <1>1, Zenon DEF Reached
<1> QED BY <1>1, <1>2, Zenon DEF Advances

\* One event of ApplyBatch: what was reached stays reached, and the event is reached
\* unless it is rejected or its source is remembered.
LEMMA ApplyEventAdvances ==
    ASSUME NEW p, Sound(p), NEW e, WellFormed(e), e.op # "patch", e.version > 0,
           ~Scoped(e.source), Room(p, e)
    PROVE  LET r == ApplyEvent(p, e)
               q == r.part
           IN /\ Advances(p, q, e)
              /\ r.state \in {"applied", "ignored"} => Reached(q, e.key, e.version)
              /\ r.state = "duplicate" => e.source \in p.applied
              /\ r.state \in States
              /\ q.applied \subseteq p.applied \cup {e.source}
              /\ r.state \in {"duplicate", "rejected"} => q = p
<1> DEFINE v == EffectiveVersion(p, e.version)
           m == ApplyMutation(p, e, v)
           n == RememberApplied(m.part, e.source, v)
           o == ObserveWatermark(n, v)
           r == ApplyEvent(p, e)
           dup == AlreadyApplied(p, e.source, v)
<1>1. v = e.version /\ v \in Nat \ {0} /\ e.source \in Sources \cup {NoSource}
  BY SMTT(20) DEF EffectiveVersion, WellFormed
<1>2. m.part \in Partition
  BY <1>1, MutationSucceeds, SMTT(20) DEF Succeeds, Sound
<1>3. /\ Advances(p, m.part, e)
      /\ m.state \in {"applied", "ignored"} => Reached(m.part, e.key, e.version)
      /\ m.state \in {"applied", "ignored", "rejected"}
      /\ m.state # "applied" => m.part = p
      /\ m.part.applied = p.applied
  <2>1. CASE e.op = "upsert"
    <3>1. m = Upsert(p, e.key, e.data, e.version)
      BY <1>1, <2>1, SMTT(20) DEF ApplyMutation
    <3> QED BY <2>1, <3>1, UpsertAdvances, SMTT(20)
  <2>2. CASE e.op = "delete"
    <3>1. m = Delete(p, e.key, e.version)
      BY <1>1, <2>2 DEF ApplyMutation
    <3> QED BY <2>2, <3>1, DeleteAdvances, SMTT(20)
  <2>3. CASE e.op \notin {"upsert", "delete"}
    <3>1. m = [state |-> "rejected", part |-> p]
      BY <2>3 DEF ApplyMutation, Outcome
    <3>2. Advances(p, p, e)
      BY Zenon DEF Advances
    <3> QED BY <3>1, <3>2
  <2> QED BY <2>1, <2>2, <2>3, SMTT(20)
<1>4. dup => e.source \in p.applied
  BY <1>1 DEF AlreadyApplied, Fenced
<1>5. SameVersions(m.part, n) /\ n.applied \subseteq m.part.applied \cup {e.source} /\ n \in Partition
  BY <1>1, <1>2, RememberAppliedKeeps, RememberAppliedType, SMTT(20)
<1>r. r = CASE dup -> Outcome("duplicate", p)
            [] ~dup /\ m.state = "rejected" -> m
            [] ~dup /\ m.state = "ignored" -> Outcome("ignored", n)
            [] OTHER -> Outcome("applied", o)
  BY Zenon DEF ApplyEvent
<1> HIDE DEF m, n, v, dup, r
<1>6. SameVersions(m.part, o) /\ o.applied = n.applied
  BY <1>5 DEF ObserveWatermark, Partition, SameVersions
<1> HIDE DEF o
<1>7. Advances(p, n, e) /\ (m.state \in {"applied", "ignored"} => Reached(n, e.key, e.version))
  BY <1>3, <1>5, SameAdvances, Zenon
<1>8. Advances(p, o, e) /\ (m.state \in {"applied", "ignored"} => Reached(o, e.key, e.version))
  BY <1>3, <1>6, SameAdvances, SMTT(20)
<1>9. Advances(p, p, e)
  BY Zenon DEF Advances
<1>10. CASE dup
  <2>1. r = [state |-> "duplicate", part |-> p]
    BY <1>10, <1>r, Zenon DEF Outcome
  <2>2. r.state = "duplicate" /\ r.part = p
    BY <2>1
  <2> QED BY <1>4, <1>9, <1>10, <2>2, SMTT(20) DEF States, r
<1>11. CASE ~dup /\ m.state = "rejected"
  <2>1. r.state = "rejected" /\ r.part = p
    BY <1>3, <1>11, <1>r, SMTT(20)
  <2> QED BY <1>9, <2>1 DEF States, r
<1>12. CASE ~dup /\ m.state = "ignored"
  <2>1. r.state = "ignored" /\ r.part = n
    BY <1>12, <1>r, SMTT(20) DEF Outcome
  <2> QED BY <1>3, <1>5, <1>7, <1>12, <2>1, SMTT(20) DEF States, r
<1>13. CASE ~dup /\ m.state = "applied"
  <2>1. r.state = "applied" /\ r.part = o
    BY <1>13, <1>r DEF Outcome
  <2> QED BY <1>3, <1>5, <1>6, <1>8, <1>13, <2>1, SMTT(20) DEF States, r
<1> QED BY <1>3, <1>10, <1>11, <1>12, <1>13, SMTT(20)

-----------------------------------------------------------------------------
(* What is true of every pipeline, whatever the facts.                     *)

\* Only committed rows are in the stream.
StreamOfLog == \A i \in DOMAIN stream : stream[i] \in log

\* The group and the poll in progress.
PollShape ==
    /\ next \in 0..Len(stream)
    /\ pending \subseteq 1..next /\ batch \subseteq pending
    /\ events \subseteq Decoded(batch) /\ accepted \in BOOLEAN /\ spoiled \in BOOLEAN
    /\ phase \in {"read", "apply", "ack", "cancelled"}
    /\ phase = "read" => batch = {}
    /\ phase # "apply" => events = {}
    /\ refused \subseteq UNION {EventSet(id) : id \in log}

PartSound == Sound(part) /\ CoveredBy(part, part.watermark)

PipeShape == LogInv /\ StreamOfLog /\ PollShape /\ PartSound

\* A step of the log only adds to it, and to the end of the stream.
LEMMA LogGrows ==
    ASSUME LogInv, StreamOfLog, [Next]_vars
    PROVE  /\ log \subseteq log'
           /\ Len(stream) \in Nat /\ Len(stream') \in Nat /\ Len(stream) <= Len(stream')
           /\ \A i \in 1..Len(stream) : stream'[i] = stream[i]
           /\ StreamOfLog'
<1>0. stream \in Seq(Ids) /\ Len(stream) \in Nat /\ DOMAIN stream = 1..Len(stream)
  BY DEF LogInv, LogTypes
<1>1. CASE stream' = stream /\ log \subseteq log'
  <2>1. Len(stream) <= Len(stream')
    BY <1>0, <1>1
  <2>2. StreamOfLog'
    BY <1>1, Zenon DEF StreamOfLog
  <2> QED BY <1>0, <1>1, <2>1, <2>2, Zenon
<1>2. ASSUME NEW n \in Nat, NEW s \in [1..n -> Ids], stream' = stream \o s, log' = log,
             \A i \in 1..n : s[i] \in log
      PROVE  /\ Len(stream') \in Nat /\ Len(stream) <= Len(stream')
             /\ \A i \in 1..Len(stream) : stream'[i] = stream[i]
             /\ StreamOfLog'
  <2>1. s \in Seq(Ids) /\ Len(s) = n
    BY <1>2
  <2>2. /\ Len(stream') = Len(stream) + n /\ DOMAIN stream' = 1..(Len(stream) + n)
        /\ \A i \in 1..(Len(stream) + n) :
              stream'[i] = IF i <= Len(stream) THEN stream[i] ELSE s[i - Len(stream)]
    BY <1>0, <1>2, <2>1, SMTT(20)
  <2>3. ASSUME NEW i \in 1..(Len(stream) + n) PROVE stream'[i] \in log
    <3>1. CASE i <= Len(stream)
      BY <1>0, <2>2, <3>1, SMTT(20) DEF StreamOfLog
    <3>2. CASE ~(i <= Len(stream))
      <4>1. i - Len(stream) \in 1..n
        BY <1>0, <3>2
      <4> QED BY <1>2, <2>2, <3>2, <4>1, SMTT(20)
    <3> QED BY <3>1, <3>2
  <2> QED BY <1>0, <1>2, <2>2, <2>3, SMTT(20) DEF StreamOfLog
<1>3. ASSUME NEW i \in log, stream' = Append(stream, i), log' = log
      PROVE  /\ Len(stream') \in Nat /\ Len(stream) <= Len(stream')
             /\ \A j \in 1..Len(stream) : stream'[j] = stream[j]
             /\ StreamOfLog'
  <2>1. i \in Ids
    BY DEF LogInv, LogTypes
  <2>2. /\ Len(stream') = Len(stream) + 1 /\ DOMAIN stream' = 1..(Len(stream) + 1)
        /\ \A j \in 1..Len(stream) : stream'[j] = stream[j]
        /\ stream'[Len(stream) + 1] = i
    BY <1>0, <1>3, <2>1, SMTT(20)
  <2>3. \A j \in 1..(Len(stream) + 1) : stream'[j] \in log
    BY <1>0, <2>2 DEF StreamOfLog
  <2> QED BY <1>0, <1>3, <2>2, <2>3, SMTT(20) DEF StreamOfLog
<1>4. ASSUME NEW p \in Publishers, CallStep(p)
      PROVE  \/ stream' = stream /\ log \subseteq log'
             \/ \E i \in log : stream' = Append(stream, i) /\ log' = log
             \/ \E n \in Nat : \E s \in [1..n -> Ids] :
                   /\ stream' = stream \o s /\ log' = log
                   /\ \A i \in 1..n : s[i] \in log
  <2>0. toAdd[p] \subseteq log /\ toAdd[p] \subseteq Ids
    BY DEF LogInv, LogTypes, CallShape, Held
  <2>1. ASSUME NEW i \in Ids, XAdd(p, i) PROVE i \in log /\ stream' = Append(stream, i) /\ log' = log
    BY <2>0, <2>1, Zenon DEF XAdd, rowVars
  <2>2. ASSUME NEW i \in Ids, NEW landed \in BOOLEAN, XAddFails(p, i, landed)
        PROVE  (stream' = stream \/ (i \in log /\ stream' = Append(stream, i))) /\ log' = log
    BY <2>0, <2>2, Zenon DEF XAddFails, rowVars
  <2>3. ASSUME NEW landed \in SUBSET toAdd[p], NEW ok \in SUBSET landed, XAddMany(p, landed, ok)
        PROVE  \E n \in Nat : \E s \in [1..n -> Ids] :
                   /\ stream' = stream \o s /\ log' = log
                   /\ \A i \in 1..n : s[i] \in log
    <3>1. PICK s \in Orders(landed) : stream' = stream \o s
      BY <2>3, Zenon DEF XAddMany
    <3>2. landed \in SUBSET Ids
      BY <2>0
    <3>3. PICK n \in Nat : /\ s \in [1..n -> Ids]
                           /\ \A i, j \in 1..n : s[i] = s[j] => i = j
                           /\ \A x : x \in landed <=> \E i \in 1..n : s[i] = x
      BY <3>2, OrderLists, SMTT(20)
    <3>4. log' = log
      BY <2>3, Zenon DEF XAddMany, rowVars
    <3>5. \A i \in 1..n : s[i] \in log
      BY <2>0, <3>3, Zenon
    <3> QED BY <3>1, <3>3, <3>4, <3>5, Zenon
  <2>4. ASSUME NEW i \in Ids, NEW applied \in BOOLEAN, MarkPublishFailed(p, i, applied)
        PROVE  stream' = stream /\ log' = log
    BY <2>4, Zenon DEF MarkPublishFailed
  <2>5. MarkPublished(p) \/ MarkPublishedFails(p) \/ Abandon(p) => stream' = stream /\ log' = log
    BY Zenon DEF MarkPublished, MarkPublishedFails, Abandon, rowVars
  <2> QED BY <1>4, <2>1, <2>2, <2>3, <2>4, <2>5, Zenon DEF CallStep
<1>5. ASSUME NEW i \in Ids, AppendEvent(i) PROVE stream' = stream /\ log \subseteq log'
  BY <1>5, Zenon DEF AppendEvent
<1>6. ASSUME NEW p \in Publishers, Claim(p) PROVE stream' = stream /\ log' = log
  BY <1>6, Zenon DEF Claim
<1>7. ASSUME NEW t \in Tokens, ExpireClaim(t) PROVE stream' = stream /\ log' = log
  BY <1>7, Zenon DEF ExpireClaim
<1>8. CASE UNCHANGED vars
  BY <1>1, <1>8, <1>0, Zenon DEF vars, rowVars
<1>9. CASE Next
  <2>1. \/ stream' = stream /\ log \subseteq log'
        \/ \E i \in log : stream' = Append(stream, i) /\ log' = log
        \/ \E n \in Nat : \E s \in [1..n -> Ids] :
                   /\ stream' = stream \o s /\ log' = log
                   /\ \A i \in 1..n : s[i] \in log
    BY <1>9, <1>4, <1>5, <1>6, <1>7, Zenon DEF Next
  <2>2. CASE stream' = stream /\ log \subseteq log'
    BY <1>1, <2>2, Zenon
  <2>3. CASE \E i \in log : stream' = Append(stream, i) /\ log' = log
    BY <1>0, <1>3, <2>3, Zenon
  <2>4. CASE \E n \in Nat : \E s \in [1..n -> Ids] :
                   /\ stream' = stream \o s /\ log' = log
                   /\ \A i \in 1..n : s[i] \in log
    BY <1>0, <1>2, <2>4, Zenon
  <2> QED BY <2>1, <2>2, <2>3, <2>4, Zenon
<1> QED BY <1>8, <1>9

\* The next event of a batch is one of those left.
LEMMA LeastNumber ==
    ASSUME NEW S \in SUBSET Nat, S # {}
    PROVE  \E x \in S : \A y \in S : x <= y
<1>1. PICK x \in S : \A y \in S : ~(<<y, x>> \in OpToRel(<, Nat))
  BY WFMin, NatLessThanWellFounded, Zenon
<1>2. \A y \in S : ~(y < x)
  BY <1>1, Zenon DEF OpToRel
<1>3. \A y \in S : x <= y
  BY <1>2
<1> QED BY <1>3

LEMMA EarliestIsLeft ==
    ASSUME NEW S \in SUBSET (Nat \X Nat), S # {}
    PROVE  Earliest(S) \in S
<1> DEFINE F == {q[1] : q \in S}
<1>1. F \in SUBSET Nat /\ F # {}
  OBVIOUS
<1>2. PICK a \in F : \A b \in F : a <= b
  BY <1>1, LeastNumber, Zenon
<1> DEFINE G == {q[2] : q \in {r \in S : r[1] = a}}
<1>3. G \in SUBSET Nat /\ G # {}
  BY <1>1, <1>2
<1>4. PICK c \in G : \A d \in G : c <= d
  BY <1>3, LeastNumber, Zenon
<1>5. PICK p \in S : p[1] = a /\ p[2] = c
  BY <1>4
<1>6. ASSUME NEW q \in S PROVE p[1] < q[1] \/ (p[1] = q[1] /\ p[2] <= q[2])
  <2>1. q[1] \in F /\ q[1] \in Nat /\ a \in Nat /\ (q[1] = a => q[2] \in G)
    BY <1>1, <1>2
  <2> HIDE DEF F, G
  <2>2. a <= q[1]
    BY <1>2, <2>1
  <2>3. q[1] = a => c <= q[2]
    BY <1>4, <2>1
  <2> QED BY <1>5, <2>1, <2>2, <2>3, SMTT(20)
<1> QED BY <1>5, <1>6, Zenon DEF Earliest

LEMMA EventsFormed ==
    ASSUME NEW id \in Ids, NEW e \in EventSet(id)
    PROVE  e \in Event /\ WellFormed(e) /\ e \in AllEvents
<1>1. EventsOf(id) \in Seq(Event)
  BY EnvelopesDecode
<1>2. PICK j \in DOMAIN EventsOf(id) : e = EventsOf(id)[j]
  BY DEF EventSet
<1>3. e \in Event
  BY <1>1, <1>2
<1>4. e.op \in {"upsert", "patch"} => e.data \in Data
  BY <1>2, EnvelopesDecode
<1>5. e \in AllEvents
  BY DEF AllEvents
<1> QED BY <1>3, <1>4, <1>5, SMTT(20) DEF Event, WellFormed

\* The event at a place of the batch is one of its message's, a committed row's.
LEMMA LeftEvents ==
    ASSUME PipeShape, events # {}
    PROVE  LET w == Earliest(events) IN
           /\ w \in events /\ w[1] \in batch
           /\ stream[w[1]] \in log /\ stream[w[1]] \in Ids
           /\ w[2] \in DOMAIN EventsOf(stream[w[1]])
           /\ w = <<w[1], w[2]>>
           /\ EventAt(w) \in EventSet(stream[w[1]])
<1> DEFINE w == Earliest(events)
<1>0. /\ stream \in Seq(Ids) /\ Len(stream) \in Nat /\ next \in Nat /\ next <= Len(stream)
      /\ batch \subseteq 1..next /\ events \subseteq Decoded(batch)
  BY DEF PipeShape, LogInv, LogTypes, PollShape
<1>1. \A i \in batch : i \in Nat /\ i \in DOMAIN stream
  BY <1>0
<1>2. \A i \in batch : stream[i] \in Ids /\ stream[i] \in log
  BY <1>0, <1>1 DEF PipeShape, StreamOfLog
<1>3. \A i \in batch : DOMAIN EventsOf(stream[i]) \subseteq Nat
  <2>1. ASSUME NEW i \in batch PROVE DOMAIN EventsOf(stream[i]) \subseteq Nat
    <3>1. EventsOf(stream[i]) \in Seq(Event)
      BY <1>2, EnvelopesDecode
    <3> QED BY <3>1
  <2> QED BY <2>1
<1>4. \A q \in events : \E i \in batch : q \in {i} \X DOMAIN EventsOf(stream[i])
  BY <1>0 DEF Decoded
<1>5. events \in SUBSET (Nat \X Nat)
  BY <1>1, <1>3, <1>4, SMTT(20)
<1>6. w \in events
  BY <1>5, EarliestIsLeft
<1>7. w = <<w[1], w[2]>> /\ w[1] \in batch /\ w[2] \in DOMAIN EventsOf(stream[w[1]])
  BY <1>4, <1>6
<1> HIDE DEF w
<1> QED BY <1>2, <1>6, <1>7, SMTT(20) DEF EventAt, EventSet, w

LEMMA ShapeInit == PipeInit => PipeShape
<1> SUFFICES ASSUME PipeInit PROVE PipeShape
  OBVIOUS
<1>1. LogInv
  BY LogInit DEF PipeInit
<1>2. stream = <<>> /\ Len(stream) = 0 /\ DOMAIN stream = {}
  BY DEF PipeInit, Init
<1>3. StreamOfLog
  BY <1>2 DEF StreamOfLog
<1>4. PollShape
  <2>1. next \in 0..Len(stream)
    BY <1>2 DEF PipeInit
  <2> QED BY <2>1, Zenon DEF PipeInit, PollShape
<1>5. PartSound
  BY NewPartitionSound DEF PipeInit, PartSound
<1> QED BY <1>1, <1>3, <1>4, <1>5, SMTT(20) DEF PipeShape

\* The messages a poll works on do not change under it.
LEMMA DecodedKept ==
    ASSUME batch' = batch, \A i \in batch : stream'[i] = stream[i]
    PROVE  Decoded(batch)' = Decoded(batch)
<1>1. \A i \in batch : {i} \X DOMAIN EventsOf(stream'[i]) = {i} \X DOMAIN EventsOf(stream[i])
  OBVIOUS
<1>2. {{i} \X DOMAIN EventsOf(stream'[i]) : i \in batch} = {{i} \X DOMAIN EventsOf(stream[i]) : i \in batch}
  BY <1>1, Zenon
<1> QED BY <1>2, Zenon DEF Decoded

LEMMA LogStepShape ==
    ASSUME PipeShape, [Next]_vars, UNCHANGED tailVars
    PROVE  PipeShape'
<1>1. LogInv' /\ StreamOfLog'
  BY LogStep, LogGrows, Zenon DEF PipeShape
<1>2. /\ log \subseteq log'
      /\ Len(stream) \in Nat /\ Len(stream') \in Nat /\ Len(stream) <= Len(stream')
      /\ \A i \in 1..Len(stream) : stream'[i] = stream[i]
  BY LogGrows, Zenon DEF PipeShape
<1>3. PartSound'
  BY Zenon DEF PipeShape, PartSound, tailVars
<1>4. PollShape'
  <2>0. PollShape
    BY DEF PipeShape
  <2>1. next \in 0..Len(stream')
    BY <1>2, <2>0 DEF PollShape
  <2>2. \A i \in batch : i \in 1..Len(stream)
    BY <1>2, <2>0 DEF PollShape
  <2>3. Decoded(batch)' = Decoded(batch)
    BY <1>2, <2>2, DecodedKept, Zenon DEF tailVars
  <2>4. UNION {EventSet(id) : id \in log} \subseteq UNION {EventSet(id) : id \in log'}
    BY <1>2, Zenon
  <2> QED BY <2>0, <2>1, <2>3, <2>4, Zenon DEF PollShape, tailVars
<1> QED BY <1>1, <1>3, <1>4 DEF PipeShape

LEMMA TailKeepsLog ==
    ASSUME PipeShape, UNCHANGED <<rowVars, stream, callVars, doubts>>
    PROVE  LogInv' /\ StreamOfLog' /\ UNCHANGED <<log, stream>>
<1>1. UNCHANGED <<log, stream>>
  BY DEF rowVars
<1>2. StreamOfLog'
  BY <1>1, Zenon DEF PipeShape, StreamOfLog
<1> QED BY <1>1, <1>2, LogKept DEF PipeShape

LEMMA PollKeepsShape ==
    ASSUME PipeShape, Poll
    PROVE  PipeShape'
<1>0. /\ Len(stream) \in Nat /\ next \in 0..Len(stream) /\ pending \subseteq 1..next
      /\ MaxRead \in Nat \ {0} /\ PollShape
  BY PositiveRead, SMTT(20) DEF PipeShape, LogInv, LogTypes, PollShape
<1>1. LogInv' /\ StreamOfLog' /\ UNCHANGED <<log, stream>>
  BY TailKeepsLog, Zenon DEF Poll
<1>2. PartSound'
  BY Zenon DEF PipeShape, PartSound, Poll
<1>3. Given \in next..Len(stream)
  BY <1>0 DEF Given
<1>4. next' \in 0..Len(stream) /\ pending' \subseteq 1..next'
  <2>1. CASE pending = {}
    <3>1. next' = Given /\ pending' = Fresh
      BY <2>1 DEF Poll, Delivered, ReadEnvelopes
    <3> QED BY <1>0, <1>3, <3>1, SMTT(20) DEF Fresh
  <2>2. CASE pending # {}
    <3>1. next' = next /\ pending' = pending \cup Lowest(MaxRead, pending)
      BY <2>2, Zenon DEF Poll, Delivered, ReadEnvelopes, Backlog
    <3>2. Lowest(MaxRead, pending) \subseteq pending
      BY DEF Lowest
    <3> QED BY <1>0, <3>1, <3>2, Zenon
  <2> QED BY <2>1, <2>2
<1>5. batch' \subseteq pending' /\ phase' = "apply"
  BY Zenon DEF Poll, Delivered
<1>6. events' = Decoded(batch)'
  BY <1>1, Zenon DEF Poll, Decoded
<1>7. PollShape'
  <2>1. accepted' \in BOOLEAN /\ spoiled' \in BOOLEAN
        /\ refused' \subseteq UNION {EventSet(id) : id \in log'}
    BY <1>0, <1>1, Zenon DEF Poll, PollShape
  <2>2. phase' # "read" /\ phase' \in {"read", "apply", "ack", "cancelled"}
    BY <1>5, SMTT(20)
  <2> QED BY <1>1, <1>4, <1>5, <1>6, <2>1, <2>2, Zenon DEF PollShape
<1> QED BY <1>1, <1>2, <1>7, SMTT(20) DEF PipeShape

LEMMA ApplyNextKeepsShape ==
    ASSUME PipeShape, ApplyNext
    PROVE  PipeShape'
<1> DEFINE w == Earliest(events)
           e == EventAt(w)
           r == ApplyEvent(part, e)
<1>0. PollShape /\ PartSound /\ phase = "apply" /\ events # {}
  BY Zenon DEF PipeShape, ApplyNext
<1>1. LogInv' /\ StreamOfLog' /\ UNCHANGED <<log, stream>>
  BY TailKeepsLog, Zenon DEF ApplyNext
<1>2. w \in events /\ stream[w[1]] \in log /\ stream[w[1]] \in Ids /\ e \in EventSet(stream[w[1]])
  BY <1>0, LeftEvents, Zenon
<1>3. WellFormed(e)
  BY <1>2, EventsFormed, Zenon
<1> HIDE DEF w
<1>4. /\ part' = r.part /\ events' = events \ {w}
      /\ accepted' = (accepted \/ r.state = "applied")
      /\ spoiled' = (spoiled \/ r.state = "rejected")
      /\ refused' = IF r.state = "rejected" THEN refused \cup {e} ELSE refused
      /\ UNCHANGED <<next, pending, batch, phase>>
  BY Zenon DEF ApplyNext, w
<1> HIDE DEF e, r
<1>5. PartSound'
  BY <1>0, <1>3, <1>4, ApplyEventSound, SMTT(20) DEF PartSound, r
<1>6. PollShape'
  <2>1. Decoded(batch)' = Decoded(batch)
    BY <1>1, <1>4, DecodedKept, Zenon
  <2>2. accepted' \in BOOLEAN /\ spoiled' \in BOOLEAN
    BY <1>4, Zenon
  <2>3. refused' \subseteq UNION {EventSet(id) : id \in log'}
    <3>1. e \in UNION {EventSet(id) : id \in log'}
      BY <1>1, <1>2, Zenon
    <3>2. refused \subseteq UNION {EventSet(id) : id \in log'}
      BY <1>0, <1>1, Zenon DEF PollShape
    <3> QED BY <1>4, <3>1, <3>2, Zenon
  <2>4. events' \subseteq Decoded(batch)'
    BY <1>0, <1>4, <2>1, Zenon DEF PollShape
  <2>5. phase' = "apply" /\ phase' # "read" /\ phase' \in {"read", "apply", "ack", "cancelled"}
    BY <1>0, <1>4
  <2>6. next' \in 0..Len(stream') /\ pending' \subseteq 1..next' /\ batch' \subseteq pending'
    BY <1>0, <1>1, <1>4, Zenon DEF PollShape
  <2> QED BY <2>2, <2>3, <2>4, <2>5, <2>6, Zenon DEF PollShape
<1> QED BY <1>1, <1>5, <1>6 DEF PipeShape

LEMMA EndApplyKeepsShape ==
    ASSUME PipeShape, EndApply
    PROVE  PipeShape'
<1>0. PollShape /\ PartSound
  BY Zenon DEF PipeShape
<1>1. LogInv' /\ StreamOfLog' /\ UNCHANGED <<log, stream>>
  BY TailKeepsLog, Zenon DEF EndApply
<1>2. PartSound'
  <2>1. /\ Sound(part') /\ part'.ver = part.ver /\ part'.tomb = part.tomb
        /\ part'.watermark = part.watermark
    BY <1>0, FinishApplySound, Zenon DEF EndApply, PartSound, PollShape
  <2> QED BY <1>0, <2>1, Zenon DEF PartSound, CoveredBy
<1>3. phase' \in {"ack", "cancelled", "read"}
  BY Zenon DEF EndApply, AfterApply
<1>4. batch' \subseteq batch /\ (phase' = "read" => batch' = {})
  BY Zenon DEF EndApply
<1>5. PollShape'
  <2>1. accepted' \in BOOLEAN /\ spoiled' \in BOOLEAN /\ events' = {} /\ UNCHANGED <<next, pending>>
    BY Zenon DEF EndApply
  <2>2. refused' \subseteq UNION {EventSet(id) : id \in log'}
    BY <1>0, <1>1, Zenon DEF EndApply, PollShape
  <2>3. next' \in 0..Len(stream') /\ pending' \subseteq 1..next' /\ batch' \subseteq pending'
    BY <1>0, <1>1, <1>4, <2>1, Zenon DEF PollShape
  <2>4. phase' \in {"read", "apply", "ack", "cancelled"}
    BY <1>3
  <2> QED BY <1>4, <2>1, <2>2, <2>3, <2>4, Zenon DEF PollShape
<1> QED BY <1>1, <1>2, <1>5 DEF PipeShape

LEMMA AckKeepsShape ==
    ASSUME PipeShape, NEW applied \in BOOLEAN, Ack(applied)
    PROVE  PipeShape'
<1>0. PollShape /\ PartSound
  BY Zenon DEF PipeShape
<1>1. LogInv' /\ StreamOfLog' /\ UNCHANGED <<log, stream>>
  BY TailKeepsLog, Zenon DEF Ack
<1>2. PartSound'
  BY <1>0, Zenon DEF PartSound, Ack
<1>3. PollShape'
  <2>1. /\ batch' = {} /\ phase' = "read" /\ pending' \subseteq pending
        /\ UNCHANGED <<next, events, accepted, spoiled, refused>>
    BY Zenon DEF Ack
  <2>2. phase # "apply"
    BY DEF Ack
  <2>3. events' = {}
    BY <1>0, <2>1, <2>2, Zenon DEF PollShape
  <2>4. next' \in 0..Len(stream') /\ pending' \subseteq 1..next'
    BY <1>0, <1>1, <2>1, Zenon DEF PollShape
  <2>5. /\ accepted' \in BOOLEAN /\ spoiled' \in BOOLEAN
        /\ refused' \subseteq UNION {EventSet(id) : id \in log'}
    BY <1>0, <1>1, <2>1, Zenon DEF PollShape
  <2> QED BY <2>1, <2>3, <2>4, <2>5, Zenon DEF PollShape
<1> QED BY <1>1, <1>2, <1>3 DEF PipeShape

LEMMA ShapeStep == PipeShape /\ [PipeNext]_pipeVars => PipeShape'
<1> SUFFICES ASSUME PipeShape, [PipeNext]_pipeVars PROVE PipeShape'
  OBVIOUS
<1>1. CASE UNCHANGED pipeVars
  BY <1>1, LogStepShape, Zenon DEF pipeVars
<1>2. CASE Next /\ UNCHANGED tailVars
  BY <1>2, LogStepShape, Zenon
<1>3. CASE TailStep
  BY <1>3, PollKeepsShape, ApplyNextKeepsShape, EndApplyKeepsShape, AckKeepsShape, Zenon DEF TailStep
<1> QED BY <1>1, <1>2, <1>3, SMTT(20) DEF PipeNext

-----------------------------------------------------------------------------
(* What keeps the effect of a fact, when the facts are plain.              *)

\* Entries come from events.
Written ==
    \A k \in Keys : part.ver[k] > 0 =>
        \E e \in AllEvents : e.op = "upsert" /\ e.key = k /\ e.version = part.ver[k]

\* A remembered source belongs to an event that is reflected.
Known == \A e \in AllEvents : e.source \in part.applied => Reflected(e)

DeletedIn(p) == {d \in Deletions : Reached(p, d[1], d[2])}

\* Every tombstone in the eviction order was left by a deletion of its own.
TombstonesCounted == Len(part.tombOrder) <= Cardinality(DeletedIn(part))

Handled(e) == Reflected(e) \/ e \in refused

\* What the poll has taken off its list is handled.
Owed == phase = "apply" => \A w \in Decoded(batch) : w \in events \/ Handled(EventAt(w))

Paid == phase = "ack" => \A i \in batch : Answered(stream[i])

FactsInv == Written /\ Known /\ TombstonesCounted /\ Owed /\ Paid /\ AckedReflected

LEMMA FiniteImage ==
    ASSUME NEW S, IsFiniteSet(S), NEW f, DOMAIN f = S, f = [x \in S |-> f[x]]
    PROVE  IsFiniteSet({f[x] : x \in S})
<1> DEFINE T == {f[x] : x \in S}
<1>1. f \in [S -> T]
  OBVIOUS
<1>2. f \in Surjection(S, T)
  BY <1>1, Zenon DEF Surjection
<1> QED BY <1>2, FS_Surjection

LEMMA DeletionsFinite ==
    /\ IsFiniteSet(Deletions)
    /\ \A D \in SUBSET Deletions : IsFiniteSet(D) /\ Cardinality(D) \in Nat
                                   /\ Cardinality(D) <= Cardinality(Deletions)
<1>1. ASSUME NEW id \in Ids PROVE IsFiniteSet(EventSet(id))
  <2>1. EventsOf(id) \in Seq(Event)
    BY EnvelopesDecode
  <2>2. DOMAIN EventsOf(id) = 1..Len(EventsOf(id)) /\ Len(EventsOf(id)) \in Nat
    BY <2>1
  <2>3. IsFiniteSet(DOMAIN EventsOf(id))
    BY <2>2, FS_Interval
  <2>4. EventsOf(id) = [j \in DOMAIN EventsOf(id) |-> EventsOf(id)[j]]
    BY <2>1
  <2> QED BY <2>3, <2>4, FiniteImage, ZenonT(30) DEF EventSet
<1>2. IsFiniteSet({EventSet(id) : id \in Ids})
  <2> DEFINE f == [id \in Ids |-> EventSet(id)]
  <2>1. IsFiniteSet({f[x] : x \in Ids})
    BY IdsNat, FiniteImage, Zenon
  <2>2. {f[x] : x \in Ids} = {EventSet(id) : id \in Ids}
    OBVIOUS
  <2> QED BY <2>1, <2>2
<1>3. IsFiniteSet(AllEvents)
  <2>1. \A X \in {EventSet(id) : id \in Ids} : IsFiniteSet(X)
    BY <1>1, Zenon
  <2> QED BY <1>2, <2>1, FS_UNION, Zenon DEF AllEvents
<1>4. IsFiniteSet({f \in AllEvents : f.op = "delete"})
  BY <1>3, FS_Subset, Zenon
<1>5. IsFiniteSet(Deletions)
  <2> DEFINE S == {e \in AllEvents : e.op = "delete"}
             f == [e \in S |-> <<e.key, e.version>>]
  <2>1. IsFiniteSet({f[x] : x \in S})
    BY <1>4, FiniteImage, Zenon
  <2>2. {f[x] : x \in S} = Deletions
    BY Zenon DEF Deletions
  <2> QED BY <2>1, <2>2, Zenon
<1> QED BY <1>5, FS_Subset, FS_CardinalityType, Zenon

\* A deletion that no state of the record covers yet finds room for a tombstone.
LEMMA RoomForDeletion ==
    ASSUME PipeShape, FactsInv, PlainFacts, NEW e \in AllEvents, WellFormed(e)
    PROVE  Room(part, e)
<1> SUFFICES ASSUME e.op = "delete", part.ver[e.key] <= e.version, part.tomb[e.key] = 0
             PROVE  Len(part.tombOrder) < MaxTombstones
  BY DEF Room
<1> DEFINE d == <<e.key, e.version>>
           D == DeletedIn(part)
<1>1. /\ e.key \in Keys /\ e.version \in Nat /\ e.version > 0
      /\ part.ver[e.key] \in Nat /\ part.tombOrder \in Seq(Keys)
  BY DEF PipeShape, PartSound, Sound, Partition, WellFormed, PlainFacts
<1>2. part.ver[e.key] # e.version
  <2> SUFFICES ASSUME part.ver[e.key] = e.version PROVE FALSE
    OBVIOUS
  <2>1. PICK f \in AllEvents : f.op = "upsert" /\ f.key = e.key /\ f.version = e.version
    BY <1>1 DEF FactsInv, Written
  <2> QED BY <2>1, Zenon DEF PlainFacts
<1>3. ~Reached(part, e.key, e.version)
  BY <1>1, <1>2, SMTT(20) DEF Reached
<1>4. d \in Deletions /\ d[1] = e.key /\ d[2] = e.version
  BY DEF Deletions
<1>5. d \notin D /\ D \in SUBSET Deletions
  BY <1>3, <1>4, SMTT(20) DEF DeletedIn
<1> HIDE DEF d, D
<1>6. IsFiniteSet(D) /\ Cardinality(D) \in Nat /\ D \cup {d} \in SUBSET Deletions
  BY <1>4, <1>5, DeletionsFinite, SMTT(20)
<1>7. Cardinality(D \cup {d}) = Cardinality(D) + 1
  BY <1>5, <1>6, FS_AddElement, Zenon
<1>8. Cardinality(D) + 1 <= Cardinality(Deletions) /\ Cardinality(Deletions) \in Nat
  BY <1>6, <1>7, DeletionsFinite, SMTT(20)
<1>9. Len(part.tombOrder) <= Cardinality(D) /\ Len(part.tombOrder) \in Nat
  BY <1>1 DEF FactsInv, TombstonesCounted, D
<1> QED BY <1>6, <1>8, <1>9, BoundsPositive, SMTT(20) DEF PlainFacts

\* What is in the partition stays there, and what was refused stays refused.
Forward ==
    /\ \A k \in Keys : \A v \in Nat : Reached(part, k, v) => Reached(part', k, v)
    /\ refused \subseteq refused'

LEMMA HandledKept ==
    ASSUME Forward, NEW e \in AllEvents
    PROVE  (Reflected(e) => Reflected(e)') /\ (Handled(e) => Handled(e)')
<1>1. PICK id \in Ids : e \in EventSet(id)
  BY DEF AllEvents
<1>2. e.key \in Keys /\ e.version \in Nat
  BY <1>1, EventsFormed DEF WellFormed
<1>3. Reflected(e) => Reflected(e)'
  BY <1>2, Zenon DEF Forward, Reflected, Reached
<1> QED BY <1>3, Zenon DEF Forward, Handled

LEMMA AnsweredKept ==
    ASSUME Forward, NEW id \in Ids, Answered(id)
    PROVE  \A e \in EventSet(id) : Handled(e)'
<1>1. \A e \in EventSet(id) : e \in AllEvents /\ Handled(e)
  BY EventsFormed, Zenon DEF Answered, Handled
<1> QED BY <1>1, HandledKept, Zenon

\* What has been answered stays answered wherever the stream keeps its messages.
LEMMA AckedKept ==
    ASSUME PipeShape, FactsInv, Forward,
           \A i \in 1..next : stream'[i] = stream[i],
           \A i \in 1..next' : i \notin pending' =>
               i \in 1..next /\ (i \notin pending \/ Answered(stream[i]))
    PROVE  AckedReflected'
<1> SUFFICES ASSUME NEW i \in 1..next', i \notin pending',
                    NEW e \in EventSet(stream'[i])
             PROVE  Handled(e)'
  BY Zenon DEF AckedReflected, Answered, Handled
<1>1. i \in 1..next /\ Answered(stream[i])
  BY Zenon DEF FactsInv, AckedReflected
<1>2. stream[i] \in Ids
  BY <1>1 DEF PipeShape, LogInv, LogTypes, PollShape
<1>3. \A f \in EventSet(stream[i]) : Handled(f)'
  BY <1>1, <1>2, AnsweredKept, Zenon
<1>4. stream'[i] = stream[i]
  BY <1>1
<1> QED BY <1>3, <1>4, Zenon

\* A step that leaves the partition's records and sources and the refusals alone keeps
\* what is said about them.
LEMMA PartitionKept ==
    ASSUME FactsInv, SameVersions(part, part'), part'.applied = part.applied, refused \subseteq refused'
    PROVE  Written' /\ Known' /\ TombstonesCounted' /\ Forward
<1>1. /\ part'.ver = part.ver /\ part'.tomb = part.tomb /\ part'.tombOrder = part.tombOrder
      /\ part'.applied = part.applied
  BY DEF SameVersions
<1>2. Written'
  BY <1>1 DEF FactsInv, Written
<1>3. \A k, v : Reached(part', k, v) <=> Reached(part, k, v)
  BY <1>1, Zenon DEF Reached
<1>4. Known'
  BY <1>1, <1>3, Zenon DEF FactsInv, Known, Reflected, Reached
<1>5. DeletedIn(part') = DeletedIn(part)
  BY <1>3, Zenon DEF DeletedIn
<1>6. TombstonesCounted'
  BY <1>1, <1>5, Zenon DEF FactsInv, TombstonesCounted, DeletedIn, Reached
<1> QED BY <1>2, <1>3, <1>4, <1>6, Zenon DEF Forward

LEMMA FactsInit == PipeInit => FactsInv
<1> SUFFICES ASSUME PipeInit PROVE FactsInv
  OBVIOUS
<1>1. /\ part.ver = [k \in Keys |-> 0] /\ part.applied = {} /\ part.tombOrder = <<>>
      /\ next = 0 /\ phase = "read"
  BY DEF PipeInit, NewPartition
<1>2. Written
  BY <1>1 DEF Written
<1>3. Known
  BY <1>1, Zenon DEF Known
<1>4. TombstonesCounted
  <2>1. DeletedIn(part) \in SUBSET Deletions
    BY DEF DeletedIn
  <2>2. Cardinality(DeletedIn(part)) \in Nat
    BY <2>1, DeletionsFinite
  <2> QED BY <1>1, <2>2 DEF TombstonesCounted
<1>5. Owed /\ Paid
  BY <1>1 DEF Owed, Paid
<1>6. AckedReflected
  BY <1>1 DEF AckedReflected
<1> QED BY <1>2, <1>3, <1>4, <1>5, <1>6, SMTT(20) DEF FactsInv

LEMMA LogStepFacts ==
    ASSUME PipeShape, FactsInv, [Next]_vars, UNCHANGED tailVars
    PROVE  FactsInv'
<1>1. \A i \in 1..Len(stream) : stream'[i] = stream[i]
  BY LogGrows, Zenon DEF PipeShape
<1>2. \A i \in 1..next : i \in 1..Len(stream)
  BY DEF PipeShape, PollShape, LogInv, LogTypes
<1>3. \A i \in 1..next : stream'[i] = stream[i]
  BY <1>1, <1>2, Zenon
<1>4. UNCHANGED <<next, pending, batch, events, phase, part, refused>>
  BY Zenon DEF tailVars
<1>5. Written' /\ Known' /\ TombstonesCounted' /\ Forward
  BY <1>4, PartitionKept, Zenon DEF SameVersions
<1>6. AckedReflected'
  BY <1>3, <1>4, <1>5, AckedKept, Zenon
<1>7. \A i \in batch : i \in 1..next
  BY Zenon DEF PipeShape, PollShape
<1>8. Paid'
  BY <1>3, <1>4, <1>7, Zenon DEF FactsInv, Paid, Answered, Reflected, Reached
<1>9. Owed'
  <2>1. Decoded(batch)' = Decoded(batch)
    BY <1>3, <1>4, <1>7, DecodedKept, Zenon
  <2>2. \A w \in Decoded(batch) : w[1] \in batch
    BY DEF Decoded
  <2>3. \A w \in Decoded(batch) : EventAt(w)' = EventAt(w)
    BY <1>3, <1>7, <2>2, Zenon DEF EventAt
  <2>4. \A e : Handled(e)' <=> Handled(e)
    BY <1>4, Zenon DEF Handled, Reflected, Reached
  <2>5. phase = "apply" => \A w \in Decoded(batch) : w \in events \/ Handled(EventAt(w))
    BY Zenon DEF FactsInv, Owed
  <2>6. \A w \in Decoded(batch) : Handled(EventAt(w)) => Handled(EventAt(w))'
    BY <2>3, <2>4, Zenon DEF Handled, Reflected, Reached
  <2> QED BY <1>4, <2>1, <2>5, <2>6, Zenon DEF Owed
<1> QED BY <1>5, <1>6, <1>8, <1>9, SMTT(20) DEF FactsInv

LEMMA PollFacts ==
    ASSUME PipeShape, FactsInv, Poll
    PROVE  FactsInv'
<1>1. /\ UNCHANGED <<stream, part, refused>> /\ phase' = "apply"
      /\ batch' = ReadEnvelopes /\ events' = Decoded(ReadEnvelopes)
      /\ pending' = pending \cup ReadEnvelopes
      /\ next' = IF pending = {} THEN Given ELSE next
  BY Zenon DEF Poll, Delivered
<1>2. Written' /\ Known' /\ TombstonesCounted' /\ Forward
  BY <1>1, PartitionKept, Zenon DEF SameVersions
<1>3. ASSUME NEW i \in 1..next', i \notin pending'
      PROVE  i \in 1..next /\ i \notin pending
  <2>1. CASE pending = {}
    <3>1. next' = Given /\ i \notin (next + 1)..Given
      BY <1>1, <1>3, <2>1, Zenon DEF ReadEnvelopes, Fresh
    <3>2. next \in Nat /\ Given \in Nat
      BY PositiveRead DEF PipeShape, PollShape, LogInv, LogTypes, Given
    <3> QED BY <1>3, <2>1, <3>1, <3>2, SMTT(20)
  <2>2. CASE pending # {}
    BY <1>1, <1>3, <2>2, Zenon
  <2> QED BY <2>1, <2>2
<1>4. AckedReflected'
  BY <1>1, <1>2, <1>3, AckedKept, Zenon
<1>5. Owed' /\ Paid'
  <2>1. Decoded(batch)' = events'
    BY <1>1, Zenon DEF Decoded
  <2>2. phase' # "ack"
    BY <1>1
  <2> QED BY <2>1, <2>2, Zenon DEF Owed, Paid
<1> QED BY <1>2, <1>4, <1>5, SMTT(20) DEF FactsInv

LEMMA ApplyNextFacts ==
    ASSUME PipeShape, FactsInv, PlainFacts, ApplyNext
    PROVE  FactsInv'
<1>w. PICK w, e : w = Earliest(events) /\ e = EventAt(w)
  BY Zenon
<1> DEFINE r == ApplyEvent(part, e)
<1>0. phase = "apply" /\ events # {} /\ PartSound /\ UNCHANGED stream
  BY Zenon DEF PipeShape, ApplyNext
<1>1. w \in events /\ w[1] \in batch /\ stream[w[1]] \in Ids /\ e \in EventSet(stream[w[1]])
  BY <1>0, <1>w, LeftEvents, Zenon
<1>2. WellFormed(e) /\ e \in AllEvents
  BY <1>1, EventsFormed, Zenon
<1>3. e.op # "patch" /\ e.version > 0 /\ ~Scoped(e.source)
  BY <1>2, Zenon DEF PlainFacts
<1>4. /\ part' = r.part /\ events' = events \ {w}
      /\ refused' = IF r.state = "rejected" THEN refused \cup {e} ELSE refused
      /\ UNCHANGED <<next, pending, batch, phase>>
  BY <1>w, Zenon DEF ApplyNext
<1>5. Room(part, e)
  BY <1>2, RoomForDeletion, Zenon
<1>6. /\ Advances(part, part', e)
      /\ r.state \in {"applied", "ignored"} => Reached(part', e.key, e.version)
      /\ r.state = "duplicate" => e.source \in part.applied
      /\ r.state \in States
      /\ part'.applied \subseteq part.applied \cup {e.source}
      /\ r.state \in {"duplicate", "rejected"} => part' = part
  BY <1>0, <1>2, <1>3, <1>4, <1>5, ApplyEventAdvances, Zenon DEF PartSound
<1> HIDE DEF r
<1>7. Forward
  BY <1>4, <1>6, Zenon DEF Forward, Advances
<1>8. e.key \in Keys /\ e.version \in Nat /\ e.source \in Sources \cup {NoSource}
  BY <1>2, SMTT(20) DEF WellFormed
<1>9. Written'
  <2> SUFFICES ASSUME NEW k \in Keys, part'.ver[k] > 0
               PROVE  \E f \in AllEvents : f.op = "upsert" /\ f.key = k /\ f.version = part'.ver[k]
    BY DEF Written
  <2>1. CASE part'.ver[k] = part.ver[k]
    BY <2>1 DEF FactsInv, Written
  <2>2. CASE part'.ver[k] # part.ver[k]
    <3>1. k = e.key /\ e.op = "upsert" /\ part'.ver[k] = e.version
      BY <1>6, <2>2 DEF Advances
    <3> QED BY <1>2, <3>1, ZenonT(30)
  <2> QED BY <2>1, <2>2, SMTT(20)
<1>10. r.state = "duplicate" => Reflected(e)
  BY <1>2, <1>6, ZenonT(30) DEF FactsInv, Known
<1>11. Handled(e)'
  <2>1. CASE r.state \in {"applied", "ignored"}
    BY <1>6, <2>1, Zenon DEF Handled, Reflected, Reached
  <2>2. CASE r.state = "rejected"
    BY <1>4, <2>2, Zenon DEF Handled
  <2>3. CASE r.state = "duplicate"
    BY <1>2, <1>7, <1>10, <2>3, HandledKept, Zenon DEF Handled
  <2> QED BY <1>6, <2>1, <2>2, <2>3, SMTT(20) DEF States
<1>12. Known'
  <2> SUFFICES ASSUME NEW f \in AllEvents, f.source \in part'.applied PROVE Reflected(f)'
    BY Zenon DEF Known
  <2>1. CASE f.source \in part.applied
    BY <1>7, <2>1, HandledKept, Zenon DEF FactsInv, Known
  <2>2. CASE f.source \notin part.applied
    <3>1. f.source = e.source
      BY <1>6, <2>2, Zenon
    <3>2. f.source # NoSource
      <4>1. part' \in Partition
        BY <1>0, <1>2, <1>4, ApplyEventSound, Zenon DEF PartSound, Sound, r
      <4> QED BY <4>1, SourcesWellFormed, SMTT(20) DEF Partition
    <3>3. f = e
      BY <1>2, <3>1, <3>2, Zenon DEF PlainFacts
    <3>4. part' # part
      BY <2>2, Zenon
    <3>5. r.state \in {"applied", "ignored"}
      BY <1>6, <3>4, SMTT(20) DEF States
    <3> QED BY <1>6, <3>3, <3>5, Zenon DEF Reflected, Reached
  <2> QED BY <2>1, <2>2
<1>13. TombstonesCounted'
  <2> DEFINE D == DeletedIn(part)
             E == {d \in Deletions : Reached(part', d[1], d[2])}
             t == <<e.key, e.version>>
  <2>1. D \in SUBSET Deletions /\ E \in SUBSET Deletions
    BY DEF DeletedIn
  <2>2. \A d \in Deletions : d[1] \in Keys /\ d[2] \in Nat
    <3>1. ASSUME NEW d \in Deletions PROVE d[1] \in Keys /\ d[2] \in Nat
      <4>1. PICK f \in AllEvents : d = <<f.key, f.version>>
        BY DEF Deletions
      <4>2. PICK id \in Ids : f \in EventSet(id)
        BY DEF AllEvents
      <4>3. f.key \in Keys /\ f.version \in Nat
        BY <4>2, EventsFormed DEF WellFormed
      <4> QED BY <4>1, <4>3, SMTT(20)
    <3> QED BY <3>1
  <2>3. D \subseteq E
    BY <1>7, <2>2, Zenon DEF Forward, DeletedIn
  <2>4. Cardinality(D) \in Nat /\ Cardinality(E) \in Nat /\ IsFiniteSet(D) /\ IsFiniteSet(E)
    BY <2>1, DeletionsFinite, Zenon
  <2>5. Len(part.tombOrder) <= Cardinality(D) /\ Len(part.tombOrder) \in Nat
    <3>1. part.tombOrder \in Seq(Keys)
      BY <1>0 DEF PartSound, Sound, Partition
    <3> QED BY <3>1 DEF FactsInv, TombstonesCounted
  <2>6. (D \cup {t} \subseteq E /\ t \notin D) => Cardinality(D) + 1 <= Cardinality(E)
    <3>1. t \notin D => Cardinality(D \cup {t}) = Cardinality(D) + 1
      BY <2>4, FS_AddElement, Zenon
    <3>2. D \cup {t} \subseteq E => Cardinality(D \cup {t}) <= Cardinality(E)
      BY <2>4, FS_Subset, Zenon
    <3> QED BY <3>1, <3>2, Zenon
  <2>7. Cardinality(D) <= Cardinality(E)
    BY <2>3, <2>4, FS_Subset
  <2>8. CASE part'.tombOrder = part.tombOrder
    <3> HIDE DEF D, E
    <3>1. Len(part'.tombOrder) <= Cardinality(E)
      BY <2>4, <2>5, <2>7, <2>8, SMTT(20)
    <3> QED BY <3>1, Zenon DEF TombstonesCounted, DeletedIn, Reached, E
  <2>9. CASE part'.tombOrder # part.tombOrder
    <3>1. /\ Len(part'.tombOrder) = Len(part.tombOrder) + 1
          /\ e.op = "delete" /\ part.tomb[e.key] = 0 /\ part.ver[e.key] <= e.version
          /\ part'.tomb[e.key] = e.version
      BY <1>6, <2>9, ZenonT(30) DEF Advances
    <3>2. t \in Deletions /\ t[1] = e.key /\ t[2] = e.version
      BY <1>2, <3>1, SMTT(20) DEF Deletions
    <3>3. part.ver[e.key] \in Nat
      BY <1>0, <1>8 DEF PartSound, Sound, Partition
    <3>4. part.ver[e.key] # e.version
      <4>1. ASSUME part.ver[e.key] = e.version PROVE FALSE
        <5>1. PICK f \in AllEvents : f.op = "upsert" /\ f.key = e.key /\ f.version = e.version
          BY <1>3, <1>8, <4>1, SMTT(20) DEF FactsInv, Written
        <5> QED BY <1>2, <3>1, <5>1, Zenon DEF PlainFacts
      <4> QED BY <4>1
    <3>5. ~Reached(part, e.key, e.version) /\ Reached(part', e.key, e.version)
      BY <1>3, <1>8, <3>1, <3>3, <3>4, SMTT(20) DEF Reached
    <3>6. D \cup {t} \subseteq E /\ t \notin D
      BY <2>3, <3>2, <3>5, Zenon DEF DeletedIn
    <3> HIDE DEF D, E
    <3>7. Len(part'.tombOrder) <= Cardinality(E)
      BY <2>4, <2>5, <2>6, <3>1, <3>6, SMTT(20)
    <3> QED BY <3>7, Zenon DEF TombstonesCounted, DeletedIn, Reached, E
  <2> QED BY <2>8, <2>9, SMTT(20)
<1>14. AckedReflected'
  BY <1>0, <1>4, <1>7, AckedKept, Zenon
<1>15. Owed' /\ Paid'
  <2>1. Decoded(batch)' = Decoded(batch)
    BY <1>0, <1>4, DecodedKept, Zenon
  <2>2. \A u : EventAt(u)' = EventAt(u)
    BY <1>0, Zenon DEF EventAt
  <2>3. ASSUME NEW u \in Decoded(batch), u \notin events' PROVE Handled(EventAt(u))'
    <3>1. CASE u = w
      BY <1>w, <1>11, <2>2, <3>1, Zenon DEF Handled, Reflected, Reached
    <3>2. CASE u # w
      <4>1. Handled(EventAt(u))
        BY <1>0, <1>4, <2>3, <3>2, Zenon DEF FactsInv, Owed
      <4>2. EventAt(u) \in AllEvents
        <5>1. PICK i \in batch : u \in {i} \X DOMAIN EventsOf(stream[i])
          BY <2>3, Zenon DEF Decoded
        <5>2. u[1] = i /\ u[2] \in DOMAIN EventsOf(stream[i])
          BY <5>1
        <5>3. stream[i] \in Ids
          BY DEF PipeShape, LogInv, LogTypes, PollShape
        <5>4. EventAt(u) \in EventSet(stream[i])
          BY <5>2, Zenon DEF EventAt, EventSet
        <5> QED BY <5>3, <5>4, EventsFormed, Zenon
      <4> QED BY <1>7, <2>2, <4>1, <4>2, HandledKept, Zenon DEF Handled, Reflected, Reached
    <3> QED BY <3>1, <3>2
  <2>4. phase' # "ack"
    BY <1>0, <1>4
  <2> QED BY <2>1, <2>3, <2>4, Zenon DEF Owed, Paid
<1> QED BY <1>9, <1>12, <1>13, <1>14, <1>15, SMTT(20) DEF FactsInv

LEMMA EndApplyFacts ==
    ASSUME PipeShape, FactsInv, EndApply
    PROVE  FactsInv'
<1>1. /\ UNCHANGED <<stream, next, pending, refused>> /\ phase = "apply"
      /\ part' = FinishApply(part, accepted) /\ phase' = AfterApply
      /\ batch' = IF phase' = "read" THEN {} ELSE batch
  BY Zenon DEF EndApply
<1>2. SameVersions(part, part') /\ part'.applied = part.applied
  <2>1. part \in Partition
    BY DEF PipeShape, PartSound, Sound
  <2> QED BY <1>1, <2>1 DEF FinishApply, SameVersions, Partition
<1>3. Written' /\ Known' /\ TombstonesCounted' /\ Forward
  BY <1>1, <1>2, PartitionKept, Zenon
<1>4. AckedReflected'
  BY <1>1, <1>3, AckedKept, Zenon
<1>5. phase' # "apply"
  BY <1>1 DEF AfterApply
<1>6. Paid'
  <2> SUFFICES ASSUME phase' = "ack", NEW i \in batch', NEW e \in EventSet(stream'[i])
               PROVE  Handled(e)'
    BY Zenon DEF Paid, Answered, Handled
  <2>1. events = {}
    BY <1>1 DEF AfterApply
  <2>2. i \in batch /\ stream'[i] = stream[i]
    BY <1>1
  <2>3. PICK j \in DOMAIN EventsOf(stream[i]) : e = EventsOf(stream[i])[j]
    BY <2>2, Zenon DEF EventSet
  <2>4. <<i, j>> \in Decoded(batch) /\ EventAt(<<i, j>>) = e
    BY <2>2, <2>3 DEF Decoded, EventAt
  <2>5. Handled(e)
    BY <1>1, <2>1, <2>4, Zenon DEF FactsInv, Owed
  <2>6. stream[i] \in Ids
    <3>1. stream \in Seq(Ids)
      BY Zenon DEF PipeShape, LogInv, LogTypes
    <3>2. next \in 0..Len(stream) /\ i \in 1..next
      BY <2>2, Zenon DEF PipeShape, PollShape
    <3>3. next \in Nat /\ Len(stream) \in Nat /\ next <= Len(stream)
      BY <3>1, <3>2
    <3> QED BY <3>1, <3>2, <3>3
  <2>7. e \in AllEvents
    BY <2>2, <2>6, EventsFormed, Zenon
  <2> QED BY <1>3, <2>5, <2>7, HandledKept, Zenon
<1> QED BY <1>3, <1>4, <1>5, <1>6, Zenon DEF FactsInv, Owed

LEMMA AckFacts ==
    ASSUME PipeShape, FactsInv, ~AckIgnoresContext, NEW applied \in BOOLEAN, Ack(applied)
    PROVE  FactsInv'
<1>1. UNCHANGED <<stream, next, part, refused>> /\ phase' = "read"
  BY Zenon DEF Ack
<1>2. Written' /\ Known' /\ TombstonesCounted' /\ Forward
  BY <1>1, PartitionKept, Zenon DEF SameVersions
<1>3. pending' = pending \/ (phase = "ack" /\ pending' = pending \ batch)
  BY Zenon DEF Ack
<1>4. \A i \in 1..next' : i \notin pending' =>
          i \in 1..next /\ (i \notin pending \/ Answered(stream[i]))
  BY <1>1, <1>3, Zenon DEF FactsInv, Paid
<1>5. AckedReflected'
  BY <1>1, <1>2, <1>4, AckedKept, Zenon
<1>6. phase' # "apply" /\ phase' # "ack"
  BY <1>1
<1> QED BY <1>2, <1>5, <1>6, Zenon DEF FactsInv, Owed, Paid

LEMMA FactsStep ==
    ASSUME PlainFacts, ~AckIgnoresContext
    PROVE  PipeShape /\ FactsInv /\ [PipeNext]_pipeVars => FactsInv'
<1> SUFFICES ASSUME PipeShape, FactsInv, [PipeNext]_pipeVars PROVE FactsInv'
  OBVIOUS
<1>1. CASE UNCHANGED pipeVars
  BY <1>1, LogStepFacts, Zenon DEF pipeVars
<1>2. CASE Next /\ UNCHANGED tailVars
  BY <1>2, LogStepFacts, Zenon
<1>3. CASE TailStep
  BY <1>3, PollFacts, ApplyNextFacts, EndApplyFacts, AckFacts, Zenon DEF TailStep
<1> QED BY <1>1, <1>2, <1>3, SMTT(20) DEF PipeNext

-----------------------------------------------------------------------------
(* Theorems.                                                               *)

\* The inductive invariant of the pipeline, whatever the facts: only committed rows are in
\* the stream, the messages of a poll are pending entries of it, the events in hand are
\* decoded from them, and the apply path keeps the partition sound.
THEOREM ShapeInvariance == PipeSpec => []PipeShape
  BY ShapeInit, ShapeStep, PTL DEF PipeSpec

\* Whatever the facts, the limits and the faults: the group's bookkeeping stays within
\* the stream, a poll works on messages that are pending, the partition is well formed,
\* and only events of committed rows are refused.
THEOREM PipeTypesCorrect == PipeSpec => []PipeTypeOK
<1>1. PipeShape => PipeTypeOK
  <2> SUFFICES ASSUME PipeShape PROVE PipeTypeOK
    OBVIOUS
  <2>1. log \subseteq Ids /\ stream \in Seq(Ids)
    BY DEF PipeShape, LogInv, LogTypes
  <2>2. done \subseteq log
    BY Zenon DEF PipeShape, LogInv, Shown, InStream, StreamOfLog
  <2>3. part \in Partition
    BY DEF PipeShape, PartSound, Sound
  <2> QED BY <2>1, <2>2, <2>3, Zenon DEF PipeShape, PollShape, PipeTypeOK
<1> QED
  BY <1>1, ShapeInvariance, PTL

\* The safety of the event log is not disturbed by the tailer that consumes its stream.
THEOREM LogSafeInPipeline ==
    PipeSpec => [](ClaimExclusive /\ CopiesExplained /\ AttemptsBounded)
<1>1. PipeShape => ClaimExclusive /\ CopiesExplained /\ AttemptsBounded
  BY HeldAlone, CopiesCovered, TriesCounted, Zenon DEF PipeShape
<1> QED
  BY <1>1, ShapeInvariance, PTL

\* With the tailer running the event log is an outbox: its steps show and settle nothing.
THEOREM PipelineImplementsOutbox == PipeSpec => ImplementsOutbox
<1>1. PipeInit => OutboxOfLog!Init
  BY OutboxStart DEF PipeInit
<1>2. PipeShape /\ PipeShape' /\ [PipeNext]_pipeVars
        => [OutboxOfLog!Next]_<<log, {id \in Ids : InStream(id)}, done>>
  <2> SUFFICES ASSUME PipeShape, PipeShape', [PipeNext]_pipeVars
               PROVE  [OutboxOfLog!Next]_<<log, {id \in Ids : InStream(id)}, done>>
    OBVIOUS
  <2>1. CASE [Next]_vars
    BY <2>1, OutboxStep, Zenon DEF PipeShape
  <2>2. CASE TailStep
    <3>1. UNCHANGED <<rowVars, stream>>
      BY <2>2, Zenon DEF TailStep, Poll, ApplyNext, EndApply, Ack
    <3>2. {id \in Ids : InStream(id)}' = {id \in Ids : InStream(id)}
      BY <3>1, Zenon DEF InStream
    <3> QED BY <3>1, <3>2 DEF rowVars
  <2> QED BY <2>1, <2>2, Zenon DEF PipeNext, pipeVars
<1> QED
  BY <1>1, <1>2, ShapeInvariance, PTL DEF PipeSpec, ImplementsOutbox, OutboxOfLog!Spec

\* No fact is lost behind an acknowledgement: for every number of rows, drainers, faults,
\* redeliveries and duplicates, and every window of remembered sources, what the tailer
\* has acknowledged is reflected in the projection or was refused by it, and stays so.
THEOREM AckedCorrect ==
    ASSUME PlainFacts, ~AckIgnoresContext
    PROVE  PipeSpec => []AckedReflected
<1>1. FactsInv => AckedReflected
  BY DEF FactsInv
<1>2. PipeSpec => []FactsInv
  BY FactsInit, FactsStep, ShapeInvariance, PTL DEF PipeSpec
<1> QED
  BY <1>1, <1>2, PTL
=============================================================================
