------------------------ MODULE LiveProjectionProofs ------------------------
(***************************************************************************)
(* A live client is never behind without reason, for any records, versions *)
(* and connections, page and queue sizes, and any number of faults.        *)
(* Accounted is not inductive.  It needs that what travels is never newer  *)
(* than the partition (Travelling), what the pages of a load have covered  *)
(* although records change between them (Covers), and that no load leaves  *)
(* out a record below the watermark of the one before (Settled).  Wires    *)
(* and Queues are the shapes of what the hub and the client hold.          *)
(***************************************************************************)
EXTENDS LiveProjection, WellFoundedInduction, TLAPS

RecordTypes ==
    /\ recs \in [Keys -> [key : Keys, version : 0..MaxVersion, op : {"upsert", "delete"}]]
    /\ \A k \in Keys : recs[k].key = k /\ (recs[k].version = 0 => recs[k].op = "delete")
    /\ versions \in [Keys -> Nat]
    /\ \A k \in Keys : versions[k] <= recs[k].version

\* What is between the partition and the store, or lost there.
Flow == lost \cup OnItsWay

\* A mutation of the past, or the last one of its record.
Past(m) ==
    /\ m \in Mutation
    /\ m.version <= recs[m.key].version
    /\ m.version = recs[m.key].version => m = recs[m.key]

Travelling == \A m \in Flow \cup load.got : Past(m)

\* The load has read every live record up to its watermark, or will in the next page.
Covers ==
    \A k \in Keys :
        recs[k].op = "upsert" /\ recs[k].version > load.since /\ recs[k].version <= load.mark
            => recs[k] \in load.got \/ (load.stage = "next" /\ recs[k].version < load.cursor)

LoadShape ==
    /\ DOMAIN load = {"stage", "since", "cursor", "got", "mark"}
    /\ load.stage \in {"none", "first", "next", "done"}
    /\ load.since \in Nat /\ load.cursor \in Nat /\ load.mark \in Nat
    /\ sourceWatermark \in Nat /\ sourceWatermark <= Watermark
    /\ load.stage # "none" => load.since = sourceWatermark
    /\ load.stage \in {"none", "first"} => load.cursor = 0
    /\ load.stage = "next" => load.cursor > 0
    /\ load.stage \in {"next", "done"} => load.mark <= Watermark /\ Covers

\* Up to the watermark of the last load the store holds every live record.
Settled ==
    \A k \in Keys : recs[k].op = "upsert" /\ recs[k].version <= sourceWatermark
                        => versions[k] = recs[k].version

\* Before the first connect nothing is kept for the binding.
NotYet ==
    /\ status = "loading" <=> load.stage # "none"
    /\ status = "idle" => ~src.entry /\ piped = {} /\ buffered = {}

SourceShape(s) ==
    /\ DOMAIN s = {"ws", "socket", "opening", "live", "exhausted", "attempt", "awaiting",
                   "timers", "handle", "entry"}
    /\ s.ws \in [Conns -> {"unused", "connecting", "open", "closing"}]
    /\ s.socket \in Conns \cup {NoConn}
    /\ s.attempt \in 0..(MaxConsecutiveFailures - 1)

\* No handler of the server has seen the connection yet, or any more.
Shut == {"unused", "connecting"}

Written == [type : {"delta", "resync"}, of : SUBSET Mutation]

\* The channels and the wires, and what a connection that is shut has on them: nothing.
Wires ==
    /\ frames \in [Conns -> Seq(Mutation)] /\ shed \in [Conns -> SUBSET Mutation]
    /\ down \in [Conns -> Seq(Written)]
    /\ up \in [Conns -> Seq({"subscribe", "unsubscribe"})]
    /\ reg \subseteq Conns /\ SourceShape(src)
    /\ \A c \in Conns :
         /\ Len(frames[c]) <= QueueSize
         /\ src.ws[c] \in Shut => /\ c \notin reg /\ frames[c] = <<>> /\ shed[c] = {}
                                  /\ up[c] = <<>> /\ down[c] = <<>>

Queues ==
    /\ Flow \cup load.got \subseteq Mutation
    /\ IsFiniteSet(queued) /\ Cardinality(queued) < MaxBatchSize
    /\ shown \subseteq Keys
    /\ status \in {"idle", "loading", "live", "degraded", "error"}

LiveInv == RecordTypes /\ Travelling /\ LoadShape /\ Settled /\ NotYet /\ Accounted

-----------------------------------------------------------------------------
(* Extremes of bounded sets.                                               *)

LEMMA LeastNumber ==
    ASSUME NEW S \in SUBSET Nat, S # {}
    PROVE  \E x \in S : \A y \in S : x <= y
<1>1. PICK x \in S : \A y \in S : ~(<<y, x>> \in OpToRel(<, Nat))
  BY WFMin, NatLessThanWellFounded, Zenon
<1>2. \A y \in S : ~(y < x)
  BY <1>1, Zenon DEF OpToRel
<1>3. \A y \in S : x <= y
  BY <1>2
<1> QED BY <1>3

LEMMA MinIsLowest ==
    ASSUME NEW S \in SUBSET Nat, S # {}
    PROVE  Min(S) \in S /\ \A y \in S : Min(S) <= y
<1>1. PICK x \in S : \A y \in S : x <= y
  BY LeastNumber
<1> QED BY <1>1, Zenon DEF Min

LEMMA GreatestNumber ==
    ASSUME NEW n \in Nat, NEW S \in SUBSET (0..n), S # {}
    PROVE  \E x \in S : \A y \in S : y <= x
<1> DEFINE T == {n - i : i \in S}
<1>0. \A i \in S : n - i \in Nat
  OBVIOUS
<1>1. T \in SUBSET Nat /\ T # {}
  BY <1>0, Zenon
<1>2. PICK t \in T : \A u \in T : t <= u
  BY <1>1, LeastNumber, Zenon
<1>3. PICK x \in S : t = n - x
  BY <1>2
<1>4. ASSUME NEW y \in S PROVE y <= x
  <2>1. n - y \in T
    OBVIOUS
  <2>2. n - x <= n - y
    BY <1>2, <1>3, <2>1, Zenon
  <2> QED BY <2>2
<1> QED BY <1>4

LEMMA MaxIsHighest ==
    ASSUME NEW n \in Nat, NEW S \in SUBSET (0..n), S # {}
    PROVE  Max(S) \in S /\ \A y \in S : Max(S) >= y
<1>1. PICK x \in S : \A y \in S : y <= x
  BY GreatestNumber, Zenon
<1>2. \A y \in S : x >= y
  BY <1>1
<1> QED BY <1>2, Zenon DEF Max

\* The highest version is that of some record and no record is newer.
LEMMA HighestVersion ==
    ASSUME NEW r, \A k \in Keys : r[k].version \in 0..MaxVersion
    PROVE  LET W == Max({r[k].version : k \in Keys})
           IN  /\ W \in 0..MaxVersion /\ W \in Nat
               /\ \A k \in Keys : r[k].version \in Nat /\ r[k].version <= W
<1> DEFINE S == {r[k].version : k \in Keys}
<1>1. S \in SUBSET (0..MaxVersion) /\ S # {}
  BY SomeKeys
<1>2. Max(S) \in S /\ \A y \in S : Max(S) >= y
  BY <1>1, HubBounds, MaxIsHighest, Zenon
<1>3. \A k \in Keys : r[k].version \in S /\ r[k].version \in Nat
  BY <1>1
<1> HIDE DEF S
<1>4. Max(S) \in Nat /\ \A k \in Keys : r[k].version <= Max(S)
  <2>0. Max(S) \in 0..MaxVersion
    BY <1>1, <1>2, Zenon
  <2>1. Max(S) \in Nat
    BY <2>0, HubBounds
  <2>2. \A k \in Keys : Max(S) >= r[k].version
    BY <1>2, <1>3, Zenon
  <2> QED BY <1>3, <2>1, <2>2
<1> QED BY <1>1, <1>2, <1>3, <1>4 DEF S

LEMMA WatermarkHighest ==
    ASSUME RecordTypes
    PROVE  /\ Watermark \in 0..MaxVersion /\ Watermark \in Nat
           /\ \A k \in Keys : recs[k].version \in Nat /\ recs[k].version <= Watermark
<1>1. \A k \in Keys : recs[k].version \in 0..MaxVersion
  BY DEF RecordTypes
<1> QED BY <1>1, HighestVersion DEF Watermark

-----------------------------------------------------------------------------
(* What applyMany does to the store.                                       *)

LEMMA NewestIsOne ==
    ASSUME NEW S \in SUBSET Mutation, S # {}
    PROVE  Newest(S) \in S /\ \A m \in S : m.version <= Newest(S).version
<1> DEFINE V == {m.version : m \in S}
<1>1. V \in SUBSET (0..MaxVersion) /\ V # {}
  BY HubBounds DEF Mutation
<1>2. PICK v \in V : \A w \in V : w <= v
  BY <1>1, HubBounds, GreatestNumber, Zenon
<1>3. PICK m \in S : v = m.version
  BY <1>2
<1>4. \A n \in S : n.version <= m.version
  BY <1>2, <1>3
<1> QED BY <1>4, Zenon DEF Newest

LEMMA ApplyManyRaises ==
    ASSUME RecordTypes, NEW S, \A m \in S : Past(m), ApplyMany(S)
    PROVE  /\ versions' \in [Keys -> Nat]
           /\ \A k \in Keys : versions[k] <= versions'[k] /\ versions'[k] <= recs[k].version
           /\ \A k \in Keys : recs[k] \in S => versions'[k] = recs[k].version
<1> SUFFICES ASSUME NEW k \in Keys
             PROVE  /\ versions'[k] \in Nat
                    /\ versions[k] <= versions'[k] /\ versions'[k] <= recs[k].version
                    /\ recs[k] \in S => versions'[k] = recs[k].version
  <2>1. versions' = [k \in Keys |-> versions'[k]]
    BY DEF ApplyMany
  <2> QED BY <2>1
<1> DEFINE A == Accepted(S, k)
<1>1. versions'[k] = IF A # {} THEN Newest(A).version ELSE versions[k]
  BY DEF ApplyMany
<1>2. versions[k] \in Nat /\ recs[k].version \in Nat /\ versions[k] <= recs[k].version /\ recs[k].key = k
  BY DEF RecordTypes
<1>3. \A m \in A : /\ m \in Mutation /\ m \in S /\ m.key = k /\ m.version >= versions[k]
                   /\ m.version <= recs[k].version
  BY DEF Accepted, Past
<1>4. recs[k] \in S => recs[k] \in A
  BY <1>2 DEF Accepted
<1> HIDE DEF A
<1>5. CASE A = {}
  BY <1>1, <1>2, <1>4, <1>5
<1>6. CASE A # {}
  <2>1. Newest(A) \in A /\ \A m \in A : m.version <= Newest(A).version
    BY <1>3, <1>6, NewestIsOne
  <2>2. Newest(A).version \in Nat
    BY <1>3, <2>1 DEF Mutation
  <2> QED BY <1>1, <1>2, <1>3, <1>4, <1>6, <2>1, <2>2
<1> QED BY <1>5, <1>6

-----------------------------------------------------------------------------
(* Steps that move mutations, apply them, or begin a load.                 *)

LEMMA PartitionSame ==
    ASSUME UNCHANGED recs
    PROVE  Watermark' = Watermark /\ \A m : Past(m)' <=> Past(m)
<1>1. Watermark' = Watermark
  BY Zenon DEF Watermark
<1>2. \A m : Past(m)' <=> Past(m)
  BY Zenon DEF Past
<1> QED BY <1>1, <1>2

LEMMA LoadSame ==
    ASSUME LoadShape, UNCHANGED <<recs, load, sourceWatermark>>
    PROVE  LoadShape' /\ \A m : Loading(m)' <=> Loading(m)
<1>1. Watermark' = Watermark
  BY PartitionSame, Zenon
<1>2. Covers' <=> Covers
  BY Zenon DEF Covers
<1>3. LoadShape'
  BY <1>1, <1>2, Zenon DEF LoadShape
<1>4. \A m : Loading(m)' <=> Loading(m)
  BY Zenon DEF Loading
<1> QED BY <1>3, <1>4

\* A mutation changes its place between the partition and the store.
LEMMA FlowKept ==
    ASSUME LiveInv, UNCHANGED <<recs, versions, load, sourceWatermark>>, Flow' = Flow, NotYet'
    PROVE  LiveInv'
<1>1. RecordTypes'
  BY Zenon DEF LiveInv, RecordTypes
<1>2. Travelling'
  BY PartitionSame, Zenon DEF LiveInv, Travelling
<1>3. LoadShape' /\ \A m : Loading(m)' <=> Loading(m)
  BY LoadSame, Zenon DEF LiveInv
<1>4. Settled'
  BY Zenon DEF LiveInv, Settled
<1>5. Accounted'
  <2>1. ASSUME NEW k \in Keys, versions[k] < recs[k].version
        PROVE  recs[k] \in Flow \/ Loading(recs[k])
    BY <2>1, Zenon DEF LiveInv, Accounted, Flow
  <2>2. \A k \in Keys : Loading(recs[k])' <=> Loading(recs[k])
    BY Zenon DEF Loading
  <2>3. ASSUME NEW k \in Keys, versions'[k] < recs'[k].version
        PROVE  recs'[k] \in Flow' \/ Loading(recs[k])'
    BY <2>1, <2>2, <2>3, Zenon
  <2> QED BY <2>3, Zenon DEF Accounted, Flow
<1> QED BY <1>1, <1>2, <1>3, <1>4, <1>5 DEF LiveInv

\* Some of what travels is applied to the store.
LEMMA FlowApplied ==
    ASSUME LiveInv, UNCHANGED <<recs, load, sourceWatermark>>, NotYet',
           NEW S \in SUBSET Flow, ApplyMany(S), Flow' \subseteq Flow, Flow \subseteq Flow' \cup S
    PROVE  LiveInv'
<1>0. /\ versions' \in [Keys -> Nat]
      /\ \A k \in Keys : versions[k] <= versions'[k] /\ versions'[k] <= recs[k].version
      /\ \A k \in Keys : recs[k] \in S => versions'[k] = recs[k].version
  BY ApplyManyRaises, Zenon DEF LiveInv, Travelling
<1>v. \A k \in Keys : versions[k] \in Nat /\ versions'[k] \in Nat /\ recs[k].version \in Nat
  BY <1>0 DEF LiveInv, RecordTypes
<1>1. RecordTypes'
  BY <1>0, Zenon DEF LiveInv, RecordTypes
<1>2. Travelling'
  BY PartitionSame, Zenon DEF LiveInv, Travelling
<1>3. LoadShape'
  BY LoadSame, Zenon DEF LiveInv
<1>4. Settled'
  <2>1. \A k \in Keys : versions[k] = recs[k].version => versions'[k] = recs[k].version
    BY <1>0, <1>v
  <2> QED BY <2>1, Zenon DEF LiveInv, Settled
<1>5. Accounted'
  <2>1. ASSUME NEW k \in Keys, versions'[k] < recs[k].version
        PROVE  recs[k] \in Flow' \/ Loading(recs[k])
    <3>1. versions[k] < recs[k].version /\ versions'[k] # recs[k].version
      BY <1>0, <1>v, <2>1
    <3>2. recs[k] \in Flow \/ Loading(recs[k])
      BY <3>1, Zenon DEF LiveInv, Accounted, Flow
    <3>3. recs[k] \notin S
      BY <1>0, <3>1, Zenon
    <3> QED BY <3>2, <3>3, Zenon
  <2>2. \A k \in Keys : Loading(recs[k])' <=> Loading(recs[k])
    BY Zenon DEF Loading
  <2>3. ASSUME NEW k \in Keys, versions'[k] < recs'[k].version
        PROVE  recs'[k] \in Flow' \/ Loading(recs[k])'
    BY <2>1, <2>2, <2>3, Zenon
  <2> QED BY <2>3, Zenon DEF Accounted, Flow
<1> QED BY <1>1, <1>2, <1>3, <1>4, <1>5 DEF LiveInv

\* A load from the watermark of the last one covers every live record the store lacks.
LEMMA LoadBegun ==
    ASSUME LiveInv, UNCHANGED <<recs, versions, sourceWatermark>>, NotYet',
           load' = [NoLoad EXCEPT !.stage = "first", !.since = sourceWatermark],
           Flow' \subseteq Flow,
           \A k \in Keys : recs[k] \in Flow => recs[k] \in Flow' \/ recs[k].op = "upsert"
    PROVE  LiveInv'
<1>0. /\ load'.stage = "first" /\ load'.since = sourceWatermark
      /\ load'.cursor = 0 /\ load'.mark = 0 /\ load'.got = {}
      /\ DOMAIN load' = {"stage", "since", "cursor", "got", "mark"}
  BY DEF NoLoad
<1>1. RecordTypes' /\ Settled'
  BY Zenon DEF LiveInv, RecordTypes, Settled
<1>2. Travelling'
  BY <1>0, PartitionSame, Zenon DEF LiveInv, Travelling
<1>3. LoadShape'
  <2>1. Watermark' = Watermark
    BY PartitionSame, Zenon
  <2> QED BY <1>0, <2>1 DEF LiveInv, LoadShape
<1>4. Accounted'
  <2>1. ASSUME NEW k \in Keys, versions[k] < recs[k].version, recs[k].op = "upsert"
        PROVE  recs[k].version > sourceWatermark
    <3>1. versions[k] \in Nat /\ recs[k].version \in Nat /\ sourceWatermark \in Nat
      BY DEF LiveInv, RecordTypes, LoadShape
    <3> QED BY <2>1, <3>1 DEF LiveInv, Settled
  <2>2. ASSUME NEW k \in Keys, versions[k] < recs[k].version, recs[k].op = "upsert"
        PROVE  Loading(recs[k])'
    BY <1>0, <2>1, <2>2, Zenon DEF Loading
  <2>3. ASSUME NEW k \in Keys, versions[k] < recs[k].version, recs[k].op # "upsert"
        PROVE  recs[k] \in Flow'
    <3>1. ~Loading(recs[k])
      BY <2>3, Zenon DEF Loading
    <3>2. recs[k] \in Flow
      BY <2>3, <3>1, Zenon DEF LiveInv, Accounted, Flow
    <3> QED BY <2>3, <3>2, Zenon
  <2>4. ASSUME NEW k \in Keys, versions'[k] < recs'[k].version
        PROVE  recs'[k] \in Flow' \/ Loading(recs[k])'
    BY <2>2, <2>3, <2>4, Zenon
  <2> QED BY <2>4, Zenon DEF Accounted, Flow
<1> QED BY <1>1, <1>2, <1>3, <1>4 DEF LiveInv

-----------------------------------------------------------------------------
(* The WebSocket source.                                                   *)

SourceOK(S) ==
    /\ DOMAIN S = {"src", "up"} /\ SourceShape(S.src)
    /\ S.up \in [Conns -> Seq({"subscribe", "unsubscribe"})]
    /\ \A c \in Conns : S.src.ws[c] \in Shut => S.up[c] = <<>>

\* T is a state of the source after S in which no connection is shut that was not.
Follows(T, S) ==
    SourceOK(T) /\ \A c \in Conns : T.src.ws[c] \in Shut => S.src.ws[c] \in Shut

LEMMA TrySendFollows ==
    ASSUME NEW S, SourceOK(S), NEW message \in {"subscribe", "unsubscribe"}
    PROVE  Follows(TrySend(S, message), S) /\ TrySend(S, message).src = S.src
<1>1. CASE ~Sendable(S)
  BY <1>1 DEF TrySend, Follows
<1>2. CASE Sendable(S)
  <2> DEFINE c == S.src.socket
             T == [S EXCEPT !.up[S.src.socket] = Append(@, message)]
  <2>1. c \in Conns /\ S.src.ws[c] = "open"
    BY <1>2 DEF Sendable, SourceOK, SourceShape
  <2>2. S.up[c] \in Seq({"subscribe", "unsubscribe"})
    BY <2>1 DEF SourceOK
  <2>3. DOMAIN T = {"src", "up"} /\ T.src = S.src /\ T.up = [S.up EXCEPT ![c] = Append(@, message)]
    BY DEF SourceOK
  <2>4. T.up \in [Conns -> Seq({"subscribe", "unsubscribe"})]
    BY <2>1, <2>2, <2>3 DEF SourceOK
  <2>5. TrySend(S, message) = T
    BY <1>2, Zenon DEF TrySend
  <2> HIDE DEF T
  <2>6. \A d \in Conns : S.src.ws[d] \in Shut => T.up[d] = <<>>
    BY <2>1, <2>3 DEF SourceOK, Shut
  <2>7. SourceOK(T)
    BY <2>3, <2>4, <2>6 DEF SourceOK
  <2> QED BY <2>3, <2>5, <2>7 DEF Follows
<1> QED BY <1>1, <1>2

LEMMA ConnectFollows ==
    ASSUME NEW S, SourceOK(S)
    PROVE  Follows(Connect(S), S) /\ Connect(S).src.entry = S.src.entry
<1> DEFINE T == [S EXCEPT !.src.opening = TRUE, !.src.awaiting = @ + 1]
<1>1. Follows(T, S) /\ T.src.entry = S.src.entry
  BY Zenon DEF Follows, SourceOK, SourceShape
<1>2. Connect(S) = S \/ Connect(S) = T
  BY Zenon DEF Connect
<1>3. Follows(S, S)
  BY Zenon DEF Follows
<1> HIDE DEF T
<1> QED BY <1>1, <1>2, <1>3

LEMMA SubscribeFollows ==
    ASSUME NEW S, SourceOK(S)
    PROVE  Follows(SubscribeProjection(S), S) /\ SubscribeProjection(S).src.entry
<1> DEFINE T == [S EXCEPT !.src.entry = TRUE,
                          !.src.attempt = IF S.src.exhausted THEN 0 ELSE @,
                          !.src.exhausted = FALSE]
<1>0. 0 \in 0..(MaxConsecutiveFailures - 1)
  BY ClientBounds
<1>1. Follows(T, S) /\ T.src.entry
  <2>1. /\ DOMAIN T = {"src", "up"} /\ T.up = S.up
        /\ T.src = [S.src EXCEPT !.entry = TRUE,
                                 !.attempt = IF S.src.exhausted THEN 0 ELSE @,
                                 !.exhausted = FALSE]
    BY DEF SourceOK
  <2> HIDE DEF T
  <2>2. SourceShape(T.src) /\ T.src.ws = S.src.ws /\ T.src.entry
    BY <1>0, <2>1 DEF SourceOK, SourceShape
  <2> QED BY <2>1, <2>2 DEF SourceOK, Follows
<1>3. SubscribeProjection(S) = IF T.src.live THEN TrySend(T, "subscribe") ELSE Connect(T)
  BY Zenon DEF SubscribeProjection
<1> HIDE DEF T
<1>5. SourceOK(T)
  BY <1>1, Zenon DEF Follows
<1>6. /\ Follows(TrySend(T, "subscribe"), T) /\ TrySend(T, "subscribe").src = T.src
      /\ Follows(Connect(T), T) /\ Connect(T).src.entry = T.src.entry
  BY <1>5, TrySendFollows, ConnectFollows
<1>7. Follows(SubscribeProjection(S), T) /\ SubscribeProjection(S).src.entry
  BY <1>1, <1>3, <1>6, Zenon
<1> QED BY <1>1, <1>7, Zenon DEF Follows

LEMMA DisposeFollows ==
    ASSUME NEW S, SourceOK(S)
    PROVE  Follows(Dispose(S), S)
<1> DEFINE R == [S EXCEPT !.src.entry = FALSE]
           T == TrySend(R, "unsubscribe")
<1>1. SourceOK(R) /\ R.src.ws = S.src.ws
  BY DEF SourceOK, SourceShape
<1>2. Dispose(S) \in {S, T, Shutdown(T)}
  BY DEF Dispose
<1>3. Follows(S, S)
  BY Zenon DEF Follows
<1> HIDE DEF R
<1>4. Follows(T, R) /\ T.src = R.src
  BY <1>1, TrySendFollows
<1>5. Follows(T, S)
  BY <1>1, <1>4 DEF Follows
<1> HIDE DEF T
<1>6. Follows(Shutdown(T), T)
  <2> DEFINE U == Shutdown(T)
             W == [c \in Conns |-> IF c = T.src.socket THEN "closing" ELSE T.src.ws[c]]
  <2>0. 0 \in 0..(MaxConsecutiveFailures - 1)
    BY ClientBounds
  <2>1. SourceOK(T)
    BY <1>5, Zenon DEF Follows
  <2>2. W \in [Conns -> {"unused", "connecting", "open", "closing"}]
    BY <2>1, SMTT(20) DEF SourceOK, SourceShape
  <2>3. /\ DOMAIN U = {"src", "up"} /\ U.up = T.up
        /\ U.src = [T.src EXCEPT !.timers = IF T.src.handle THEN @ - 1 ELSE @,
                                 !.handle = FALSE, !.exhausted = FALSE, !.attempt = 0,
                                 !.socket = NoConn, !.opening = FALSE, !.live = FALSE,
                                 !.ws = W]
    BY <2>1 DEF SourceOK, SourceShape, Shutdown
  <2> HIDE DEF U, W
  <2>4. SourceShape(U.src) /\ U.src.ws = W
    BY <2>0, <2>1, <2>2, <2>3, Zenon DEF SourceOK, SourceShape
  <2>5. \A c \in Conns : W[c] \in Shut => T.src.ws[c] \in Shut
    BY DEF Shut, W
  <2>6. Follows(U, T)
    BY <2>1, <2>3, <2>4, <2>5 DEF SourceOK, Follows
  <2> QED BY <2>6 DEF U
<1>7. Follows(Shutdown(T), S)
  BY <1>5, <1>6, Zenon DEF Follows
<1> QED BY <1>2, <1>3, <1>5, <1>7

LEMMA OpenFollows ==
    ASSUME NEW S, SourceOK(S), NEW c \in Conns
    PROVE  Follows(OnOpen(S, c), S) /\ OnOpen(S, c).src.entry = S.src.entry
<1> DEFINE T == [S EXCEPT !.src.ws[c] = "open", !.src.opening = FALSE, !.src.live = TRUE,
                          !.src.attempt = 0, !.src.exhausted = FALSE]
<1>0. 0 \in 0..(MaxConsecutiveFailures - 1)
  BY ClientBounds
<1>1. Follows(T, S) /\ T.src.entry = S.src.entry
  <2>1. /\ DOMAIN T = {"src", "up"} /\ T.up = S.up
        /\ T.src = [S.src EXCEPT !.ws[c] = "open", !.opening = FALSE, !.live = TRUE,
                                 !.attempt = 0, !.exhausted = FALSE]
    BY DEF SourceOK, SourceShape
  <2> HIDE DEF T
  <2>2. /\ SourceShape(T.src) /\ T.src.ws = [S.src.ws EXCEPT ![c] = "open"]
        /\ T.src.entry = S.src.entry
    BY <1>0, <2>1 DEF SourceOK, SourceShape
  <2>3. \A d \in Conns : T.src.ws[d] \in Shut => S.src.ws[d] \in Shut /\ S.up[d] = <<>>
    BY <2>2 DEF SourceOK, SourceShape, Shut
  <2> QED BY <2>1, <2>2, <2>3 DEF SourceOK, Follows
<1>2. OnOpen(S, c) = T \/ OnOpen(S, c) = TrySend(T, "subscribe")
  BY Zenon DEF OnOpen, Resubscribe
<1> HIDE DEF T
<1>3. Follows(TrySend(T, "subscribe"), T) /\ TrySend(T, "subscribe").src = T.src
  BY <1>1, TrySendFollows DEF Follows
<1>4. Follows(TrySend(T, "subscribe"), S)
  BY <1>1, <1>3, Zenon DEF Follows
<1> QED BY <1>1, <1>2, <1>3, <1>4

\* The connection whose socket has closed is unused again; no other one changes.
LEMMA CloseShuts ==
    ASSUME NEW S, SourceOK(S), NEW c \in Conns
    PROVE  LET T == OnClose(S, c)
           IN /\ SourceShape(T.src) /\ T.up = S.up /\ T.src.entry = S.src.entry
              /\ \A d \in Conns \ {c} : T.src.ws[d] = S.src.ws[d]
<1> DEFINE R == [S EXCEPT !.src.ws[c] = "unused", !.src.socket = NoConn,
                          !.src.opening = FALSE, !.src.live = FALSE]
<1>1. /\ DOMAIN R = {"src", "up"} /\ SourceShape(R.src) /\ R.up = S.up
      /\ R.src.entry = S.src.entry /\ R.src.ws = [S.src.ws EXCEPT ![c] = "unused"]
  BY Zenon DEF SourceOK, SourceShape
<1>2. OnClose(S, c) = R \/ OnClose(S, c) = ScheduleReconnect(R)
  BY Zenon DEF OnClose
<1>3. \A d \in Conns \ {c} : R.src.ws[d] = S.src.ws[d]
  BY <1>1 DEF SourceOK, SourceShape
<1> HIDE DEF R
<1>4. /\ SourceShape(ScheduleReconnect(R).src) /\ ScheduleReconnect(R).up = R.up
      /\ ScheduleReconnect(R).src.entry = R.src.entry /\ ScheduleReconnect(R).src.ws = R.src.ws
  <2>1. CASE R.src.attempt + 1 >= MaxConsecutiveFailures
    BY <1>1, <2>1 DEF ScheduleReconnect, SourceShape
  <2>2. CASE ~(R.src.attempt + 1 >= MaxConsecutiveFailures)
    BY <1>1, <2>2, ClientBounds DEF ScheduleReconnect, SourceShape
  <2> QED BY <2>1, <2>2
<1> QED BY <1>1, <1>2, <1>3, <1>4, Zenon

-----------------------------------------------------------------------------
(* What a channel and a wire hold.                                         *)

Cover(s) == UNION {e.of : e \in Elements(s)}

LEMMA ElementsOf ==
    ASSUME NEW A, NEW s \in Seq(A)
    PROVE  /\ Elements(s) \subseteq A
           /\ \A x \in A : Elements(Append(s, x)) = Elements(s) \cup {x}
           /\ \A t \in Seq(A) : Elements(s \o t) = Elements(s) \cup Elements(t)
           /\ s # <<>> => Elements(s) = {Head(s)} \cup Elements(Tail(s))
           /\ Elements(<<>>) = {}
<1>1. Elements(s) \subseteq A
  BY DEF Elements
<1>2. ASSUME NEW x \in A PROVE Elements(Append(s, x)) = Elements(s) \cup {x}
  <2> DEFINE r == Append(s, x)
  <2>1. /\ DOMAIN r = 1..(Len(s) + 1) /\ r[Len(s) + 1] = x
        /\ \A i \in DOMAIN s : i \in DOMAIN r /\ r[i] = s[i]
        /\ \A i \in DOMAIN r : i \in DOMAIN s \/ i = Len(s) + 1
        /\ Len(s) + 1 \in DOMAIN r
    OBVIOUS
  <2> HIDE DEF r
  <2> QED BY <2>1, Zenon DEF Elements, r
<1>3. ASSUME NEW t \in Seq(A) PROVE Elements(s \o t) = Elements(s) \cup Elements(t)
  <2> DEFINE r == s \o t
  <2>1. /\ DOMAIN r = 1..(Len(s) + Len(t))
        /\ \A i \in DOMAIN s : i \in DOMAIN r /\ r[i] = s[i]
        /\ \A j \in DOMAIN t : j + Len(s) \in DOMAIN r /\ r[j + Len(s)] = t[j]
    OBVIOUS
  <2>2. ASSUME NEW i \in DOMAIN r, i \notin DOMAIN s PROVE i - Len(s) \in DOMAIN t /\ r[i] = t[i - Len(s)]
    BY <2>1, <2>2
  <2> HIDE DEF r
  <2>3. \A y \in Elements(r) : y \in Elements(s) \cup Elements(t)
    BY <2>1, <2>2, Zenon DEF Elements
  <2>4. \A y \in Elements(s) \cup Elements(t) : y \in Elements(r)
    BY <2>1, Zenon DEF Elements
  <2>5. Elements(r) = Elements(s) \cup Elements(t)
    BY <2>3, <2>4, Zenon
  <2> QED BY <2>5 DEF r
<1>4. ASSUME s # <<>> PROVE Elements(s) = {Head(s)} \cup Elements(Tail(s))
  <2> DEFINE t == Tail(s)
  <2>0. 1 \in DOMAIN s /\ s[1] = Head(s)
    BY <1>4
  <2>1. DOMAIN t = 1..(Len(s) - 1) /\ \A i \in DOMAIN t : t[i] = s[i + 1]
    BY <1>4
  <2>2. ASSUME NEW i \in DOMAIN s PROVE s[i] = Head(s) \/ s[i] \in Elements(t)
    <3>1. CASE i = 1
      BY <2>0, <3>1
    <3>2. CASE i # 1
      <4>1. i - 1 \in DOMAIN t /\ t[i - 1] = s[i]
        BY <2>1, <3>2
      <4> QED BY <4>1, Zenon DEF Elements
    <3> QED BY <3>1, <3>2
  <2>3. ASSUME NEW i \in DOMAIN t PROVE t[i] \in Elements(s)
    <3>1. i + 1 \in DOMAIN s /\ t[i] = s[i + 1]
      BY <2>1
    <3> QED BY <3>1, Zenon DEF Elements
  <2>5. Head(s) \in Elements(s)
    BY <2>0, Zenon DEF Elements
  <2> HIDE DEF t
  <2>4. Elements(s) = {Head(s)} \cup Elements(t)
    <3>1. \A y \in Elements(s) : y \in {Head(s)} \cup Elements(t)
      BY <2>2, Zenon DEF Elements
    <3>2. \A y \in Elements(t) : y \in Elements(s)
      BY <2>3, Zenon DEF Elements
    <3> QED BY <2>5, <3>1, <3>2, Zenon
  <2> QED BY <2>4 DEF t
<1>5. Elements(<<>>) = {}
  BY DEF Elements
<1> QED BY <1>1, <1>2, <1>3, <1>4, <1>5

LEMMA CoverOf ==
    ASSUME NEW s \in Seq(Written)
    PROVE  /\ Cover(s) \subseteq Mutation
           /\ \A t \in Seq(Written) : Cover(s \o t) = Cover(s) \cup Cover(t)
           /\ s # <<>> => Head(s) \in Written /\ Cover(s) = Head(s).of \cup Cover(Tail(s))
           /\ Cover(<<>>) = {}
<1>1. Cover(s) \subseteq Mutation
  <2>1. Elements(s) \subseteq Written
    BY ElementsOf
  <2>2. \A e \in Written : e.of \subseteq Mutation
    BY DEF Written
  <2> QED BY <2>1, <2>2, Zenon DEF Cover
<1>2. ASSUME NEW t \in Seq(Written) PROVE Cover(s \o t) = Cover(s) \cup Cover(t)
  <2>1. Elements(s \o t) = Elements(s) \cup Elements(t)
    BY ElementsOf
  <2> QED BY <2>1, Zenon DEF Cover
<1>3. ASSUME s # <<>> PROVE Head(s) \in Written /\ Cover(s) = Head(s).of \cup Cover(Tail(s))
  <2>1. Elements(s) = {Head(s)} \cup Elements(Tail(s)) /\ Elements(s) \subseteq Written
    BY <1>3, ElementsOf
  <2> QED BY <2>1, Zenon DEF Cover
<1>4. Cover(<<>>) = {}
  <2>1. Elements(<<>>) = {}
    BY ElementsOf
  <2> QED BY <2>1, Zenon DEF Cover
<1> QED BY <1>1, <1>2, <1>3, <1>4

LEMMA NoticeCovers ==
    ASSUME Wires, NEW c \in Conns
    PROVE  Notice(c) \in Seq(Written) /\ Cover(Notice(c)) = shed[c]
<1>0. shed[c] \in SUBSET Mutation
  BY DEF Wires
<1>1. CASE shed[c] = {}
  <2>1. Notice(c) = <<>> /\ <<>> \in Seq(Written)
    BY <1>1 DEF Notice
  <2> QED BY <1>1, <2>1, CoverOf, Zenon
<1>2. CASE shed[c] # {}
  <2> DEFINE e == Resync(shed[c])
  <2>1. e \in Written /\ e.of = shed[c]
    BY <1>0 DEF Resync, Written
  <2>2. Notice(c) = <<e>>
    BY <1>2, Zenon DEF Notice
  <2> HIDE DEF e
  <2>3. <<e>> \in Seq(Written) /\ <<e>> # <<>> /\ Head(<<e>>) = e /\ Tail(<<e>>) = <<>>
    BY <2>1
  <2>4. Cover(<<e>>) = e.of \cup {}
    BY <2>3, CoverOf, Zenon
  <2> QED BY <2>1, <2>2, <2>3, <2>4
<1> QED BY <1>1, <1>2

LEMMA DeltaCovers ==
    ASSUME NEW m \in Mutation
    PROVE  <<Delta(m)>> \in Seq(Written) /\ Cover(<<Delta(m)>>) = {m}
<1> DEFINE e == Delta(m)
<1>1. e \in Written /\ e.of = {m}
  BY DEF Delta, Written
<1> HIDE DEF e
<1>2. <<e>> \in Seq(Written) /\ <<e>> # <<>> /\ Head(<<e>>) = e /\ Tail(<<e>>) = <<>>
  BY <1>1
<1>3. Cover(<<e>>) = e.of \cup {}
  BY <1>2, CoverOf, Zenon
<1>4. Cover(<<e>>) = {m}
  BY <1>1, <1>3
<1> QED BY <1>2, <1>4 DEF e

-----------------------------------------------------------------------------
(* The hub and the pumps.                                                  *)

LEMMA UndeliveredIs ==
    ASSUME NEW c
    PROVE  /\ Undelivered(c) = Elements(frames[c]) \cup shed[c] \cup Cover(down[c])
           /\ Undelivered(c)' = Elements(frames'[c]) \cup shed'[c] \cup Cover(down'[c])
BY Zenon DEF Undelivered, Cover, Elements

LEMMA SameCarried ==
    ASSUME UNCHANGED <<applied, piped, buffered, queued, lost>>,
           \A c \in Conns : Undelivered(c)' = Undelivered(c)
    PROVE  Flow' = Flow
<1>1. (UNION {Undelivered(c) : c \in Conns})' = UNION {Undelivered(c) : c \in Conns}
  BY Zenon
<1> QED BY <1>1, Zenon DEF Flow, OnItsWay

LEMMA BroadcastMoves ==
    ASSUME Wires, Queues, NEW m \in applied, Broadcast(m), UNCHANGED clientVars
    PROVE  Wires' /\ Flow' = Flow
<1> DEFINE full == {c \in reg : Len(frames[c]) = QueueSize}
<1>0. /\ m \in Mutation
      /\ UNCHANGED <<reg, up, down, src, piped, buffered, queued>>
      /\ applied' = applied \ {m}
  BY DEF Broadcast, clientVars, Queues, Flow, OnItsWay
<1>1. /\ frames' = [c \in Conns |-> IF c \in reg \ full THEN Append(frames[c], m) ELSE frames[c]]
      /\ shed' = [c \in Conns |-> IF c \in full THEN shed[c] \cup {m} ELSE shed[c]]
      /\ lost' = IF reg = {} THEN lost \cup {m} ELSE lost
  BY Zenon DEF Broadcast
<1>2. ASSUME NEW c \in Conns
      PROVE  /\ frames'[c] \in Seq(Mutation) /\ shed'[c] \in SUBSET Mutation
             /\ Len(frames'[c]) <= QueueSize
             /\ c \notin reg => frames'[c] = frames[c] /\ shed'[c] = shed[c]
             /\ Undelivered(c)' = IF c \in reg THEN Undelivered(c) \cup {m} ELSE Undelivered(c)
  <2>0. frames[c] \in Seq(Mutation) /\ shed[c] \in SUBSET Mutation /\ Len(frames[c]) <= QueueSize
    BY DEF Wires
  <2>u. down'[c] = down[c]
    BY <1>0
  <2>1. CASE c \in full
    <3>1. frames'[c] = frames[c] /\ shed'[c] = shed[c] \cup {m} /\ c \in reg
      BY <1>1, <2>1
    <3>2. Undelivered(c)' = Undelivered(c) \cup {m}
      BY <2>u, <3>1, UndeliveredIs
    <3> QED BY <1>0, <2>0, <3>1, <3>2
  <2>2. CASE c \in reg \ full
    <3>1. frames'[c] = Append(frames[c], m) /\ shed'[c] = shed[c]
      BY <1>1, <2>2
    <3>2. Elements(frames'[c]) = Elements(frames[c]) \cup {m}
      BY <1>0, <2>0, <3>1, ElementsOf
    <3>3. Undelivered(c)' = Undelivered(c) \cup {m}
      BY <2>u, <3>1, <3>2, UndeliveredIs, Zenon
    <3>4. Len(frames[c]) # QueueSize
      BY <2>2
    <3>5. Len(Append(frames[c], m)) <= QueueSize /\ Append(frames[c], m) \in Seq(Mutation)
      BY <1>0, <2>0, <3>4, HubBounds
    <3> QED BY <2>0, <2>2, <3>1, <3>3, <3>5
  <2>3. CASE c \notin reg
    <3>1. frames'[c] = frames[c] /\ shed'[c] = shed[c]
      BY <1>1, <2>3
    <3>2. Undelivered(c)' = Undelivered(c)
      BY <2>u, <3>1, UndeliveredIs, Zenon
    <3> QED BY <2>0, <2>3, <3>1, <3>2
  <2> QED BY <2>1, <2>2, <2>3
<1> HIDE DEF full
<1>3. Wires'
  <2>1. frames' \in [Conns -> Seq(Mutation)] /\ shed' \in [Conns -> SUBSET Mutation]
    BY <1>1, <1>2, Zenon
  <2>2. \A c \in Conns :
          /\ Len(frames'[c]) <= QueueSize
          /\ src'.ws[c] \in Shut => /\ c \notin reg' /\ frames'[c] = <<>> /\ shed'[c] = {}
                                    /\ up'[c] = <<>> /\ down'[c] = <<>>
    BY <1>0, <1>2 DEF Wires
  <2> QED BY <1>0, <2>1, <2>2, Zenon DEF Wires
<1>4. Flow' = Flow
  <2> DEFINE C == UNION {Undelivered(c) : c \in Conns}
  <2>0. reg \subseteq Conns
    BY DEF Wires
  <2>1. CASE reg = {}
    <3>1. C' = C
      BY <1>2, <2>1, Zenon
    <3> QED BY <1>0, <1>1, <2>1, <3>1 DEF Flow, OnItsWay
  <2>2. CASE reg # {}
    <3>1. C' = C \cup {m}
      <4>1. PICK d \in reg : TRUE
        BY <2>2
      <4>2. m \in Undelivered(d)' /\ d \in Conns
        BY <1>2, <2>0, <4>1
      <4>3. \A c \in Conns : Undelivered(c)' \subseteq Undelivered(c) \cup {m}
        BY <1>2
      <4>4. \A c \in Conns : Undelivered(c) \subseteq Undelivered(c)'
        BY <1>2
      <4>5. C' \subseteq C \cup {m} /\ C \subseteq C' /\ m \in C'
        BY <4>2, <4>3, <4>4, Zenon
      <4> QED BY <4>5, Zenon
    <3> QED BY <1>0, <1>1, <2>2, <3>1 DEF Flow, OnItsWay
  <2> QED BY <2>1, <2>2
<1> QED BY <1>3, <1>4

LEMMA CoverJoin ==
    ASSUME NEW s \in Seq(Written), NEW t \in Seq(Written)
    PROVE  s \o t \in Seq(Written) /\ Cover(s \o t) = Cover(s) \cup Cover(t)
<1>1. s \o t \in Seq(Written)
  OBVIOUS
<1> QED BY <1>1, CoverOf

\* A step of one connection of the server that leaves its mutations on it, or loses
\* them to the record.
LEMMA PumpMoves ==
    ASSUME Wires, NEW c \in Conns,
           NEW g \in Seq(Mutation), NEW D \in Seq(Written), Len(g) <= QueueSize,
           NEW s \in SUBSET Mutation, NEW L,
           frames' = [frames EXCEPT ![c] = g], shed' = [shed EXCEPT ![c] = s],
           down' = [down EXCEPT ![c] = D], lost' = lost \cup L,
           Elements(g) \cup s \cup Cover(D) \cup L = Undelivered(c),
           src.ws[c] \notin Shut \/ (g = <<>> /\ s = {} /\ D = <<>>),
           reg' \subseteq reg, up' \in [Conns -> Seq({"subscribe", "unsubscribe"})],
           \A d \in Conns : up[d] = <<>> => up'[d] = <<>>,
           UNCHANGED <<src, applied, piped, buffered, queued>>
    PROVE  Wires' /\ Flow' = Flow
<1>0. /\ frames'[c] = g /\ shed'[c] = s /\ down'[c] = D
  BY DEF Wires
<1>1. \A d \in Conns \ {c} : frames'[d] = frames[d] /\ shed'[d] = shed[d] /\ down'[d] = down[d]
  BY DEF Wires
<1>2. Wires'
  <2>1. /\ frames' \in [Conns -> Seq(Mutation)] /\ shed' \in [Conns -> SUBSET Mutation]
        /\ down' \in [Conns -> Seq(Written)]
    BY DEF Wires
  <2>2. ASSUME NEW d \in Conns
        PROVE  /\ Len(frames'[d]) <= QueueSize
               /\ src'.ws[d] \in Shut => /\ d \notin reg' /\ frames'[d] = <<>> /\ shed'[d] = {}
                                         /\ up'[d] = <<>> /\ down'[d] = <<>>
    <3>1. CASE d # c
      BY <1>1, <3>1 DEF Wires
    <3>2. CASE d = c
      BY <1>0, <3>2 DEF Wires
    <3> QED BY <3>1, <3>2
  <2>3. reg' \subseteq Conns
    BY DEF Wires
  <2> QED BY <2>1, <2>2, <2>3, Zenon DEF Wires
<1>3. Flow' = Flow
  <2> DEFINE C == UNION {Undelivered(d) : d \in Conns}
  <2>1. \A d \in Conns \ {c} : Undelivered(d)' = Undelivered(d)
    BY <1>1, UndeliveredIs, Zenon
  <2>2. Undelivered(c)' = Elements(g) \cup s \cup Cover(D)
    BY <1>0, UndeliveredIs
  <2>3. Undelivered(c)' \cup L = Undelivered(c)
    BY <2>2, Zenon
  <2>4. C' \cup L = C
    <3>1. ASSUME NEW x \in C' \cup L PROVE x \in C
      BY <2>1, <2>3, <3>1, Zenon
    <3>2. ASSUME NEW x \in C PROVE x \in C' \cup L
      <4>1. PICK d \in Conns : x \in Undelivered(d)
        BY <3>2, Zenon
      <4>2. x \in Undelivered(d)' \/ x \in L
        BY <2>1, <2>3, <4>1, Zenon
      <4> QED BY <4>2, Zenon
    <3> HIDE DEF C
    <3> QED BY <3>1, <3>2, Zenon
  <2> HIDE DEF C
  <2>5. lost' \cup C' = lost \cup C
    BY <2>4, Zenon
  <2> QED BY <2>5, Zenon DEF Flow, OnItsWay, C
<1> QED BY <1>2, <1>3

LEMMA PumpDropsMoves ==
    ASSUME Wires, NEW c \in Conns, PumpDrops(c), UNCHANGED clientVars
    PROVE  Wires' /\ Flow' = Flow
<1> DEFINE D == down[c] \o Notice(c)
<1>0. frames[c] \in Seq(Mutation) /\ Len(frames[c]) <= QueueSize /\ frames' = [frames EXCEPT ![c] = frames[c]]
      /\ shed' = [shed EXCEPT ![c] = {}] /\ down' = [down EXCEPT ![c] = D]
      /\ lost' = lost \cup {} /\ reg' \subseteq reg /\ up' = up
      /\ down[c] \in Seq(Written) /\ up \in [Conns -> Seq({"subscribe", "unsubscribe"})]
      /\ UNCHANGED <<src, applied, piped, buffered, queued>>
  BY DEF Wires, PumpDrops, clientVars
<1>1. Notice(c) \in Seq(Written) /\ Cover(Notice(c)) = shed[c]
  BY NoticeCovers
<1>2. src.ws[c] \in Shut => frames[c] = <<>> /\ D = <<>>
  BY DEF Wires, Notice
<1>3. D \in Seq(Written) /\ Cover(D) = Cover(down[c]) \cup shed[c]
  BY <1>0, <1>1, CoverJoin
<1> HIDE DEF D
<1>4. Elements(frames[c]) \cup {} \cup Cover(D) \cup {} = Undelivered(c)
  BY <1>3, UndeliveredIs, SMTT(20)
<1> QED BY <1>0, <1>2, <1>3, <1>4, PumpMoves, Zenon

LEMMA PumpFrameMoves ==
    ASSUME Wires, NEW c \in Conns, PumpFrame(c), UNCHANGED clientVars
    PROVE  Wires' /\ Flow' = Flow
<1> DEFINE g == Tail(frames[c])
           h == Head(frames[c])
           D == down[c] \o Notice(c) \o <<Delta(h)>>
<1>0. /\ frames[c] \in Seq(Mutation) /\ Len(frames[c]) <= QueueSize /\ frames[c] # <<>>
      /\ down[c] \in Seq(Written) /\ up \in [Conns -> Seq({"subscribe", "unsubscribe"})]
  BY DEF Wires, PumpFrame
<1>1. g \in Seq(Mutation) /\ Len(g) <= QueueSize /\ h \in Mutation
  BY <1>0, HubBounds
<1>2. Notice(c) \in Seq(Written) /\ Cover(Notice(c)) = shed[c]
  BY NoticeCovers
<1>3. <<Delta(h)>> \in Seq(Written) /\ Cover(<<Delta(h)>>) = {h}
  BY <1>1, DeltaCovers
<1>4. down[c] \o Notice(c) \in Seq(Written) /\ Cover(down[c] \o Notice(c)) = Cover(down[c]) \cup shed[c]
  BY <1>0, <1>2, CoverJoin
<1>5. D \in Seq(Written) /\ Cover(D) = Cover(down[c]) \cup shed[c] \cup {h}
  BY <1>3, <1>4, CoverJoin, Zenon
<1>6. Elements(frames[c]) = {h} \cup Elements(g)
  BY <1>0, ElementsOf
<1>7. /\ frames' = [frames EXCEPT ![c] = g] /\ shed' = [shed EXCEPT ![c] = {}]
      /\ down' = [down EXCEPT ![c] = D]
      /\ lost' = lost \cup {} /\ reg' \subseteq reg /\ up' = up
      /\ UNCHANGED <<src, applied, piped, buffered, queued>>
  BY DEF PumpFrame, clientVars
<1>8. src.ws[c] \notin Shut
  BY <1>0 DEF Wires
<1> HIDE DEF g, h, D
<1>9. Elements(g) \cup {} \cup Cover(D) \cup {} = Undelivered(c)
  BY <1>5, <1>6, UndeliveredIs
<1> QED BY <1>0, <1>1, <1>5, <1>7, <1>8, <1>9, PumpMoves, Zenon

LEMMA StartScopeMoves ==
    ASSUME Wires, NEW c \in Conns, StartScope(c), UNCHANGED clientVars
    PROVE  Wires' /\ Flow' = Flow
<1>0. /\ up[c] \in Seq({"subscribe", "unsubscribe"}) /\ up[c] # <<>>
      /\ up' = [up EXCEPT ![c] = Tail(@)] /\ reg' = reg \cup {c}
      /\ UNCHANGED <<frames, shed, down, src, applied, piped, buffered, queued, lost>>
  BY DEF Wires, StartScope, clientVars
<1>1. src.ws[c] \notin Shut
  BY <1>0 DEF Wires
<1>2. up' \in [Conns -> Seq({"subscribe", "unsubscribe"})]
  BY <1>0 DEF Wires
<1>3. \A d \in Conns : d # c => up'[d] = up[d]
  BY <1>0 DEF Wires
<1>4. Wires'
  BY <1>0, <1>1, <1>2, <1>3 DEF Wires
<1>5. \A d \in Conns : Undelivered(d)' = Undelivered(d)
  BY <1>0, UndeliveredIs, Zenon
<1> QED BY <1>0, <1>4, <1>5, SameCarried

\* What is left in the channel is written, as deltas.
LEMMA DrainCovers ==
    ASSUME NEW s \in Seq(Mutation)
    PROVE  LET D == [i \in DOMAIN s |-> Delta(s[i])]
           IN  D \in Seq(Written) /\ Cover(D) = Elements(s)
<1> DEFINE D == [i \in DOMAIN s |-> Delta(s[i])]
<1>1. \A m \in Mutation : Delta(m) \in Written /\ Delta(m).of = {m}
  BY DEF Delta, Written
<1>2. DOMAIN s = 1..Len(s) /\ Len(s) \in Nat /\ \A i \in DOMAIN s : s[i] \in Mutation
  OBVIOUS
<1>3. \A i \in DOMAIN s : D[i] \in Written /\ D[i].of = {s[i]}
  BY <1>1, <1>2, Zenon
<1>4. D \in Seq(Written) /\ DOMAIN D = DOMAIN s
  BY <1>2, <1>3
<1> HIDE DEF D
<1>5. Cover(D) = Elements(s)
  <2>1. \A y : y \in Cover(D) <=> \E i \in DOMAIN D : y \in D[i].of
    BY Zenon DEF Cover, Elements
  <2>2. \A y : y \in Elements(s) <=> \E i \in DOMAIN s : y = s[i]
    BY Zenon DEF Elements
  <2>3. \A y : y \in Cover(D) <=> y \in Elements(s)
    <3>1. \A i \in DOMAIN D : \A y : y \in D[i].of <=> y = s[i]
      BY <1>3, <1>4
    <3>2. ASSUME NEW y, NEW i \in DOMAIN s, y = s[i] PROVE y \in D[i].of /\ i \in DOMAIN D
      BY <1>4, <3>1, <3>2, Zenon
    <3>3. ASSUME NEW y, NEW i \in DOMAIN D, y \in D[i].of PROVE y = s[i] /\ i \in DOMAIN s
      BY <1>4, <3>1, <3>3, ZenonT(30)
    <3> QED BY <2>1, <2>2, <3>2, <3>3, Zenon
  <2> QED BY <2>3, Zenon
<1> QED BY <1>4, <1>5 DEF D

LEMMA StopScopeMoves ==
    ASSUME Wires, NEW c \in Conns, NEW notice \in BOOLEAN, StopScope(c, notice),
           UNCHANGED clientVars
    PROVE  Wires' /\ Flow' = Flow
<1> DEFINE E == [i \in DOMAIN frames[c] |-> Delta(frames[c][i])]
           N == IF notice THEN Notice(c) ELSE <<>>
           L == IF notice THEN {} ELSE shed[c]
           D == down[c] \o E \o N
<1>0. /\ frames[c] \in Seq(Mutation) /\ shed[c] \in SUBSET Mutation /\ down[c] \in Seq(Written)
      /\ up[c] \in Seq({"subscribe", "unsubscribe"}) /\ up[c] # <<>>
  BY DEF Wires, StopScope
<1>1. E \in Seq(Written) /\ Cover(E) = Elements(frames[c])
  BY <1>0, DrainCovers
<1>2. N \in Seq(Written) /\ Cover(N) \cup L = shed[c]
  <2>1. CASE notice
    BY <2>1, NoticeCovers
  <2>2. CASE ~notice
    <3>1. <<>> \in Seq(Written)
      OBVIOUS
    <3>2. Cover(<<>>) = {}
      BY <3>1, CoverOf, Zenon
    <3> QED BY <2>2, <3>1, <3>2
  <2> QED BY <2>1, <2>2
<1>3. /\ frames' = [frames EXCEPT ![c] = <<>>] /\ shed' = [shed EXCEPT ![c] = {}]
      /\ down' = [down EXCEPT ![c] = D]
      /\ lost' = lost \cup L /\ reg' \subseteq reg
      /\ up' = [up EXCEPT ![c] = Tail(@)]
      /\ UNCHANGED <<src, applied, piped, buffered, queued>>
  BY DEF StopScope, clientVars
<1> HIDE DEF E, N, L
<1>4. down[c] \o E \in Seq(Written) /\ Cover(down[c] \o E) = Cover(down[c]) \cup Elements(frames[c])
  BY <1>0, <1>1, CoverJoin
<1>5. D \in Seq(Written) /\ Cover(D) = Cover(down[c]) \cup Elements(frames[c]) \cup Cover(N)
  BY <1>2, <1>4, CoverJoin, Zenon
<1>6. src.ws[c] \notin Shut
  BY <1>0 DEF Wires
<1>7. /\ up' \in [Conns -> Seq({"subscribe", "unsubscribe"})]
      /\ \A d \in Conns : up[d] = <<>> => up'[d] = <<>>
  BY <1>0, <1>3 DEF Wires
<1> HIDE DEF D
<1>8. Elements(<<>>) = {} /\ <<>> \in Seq(Mutation) /\ Len(<<>>) <= QueueSize
  BY HubBounds DEF Elements
<1>9. Elements(<<>>) \cup {} \cup Cover(D) \cup L = Undelivered(c)
  BY <1>2, <1>5, <1>8, UndeliveredIs
<1> QED BY <1>3, <1>5, <1>6, <1>7, <1>8, <1>9, PumpMoves, Zenon

LiveWires == LiveInv /\ Wires /\ Queues

\* Nothing but the place of mutations between the partition and the store changes.
LEMMA MovesKeep ==
    ASSUME LiveWires, Wires', Flow' = Flow, NotYet',
           UNCHANGED <<recs, versions, load, sourceWatermark, queued, shown, status>>
    PROVE  LiveWires'
<1>1. LiveInv'
  BY FlowKept DEF LiveWires
<1>2. Queues'
  BY DEF LiveWires, Queues
<1> QED BY <1>1, <1>2 DEF LiveWires

LEMMA HubStepKeeps ==
    ASSUME LiveWires, HubStep, UNCHANGED <<others, clientVars, faults>>
    PROVE  LiveWires'
<1>0. Wires /\ Queues
  BY DEF LiveWires
<1>1. Wires' /\ Flow' = Flow /\ recs' = recs
  <2>1. ASSUME NEW m \in applied, Broadcast(m) PROVE Wires' /\ Flow' = Flow /\ recs' = recs
    BY <1>0, <2>1, BroadcastMoves, Zenon DEF Broadcast
  <2>2. ASSUME NEW c \in Conns, PumpDrops(c) PROVE Wires' /\ Flow' = Flow /\ recs' = recs
    BY <1>0, <2>2, PumpDropsMoves, Zenon DEF PumpDrops
  <2>3. ASSUME NEW c \in Conns, PumpFrame(c) PROVE Wires' /\ Flow' = Flow /\ recs' = recs
    BY <1>0, <2>3, PumpFrameMoves, Zenon DEF PumpFrame
  <2>4. ASSUME NEW c \in Conns, StartScope(c) PROVE Wires' /\ Flow' = Flow /\ recs' = recs
    BY <1>0, <2>4, StartScopeMoves, Zenon DEF StartScope
  <2>5. ASSUME NEW c \in Conns, NEW notice \in BOOLEAN, StopScope(c, notice)
        PROVE  Wires' /\ Flow' = Flow /\ recs' = recs
    BY <1>0, <2>5, StopScopeMoves, Zenon DEF StopScope
  <2> QED BY <2>1, <2>2, <2>3, <2>4, <2>5, Zenon DEF HubStep
<1>2. UNCHANGED <<src, piped, status, buffered, queued, load, sourceWatermark, versions, shown>>
  BY DEF clientVars
<1>3. NotYet'
  BY <1>2, Zenon DEF LiveWires, LiveInv, NotYet
<1> QED BY <1>1, <1>2, <1>3, MovesKeep

-----------------------------------------------------------------------------
(* The life of a connection.                                               *)

LEMMA NowOK ==
    ASSUME Wires
    PROVE  SourceOK(Now) /\ Now.src = src /\ Now.up = up
BY SMTT(20) DEF Wires, SourceOK, Now

LEMMA SourceWires ==
    ASSUME Wires, NEW T, Follows(T, Now), Source(T), UNCHANGED <<reg, frames, shed>>,
           down' \in [Conns -> Seq(Written)], \A c \in Conns : down[c] = <<>> => down'[c] = <<>>
    PROVE  Wires'
<1>1. src' = T.src /\ up' = T.up /\ SourceOK(T)
      /\ \A c \in Conns : src'.ws[c] \in Shut => src.ws[c] \in Shut
  BY NowOK DEF Source, Follows
<1>2. \A c \in Conns : src'.ws[c] \in Shut => up'[c] = <<>>
  BY <1>1 DEF SourceOK
<1>3. SourceShape(src') /\ up' \in [Conns -> Seq({"subscribe", "unsubscribe"})]
  BY <1>1 DEF SourceOK
<1> QED BY <1>1, <1>2, <1>3 DEF Wires

\* The binding's own state does not change.
LEMMA SourceMoves ==
    ASSUME LiveWires, NEW T, Follows(T, Now), T.src.entry = src.entry, Source(T),
           UNCHANGED <<recs, applied, reg, frames, shed, token, down, lost, others, piped, status,
                       buffered, queued, load, sourceWatermark, versions, shown, faults>>
    PROVE  LiveWires'
<1>1. Wires'
  <2>1. Wires /\ down \in [Conns -> Seq(Written)]
    BY SMTT(20) DEF LiveWires, Wires
  <2> QED BY <2>1, SourceWires
<1>2. Flow' = Flow
  <2>1. \A c \in Conns : Undelivered(c)' = Undelivered(c)
    BY UndeliveredIs, Zenon
  <2> QED BY <2>1, SameCarried, SMTT(20)
<1>3. src'.entry = src.entry
  BY DEF Source
<1>4. NotYet'
  BY <1>3, Zenon DEF LiveWires, LiveInv, NotYet
<1> QED BY <1>1, <1>2, <1>4, MovesKeep

LEMMA OpenKeeps ==
    ASSUME LiveWires, NEW c \in Conns, Open(c)
    PROVE  LiveWires'
<1>0. SourceOK(Now) /\ Now.src = src
  BY NowOK DEF LiveWires
<1>1. Follows(OnOpen(Now, c), Now) /\ OnOpen(Now, c).src.entry = src.entry
  BY <1>0, OpenFollows
<1> QED BY <1>1, SourceMoves DEF Open

LEMMA ReconnectTimerKeeps ==
    ASSUME LiveWires, NEW latest \in BOOLEAN, ReconnectTimer(latest)
    PROVE  LiveWires'
<1> DEFINE S == [Now EXCEPT !.src.timers = @ - 1, !.src.handle = @ /\ ~latest]
<1>0. SourceOK(Now) /\ Now.src = src
  BY NowOK DEF LiveWires
<1>1. Follows(S, Now) /\ S.src.entry = src.entry
  BY <1>0, Zenon DEF Follows, SourceOK, SourceShape
<1> HIDE DEF S
<1>2. Follows(Connect(S), S) /\ Connect(S).src.entry = S.src.entry
  BY <1>1, ConnectFollows DEF Follows
<1>3. Follows(Connect(S), Now) /\ Connect(S).src.entry = src.entry
  BY <1>1, <1>2, Zenon DEF Follows
<1> QED BY <1>3, SourceMoves DEF ReconnectTimer, S

LEMMA CreateSocketKeeps ==
    ASSUME LiveWires, CreateSocket
    PROVE  LiveWires'
<1>0. UNCHANGED <<recs, applied, reg, frames, shed, token, up, down, lost, others, piped, status,
                  buffered, queued, load, sourceWatermark, versions, shown, faults>>
  BY Zenon DEF CreateSocket, hubVars
<1>w. Wires /\ SourceShape(src)
  BY DEF LiveWires, Wires
<1>1. /\ SourceShape(src') /\ src'.entry = src.entry
      /\ \A d \in Conns : src'.ws[d] \in Shut => src.ws[d] \in Shut
  <2>1. CASE ~Entries(Now)
    <3>1. src' = [src EXCEPT !.awaiting = @ - 1, !.opening = FALSE]
      BY <2>1, Zenon DEF CreateSocket
    <3> QED BY <1>w, <3>1 DEF SourceShape
  <2>2. CASE Entries(Now)
    <3>1. PICK c \in Lowest(1, {d \in Conns : src.ws[d] = "unused"}) :
            src' = [src EXCEPT !.awaiting = @ - 1, !.ws[c] = "connecting", !.socket = c]
      BY <2>2, Zenon DEF CreateSocket
    <3>2. c \in Conns /\ src.ws[c] = "unused"
      BY <3>1, Zenon DEF Lowest
    <3> QED BY <1>w, <3>1, <3>2 DEF SourceShape, Shut
  <2> QED BY <2>1, <2>2
<1>2. Wires'
  BY <1>0, <1>w, <1>1 DEF Wires
<1>3. Flow' = Flow
  <2>1. \A c \in Conns : Undelivered(c)' = Undelivered(c)
    BY <1>0, UndeliveredIs, Zenon
  <2> QED BY <1>0, <2>1, SameCarried, SMTT(20)
<1>4. NotYet'
  BY <1>0, <1>1, Zenon DEF LiveWires, LiveInv, NotYet
<1> QED BY <1>0, <1>2, <1>3, <1>4, MovesKeep

\* What an ended connection carried is lost, and recorded as lost.
LEMMA EndConnectionKeeps ==
    ASSUME LiveWires, NEW c \in Conns, EndConnection(c)
    PROVE  LiveWires'
<1> DEFINE S == OnClose(Now, c)
<1>w. Wires /\ SourceOK(Now) /\ Now.src = src /\ Now.up = up
  BY NowOK DEF LiveWires
<1>0. /\ src' = S.src /\ up' = [S.up EXCEPT ![c] = <<>>] /\ down' = [down EXCEPT ![c] = <<>>]
      /\ reg' = reg \ {c} /\ frames' = [frames EXCEPT ![c] = <<>>]
      /\ shed' = [shed EXCEPT ![c] = {}] /\ lost' = lost \cup Undelivered(c)
      /\ UNCHANGED <<recs, applied, others, piped, status, buffered, queued, load,
                     sourceWatermark, versions, shown>>
  BY Zenon DEF EndConnection, Ended
<1>1. /\ SourceShape(S.src) /\ S.up = up /\ S.src.entry = src.entry
      /\ \A d \in Conns \ {c} : S.src.ws[d] = src.ws[d]
  BY <1>w, CloseShuts, SMTT(20)
<1> HIDE DEF S
<1>2. /\ up'[c] = <<>> /\ down'[c] = <<>> /\ frames'[c] = <<>> /\ shed'[c] = {} /\ c \notin reg'
      /\ \A d \in Conns \ {c} : /\ up'[d] = up[d] /\ down'[d] = down[d]
                                /\ frames'[d] = frames[d] /\ shed'[d] = shed[d]
                                /\ src'.ws[d] = src.ws[d]
  BY <1>w, <1>0, <1>1 DEF Wires
<1>3. Wires'
  <2>1. /\ frames' \in [Conns -> Seq(Mutation)] /\ shed' \in [Conns -> SUBSET Mutation]
        /\ down' \in [Conns -> Seq(Written)]
        /\ up' \in [Conns -> Seq({"subscribe", "unsubscribe"})]
        /\ reg' \subseteq Conns /\ SourceShape(src')
    BY <1>w, <1>0, <1>1, SMTT(20) DEF Wires
  <2>2. ASSUME NEW d \in Conns
        PROVE  /\ Len(frames'[d]) <= QueueSize
               /\ src'.ws[d] \in Shut => /\ d \notin reg' /\ frames'[d] = <<>> /\ shed'[d] = {}
                                         /\ up'[d] = <<>> /\ down'[d] = <<>>
    <3>1. CASE d = c
      BY <1>2, <3>1, HubBounds, SMTT(20)
    <3>2. CASE d # c
      BY <1>w, <1>0, <1>2, <3>2, Zenon DEF Wires
    <3> QED BY <3>1, <3>2
  <2> QED BY <2>1, <2>2, Zenon DEF Wires
<1>4. Flow' = Flow
  <2> DEFINE C == UNION {Undelivered(d) : d \in Conns}
  <2>1. \A d \in Conns \ {c} : Undelivered(d)' = Undelivered(d)
    BY <1>2, UndeliveredIs, Zenon
  <2>2. Undelivered(c)' = {}
    <3>1. Elements(<<>>) = {}
      BY DEF Elements
    <3>2. Cover(<<>>) = {}
      BY <3>1, Zenon DEF Cover
    <3> QED BY <1>2, <3>1, <3>2, UndeliveredIs
  <2>3. C' \cup Undelivered(c) = C
    <3>1. ASSUME NEW x \in C' \cup Undelivered(c) PROVE x \in C
      BY <2>1, <2>2, <3>1, Zenon
    <3>2. ASSUME NEW x \in C PROVE x \in C' \cup Undelivered(c)
      <4>1. PICK d \in Conns : x \in Undelivered(d)
        BY <3>2, Zenon
      <4> QED BY <2>1, <4>1, Zenon
    <3> HIDE DEF C
    <3> QED BY <3>1, <3>2, Zenon
  <2> HIDE DEF C
  <2>4. lost' \cup C' = lost \cup C
    BY <1>0, <2>3, Zenon
  <2> QED BY <1>0, <2>4, Zenon DEF Flow, OnItsWay, C
<1>5. NotYet'
  BY <1>0, <1>1, Zenon DEF LiveWires, LiveInv, NotYet
<1> QED BY <1>0, <1>3, <1>4, <1>5, MovesKeep, Zenon

-----------------------------------------------------------------------------
(* The binding.                                                            *)

LEMMA ConnectKeeps ==
    ASSUME LiveWires, BindingConnect,
           UNCHANGED <<recs, versions, sourceWatermark, reg, frames, shed, queued, shown>>,
           down' \in [Conns -> Seq(Written)], \A c \in Conns : down[c] = <<>> => down'[c] = <<>>,
           Flow' \subseteq Flow,
           \A k \in Keys : recs[k] \in Flow => recs[k] \in Flow' \/ recs[k].op = "upsert"
    PROVE  LiveWires'
<1> DEFINE D == Dispose(Now)
           T == SubscribeProjection(D)
<1>0. /\ Source(T) /\ status' = "loading"
      /\ load' = [NoLoad EXCEPT !.stage = "first", !.since = sourceWatermark]
  BY Zenon DEF BindingConnect
<1>1. Wires /\ SourceOK(Now)
  BY NowOK, SMTT(20) DEF LiveWires
<1>2. Follows(D, Now)
  BY <1>1, DisposeFollows, Zenon
<1>3. Follows(T, D)
  BY <1>2, SubscribeFollows DEF Follows
<1>4. Follows(T, Now)
  BY <1>2, <1>3, Zenon DEF Follows
<1> HIDE DEF T
<1>5. Wires'
  BY <1>0, <1>1, <1>4, SourceWires
<1>6. load'.stage = "first" /\ load'.got = {}
  BY <1>0 DEF NoLoad
<1>7. NotYet'
  BY <1>0, <1>6 DEF NotYet
<1>8. LiveInv'
  BY <1>0, <1>7, LoadBegun DEF LiveWires
<1>9. Queues'
  BY <1>0, <1>6 DEF LiveWires, Queues
<1> QED BY <1>5, <1>8, <1>9 DEF LiveWires

LEMMA AutoConnectKeeps ==
    ASSUME LiveWires, AutoConnect
    PROVE  LiveWires'
<1>0. /\ BindingConnect /\ status = "idle" /\ piped' = {} /\ buffered' = {}
      /\ UNCHANGED <<lost, recs, applied, reg, frames, shed, down, queued,
                     sourceWatermark, versions, shown>>
  BY Zenon DEF AutoConnect, BindingConnect
<1>1. piped' = piped /\ buffered' = buffered
  BY <1>0, Zenon DEF LiveWires, LiveInv, NotYet
<1>2. Flow' = Flow
  <2>1. \A c \in Conns : Undelivered(c)' = Undelivered(c)
    BY <1>0, UndeliveredIs
  <2> QED BY <1>0, <1>1, <2>1, SameCarried, SMTT(20)
<1>3. down' \in [Conns -> Seq(Written)]
  BY <1>0 DEF LiveWires, Wires
<1> QED BY <1>0, <1>2, <1>3, ConnectKeeps

LEMMA ReceiveKeeps ==
    ASSUME LiveWires, NEW c \in Conns, Receive(c)
    PROVE  LiveWires'
<1> DEFINE e == Head(down[c])
           C == UNION {Undelivered(d) : d \in Conns}
<1>0. /\ down[c] \in Seq(Written) /\ down[c] # <<>> /\ down' = [down EXCEPT ![c] = Tail(@)]
      /\ UNCHANGED <<recs, applied, reg, frames, shed, queued, sourceWatermark, versions, shown>>
  BY DEF Receive, LiveWires, Wires
<1>w. Wires
  BY DEF LiveWires
<1>1. /\ down' \in [Conns -> Seq(Written)] /\ \A d \in Conns : down[d] = <<>> => down'[d] = <<>>
      /\ down'[c] = Tail(down[c]) /\ \A d \in Conns \ {c} : down'[d] = down[d]
  BY <1>w, <1>0 DEF Wires
<1>2. Cover(down[c]) = e.of \cup Cover(down'[c])
  BY <1>0, <1>1, CoverOf
<1> HIDE DEF e
<1>3. C' \cup e.of = C
  <2>1. \A d \in Conns \ {c} : Undelivered(d)' = Undelivered(d)
    BY <1>0, <1>1, UndeliveredIs, Zenon
  <2>2. Undelivered(c) = Undelivered(c)' \cup e.of
    BY <1>0, <1>2, UndeliveredIs
  <2>3. ASSUME NEW x \in C' \cup e.of PROVE x \in C
    BY <2>1, <2>2, <2>3, Zenon
  <2>4. ASSUME NEW x \in C PROVE x \in C' \cup e.of
    <3>1. PICK d \in Conns : x \in Undelivered(d)
      BY <2>4, Zenon
    <3>2. x \in Undelivered(d)' \/ x \in e.of
      BY <2>1, <2>2, <3>1, Zenon
    <3> QED BY <3>2, Zenon
  <2> HIDE DEF C
  <2> QED BY <2>3, <2>4, Zenon
<1>4. Flow = lost \cup applied \cup piped \cup buffered \cup queued \cup C
  BY Zenon DEF Flow, OnItsWay
<1>5. Flow' = lost' \cup applied \cup piped' \cup buffered' \cup queued \cup C'
  BY <1>0, Zenon DEF Flow, OnItsWay
<1> HIDE DEF C
<1>6. CASE e.type = "resync" /\ Entries(Now)
  <2>1. /\ BindingConnect
        /\ lost' = lost \cup piped \cup buffered \cup {m \in e.of : m.op = "delete"}
    BY <1>6, Zenon DEF Receive, e
  <2>2. piped' = {} /\ buffered' = {}
    BY <2>1, Zenon DEF BindingConnect
  <2>3. Flow' \subseteq Flow
    BY <1>3, <1>4, <1>5, <2>1, <2>2, SMTT(20)
  <2>4. ASSUME NEW k \in Keys, recs[k] \in Flow PROVE recs[k] \in Flow' \/ recs[k].op = "upsert"
    <3>1. recs[k].op \in {"upsert", "delete"}
      BY SMTT(20) DEF LiveWires, LiveInv, RecordTypes
    <3> QED BY <1>3, <1>4, <1>5, <2>1, <2>4, <3>1
  <2> QED BY <1>0, <1>1, <2>1, <2>3, <2>4, ConnectKeeps
<1>7. CASE ~(e.type = "resync" /\ Entries(Now))
  <2>1. /\ UNCHANGED <<src, up, status, buffered, load>>
        /\ \/ src.entry /\ piped' = piped \cup e.of /\ lost' = lost
           \/ piped' = piped /\ lost' = lost \cup e.of
    BY <1>7, Zenon DEF Receive, e
  <2>2. Flow' = Flow
    BY <1>3, <1>4, <1>5, <2>1
  <2>3. NotYet'
    BY <2>1, Zenon DEF LiveWires, LiveInv, NotYet
  <2>4. Wires'
    BY <1>w, <1>0, <1>1, <2>1 DEF Wires
  <2> QED BY <1>0, <2>1, <2>2, <2>3, <2>4, MovesKeep
<1> QED BY <1>6, <1>7, SMTT(20)

\* Some of what travels is applied; the wires do not change.
LEMMA AppliedKeeps ==
    ASSUME LiveWires, NEW S \in SUBSET Flow, ApplyMany(S), NotYet',
           UNCHANGED <<recs, load, sourceWatermark, status, reg, frames, shed, up, down, src>>,
           Flow' \subseteq Flow, Flow \subseteq Flow' \cup S,
           IsFiniteSet(queued'), Cardinality(queued') < MaxBatchSize
    PROVE  LiveWires'
<1>1. LiveInv'
  BY FlowApplied DEF LiveWires
<1>2. Wires'
  BY Zenon DEF LiveWires, Wires
<1>3. shown' \subseteq Keys
  BY DEF LiveWires, Queues, ApplyMany
<1>4. Queues'
  BY <1>3 DEF LiveWires, Queues
<1> QED BY <1>1, <1>2, <1>4 DEF LiveWires

-----------------------------------------------------------------------------
(* Writes.                                                                 *)

LEMMA ApplyKeeps ==
    ASSUME LiveWires, NEW k \in Keys, NEW op \in {"upsert", "delete"}, Apply(k, op),
           UNCHANGED <<others, clientVars, faults>>
    PROVE  LiveWires'
<1>m. PICK m : m = [key |-> k, version |-> Watermark + 1, op |-> op]
  BY Zenon
<1>i. RecordTypes /\ Travelling /\ LoadShape /\ Settled /\ NotYet /\ Accounted /\ Wires /\ Queues
  BY DEF LiveWires, LiveInv
<1>0. /\ Watermark < MaxVersion /\ recs' = [recs EXCEPT ![k] = m] /\ applied' = applied \cup {m}
      /\ UNCHANGED <<reg, frames, shed, up, down, lost, src, piped, status, buffered, queued, load,
                     sourceWatermark, versions, shown>>
  BY <1>m DEF Apply, clientVars
<1>1. /\ Watermark \in Nat
      /\ \A j \in Keys : recs[j].version \in Nat /\ recs[j].version <= Watermark
  BY <1>i, WatermarkHighest
<1>2. /\ m \in Mutation /\ m.key = k /\ m.version = Watermark + 1 /\ m.op = op
      /\ m \in [key : Keys, version : 0..MaxVersion, op : {"upsert", "delete"}]
  BY <1>m, <1>0, <1>1, HubBounds, SMTT(20) DEF Mutation
<1>3. recs'[k] = m /\ \A j \in Keys \ {k} : recs'[j] = recs[j]
  BY <1>i, <1>0, SMTT(20) DEF RecordTypes
<1>4. RecordTypes'
  <2>1. recs' \in [Keys -> [key : Keys, version : 0..MaxVersion, op : {"upsert", "delete"}]]
    BY <1>i, <1>0, <1>2, SMTT(20) DEF RecordTypes
  <2>2. \A j \in Keys : recs'[j].key = j /\ (recs'[j].version = 0 => recs'[j].op = "delete")
    BY <1>i, <1>1, <1>2, <1>3, SMTT(20) DEF RecordTypes
  <2>3. \A j \in Keys : versions'[j] <= recs'[j].version
    <3>1. versions[k] \in Nat /\ versions[k] <= recs[k].version
      BY <1>i DEF RecordTypes
    <3>2. versions[k] <= Watermark + 1
      BY <1>1, <3>1
    <3> QED BY <1>i, <1>0, <1>2, <1>3, <3>2 DEF RecordTypes
  <2> QED BY <1>i, <1>0, <2>1, <2>2, <2>3, SMTT(20) DEF RecordTypes
<1>5. Watermark' \in Nat /\ Watermark + 1 <= Watermark'
  <2>1. Watermark' \in Nat /\ \A j \in Keys : recs'[j].version <= Watermark'
    <3>1. \A j \in Keys : recs'[j].version \in 0..MaxVersion
      BY <1>4 DEF RecordTypes
    <3> QED BY <3>1, HighestVersion, Zenon DEF Watermark
  <2> QED BY <1>2, <1>3, <2>1, SMTT(20)
<1>6. Flow' = Flow \cup {m}
  <2>1. \A c \in Conns : Undelivered(c)' = Undelivered(c)
    BY <1>0, UndeliveredIs, Zenon
  <2> DEFINE C == UNION {Undelivered(c) : c \in Conns}
  <2>2. C' = C
    BY <2>1, Zenon
  <2> HIDE DEF C
  <2>3. /\ Flow = lost \cup (applied \cup piped \cup buffered \cup queued \cup C)
        /\ Flow' = lost \cup ((applied \cup {m}) \cup piped \cup buffered \cup queued \cup C)
    BY <1>0, <2>2, Zenon DEF Flow, OnItsWay, C
  <2> QED BY <2>3
<1>7. Travelling'
  <2>1. ASSUME NEW x \in Flow \cup load.got PROVE Past(x)'
    <3>1. /\ x \in Mutation /\ x.key \in Keys /\ x.version \in Nat
          /\ x.version <= recs[x.key].version
          /\ x.version = recs[x.key].version => x = recs[x.key]
      BY <1>i, <2>1 DEF Travelling, Past, Mutation
    <3>2. CASE x.key # k
      BY <1>3, <3>1, <3>2, SMTT(20) DEF Past
    <3>3. CASE x.key = k
      BY <1>1, <1>2, <1>3, <3>1, <3>3, SMTT(20) DEF Past
    <3> QED BY <3>2, <3>3
  <2>2. Past(m)'
    BY <1>1, <1>2, <1>3 DEF Past
  <2> QED BY <1>0, <1>6, <2>1, <2>2, Zenon DEF Travelling
<1>8. LoadShape'
  <2>1. ASSUME load.stage \in {"next", "done"} PROVE load.mark <= Watermark' /\ Covers'
    <3>1. load.mark \in Nat /\ load.mark <= Watermark /\ Covers
      BY <1>i, <2>1 DEF LoadShape
    <3>2. ~(m.version <= load.mark)
      BY <1>1, <1>2, <3>1, SMTT(20)
    <3>3. Covers'
      BY <1>0, <1>3, <3>1, <3>2, Zenon DEF Covers
    <3> QED BY <1>1, <1>5, <3>1, <3>3
  <2>2. sourceWatermark <= Watermark'
    BY <1>i, <1>1, <1>5 DEF LoadShape
  <2> QED BY <1>i, <1>0, <2>1, <2>2, Zenon DEF LoadShape
<1>9. Settled'
  <2>1. ~(m.version <= sourceWatermark)
    BY <1>i, <1>1, <1>2 DEF LoadShape
  <2> QED BY <1>i, <1>0, <1>3, <2>1, SMTT(20) DEF Settled
<1>10. NotYet'
  BY <1>i, <1>0, Zenon DEF NotYet
<1>11. Accounted'
  <2>1. ASSUME NEW j \in Keys, versions'[j] < recs'[j].version
        PROVE  recs'[j] \in Flow' \/ Loading(recs[j])'
    <3>1. CASE j = k
      BY <1>3, <1>6, <3>1, SMTT(20)
    <3>2. CASE j # k
      <4>1. versions[j] < recs[j].version /\ recs'[j] = recs[j]
        BY <1>0, <1>3, <2>1, <3>2
      <4>2. recs[j] \in Flow \/ Loading(recs[j])
        BY <1>i, <4>1, Zenon DEF Accounted, Flow
      <4>3. Loading(recs[j]) => Loading(recs[j])'
        BY <1>0, <4>1, Zenon DEF Loading
      <4> QED BY <1>6, <4>1, <4>2, <4>3
    <3> QED BY <3>1, <3>2
  <2> QED BY <2>1, Zenon DEF Accounted, Flow
<1>12. Wires'
  BY <1>i, <1>0, Zenon DEF Wires
<1>13. Queues'
  BY <1>i, <1>0, <1>2, <1>6 DEF Queues
<1> QED BY <1>4, <1>7, <1>8, <1>9, <1>10, <1>11, <1>12, <1>13, SMTT(20) DEF LiveWires, LiveInv

-----------------------------------------------------------------------------
(* The load.                                                               *)

\* The pages have covered every live record up to the watermark that is adopted.
LEMMA LoadReturnsKeeps ==
    ASSUME LiveWires, LoadReturns
    PROVE  LiveWires'
<1>i. RecordTypes /\ Travelling /\ LoadShape /\ Settled /\ NotYet /\ Accounted /\ Wires /\ Queues
  BY DEF LiveWires, LiveInv
<1>0. /\ load.stage = "done" /\ ApplyMany(load.got \cup buffered) /\ buffered' = {}
      /\ load' = NoLoad /\ sourceWatermark' = load.mark /\ status' = "live"
      /\ lost' = {m \in lost : m.version > load.mark \/ m.op = "delete"}
      /\ UNCHANGED <<recs, applied, reg, frames, shed, up, down, src, piped, queued>>
  BY Zenon DEF LoadReturns
<1>1. /\ load'.stage = "none" /\ load'.since = 0 /\ load'.cursor = 0 /\ load'.mark = 0
      /\ load'.got = {} /\ DOMAIN load' = {"stage", "since", "cursor", "got", "mark"}
  BY <1>0 DEF NoLoad
<1> DEFINE C == UNION {Undelivered(c) : c \in Conns}
<1>2. C' = C
  <2>1. \A c \in Conns : Undelivered(c)' = Undelivered(c)
    BY <1>0, UndeliveredIs, Zenon
  <2> QED BY <2>1, Zenon
<1>3. /\ Flow = lost \cup applied \cup piped \cup buffered \cup queued \cup C
      /\ Flow' = lost' \cup applied \cup piped \cup {} \cup queued \cup C
  BY <1>0, <1>2, Zenon DEF Flow, OnItsWay
<1> HIDE DEF C
<1>4. /\ versions' \in [Keys -> Nat]
      /\ \A k \in Keys : versions[k] <= versions'[k] /\ versions'[k] <= recs[k].version
      /\ \A k \in Keys : recs[k] \in load.got \cup buffered => versions'[k] = recs[k].version
  <2>1. \A m \in load.got \cup buffered : Past(m)
    BY <1>i, <1>3, Zenon DEF Travelling
  <2> QED BY <1>i, <1>0, <2>1, ApplyManyRaises
<1>v. \A k \in Keys : versions[k] \in Nat /\ versions'[k] \in Nat /\ recs[k].version \in Nat
                      /\ recs[k].op \in {"upsert", "delete"}
  BY <1>i, <1>4, SMTT(20) DEF RecordTypes
<1>m. /\ load.mark \in Nat /\ load.since \in Nat /\ load.mark <= Watermark /\ Covers
      /\ load.since = sourceWatermark
  BY <1>i, <1>0 DEF LoadShape
<1>5. RecordTypes'
  BY <1>i, <1>0, <1>4, Zenon DEF RecordTypes
<1>6. Flow' \subseteq Flow
  BY <1>0, <1>3
<1>7. Travelling'
  <2>1. \A x : Past(x)' <=> Past(x)
    BY <1>0, PartitionSame, SMTT(20)
  <2> QED BY <1>i, <1>1, <1>6, <2>1, Zenon DEF Travelling
<1>8. LoadShape'
  <2>1. Watermark' = Watermark
    BY <1>0, PartitionSame
  <2> QED BY <1>0, <1>1, <1>m, <2>1, SMTT(20) DEF LoadShape
<1>9. ASSUME NEW k \in Keys, recs[k].op = "upsert", recs[k].version <= load.mark
      PROVE  versions'[k] = recs[k].version
  <2>1. CASE recs[k].version <= sourceWatermark
    BY <1>i, <1>4, <1>9, <1>v, <2>1, SMTT(20) DEF Settled
  <2>2. CASE recs[k].version > sourceWatermark
    <3>1. recs[k] \in load.got
      BY <1>0, <1>9, <1>m, <2>2 DEF Covers
    <3> QED BY <1>4, <3>1, SMTT(20)
  <2> QED BY <1>m, <1>v, <2>1, <2>2, SMTT(20)
<1>10. Settled'
  BY <1>0, <1>9, Zenon DEF Settled
<1>11. NotYet'
  BY <1>0, <1>1 DEF NotYet
<1>12. Accounted'
  <2>1. ASSUME NEW k \in Keys, versions'[k] < recs[k].version PROVE recs[k] \in Flow'
    <3>1. versions[k] < recs[k].version /\ recs[k] \notin load.got \cup buffered
      BY <1>4, <1>v, <2>1, SMTT(20)
    <3>2. ~Loading(recs[k])
      BY <1>0, <3>1, Zenon DEF Loading
    <3>3. recs[k] \in Flow
      BY <1>i, <3>1, <3>2, Zenon DEF Accounted, Flow
    <3>4. recs[k].version > load.mark \/ recs[k].op = "delete"
      BY <1>9, <1>m, <1>v, <2>1
    <3> QED BY <1>0, <1>3, <3>1, <3>3, <3>4, SMTT(20)
  <2>2. ASSUME NEW k \in Keys, versions'[k] < recs'[k].version PROVE recs'[k] \in Flow'
    BY <1>0, <2>1, <2>2, Zenon
  <2> QED BY <2>2, Zenon DEF Accounted, Flow
<1>13. Wires'
  BY <1>i, <1>0, Zenon DEF Wires
<1>14. Queues'
  <2>1. shown' \subseteq Keys
    BY <1>i, <1>0, Zenon DEF Queues, ApplyMany
  <2> QED BY <1>i, <1>0, <1>1, <1>6, <2>1, SMTT(20) DEF Queues
<1> QED BY <1>5, <1>7, <1>8, <1>10, <1>11, <1>12, <1>13, <1>14 DEF LiveWires, LiveInv

LEMMA LoadFailsKeeps ==
    ASSUME LiveWires, LoadFails
    PROVE  LiveWires'
<1> DEFINE B == {recs[k] : k \in {x \in Keys : recs[x].version > versions[x]}}
<1>i. RecordTypes /\ Travelling /\ LoadShape /\ Settled /\ NotYet /\ Accounted /\ Wires /\ Queues
  BY DEF LiveWires, LiveInv
<1>0. /\ Source(Dispose(Now)) /\ status' = "error" /\ piped' = {} /\ buffered' = {}
      /\ load' = NoLoad /\ lost' = lost \cup piped \cup buffered \cup B
      /\ UNCHANGED <<recs, applied, reg, frames, shed, down, queued, sourceWatermark, versions,
                     shown>>
  BY Zenon DEF LoadFails
<1>1. /\ load'.stage = "none" /\ load'.since = 0 /\ load'.cursor = 0 /\ load'.mark = 0
      /\ load'.got = {} /\ DOMAIN load' = {"stage", "since", "cursor", "got", "mark"}
  BY <1>0, Zenon DEF NoLoad
<1>2. ASSUME NEW m \in B PROVE Past(m) /\ m \in Mutation
  <2>1. PICK k \in Keys : m = recs[k] /\ recs[k].version > versions[k]
    BY <1>2, Zenon
  <2>2. /\ m \in [key : Keys, version : 0..MaxVersion, op : {"upsert", "delete"}]
        /\ m.key = k /\ versions[k] \in Nat
    BY <1>i, <2>1 DEF RecordTypes
  <2>3. m \in Mutation /\ m.version \in Nat
    BY <2>1, <2>2, HubBounds DEF Mutation
  <2> QED BY <2>1, <2>2, <2>3 DEF Past
<1>b. \A k \in Keys : recs[k].version > versions[k] => recs[k] \in B
  BY Zenon
<1> DEFINE C == UNION {Undelivered(c) : c \in Conns}
<1>3. C' = C
  <2>1. \A c \in Conns : Undelivered(c)' = Undelivered(c)
    BY <1>0, UndeliveredIs, Zenon
  <2> QED BY <2>1, Zenon
<1>4. /\ Flow = lost \cup applied \cup piped \cup buffered \cup queued \cup C
      /\ Flow' = lost' \cup applied \cup {} \cup {} \cup queued \cup C
  BY <1>0, <1>3, Zenon DEF Flow, OnItsWay
<1> HIDE DEF B, C
<1>5. Flow' = Flow \cup B
  BY <1>0, <1>4
<1>6. Travelling'
  <2>1. \A x : Past(x)' <=> Past(x)
    BY <1>0, PartitionSame
  <2>2. \A x \in Flow \cup B : Past(x)
    BY <1>i, <1>2, ZenonT(30) DEF Travelling
  <2> QED BY <1>1, <1>5, <2>1, <2>2, Zenon DEF Travelling
<1>7. LoadShape'
  <2>1. Watermark' = Watermark
    BY <1>0, PartitionSame
  <2> QED BY <1>i, <1>0, <1>1, <2>1 DEF LoadShape
<1>8. RecordTypes' /\ Settled'
  BY <1>i, <1>0, Zenon DEF RecordTypes, Settled
<1>9. NotYet'
  BY <1>0, <1>1 DEF NotYet
<1>10. Accounted'
  <2>1. ASSUME NEW k \in Keys, versions'[k] < recs'[k].version PROVE recs'[k] \in lost'
    <3>1. recs[k].version > versions[k]
      BY <1>i, <1>0, <2>1, SMTT(20) DEF RecordTypes
    <3> QED BY <1>0, <1>b, <3>1, Zenon
  <2> QED BY <2>1, Zenon DEF Accounted
<1>11. Wires'
  <2>1. Follows(Dispose(Now), Now)
    BY <1>i, NowOK, DisposeFollows
  <2>2. down' \in [Conns -> Seq(Written)]
    BY <1>i, <1>0, SMTT(20) DEF Wires
  <2> QED BY <1>i, <1>0, <2>1, <2>2, SourceWires
<1>12. Queues'
  BY <1>i, <1>0, <1>1, <1>2, <1>5 DEF Queues
<1> QED BY <1>6, <1>7, <1>8, <1>9, <1>10, <1>11, <1>12 DEF LiveWires, LiveInv

-----------------------------------------------------------------------------
(* Finite sets: the batch and the page.                                    *)

Finite == INSTANCE FiniteSetTheorems

LEMMA SameSizes ==
    ASSUME NEW S
    PROVE  /\ Finite!IsFiniteSet(S) <=> IsFiniteSet(S)
           /\ Finite!Cardinality(S) = Cardinality(S)
BY DEF Finite!IsFiniteSet, IsFiniteSet, Finite!Cardinality, Cardinality

LEMMA EmptySize == IsFiniteSet({}) /\ Cardinality({}) = 0
<1>1. Finite!IsFiniteSet({}) /\ Finite!Cardinality({}) = 0
  BY Finite!FS_EmptySet
<1> QED BY <1>1, SameSizes

LEMMA SubsetSize ==
    ASSUME NEW S, IsFiniteSet(S), NEW A \in SUBSET S
    PROVE  /\ IsFiniteSet(A) /\ Cardinality(A) \in Nat /\ Cardinality(S) \in Nat
           /\ Cardinality(A) <= Cardinality(S)
<1>1. Finite!IsFiniteSet(S)
  BY SameSizes
<1>2. Finite!IsFiniteSet(A) /\ Finite!Cardinality(A) <= Finite!Cardinality(S)
  BY <1>1, Finite!FS_Subset, Zenon
<1>3. Finite!Cardinality(A) \in Nat /\ Finite!Cardinality(S) \in Nat
  BY <1>1, <1>2, Finite!FS_CardinalityType
<1> QED BY <1>2, <1>3, SameSizes

LEMMA AddedSize ==
    ASSUME NEW S, IsFiniteSet(S), NEW x
    PROVE  /\ IsFiniteSet(S \cup {x})
           /\ Cardinality(S \cup {x}) = IF x \in S THEN Cardinality(S) ELSE Cardinality(S) + 1
<1>1. Finite!IsFiniteSet(S)
  BY SameSizes
<1>2. /\ Finite!IsFiniteSet(S \cup {x})
      /\ Finite!Cardinality(S \cup {x}) =
           IF x \in S THEN Finite!Cardinality(S) ELSE Finite!Cardinality(S) + 1
  BY <1>1, Finite!FS_AddElement, Zenon
<1> QED BY <1>2, SameSizes, Zenon

LEMMA ImageFinite ==
    ASSUME NEW S, IsFiniteSet(S), NEW R, NEW f \in [S -> R], \A y \in R : \E x \in S : f[x] = y
    PROVE  IsFiniteSet(R)
<1>1. Finite!IsFiniteSet(S)
  BY SameSizes
<1>2. f \in Finite!Surjection(S, R)
  BY Zenon DEF Finite!Surjection
<1>3. Finite!IsFiniteSet(R)
  BY <1>1, <1>2, Finite!FS_Surjection, Zenon
<1> QED BY <1>3, SameSizes

LEMMA EmptyQueue ==
    IsFiniteSet({}) /\ Cardinality({}) < MaxBatchSize
BY EmptySize, ClientBounds

LEMMA FlushKeeps ==
    ASSUME LiveWires, Flush
    PROVE  LiveWires'
<1>0. /\ queued' = {} /\ ApplyMany(queued)
      /\ UNCHANGED <<recs, applied, reg, frames, shed, up, down, lost, src, piped, status,
                     buffered, load, sourceWatermark>>
  BY Zenon DEF Flush, hubVars
<1>1. \A c \in Conns : Undelivered(c)' = Undelivered(c)
  BY <1>0, UndeliveredIs
<1> DEFINE C == UNION {Undelivered(c) : c \in Conns}
<1>2. C' = C
  BY <1>1, Zenon
<1>3. /\ Flow = lost \cup applied \cup piped \cup buffered \cup queued \cup C
      /\ Flow' = lost \cup applied \cup piped \cup buffered \cup {} \cup C
  BY <1>0, <1>2, Zenon DEF Flow, OnItsWay
<1> HIDE DEF C
<1>4. queued \in SUBSET Flow /\ Flow' \subseteq Flow /\ Flow \subseteq Flow' \cup queued
  BY <1>3
<1>5. NotYet'
  BY <1>0, Zenon DEF LiveWires, LiveInv, NotYet
<1> QED BY <1>0, <1>4, <1>5, EmptyQueue, AppliedKeeps

LEMMA ListenerKeeps ==
    ASSUME LiveWires, NEW m \in piped, Listener(m)
    PROVE  LiveWires'
<1>0. /\ piped' = piped \ {m}
      /\ UNCHANGED <<recs, applied, reg, frames, shed, up, down, src, load, sourceWatermark>>
  BY Zenon DEF Listener
<1>1. \A c \in Conns : Undelivered(c)' = Undelivered(c)
  BY <1>0, UndeliveredIs
<1> DEFINE C == UNION {Undelivered(c) : c \in Conns}
<1>2. C' = C
  BY <1>1, Zenon
<1>3. /\ Flow = lost \cup applied \cup piped \cup buffered \cup queued \cup C
      /\ Flow' = lost' \cup applied \cup (piped \ {m}) \cup buffered' \cup queued' \cup C
  BY <1>0, <1>2, Zenon DEF Flow, OnItsWay
<1> HIDE DEF C
<1>4. Wires'
  BY <1>0, Zenon DEF LiveWires, Wires
<1>5. status # "idle" /\ (status = "loading" <=> load.stage # "none")
  BY Zenon DEF LiveWires, LiveInv, NotYet
<1>6. IsFiniteSet(queued) /\ Cardinality(queued) \in Nat /\ Cardinality(queued) < MaxBatchSize
  BY SubsetSize DEF LiveWires, Queues
<1>7. CASE status = "loading"
  <2>1. buffered' = buffered \cup {m} /\ UNCHANGED <<lost, status, queued, versions, shown>>
    BY <1>7, Zenon DEF Listener
  <2>2. Flow' = Flow
    BY <1>3, <2>1
  <2>3. NotYet'
    BY <1>0, <1>5, <2>1, Zenon DEF NotYet
  <2> QED BY <1>0, <1>4, <2>1, <2>2, <2>3, MovesKeep
<1>8. CASE status # "loading" /\ Cardinality(queued) >= MaxQueuedMutations
  <2>1. /\ buffered' = buffered /\ lost' = lost \cup {m} /\ status' = "degraded"
        /\ UNCHANGED <<queued, versions, shown>>
    BY <1>6, <1>8, ClientBounds DEF Listener
  <2>2. Flow' = Flow
    BY <1>3, <2>1
  <2>3. NotYet'
    BY <1>0, <1>5, <1>8, <2>1 DEF NotYet
  <2>4. LiveInv'
    BY <1>0, <2>1, <2>2, <2>3, FlowKept, SMTT(20) DEF LiveWires
  <2>5. Queues'
    BY <1>0, <2>1, <2>2, Zenon DEF LiveWires, Queues
  <2> QED BY <1>4, <2>4, <2>5 DEF LiveWires
<1>9. CASE status # "loading" /\ Cardinality(queued) < MaxQueuedMutations /\ BatchFull
  <2>1. /\ buffered' = buffered /\ queued' = {} /\ ApplyMany(queued \cup {m})
        /\ UNCHANGED <<lost, status>>
    BY <1>6, <1>9, ClientBounds DEF Listener
  <2>2. /\ queued \cup {m} \in SUBSET Flow /\ Flow' \subseteq Flow
        /\ Flow \subseteq Flow' \cup (queued \cup {m})
    BY <1>3, <2>1
  <2>3. NotYet'
    BY <1>0, <1>5, <2>1, Zenon DEF NotYet
  <2> QED BY <1>0, <2>1, <2>2, <2>3, EmptyQueue, AppliedKeeps
<1>10. CASE status # "loading" /\ Cardinality(queued) < MaxQueuedMutations /\ ~BatchFull
  <2>1. /\ buffered' = buffered /\ queued' = queued \cup {m}
        /\ UNCHANGED <<lost, status, versions, shown>>
    BY <1>6, <1>10, ClientBounds DEF Listener
  <2>2. Flow' = Flow
    BY <1>3, <2>1
  <2>3. NotYet'
    BY <1>0, <1>5, <2>1, Zenon DEF NotYet
  <2>4. LiveInv'
    BY <1>0, <2>1, <2>2, <2>3, FlowKept DEF LiveWires
  <2>5. IsFiniteSet(queued') /\ Cardinality(queued') < MaxBatchSize
    <3>1. /\ IsFiniteSet(queued \cup {m})
          /\ Cardinality(queued \cup {m}) =
               IF m \in queued THEN Cardinality(queued) ELSE Cardinality(queued) + 1
      BY <1>6, AddedSize
    <3>2. Cardinality(queued) + 1 < MaxBatchSize
      BY <1>6, <1>10, ClientBounds, SMTT(20) DEF BatchFull
    <3> QED BY <1>6, <2>1, <3>1, <3>2
  <2>6. Queues'
    BY <1>0, <2>1, <2>2, <2>5 DEF LiveWires, Queues
  <2> QED BY <1>4, <2>4, <2>6 DEF LiveWires
<1> QED BY <1>6, <1>7, <1>8, <1>9, <1>10, ClientBounds

LEMMA WindowShape ==
    ASSUME RecordTypes
    PROVE  /\ IsFiniteSet(Window) /\ Window \subseteq Mutation
           /\ \A m \in Window : m.version \in Nat /\ m.version > 0 /\ Past(m)
<1> DEFINE R == {recs[k] : k \in Keys}
<1>1. IsFiniteSet(R)
  <2>1. recs \in [Keys -> R] /\ \A y \in R : \E k \in Keys : recs[k] = y
    BY DEF RecordTypes
  <2> QED BY <2>1, SomeKeys, ImageFinite, Zenon
<1>2. Window \subseteq R
  BY Zenon DEF Window
<1>3. ASSUME NEW m \in Window
      PROVE  m \in Mutation /\ m.version \in Nat /\ m.version > 0 /\ Past(m)
  <2>1. PICK k \in Keys : m = recs[k]
    BY <1>2, <1>3, Zenon
  <2>2. m.op = "upsert"
    BY <1>3, Zenon DEF Window
  <2>3. /\ m \in [key : Keys, version : 0..MaxVersion, op : {"upsert", "delete"}]
        /\ m.key = k /\ m.version # 0
    BY <2>1, <2>2 DEF RecordTypes
  <2>4. m \in Mutation /\ m.version \in Nat /\ m.version > 0
    BY <2>3, HubBounds DEF Mutation
  <2> QED BY <2>1, <2>3, <2>4 DEF Past
<1>4. IsFiniteSet(Window)
  BY <1>1, <1>2, SubsetSize
<1> QED BY <1>3, <1>4

\* A live record of the window that a page leaves out is older than the whole page,
\* and the page is full.
LEMMA PageIsNewest ==
    ASSUME RecordTypes, NEW m \in Window, m \notin Page
    PROVE  Cardinality(Page) >= PageLimit /\ \A p \in Page : m.version < p.version
<1>0. /\ IsFiniteSet(Window) /\ Window \subseteq Mutation
      /\ \A n \in Window : n.version \in Nat
  BY WindowShape
<1> DEFINE Over(x) == {n \in Window : n.version > x.version}
<1>1. \A x : IsFiniteSet(Over(x)) /\ Cardinality(Over(x)) \in Nat
  <2>1. \A x : Over(x) \subseteq Window
    BY Zenon
  <2> HIDE DEF Over
  <2> QED BY <1>0, <2>1, SubsetSize
<1>2. \A x \in Window : x \in Page <=> Cardinality(Over(x)) < PageLimit
  BY Zenon DEF Page
<1>3. Page \subseteq Window
  BY Zenon DEF Page
<1>4. ASSUME NEW p \in Page PROVE m.version < p.version
  <2>1. SUFFICES ASSUME p.version <= m.version PROVE FALSE
    BY <1>0, <1>3
  <2>2. Over(m) \subseteq Over(p)
    BY <1>0, <1>3, <2>1
  <2> HIDE DEF Over
  <2>3. Cardinality(Over(m)) <= Cardinality(Over(p))
    BY <1>1, <2>2, SubsetSize
  <2>4. Cardinality(Over(p)) < PageLimit /\ ~(Cardinality(Over(m)) < PageLimit)
    BY <1>2, <1>3, Zenon
  <2> QED BY <1>1, <2>3, <2>4, ClientBounds
<1>5. Cardinality(Page) >= PageLimit
  <2>0. Window \ Page \in SUBSET Mutation /\ Window \ Page # {}
    BY <1>0
  <2>1. PICK x \in Window \ Page : \A n \in Window \ Page : n.version <= x.version
    BY <2>0, NewestIsOne, Zenon
  <2>2. Over(x) \subseteq Page
    BY <1>0, <2>1
  <2> HIDE DEF Over
  <2>3. IsFiniteSet(Page)
    BY <1>0, <1>3, SubsetSize
  <2>4. Cardinality(Over(x)) <= Cardinality(Page) /\ Cardinality(Page) \in Nat
    BY <2>2, <2>3, SubsetSize
  <2>5. ~(Cardinality(Over(x)) < PageLimit)
    BY <1>2, <2>1, Zenon
  <2> QED BY <1>1, <2>4, <2>5, ClientBounds
<1> QED BY <1>4, <1>5

LEMMA LoadPageKeeps ==
    ASSUME LiveWires, LoadPage
    PROVE  LiveWires'
<1> DEFINE c == IF Page = {} THEN load.cursor ELSE Min({m.version : m \in Page})
           st == IF Cardinality(Page) < PageLimit THEN "done" ELSE "next"
           mk == IF load.stage = "first" THEN Watermark ELSE load.mark
<1>i. RecordTypes /\ Travelling /\ LoadShape /\ Settled /\ NotYet /\ Accounted /\ Wires /\ Queues
  BY DEF LiveWires, LiveInv
<1>0. /\ load.stage \in {"first", "next"}
      /\ load' = [load EXCEPT !.stage = st, !.cursor = c, !.got = @ \cup Page, !.mark = mk]
      /\ UNCHANGED <<recs, applied, reg, frames, shed, up, down, lost, src, piped, status,
                     buffered, queued, sourceWatermark, versions, shown>>
  BY Zenon DEF LoadPage, hubVars
<1>1. /\ IsFiniteSet(Window) /\ Window \subseteq Mutation /\ Page \subseteq Window
      /\ \A m \in Window : m.version \in Nat /\ m.version > 0 /\ Past(m)
  BY <1>i, WindowShape DEF Page
<1>2. /\ load'.stage = st /\ load'.since = load.since /\ load'.cursor = c
      /\ load'.got = load.got \cup Page /\ load'.mark = mk
      /\ DOMAIN load' = {"stage", "since", "cursor", "got", "mark"}
  BY <1>i, <1>0 DEF LoadShape
<1>3. Page # {} => c \in Nat /\ c > 0 /\ \E p \in Page : c = p.version
  <2> DEFINE V == {m.version : m \in Page}
  <2>1. V \in SUBSET Nat
    BY <1>1
  <2>2. Page # {} => V # {}
    OBVIOUS
  <2>3. \A v \in V : \E p \in Page : v = p.version
    OBVIOUS
  <2>4. c = IF Page = {} THEN load.cursor ELSE Min(V)
    OBVIOUS
  <2> HIDE DEF V, c
  <2>5. Page # {} => Min(V) \in V
    BY <2>1, <2>2, MinIsLowest
  <2>6. Page # {} => \E p \in Page : c = p.version
    BY <2>3, <2>4, <2>5
  <2> QED BY <1>1, <2>6
<1>4. IsFiniteSet(Page) /\ Cardinality(Page) \in Nat /\ (Page = {} => Cardinality(Page) = 0)
  BY <1>1, SubsetSize, EmptySize
<1>5. st \in {"done", "next"} /\ (st = "next" => Page # {} /\ c > 0)
  BY <1>3, <1>4, ClientBounds
<1>6. ASSUME NEW m \in Window PROVE m \in Page \/ (st = "next" /\ m.version < c)
  <2>1. SUFFICES ASSUME m \notin Page PROVE st = "next" /\ m.version < c
    OBVIOUS
  <2>2. Cardinality(Page) >= PageLimit /\ \A p \in Page : m.version < p.version
    BY <1>i, <2>1, PageIsNewest
  <2>3. st = "next" /\ Page # {}
    BY <1>4, <2>2, ClientBounds
  <2> HIDE DEF c
  <2> QED BY <1>3, <2>2, <2>3
<1>t. /\ load.since \in Nat /\ load.cursor \in Nat /\ load.mark \in Nat
      /\ sourceWatermark \in Nat /\ load.since = sourceWatermark
      /\ Watermark \in Nat /\ mk \in Nat /\ mk <= Watermark /\ c \in Nat
  BY <1>i, <1>0, <1>3, WatermarkHighest DEF LoadShape
<1> HIDE DEF c, st, mk
\* What the stage promises to read is in the window.
<1>7. ASSUME NEW k \in Keys, recs[k].op = "upsert", recs[k].version > load.since,
             load.stage = "first" \/ recs[k].version < load.cursor
      PROVE  recs[k] \in Window
  <2>1. load.stage = "first" => ~(load.cursor > 0)
    BY <1>i DEF LoadShape
  <2> QED BY <1>7, <2>1, Zenon DEF Window
<1>8. Flow' = Flow
  <2>1. \A d \in Conns : Undelivered(d)' = Undelivered(d)
    BY <1>0, UndeliveredIs, Zenon
  <2> QED BY <1>0, <2>1, SameCarried
<1>9. Travelling'
  <2>1. \A x \in Flow \cup load.got \cup Page : Past(x)
    BY <1>i, <1>1, Zenon DEF Travelling
  <2>2. \A x : Past(x)' <=> Past(x)
    BY <1>0, PartitionSame
  <2> QED BY <1>2, <1>8, <2>1, <2>2, Zenon DEF Travelling
<1>10. Covers'
  <2>1. ASSUME NEW k \in Keys, recs[k].op = "upsert", recs[k].version > load.since,
               recs[k].version <= mk
        PROVE  recs[k] \in load'.got \/ (load'.stage = "next" /\ recs[k].version < load'.cursor)
    <3>1. recs[k] \in load.got \/ recs[k] \in Window
      <4>1. CASE load.stage = "first"
        BY <1>7, <2>1, <4>1
      <4>2. CASE load.stage = "next"
        <5>1. mk = load.mark /\ Covers
          BY <1>i, <4>2 DEF LoadShape, mk
        <5>2. recs[k] \in load.got \/ recs[k].version < load.cursor
          BY <2>1, <5>1, Zenon DEF Covers
        <5> QED BY <1>7, <2>1, <5>2
      <4> QED BY <1>0, <4>1, <4>2
    <3> QED BY <1>2, <1>6, <3>1
  <2> QED BY <1>0, <1>2, <2>1 DEF Covers
<1>11. LoadShape'
  <2>1. Watermark' = Watermark
    BY <1>0, PartitionSame
  <2> QED BY <1>0, <1>2, <1>5, <1>10, <1>t, <2>1, <1>i DEF LoadShape
<1>12. Accounted'
  <2>1. ASSUME NEW k \in Keys, versions[k] < recs[k].version, Loading(recs[k])
        PROVE  Loading(recs[k])'
    <3>1. recs[k].op = "upsert"
      BY <2>1, Zenon DEF Loading
    <3>2. recs[k].version > load.since
      BY <1>i, <1>t, <2>1, <3>1, SMTT(20) DEF Settled, RecordTypes
    <3>3. recs[k] \in load.got \/ recs[k] \in Window
      BY <1>7, <2>1, <3>1, <3>2 DEF Loading
    <3>4. recs[k] \in load'.got \/ (load'.stage = "next" /\ recs[k].version < load'.cursor)
      BY <1>2, <1>6, <3>3
    <3> QED BY <1>0, <3>1, <3>4, Zenon DEF Loading
  <2>2. ASSUME NEW k \in Keys, versions'[k] < recs'[k].version
        PROVE  recs'[k] \in Flow' \/ Loading(recs[k])'
    <3>1. recs[k] \in Flow \/ Loading(recs[k])
      BY <1>i, <1>0, <2>2, Zenon DEF Accounted, Flow
    <3> QED BY <1>0, <1>8, <2>1, <2>2, <3>1, Zenon
  <2> QED BY <2>2, Zenon DEF Accounted, Flow
<1>13. RecordTypes' /\ Settled'
  BY <1>i, <1>0, Zenon DEF RecordTypes, Settled
<1>14. NotYet'
  BY <1>i, <1>0, <1>2, <1>5 DEF NotYet
<1>15. Wires'
  BY <1>i, <1>0, Zenon DEF Wires
<1>16. Queues'
  BY <1>i, <1>0, <1>1, <1>2, <1>8 DEF Queues
<1> QED BY <1>9, <1>11, <1>12, <1>13, <1>14, <1>15, <1>16 DEF LiveWires, LiveInv

-----------------------------------------------------------------------------
(* The theorems.                                                           *)

LEMMA LiveStart ==
    ASSUME LiveInit
    PROVE  LiveWires
<1>0. /\ recs = [k \in Keys |-> [key |-> k, version |-> 0, op |-> "delete"]]
      /\ applied = {} /\ lost = {} /\ reg = {} /\ piped = {} /\ buffered = {} /\ queued = {}
      /\ frames = [c \in Conns |-> <<>>] /\ shed = [c \in Conns |-> {}]
      /\ up = [c \in Conns |-> <<>>] /\ down = [c \in Conns |-> <<>>]
      /\ status = "idle" /\ load = NoLoad /\ sourceWatermark = 0
      /\ versions = [k \in Keys |-> 0] /\ shown = {}
  BY ZenonT(30) DEF LiveInit, HubInit
<1>1. SourceShape(src) /\ src.entry = FALSE
  <2>1. PICK first \in Lowest(1, Conns) :
          src = [ws |-> [c \in Conns |-> IF others /\ c = first THEN "open" ELSE "unused"],
                 socket |-> IF others THEN first ELSE NoConn,
                 opening |-> FALSE, live |-> others, exhausted |-> FALSE, attempt |-> 0,
                 awaiting |-> 0, timers |-> 0, handle |-> FALSE, entry |-> FALSE]
    BY Zenon DEF LiveInit
  <2>2. first \in Conns /\ 0 \in 0..(MaxConsecutiveFailures - 1)
    BY <2>1, ClientBounds, SMTT(20) DEF Lowest
  <2> QED BY <2>1, <2>2 DEF SourceShape
<1>2. /\ load.stage = "none" /\ load.since = 0 /\ load.cursor = 0 /\ load.mark = 0
      /\ load.got = {} /\ DOMAIN load = {"stage", "since", "cursor", "got", "mark"}
  BY <1>0 DEF NoLoad
<1>3. Flow = {}
  <2>1. Elements(<<>>) = {}
    BY DEF Elements
  <2>2. Cover(<<>>) = {}
    BY <2>1, Zenon DEF Cover
  <2>3. \A c \in Conns : Undelivered(c) = {}
    BY <1>0, <2>1, <2>2, UndeliveredIs
  <2>4. UNION {Undelivered(c) : c \in Conns} = {}
    BY <2>3, Zenon
  <2> QED BY <1>0, <2>4, Zenon DEF Flow, OnItsWay
<1>4. RecordTypes
  BY <1>0, HubBounds DEF RecordTypes
<1>5. Travelling
  BY <1>2, <1>3, Zenon DEF Travelling
<1>6. LoadShape
  <2>1. Watermark \in Nat
    BY <1>4, WatermarkHighest, SMTT(20)
  <2> QED BY <1>0, <1>2, <2>1 DEF LoadShape
<1>7. Settled /\ Accounted
  BY <1>0, SMTT(20) DEF Settled, Accounted
<1>8. NotYet
  BY <1>0, <1>1, <1>2 DEF NotYet
<1>9. Wires
  BY <1>0, <1>1, HubBounds, SMTT(20) DEF Wires
<1>10. Queues
  BY <1>0, <1>2, <1>3, EmptyQueue DEF Queues
<1> QED BY <1>4, <1>5, <1>6, <1>7, <1>8, <1>9, <1>10 DEF LiveWires, LiveInv

LEMMA LiveNextKeeps ==
    ASSUME LiveWires, LiveNext
    PROVE  LiveWires'
<1>1. ASSUME NEW k \in Keys, NEW op \in {"upsert", "delete"}, Apply(k, op),
             UNCHANGED <<others, clientVars, faults>>
      PROVE  LiveWires'
  BY <1>1, ApplyKeeps
<1>2. ASSUME LiveStep PROVE LiveWires'
  <2>1. CASE HubStep /\ UNCHANGED <<others, clientVars, faults>>
    BY <2>1, HubStepKeeps
  <2>2. CASE AutoConnect
    BY <2>2, AutoConnectKeeps
  <2>3. CASE CreateSocket
    BY <2>3, CreateSocketKeeps, SMTT(20)
  <2>4. CASE Flush
    BY <2>4, FlushKeeps
  <2>5. CASE LoadPage
    BY <2>5, LoadPageKeeps
  <2>6. CASE LoadReturns
    BY <2>6, LoadReturnsKeeps
  <2>7. ASSUME NEW c \in Conns, Open(c) PROVE LiveWires'
    BY <2>7, OpenKeeps
  <2>8. ASSUME NEW c \in Conns, Closed(c) PROVE LiveWires'
    BY <2>8, EndConnectionKeeps DEF Closed
  <2>9. ASSUME NEW c \in Conns, Receive(c) PROVE LiveWires'
    BY <2>9, ReceiveKeeps
  <2>10. ASSUME NEW latest \in BOOLEAN, ReconnectTimer(latest) PROVE LiveWires'
    BY <2>10, ReconnectTimerKeeps
  <2>11. ASSUME NEW m \in piped, Listener(m) PROVE LiveWires'
    BY <2>11, ListenerKeeps
  <2> QED
    BY <1>2, <2>1, <2>2, <2>3, <2>4, <2>5, <2>6, <2>7, <2>8, <2>9, <2>10, <2>11, Zenon DEF LiveStep
<1>3. ASSUME NEW c \in Conns, Break(c) PROVE LiveWires'
  BY <1>3, EndConnectionKeeps DEF Break
<1>4. ASSUME LoadFails PROVE LiveWires'
  BY <1>4, LoadFailsKeeps
<1> QED BY <1>1, <1>2, <1>3, <1>4, Zenon DEF LiveNext

LEMMA LiveStutterKeeps ==
    ASSUME LiveWires, UNCHANGED liveVars
    PROVE  LiveWires'
<1>1. UNCHANGED <<recs, applied, reg, frames, shed, up, down, lost, src, piped, status, buffered,
                  queued, load, sourceWatermark, versions, shown>>
  BY DEF liveVars, hubVars, clientVars
<1>2. Wires' /\ NotYet'
  BY <1>1, Zenon DEF LiveWires, LiveInv, Wires, NotYet
<1>3. Flow' = Flow
  <2>1. \A c \in Conns : Undelivered(c)' = Undelivered(c)
    BY <1>1, UndeliveredIs
  <2> QED BY <1>1, <2>1, SameCarried, SMTT(20)
<1> QED BY <1>1, <1>2, <1>3, MovesKeep

\* What travels, the pages of a load and the wires stay consistent with the partition
\* in every step of the hub, the pumps, the sockets, the binding and its loads.
THEOREM LiveInvariance == LiveSpec => []LiveWires
<1>1. LiveInit => LiveWires
  BY LiveStart
<1>2. LiveWires /\ [LiveNext]_liveVars => LiveWires'
  BY LiveNextKeeps, LiveStutterKeeps
<1> QED BY <1>1, <1>2, PTL DEF LiveSpec

\* The client's store is never behind without reason (Accounted): pages read at
\* different times, connects that overtake each other, sheds, resyncs and ended
\* connections lose nothing but what the stream cannot deliver.
THEOREM AccountedAlways == LiveSpec => []Accounted
<1>1. LiveWires => Accounted
  BY DEF LiveWires, LiveInv
<1> QED BY <1>1, LiveInvariance, PTL

\* No channel, queue or reconnect counter of the client and the hub leaves its bounds,
\* and a connection that is not in use carries nothing (LiveTypeOK).
THEOREM LiveTypesCorrect == LiveSpec => []LiveTypeOK
<1>1. ASSUME LiveWires PROVE LiveTypeOK
  <2>1. \A k \in Keys : recs[k].version \in 0..MaxVersion /\ versions[k] \in 0..recs[k].version
    BY <1>1, SMTT(20) DEF LiveWires, LiveInv, RecordTypes
  <2>2. applied \cup piped \cup buffered \cup queued \cup lost \subseteq Mutation
    BY <1>1 DEF LiveWires, Queues, Flow, OnItsWay
  <2>3. /\ Cardinality(queued) < MaxBatchSize /\ shown \subseteq Keys /\ reg \subseteq Conns
        /\ status \in {"idle", "loading", "live", "degraded", "error"}
        /\ (status = "loading" <=> load.stage # "none")
    BY <1>1, Zenon DEF LiveWires, Queues, Wires, LiveInv, NotYet
  <2>4. \A c \in Conns :
          /\ src.ws[c] \in {"unused", "connecting", "open", "closing"}
          /\ Len(frames[c]) <= QueueSize
          /\ src.ws[c] = "unused" => c \notin reg /\ up[c] = <<>> /\ down[c] = <<>>
    BY <1>1 DEF LiveWires, Wires, SourceShape, Shut
  <2>5. src.socket \in Conns \cup {NoConn} /\ src.attempt \in 0..(MaxConsecutiveFailures - 1)
    BY <1>1, Zenon DEF LiveWires, Wires, SourceShape
  <2>6. sourceWatermark \in 0..MaxVersion
    <3>1. Watermark \in 0..MaxVersion /\ sourceWatermark \in Nat /\ sourceWatermark <= Watermark
      BY <1>1, WatermarkHighest DEF LiveWires, LiveInv, LoadShape
    <3> QED BY <3>1, HubBounds
  <2> QED BY <2>1, <2>2, <2>3, <2>4, <2>5, <2>6, Zenon DEF LiveTypeOK
<1> QED BY <1>1, LiveInvariance, PTL
=============================================================================
