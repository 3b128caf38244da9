------------------------- MODULE HermesApplyProofs -------------------------
(***************************************************************************)
(* What each operator of the apply core preserves, for every set of keys,  *)
(* payloads and sources and every value of the limits.  The lemmas speak   *)
(* of one partition value p, so any module that applies mutations to a     *)
(* partition can cite them.                                                *)
(***************************************************************************)
EXTENDS HermesApply, FiniteSetTheorems, TLAPS

-----------------------------------------------------------------------------
(* The facts about sequences that the two windows need.                    *)

LEMMA LenFacts ==
    ASSUME NEW S, NEW s \in Seq(S)
    PROVE  /\ Len(s) \in Nat
           /\ s \in [1 .. Len(s) -> S]
           /\ DOMAIN s = 1 .. Len(s)
OBVIOUS

LEMMA NonemptyFacts ==
    ASSUME NEW S, NEW s \in Seq(S), s # << >>
    PROVE  Len(s) \in Nat \ {0}
OBVIOUS

LEMMA AppendFacts ==
    ASSUME NEW S, NEW s \in Seq(S), NEW e \in S
    PROVE  /\ Append(s, e) \in Seq(S)
           /\ Len(Append(s, e)) = Len(s) + 1
           /\ \A i \in 1 .. Len(s) : Append(s, e)[i] = s[i]
           /\ Append(s, e)[Len(s) + 1] = e
OBVIOUS

LEMMA TailFacts ==
    ASSUME NEW S, NEW s \in Seq(S), s # << >>
    PROVE  /\ Head(s) \in S
           /\ Tail(s) \in Seq(S)
           /\ Len(Tail(s)) = Len(s) - 1
           /\ \A i \in 1 .. Len(Tail(s)) : Tail(s)[i] = s[i + 1]
OBVIOUS

-----------------------------------------------------------------------------
(* Versions.                                                               *)

\* A version an event carries into a mutation is never zero
\* (effectiveVersion).
LEMMA EffectiveVersionPositive ==
    ASSUME NEW p \in Partition, NEW v \in Nat
    PROVE  EffectiveVersion(p, v) \in Nat \ {0}
BY DEF EffectiveVersion, Partition

-----------------------------------------------------------------------------
(* Types.                                                                  *)

\* The three groups of fields the mutations update, with any values in range.
LEMMA EntryUpdate ==
    ASSUME NEW p \in Partition, NEW ver \in [Keys -> Nat],
           NEW data \in [Keys -> Data \cup {NoData}], NEW tomb \in [Keys -> Nat],
           NEW records \in Int, NEW bytes \in Int
    PROVE  /\ [p EXCEPT !.ver = ver, !.data = data, !.tomb = tomb,
                        !.records = records, !.bytes = bytes] \in Partition
           /\ [p EXCEPT !.ver = ver, !.data = data,
                        !.records = records, !.bytes = bytes] \in Partition
BY Zenon DEF Partition

LEMMA TombstoneUpdate ==
    ASSUME NEW p \in Partition, NEW tombOrder \in Seq(Keys), NEW tomb \in [Keys -> Nat]
    PROVE  [p EXCEPT !.tombOrder = tombOrder, !.tomb = tomb] \in Partition
BY Zenon DEF Partition

LEMMA WindowUpdate ==
    ASSUME NEW p \in Partition, NEW applied \in SUBSET Sources,
           NEW applyOrder \in Seq(Sources),
           NEW fence \in [Prefixes -> [version : Nat, refs : Nat]]
    PROVE  [p EXCEPT !.applied = applied, !.applyOrder = applyOrder,
                     !.fence = fence] \in Partition
BY Zenon DEF Partition

LEMMA WatermarkUpdate ==
    ASSUME NEW p \in Partition, NEW v \in Nat
    PROVE  ObserveWatermark(p, v) \in Partition
<1>1. Max2(p.watermark, v) \in Nat
  BY DEF Max2, Partition
<1> QED
  BY <1>1, Zenon DEF ObserveWatermark, Partition

LEMMA StoreEntryType ==
    ASSUME NEW p \in Partition, NEW k \in Keys, NEW d \in Data, NEW v \in Nat \ {0}
    PROVE  StoreEntry(p, k, d, v) \in Partition
<1> DEFINE ver     == [p.ver EXCEPT ![k] = v]
           data    == [p.data EXCEPT ![k] = d]
           tomb    == IF p.ver[k] = 0 THEN [p.tomb EXCEPT ![k] = 0] ELSE p.tomb
           records == IF p.ver[k] = 0 THEN p.records + 1 ELSE p.records
           bytes   == p.bytes + Bytes(d) - Bytes(p.data[k])
<1>1. Bytes(d) \in Nat /\ Bytes(p.data[k]) \in Nat
  BY PayloadsWellFormed DEF Partition
<1>2. /\ ver \in [Keys -> Nat] /\ data \in [Keys -> Data \cup {NoData}]
      /\ tomb \in [Keys -> Nat]
  BY DEF Partition
<1>3. records \in Int /\ bytes \in Int
  BY <1>1 DEF Partition
<1>4. StoreEntry(p, k, d, v) = [p EXCEPT !.ver = ver, !.data = data, !.tomb = tomb,
                                         !.records = records, !.bytes = bytes]
  BY Zenon DEF StoreEntry
<1> HIDE DEF ver, data, tomb, records, bytes
<1>5. [p EXCEPT !.ver = ver, !.data = data, !.tomb = tomb,
                !.records = records, !.bytes = bytes] \in Partition
  BY <1>2, <1>3, EntryUpdate, Zenon
<1> QED
  BY <1>4, <1>5, Zenon

LEMMA ClearEntryType ==
    ASSUME NEW p \in Partition, NEW k \in Keys
    PROVE  ClearEntry(p, k) \in Partition
<1> DEFINE ver     == [p.ver EXCEPT ![k] = 0]
           data    == [p.data EXCEPT ![k] = NoData]
           records == IF p.ver[k] = 0 THEN p.records ELSE p.records - 1
           bytes   == p.bytes - Bytes(p.data[k])
<1>1. Bytes(p.data[k]) \in Nat
  BY PayloadsWellFormed DEF Partition
<1>2. ver \in [Keys -> Nat] /\ data \in [Keys -> Data \cup {NoData}]
  BY DEF Partition
<1>3. records \in Int /\ bytes \in Int
  BY <1>1 DEF Partition
<1>4. ClearEntry(p, k) = [p EXCEPT !.ver = ver, !.data = data,
                                   !.records = records, !.bytes = bytes]
  BY Zenon DEF ClearEntry
<1> HIDE DEF ver, data, records, bytes
<1>5. [p EXCEPT !.ver = ver, !.data = data,
                !.records = records, !.bytes = bytes] \in Partition
  BY <1>2, <1>3, Zenon, EntryUpdate
<1> QED
  BY <1>4, <1>5

LEMMA RememberTombstoneType ==
    ASSUME NEW p \in Partition, NEW k \in Keys, NEW v \in Nat
    PROVE  RememberTombstone(p, k, v) \in Partition
<1> DEFINE order == IF p.tomb[k] = 0 THEN Append(p.tombOrder, k) ELSE p.tombOrder
           tomb  == [p.tomb EXCEPT ![k] = v]
<1>1. order \in Seq(Keys)
  BY AppendFacts DEF Partition
<1>2. tomb \in [Keys -> Nat]
  BY DEF Partition
<1>3. Len(order) > MaxTombstones => order # <<>>
  BY <1>1, NonemptyFacts, BoundsPositive
<1>4. Len(order) > MaxTombstones => Tail(order) \in Seq(Keys) /\ Head(order) \in Keys
  BY <1>1, <1>3, TailFacts
<1> HIDE DEF order, tomb
<1> DEFINE keptOrder == IF Len(order) > MaxTombstones THEN Tail(order) ELSE order
           keptTomb  == IF Len(order) > MaxTombstones
                        THEN [tomb EXCEPT ![Head(order)] = 0] ELSE tomb
<1>5. RememberTombstone(p, k, v) = [p EXCEPT !.tombOrder = keptOrder, !.tomb = keptTomb]
  BY Zenon DEF RememberTombstone, order, tomb
<1>6. keptOrder \in Seq(Keys) /\ keptTomb \in [Keys -> Nat]
  BY <1>1, <1>2, <1>4
<1> HIDE DEF keptOrder, keptTomb
<1>7. [p EXCEPT !.tombOrder = keptOrder, !.tomb = keptTomb] \in Partition
  BY <1>6, TombstoneUpdate, Zenon
<1> QED
  BY <1>5, <1>7, Zenon

LEMMA DropRefType ==
    ASSUME NEW f \in [Prefixes -> [version : Nat, refs : Nat]], NEW s
    PROVE  DropRef(f, s) \in [Prefixes -> [version : Nat, refs : Nat]]
BY DEF DropRef, Scoped

LEMMA RememberAppliedType ==
    ASSUME NEW p \in Partition, NEW s \in Sources \cup {NoSource}, NEW v \in Nat
    PROVE  RememberApplied(p, s, v) \in Partition
<1>1. CASE s = NoSource \/ s \in p.applied
  BY <1>1 DEF RememberApplied
<1>2. CASE ~(s = NoSource \/ s \in p.applied)
  <2> DEFINE order == Append(p.applyOrder, s)
             fence == AddRef(p.fence, s, v)
             full  == Len(order) > MaxAppliedEvents
             old   == Head(order)
  <2>1. s \in Sources /\ p.applyOrder \in Seq(Sources) /\ p.applied \in SUBSET Sources
    BY <1>2 DEF Partition
  <2>2. order \in Seq(Sources) /\ order # <<>>
    BY <2>1, AppendFacts
  <2>3. Tail(order) \in Seq(Sources) /\ old \in Sources
    BY <2>2, TailFacts
  <2>4. fence \in [Prefixes -> [version : Nat, refs : Nat]]
    BY DEF AddRef, Partition, Scoped, Max2
  <2>5. DropRef(fence, old) \in [Prefixes -> [version : Nat, refs : Nat]]
    BY <2>4, DropRefType, Zenon
  <2> HIDE DEF order, fence, old
  <2> DEFINE applied    == IF full THEN (p.applied \cup {s}) \ {old} ELSE p.applied \cup {s}
             applyOrder == IF full THEN Tail(order) ELSE order
             kept       == IF full THEN DropRef(fence, old) ELSE fence
  <2>6. RememberApplied(p, s, v) = [p EXCEPT !.applied = applied,
                                             !.applyOrder = applyOrder, !.fence = kept]
    BY <1>2, Zenon DEF RememberApplied, order, fence, old
  <2>7. applied \in SUBSET Sources /\ applyOrder \in Seq(Sources)
        /\ kept \in [Prefixes -> [version : Nat, refs : Nat]]
    BY <2>1, <2>2, <2>3, <2>4, <2>5
  <2> HIDE DEF applied, applyOrder, kept
  <2>8. [p EXCEPT !.applied = applied, !.applyOrder = applyOrder, !.fence = kept] \in Partition
    BY <2>7, WindowUpdate, Zenon
  <2> QED
    BY <2>6, <2>8, Zenon
<1> QED
  BY <1>1, <1>2

-----------------------------------------------------------------------------
(* Tombstones.                                                             *)

LEMMA StoreEntryTombstones ==
    ASSUME NEW p \in Partition, TombstonesOf(p),
           NEW k \in Keys, NEW d \in Data, NEW v \in Nat \ {0}
    PROVE  TombstonesOf(StoreEntry(p, k, d, v))
BY SMTT(20) DEF TombstonesOf, StoreEntry, Partition

LEMMA ClearEntryTombstones ==
    ASSUME NEW p \in Partition, TombstonesOf(p), NEW k \in Keys
    PROVE  TombstonesOf(ClearEntry(p, k))
BY DEF TombstonesOf, ClearEntry, Partition

\* Appending the key and dropping the oldest entry keeps every tombstone in
\* the order, because the dropped key loses its tombstone.
LEMMA RememberTombstoneTombstones ==
    ASSUME NEW p \in Partition, TombstonesOf(p),
           NEW k \in Keys, p.ver[k] = 0, NEW v \in Nat
    PROVE  TombstonesOf(RememberTombstone(p, k, v))
<1> DEFINE order == IF p.tomb[k] = 0 THEN Append(p.tombOrder, k) ELSE p.tombOrder
           tomb  == [p.tomb EXCEPT ![k] = v]
           full  == Len(order) > MaxTombstones
           q     == RememberTombstone(p, k, v)
<1>1. p.tombOrder \in Seq(Keys) /\ p.tomb \in [Keys -> Nat]
  BY DEF Partition
<1>2. order \in Seq(Keys) /\ Len(order) <= MaxTombstones + 1
  BY <1>1, AppendFacts, LenFacts, BoundsPositive DEF TombstonesOf
<1>3. \A j \in Keys : tomb[j] > 0 => p.ver[j] = 0 /\ \E i \in 1..Len(order) : order[i] = j
  <2> SUFFICES ASSUME NEW j \in Keys, tomb[j] > 0
               PROVE  p.ver[j] = 0 /\ \E i \in 1..Len(order) : order[i] = j
    OBVIOUS
  <2>1. CASE p.tomb[j] > 0
    <3>1. PICK i \in 1..Len(p.tombOrder) : p.tombOrder[i] = j
      BY <1>1, <2>1, LenFacts DEF TombstonesOf
    <3>2. i \in 1..Len(order) /\ order[i] = j
      BY <1>1, <3>1, AppendFacts, LenFacts
    <3> QED BY <2>1, <3>2 DEF TombstonesOf
  <2>2. CASE ~(p.tomb[j] > 0)
    <3>1. j = k /\ p.tomb[k] = 0
      BY <1>1, <2>2
    <3>2. order[Len(order)] = k /\ Len(order) \in 1..Len(order)
      BY <1>1, <3>1, AppendFacts, LenFacts
    <3> QED BY <3>1, <3>2
  <2> QED BY <2>1, <2>2
<1>4. q.ver = p.ver
      /\ q.tombOrder = (IF full THEN Tail(order) ELSE order)
      /\ q.tomb = (IF full THEN [tomb EXCEPT ![Head(order)] = 0] ELSE tomb)
  BY DEF RememberTombstone, Partition
<1>5. tomb \in [Keys -> Nat]
  BY <1>1
<1> HIDE DEF order, tomb, q
<1>6. CASE ~full
  <2>1. q.tombOrder = order /\ q.tomb = tomb
    BY <1>4, <1>6
  <2>2. Len(order) <= MaxTombstones /\ DOMAIN order = 1..Len(order)
    BY <1>2, <1>6, LenFacts, BoundsPositive
  <2>3. TombstonesOf(q)
    BY <1>3, <1>4, <2>1, <2>2, Zenon DEF TombstonesOf
  <2> QED
    BY <2>3 DEF q
<1>7. CASE full
  <2>1. order # <<>>
    BY <1>2, <1>7, NonemptyFacts, BoundsPositive
  <2>2. /\ Head(order) \in Keys /\ Tail(order) \in Seq(Keys)
        /\ Len(Tail(order)) = Len(order) - 1
        /\ \A i \in 1..Len(Tail(order)) : Tail(order)[i] = order[i + 1]
    BY <1>2, <2>1, TailFacts
  <2>3. Head(order) = order[1]
    BY <1>2, <2>1
  <2>4. \A j \in Keys : q.tomb[j] > 0 => j # Head(order) /\ tomb[j] > 0
    BY <1>4, <1>5, <1>7, <2>2
  <2>5. \A j \in Keys : q.tomb[j] > 0 => \E i \in 1..Len(Tail(order)) : Tail(order)[i] = j
    <3> SUFFICES ASSUME NEW j \in Keys, q.tomb[j] > 0
                 PROVE  \E i \in 1..Len(Tail(order)) : Tail(order)[i] = j
      OBVIOUS
    <3>1. PICK i \in 1..Len(order) : order[i] = j
      BY <1>3, <2>4
    <3>2. i # 1
      BY <2>3, <2>4, <3>1
    <3>3. Len(order) \in Nat
      BY <1>2, LenFacts
    <3>4. i - 1 \in 1..Len(Tail(order)) /\ Tail(order)[i - 1] = j
      BY <2>2, <3>1, <3>2, <3>3
    <3> QED BY <3>4
  <2>6. DOMAIN Tail(order) = 1..Len(Tail(order))
    BY <2>2, LenFacts
  <2>7. Len(Tail(order)) <= MaxTombstones
    BY <1>2, <2>2, LenFacts, BoundsPositive
  <2>8. q.tombOrder = Tail(order)
    BY <1>4, <1>7
  <2>9. \A j \in Keys : q.tomb[j] > 0 => q.ver[j] = 0
    BY <1>3, <1>4, <2>4
  <2> QED
    BY <2>5, <2>6, <2>7, <2>8, <2>9, Zenon DEF TombstonesOf, q
<1> QED BY <1>6, <1>7

LEMMA RememberTombstoneValues ==
    ASSUME NEW p \in Partition, NEW k \in Keys, NEW v \in Nat
    PROVE  \A j \in Keys : RememberTombstone(p, k, v).tomb[j] \in {p.tomb[j], 0, v}
<1> DEFINE order == IF p.tomb[k] = 0 THEN Append(p.tombOrder, k) ELSE p.tombOrder
           tomb  == [p.tomb EXCEPT ![k] = v]
<1>1. RememberTombstone(p, k, v).tomb =
        IF Len(order) > MaxTombstones THEN [tomb EXCEPT ![Head(order)] = 0] ELSE tomb
  BY DEF RememberTombstone, Partition
<1>2. p.tomb \in [Keys -> Nat]
  BY DEF Partition
<1> HIDE DEF order
<1> QED
  BY <1>1, <1>2

-----------------------------------------------------------------------------
(* The dedup window.  Of(A, g) is the part of A with prefix g.             *)

Of(A, g) == {t \in A : PrefixOf(t) = g}

\* A source that enters the window brings a reference to its prefix.
LEMMA AddRefCounts ==
    ASSUME NEW A, IsFiniteSet(A), NEW s, s \notin A, NEW v \in Nat,
           NEW f \in [Prefixes -> [version : Nat, refs : Nat]],
           \A g \in Prefixes : f[g].refs >= Cardinality(Of(A, g))
    PROVE  \A g \in Prefixes : AddRef(f, s, v)[g].refs >= Cardinality(Of(A \cup {s}, g))
<1> SUFFICES ASSUME NEW g \in Prefixes
             PROVE  AddRef(f, s, v)[g].refs >= Cardinality(Of(A \cup {s}, g))
  BY Zenon
<1>1. IsFiniteSet(Of(A, g)) /\ s \notin Of(A, g)
  BY FS_Subset DEF Of
<1>2. Cardinality(Of(A, g)) \in Nat /\ f[g].refs \in Nat /\ f[g].refs >= Cardinality(Of(A, g))
  BY <1>1, FS_CardinalityType
<1>3. CASE PrefixOf(s) = g
  <2>1. Of(A \cup {s}, g) = Of(A, g) \cup {s}
    BY <1>3 DEF Of
  <2>2. Cardinality(Of(A \cup {s}, g)) = Cardinality(Of(A, g)) + 1
    BY <1>1, <2>1, FS_AddElement, Zenon
  <2>3. AddRef(f, s, v)[g].refs = f[g].refs + 1
    BY <1>3 DEF AddRef, Scoped
  <2> QED BY <1>2, <2>2, <2>3
<1>4. CASE PrefixOf(s) # g
  <2>1. Of(A \cup {s}, g) = Of(A, g)
    BY <1>4 DEF Of
  <2>2. AddRef(f, s, v)[g].refs = f[g].refs
    BY <1>4 DEF AddRef, Scoped
  <2> QED BY <1>2, <2>1, <2>2
<1> QED BY <1>3, <1>4

\* A source that leaves the window gives its reference back, and the fence is
\* deleted only when no other source of the prefix remains.
LEMMA DropRefCounts ==
    ASSUME NEW A, IsFiniteSet(A), NEW s \in A,
           NEW f \in [Prefixes -> [version : Nat, refs : Nat]],
           \A g \in Prefixes : f[g].refs >= Cardinality(Of(A, g))
    PROVE  \A g \in Prefixes : DropRef(f, s)[g].refs >= Cardinality(Of(A \ {s}, g))
<1> SUFFICES ASSUME NEW g \in Prefixes
             PROVE  DropRef(f, s)[g].refs >= Cardinality(Of(A \ {s}, g))
  OBVIOUS
<1>1. IsFiniteSet(Of(A, g))
  BY FS_Subset DEF Of
<1>2. Cardinality(Of(A, g)) \in Nat /\ f[g].refs \in Nat /\ f[g].refs >= Cardinality(Of(A, g))
  BY <1>1, FS_CardinalityType
<1>3. CASE PrefixOf(s) = g
  <2>1. Of(A \ {s}, g) = Of(A, g) \ {s} /\ s \in Of(A, g)
    BY <1>3 DEF Of
  <2>2. Cardinality(Of(A \ {s}, g)) = Cardinality(Of(A, g)) - 1
    BY <1>1, <2>1, FS_RemoveElement, Zenon
  <2>3. DropRef(f, s)[g].refs = IF f[g].refs <= 1 THEN 0 ELSE f[g].refs - 1
    BY <1>3 DEF DropRef, Scoped
  <2> QED BY <1>2, <2>2, <2>3
<1>4. CASE PrefixOf(s) # g
  <2>1. Of(A \ {s}, g) = Of(A, g)
    BY <1>4 DEF Of
  <2>2. DropRef(f, s)[g].refs = f[g].refs
    BY <1>4 DEF DropRef, Scoped
  <2> QED BY <1>2, <2>1, <2>2
<1> QED BY <1>3, <1>4

LEMMA RememberAppliedWindow ==
    ASSUME NEW p \in Partition, WindowOf(p),
           NEW s \in Sources \cup {NoSource}, NEW v \in Nat
    PROVE  WindowOf(RememberApplied(p, s, v))
<1>1. CASE s = NoSource \/ s \in p.applied
  BY <1>1 DEF RememberApplied
<1>2. CASE ~(s = NoSource \/ s \in p.applied)
  <2> DEFINE order == Append(p.applyOrder, s)
             fence == AddRef(p.fence, s, v)
             all   == p.applied \cup {s}
             full  == Len(order) > MaxAppliedEvents
             old   == Head(order)
             q     == RememberApplied(p, s, v)
  <2>1. /\ s \in Sources /\ s \notin p.applied
        /\ p.applyOrder \in Seq(Sources) /\ p.applied \in SUBSET Sources
        /\ p.fence \in [Prefixes -> [version : Nat, refs : Nat]]
    BY <1>2 DEF Partition
  <2>2. /\ order \in Seq(Sources)
        /\ Len(order) = Len(p.applyOrder) + 1
        /\ order[Len(p.applyOrder) + 1] = s
        /\ \A i \in 1..Len(p.applyOrder) : order[i] = p.applyOrder[i]
    BY <2>1, AppendFacts
  <2>3. Len(p.applyOrder) \in Nat /\ DOMAIN p.applyOrder = 1..Len(p.applyOrder)
        /\ DOMAIN order = 1..Len(order) /\ Len(p.applyOrder) <= MaxAppliedEvents
    BY <2>1, <2>2, LenFacts DEF WindowOf
  <2>4. IsFiniteSet(all)
    BY FS_AddElement, Zenon DEF WindowOf
  <2>5. all = {order[i] : i \in 1..Len(order)}
    <3> DEFINE n == Len(p.applyOrder)
    <3>1. 1..Len(order) = 1..n \cup {n + 1}
      BY <2>2, <2>3
    <3>2. p.applied = {p.applyOrder[i] : i \in 1..n}
      BY <2>3 DEF WindowOf
    <3> QED BY <2>2, <3>1, <3>2
  <2>6. \A i, j \in 1..Len(order) : order[i] = order[j] => i = j
    <3>1. \A i \in 1..Len(p.applyOrder) : p.applyOrder[i] \in p.applied
      BY <2>3 DEF WindowOf
    <3>2. \A i, j \in 1..Len(p.applyOrder) : p.applyOrder[i] = p.applyOrder[j] => i = j
      BY <2>3 DEF WindowOf
    <3> DEFINE n == Len(p.applyOrder)
    <3>3. \A i \in 1..Len(order) : i \in 1..n \/ i = n + 1
      BY <2>2, <2>3
    <3>4. \A i \in 1..n : order[i] # order[n + 1]
      BY <2>1, <2>2, <3>1
    <3>5. \A i, j \in 1..n : order[i] = order[j] => i = j
      BY <2>2, <3>2
    <3> QED BY <3>3, <3>4, <3>5
  <2>7. \A g \in Prefixes : fence[g].refs >= Cardinality(Of(all, g))
    <3>1. \A g \in Prefixes : p.fence[g].refs >= Cardinality(Of(p.applied, g))
      BY DEF WindowOf, Remembered, Of
    <3>2. IsFiniteSet(p.applied)
      BY DEF WindowOf
    <3> QED BY <2>1, <3>1, <3>2, AddRefCounts, Zenon
  <2>8. fence \in [Prefixes -> [version : Nat, refs : Nat]]
    BY <2>1 DEF AddRef, Scoped, Max2
  <2>9. /\ q.applied = (IF full THEN all \ {old} ELSE all)
        /\ q.applyOrder = (IF full THEN Tail(order) ELSE order)
        /\ q.fence = (IF full THEN DropRef(fence, old) ELSE fence)
    BY <1>2 DEF RememberApplied, Partition
  <2> HIDE DEF order, fence, all, q
  <2>10. CASE ~full
    <3>1. q.applied = all /\ q.applyOrder = order /\ q.fence = fence
      BY <2>9, <2>10
    <3>2. \A g \in Prefixes : q.fence[g].refs >= Cardinality(Remembered(q, g))
      BY <2>7, <3>1 DEF Remembered, Of
    <3>3. Len(order) <= MaxAppliedEvents
      BY <2>2, <2>3, <2>10, BoundsPositive
    <3>4. WindowOf(q)
      BY <2>3, <2>4, <2>5, <2>6, <3>1, <3>2, <3>3 DEF WindowOf
    <3> QED BY <3>4 DEF q
  <2>11. CASE full
    <3> DEFINE rest == Tail(order)
    <3>1. q.applied = all \ {old} /\ q.applyOrder = rest /\ q.fence = DropRef(fence, old)
      BY <2>9, <2>11
    <3>2. order # <<>>
      BY <2>2, <2>3, NonemptyFacts
    <3>3. /\ rest \in Seq(Sources) /\ Len(rest) = Len(order) - 1
          /\ \A i \in 1..Len(rest) : rest[i] = order[i + 1]
      BY <2>2, <3>2, TailFacts
    <3>4. old = order[1]
      BY <2>2, <3>2
    <3>5. DOMAIN rest = 1..Len(rest) /\ Len(order) \in Nat /\ Len(order) >= 1
      BY <2>2, <2>3, <3>3, LenFacts
    <3> HIDE DEF rest, old
    <3>6. old \in all
      BY <2>5, <3>4, <3>5
    <3>7. all \ {old} = {rest[i] : i \in 1..Len(rest)}
      <4>1. \A x \in all \ {old} : \E i \in 1..Len(rest) : x = rest[i]
        <5> SUFFICES ASSUME NEW x \in all \ {old}
                     PROVE  \E i \in 1..Len(rest) : x = rest[i]
          OBVIOUS
        <5>1. PICK i \in 1..Len(order) : x = order[i]
          BY <2>5
        <5>2. i # 1
          BY <3>4, <5>1
        <5>3. i - 1 \in 1..Len(rest) /\ rest[i - 1] = x
          BY <3>3, <3>5, <5>1, <5>2
        <5> QED BY <5>3
      <4>2. \A i \in 1..Len(rest) : rest[i] \in all \ {old}
        BY <2>5, <2>6, <3>3, <3>4, <3>5
      <4> QED BY <4>1, <4>2
    <3>8. \A i, j \in 1..Len(rest) : rest[i] = rest[j] => i = j
      BY <2>6, <3>3, <3>5
    <3>9. \A g \in Prefixes : DropRef(fence, old)[g].refs >= Cardinality(Of(all \ {old}, g))
      BY <2>4, <2>7, <2>8, <3>6, DropRefCounts
    <3>10. \A g \in Prefixes : q.fence[g].refs >= Cardinality(Remembered(q, g))
      BY <3>1, <3>9 DEF Remembered, Of
    <3>11. IsFiniteSet(all \ {old})
      BY <2>4, <3>6, FS_RemoveElement
    <3>12. Len(rest) <= MaxAppliedEvents
      BY <2>2, <2>3, <3>3, <3>5, BoundsPositive
    <3>13. WindowOf(q)
      BY <3>1, <3>5, <3>7, <3>8, <3>10, <3>11, <3>12 DEF WindowOf
    <3> QED BY <3>13 DEF q
  <2> QED BY <2>10, <2>11
<1> QED BY <1>1, <1>2

-----------------------------------------------------------------------------
(* Counters.                                                               *)

LEMMA LiveFinite ==
    ASSUME NEW p \in Partition
    PROVE  IsFiniteSet(Live(p)) /\ Cardinality(Live(p)) \in Nat
BY FiniteKeys, FS_Subset, FS_CardinalityType DEF Live

LEMMA StoreEntryCounters ==
    ASSUME NEW p \in Partition, CountersOf(p),
           NEW k \in Keys, NEW d \in Data, NEW v \in Nat \ {0},
           ~OverRecords(p, k), ~OverBytes(p, k, d)
    PROVE  CountersOf(StoreEntry(p, k, d, v))
<1> DEFINE q == StoreEntry(p, k, d, v)
<1>1. /\ q.ver = [p.ver EXCEPT ![k] = v]
      /\ q.records = (IF p.ver[k] = 0 THEN p.records + 1 ELSE p.records)
      /\ q.bytes = p.bytes + Bytes(d) - Bytes(p.data[k])
  BY DEF StoreEntry, Partition
<1>2. p.ver \in [Keys -> Nat] /\ p.bytes \in Int /\ p.data[k] \in Data \cup {NoData}
  BY DEF Partition
<1>3. Bytes(d) \in Nat /\ Bytes(p.data[k]) \in Nat
  BY <1>2, PayloadsWellFormed
<1>4. Live(q) = Live(p) \cup {k} /\ (k \in Live(p) <=> p.ver[k] # 0)
  BY <1>1, <1>2 DEF Live
<1>5. Cardinality(Live(q)) = IF p.ver[k] = 0 THEN Cardinality(Live(p)) + 1 ELSE Cardinality(Live(p))
  BY <1>4, LiveFinite, FS_AddElement, Zenon
<1>6. q.records = Cardinality(Live(q))
  BY <1>1, <1>5 DEF CountersOf
<1>7. q.records <= MaxRecords
  BY <1>1, LiveFinite, BoundsPositive DEF CountersOf, OverRecords
<1>8. q.bytes <= MaxBytes
  BY <1>1, <1>2, <1>3, BoundsPositive DEF OverBytes
<1> QED
  BY <1>6, <1>7, <1>8 DEF CountersOf

LEMMA ClearEntryCounters ==
    ASSUME NEW p \in Partition, CountersOf(p), NEW k \in Keys
    PROVE  CountersOf(ClearEntry(p, k))
<1> DEFINE q == ClearEntry(p, k)
<1>1. /\ q.ver = [p.ver EXCEPT ![k] = 0]
      /\ q.records = (IF p.ver[k] = 0 THEN p.records ELSE p.records - 1)
      /\ q.bytes = p.bytes - Bytes(p.data[k])
  BY DEF ClearEntry, Partition
<1>2. p.ver \in [Keys -> Nat] /\ p.bytes \in Int /\ p.data[k] \in Data \cup {NoData}
  BY DEF Partition
<1>3. Bytes(p.data[k]) \in Nat
  BY <1>2, PayloadsWellFormed
<1>4. Live(q) = Live(p) \ {k} /\ (k \in Live(p) <=> p.ver[k] # 0)
  BY <1>1, <1>2 DEF Live
<1>5. Cardinality(Live(q)) = IF p.ver[k] = 0 THEN Cardinality(Live(p)) ELSE Cardinality(Live(p)) - 1
  BY <1>4, LiveFinite, FS_RemoveElement, Zenon
<1>6. q.records = Cardinality(Live(q))
  BY <1>1, <1>5 DEF CountersOf
<1>7. q.records <= MaxRecords
  BY <1>1, LiveFinite, BoundsPositive DEF CountersOf
<1>8. q.bytes <= MaxBytes
  BY <1>1, <1>2, <1>3, BoundsPositive DEF CountersOf
<1> QED
  BY <1>6, <1>7, <1>8 DEF CountersOf

-----------------------------------------------------------------------------
(* The byte counter.  The bytes of the cells of K, one pair for each.      *)

BytesIn(data, K) == UNION {ByteCells(k, data[k]) : k \in K}

LEMMA CellBytes ==
    ASSUME NEW k, NEW d \in Data \cup {NoData}
    PROVE  /\ Bytes(d) \in Nat
           /\ IsFiniteSet(ByteCells(k, d))
           /\ Cardinality(ByteCells(k, d)) = Bytes(d)
<1>1. Bytes(d) \in Nat
  BY PayloadsWellFormed
<1>2. IsFiniteSet(1..Bytes(d)) /\ Cardinality(1..Bytes(d)) = Bytes(d)
  BY <1>1, FS_Interval
<1>3. IsFiniteSet({k}) /\ Cardinality({k}) = 1
  BY FS_Singleton
<1>4. /\ IsFiniteSet({k} \X (1..Bytes(d)))
      /\ Cardinality({k} \X (1..Bytes(d))) = 1 * Bytes(d)
  BY <1>2, <1>3, FS_Product, Zenon
<1> QED
  BY <1>1, <1>4 DEF ByteCells

LEMMA BytesInFinite ==
    ASSUME NEW data \in [Keys -> Data \cup {NoData}], NEW K \in SUBSET Keys
    PROVE  IsFiniteSet(BytesIn(data, K)) /\ Cardinality(BytesIn(data, K)) \in Nat
<1> DEFINE rows == {ByteCells(k, data[k]) : k \in K}
<1>1. IsFiniteSet(K)
  BY FiniteKeys, FS_Subset
<1>2. IsFiniteSet(rows)
  <2> DEFINE f == [k \in K |-> ByteCells(k, data[k])]
  <2>1. f \in Surjection(K, rows)
    BY Zenon DEF Surjection
  <2> HIDE DEF f, rows
  <2> QED BY <1>1, <2>1, FS_Surjection
<1>3. \A R \in rows : IsFiniteSet(R)
  BY CellBytes
<1> HIDE DEF rows
<1>4. IsFiniteSet(UNION rows)
  BY <1>2, <1>3, FS_UNION
<1> QED
  BY <1>4, FS_CardinalityType DEF BytesIn, rows

\* The bytes of one cell and those of the others add up.
LEMMA BytesSplit ==
    ASSUME NEW data \in [Keys -> Data \cup {NoData}], NEW k \in Keys
    PROVE  TotalBytes(data) = Bytes(data[k]) + Cardinality(BytesIn(data, Keys \ {k}))
<1> DEFINE rest == BytesIn(data, Keys \ {k})
           cell == ByteCells(k, data[k])
<1>1. IsFiniteSet(rest) /\ Cardinality(rest) \in Nat
  BY BytesInFinite
<1>2. IsFiniteSet(cell) /\ Cardinality(cell) = Bytes(data[k]) /\ Bytes(data[k]) \in Nat
  BY CellBytes
<1>3. cell \cap rest = {}
  <2> SUFFICES ASSUME NEW x \in cell, x \in rest PROVE FALSE
    OBVIOUS
  <2>1. PICK j \in Keys \ {k} : x \in ByteCells(j, data[j])
    BY DEF BytesIn
  <2>2. x[1] = k /\ x[1] = j
    BY <2>1 DEF ByteCells
  <2> QED BY <2>2
<1>4. BytesIn(data, Keys) = cell \cup rest
  BY Zenon DEF BytesIn
<1> HIDE DEF rest, cell
<1>5. Cardinality(cell \cup rest) = Cardinality(cell) + Cardinality(rest) - Cardinality(cell \cap rest)
  BY <1>1, <1>2, FS_Union, Zenon
<1>6. Cardinality(cell \cap rest) = 0
  BY <1>3, FS_EmptySet
<1>7. TotalBytes(data) = Cardinality(BytesIn(data, Keys))
  BY DEF TotalBytes, BytesIn
<1> QED
  BY <1>1, <1>2, <1>4, <1>5, <1>6, <1>7 DEF rest

\* Replacing one payload moves the total by the difference of the two sizes,
\* which is what upsertLocked and deleteLocked add to the counter.
LEMMA BytesReplaced ==
    ASSUME NEW data \in [Keys -> Data \cup {NoData}], NEW k \in Keys,
           NEW d \in Data \cup {NoData}
    PROVE  TotalBytes([data EXCEPT ![k] = d]) = TotalBytes(data) + Bytes(d) - Bytes(data[k])
<1> DEFINE new == [data EXCEPT ![k] = d]
<1>1. new \in [Keys -> Data \cup {NoData}] /\ new[k] = d /\ \A j \in Keys \ {k} : new[j] = data[j]
  OBVIOUS
<1> HIDE DEF new
<1>2. BytesIn(new, Keys \ {k}) = BytesIn(data, Keys \ {k})
  BY <1>1, Zenon DEF BytesIn
<1>3. TotalBytes(new) = Bytes(d) + Cardinality(BytesIn(data, Keys \ {k}))
  BY <1>1, <1>2, BytesSplit
<1>4. TotalBytes(data) = Bytes(data[k]) + Cardinality(BytesIn(data, Keys \ {k}))
  BY BytesSplit
<1>5. Cardinality(BytesIn(data, Keys \ {k})) \in Nat /\ Bytes(d) \in Nat /\ Bytes(data[k]) \in Nat
  BY BytesInFinite, CellBytes
<1> QED
  BY <1>3, <1>4, <1>5 DEF new

LEMMA StoreEntryBytes ==
    ASSUME NEW p \in Partition, BytesOf(p), NEW k \in Keys, NEW d \in Data, NEW v
    PROVE  BytesOf(StoreEntry(p, k, d, v))
<1> DEFINE q == StoreEntry(p, k, d, v)
<1>1. /\ q.data = [p.data EXCEPT ![k] = d] /\ p.data \in [Keys -> Data \cup {NoData}]
      /\ q.bytes = p.bytes + Bytes(d) - Bytes(p.data[k])
  BY DEF StoreEntry, Partition
<1> HIDE DEF q
<1>2. TotalBytes(q.data) = TotalBytes(p.data) + Bytes(d) - Bytes(p.data[k])
  BY <1>1, BytesReplaced
<1>3. BytesOf(q)
  BY <1>1, <1>2 DEF BytesOf
<1> QED
  BY <1>3 DEF q

LEMMA ClearEntryBytes ==
    ASSUME NEW p \in Partition, BytesOf(p), NEW k \in Keys
    PROVE  BytesOf(ClearEntry(p, k))
<1> DEFINE q == ClearEntry(p, k)
<1>1. /\ q.data = [p.data EXCEPT ![k] = NoData] /\ p.data \in [Keys -> Data \cup {NoData}]
      /\ q.bytes = p.bytes - Bytes(p.data[k]) /\ p.bytes \in Int
  BY DEF ClearEntry, Partition
<1> HIDE DEF q
<1>2. TotalBytes(q.data) = TotalBytes(p.data) + 0 - Bytes(p.data[k])
  BY <1>1, BytesReplaced, PayloadsWellFormed
<1>3. Bytes(p.data[k]) \in Nat
  BY <1>1, PayloadsWellFormed
<1>4. BytesOf(q)
  BY <1>1, <1>2, <1>3 DEF BytesOf
<1> QED
  BY <1>4 DEF q

LEMMA NoBytes ==
    ASSUME NEW data \in [Keys -> Data \cup {NoData}], \A k \in Keys : data[k] = NoData
    PROVE  TotalBytes(data) = 0
<1>1. \A k \in Keys : ByteCells(k, data[k]) = {}
  BY PayloadsWellFormed DEF ByteCells
<1>2. UNION {ByteCells(k, data[k]) : k \in Keys} = {}
  BY <1>1, Zenon
<1> QED
  BY <1>2, FS_EmptySet DEF TotalBytes

-----------------------------------------------------------------------------
(* One mutation.                                                           *)

\* What a mutation of version v may do: entries and tombstones stay, go, or
\* take the version v; an entry is never older than what it replaces.
Succeeds(p, q, v) ==
    /\ Sound(q)
    /\ q.epoch = p.epoch
    /\ q.watermark = p.watermark
    /\ \A k \in Keys :
         /\ q.ver[k] \in {p.ver[k], 0, v}
         /\ q.tomb[k] \in {p.tomb[k], 0, v}
         /\ q.ver[k] > 0 => q.ver[k] >= p.ver[k] /\ q.ver[k] >= p.tomb[k]

LEMMA SelfSucceeds ==
    ASSUME NEW p, Sound(p), NEW v
    PROVE  Succeeds(p, p, v)
<1>1. p.ver \in [Keys -> Nat] /\ p.tomb \in [Keys -> Nat]
  BY DEF Sound, Partition
<1>2. \A k \in Keys : p.tomb[k] > 0 => p.ver[k] = 0
  BY DEF Sound, TombstonesOf
<1>3. \A k \in Keys : p.ver[k] > 0 => p.ver[k] >= p.ver[k] /\ p.ver[k] >= p.tomb[k]
  BY <1>1, <1>2
<1> QED
  BY <1>3 DEF Succeeds

LEMMA StoreEntrySucceeds ==
    ASSUME NEW p, Sound(p), NEW k \in Keys, NEW d \in Data, NEW v \in Nat \ {0},
           ~Stale(p, k, v), ~OverRecords(p, k), ~OverBytes(p, k, d)
    PROVE  Succeeds(p, StoreEntry(p, k, d, v), v)
<1> DEFINE q == StoreEntry(p, k, d, v)
<1>0. p \in Partition
  BY DEF Sound
<1>1. /\ q.ver = [p.ver EXCEPT ![k] = v]
      /\ q.data = [p.data EXCEPT ![k] = d]
      /\ q.tomb = (IF p.ver[k] = 0 THEN [p.tomb EXCEPT ![k] = 0] ELSE p.tomb)
      /\ q.epoch = p.epoch /\ q.watermark = p.watermark
      /\ q.applied = p.applied /\ q.applyOrder = p.applyOrder /\ q.fence = p.fence
  BY <1>0 DEF StoreEntry, Partition
<1>2. /\ p.ver \in [Keys -> Nat] /\ p.tomb \in [Keys -> Nat]
      /\ p.data \in [Keys -> Data \cup {NoData}]
  BY <1>0 DEF Partition
<1>3. q \in Partition /\ TombstonesOf(q) /\ CountersOf(q) /\ BytesOf(q)
  BY <1>0, StoreEntryType, StoreEntryTombstones, StoreEntryCounters, StoreEntryBytes DEF Sound
<1>4. WindowOf(q)
  BY <1>1 DEF Sound, WindowOf, Remembered
<1>5. EntriesOf(q)
  BY <1>1, <1>2 DEF Sound, EntriesOf
<1>6. v >= p.ver[k] /\ v >= p.tomb[k]
  BY <1>2 DEF Stale, BlockedByNewerTombstone
<1> HIDE DEF q
<1>7. ASSUME NEW j \in Keys
      PROVE  /\ q.ver[j] \in {p.ver[j], 0, v}
             /\ q.tomb[j] \in {p.tomb[j], 0, v}
             /\ q.ver[j] > 0 => q.ver[j] >= p.ver[j] /\ q.ver[j] >= p.tomb[j]
  BY <1>1, <1>2, <1>6 DEF Sound, TombstonesOf
<1>8. Succeeds(p, q, v)
  BY <1>1, <1>3, <1>4, <1>5, <1>7 DEF Succeeds, Sound
<1> QED
  BY <1>8 DEF q

\* Deletion and expiry: clear the cell and remember the tombstone.
LEMMA RetireSucceeds ==
    ASSUME NEW p, Sound(p), NEW k \in Keys, NEW v \in Nat
    PROVE  Succeeds(p, RememberTombstone(ClearEntry(p, k), k, v), v)
<1> DEFINE c == ClearEntry(p, k)
           q == RememberTombstone(c, k, v)
<1>0. p \in Partition
  BY DEF Sound
<1>1. /\ c.ver = [p.ver EXCEPT ![k] = 0]
      /\ c.data = [p.data EXCEPT ![k] = NoData]
      /\ c.tomb = p.tomb /\ c.tombOrder = p.tombOrder
      /\ c.epoch = p.epoch /\ c.watermark = p.watermark
      /\ c.applied = p.applied /\ c.applyOrder = p.applyOrder /\ c.fence = p.fence
  BY <1>0 DEF ClearEntry, Partition
<1>2. /\ p.ver \in [Keys -> Nat] /\ p.tomb \in [Keys -> Nat]
      /\ p.data \in [Keys -> Data \cup {NoData}]
  BY <1>0 DEF Partition
<1>3. c \in Partition /\ TombstonesOf(c) /\ CountersOf(c) /\ BytesOf(c)
  BY <1>0, ClearEntryType, ClearEntryTombstones, ClearEntryCounters, ClearEntryBytes DEF Sound
<1>4. c.ver[k] = 0
  BY <1>1, <1>2
<1> HIDE DEF c
<1>5. /\ q.ver = c.ver /\ q.data = c.data /\ q.records = c.records /\ q.bytes = c.bytes
      /\ q.epoch = c.epoch /\ q.watermark = c.watermark
      /\ q.applied = c.applied /\ q.applyOrder = c.applyOrder /\ q.fence = c.fence
  BY <1>3 DEF RememberTombstone, Partition
<1>6. q \in Partition /\ TombstonesOf(q)
  BY <1>3, <1>4, RememberTombstoneType, RememberTombstoneTombstones
<1>7. \A j \in Keys : q.tomb[j] \in {c.tomb[j], 0, v}
  BY <1>3, RememberTombstoneValues
<1> HIDE DEF q
<1>8. CountersOf(q) /\ BytesOf(q)
  BY <1>3, <1>5 DEF CountersOf, BytesOf, Live
<1>9. WindowOf(q)
  BY <1>1, <1>5 DEF Sound, WindowOf, Remembered
<1>10. EntriesOf(q)
  BY <1>1, <1>2, <1>5 DEF Sound, EntriesOf
<1>11. ASSUME NEW j \in Keys
       PROVE  /\ q.ver[j] \in {p.ver[j], 0, v}
              /\ q.tomb[j] \in {p.tomb[j], 0, v}
              /\ q.ver[j] > 0 => q.ver[j] >= p.ver[j] /\ q.ver[j] >= p.tomb[j]
  BY <1>1, <1>2, <1>5, <1>7 DEF Sound, TombstonesOf
<1>12. Succeeds(p, q, v)
  BY <1>1, <1>5, <1>6, <1>8, <1>9, <1>10, <1>11 DEF Succeeds, Sound
<1> QED
  BY <1>12 DEF q, c

-----------------------------------------------------------------------------
(* One event.                                                              *)

LEMMA UpsertSucceeds ==
    ASSUME NEW p, Sound(p), NEW k \in Keys, NEW d \in Data, NEW v \in Nat \ {0}
    PROVE  LET m == Upsert(p, k, d, v) IN
           m.state \in States /\ Succeeds(p, m.part, v) /\ (m.state # "applied" => m.part = p)
<1>1. CASE Stale(p, k, v) \/ OverRecords(p, k) \/ OverBytes(p, k, d)
  BY <1>1, SelfSucceeds DEF Upsert, Outcome, States
<1>2. CASE ~(Stale(p, k, v) \/ OverRecords(p, k) \/ OverBytes(p, k, d))
  BY <1>2, StoreEntrySucceeds DEF Upsert, Outcome, States
<1> QED BY <1>1, <1>2

LEMMA PatchSucceeds ==
    ASSUME NEW p, Sound(p), NEW k \in Keys, NEW d \in Data, NEW v \in Nat \ {0}
    PROVE  LET m == Patch(p, k, d, v) IN
           m.state \in States /\ Succeeds(p, m.part, v) /\ (m.state # "applied" => m.part = p)
<1> DEFINE merged == Merge(p.data[k], d)
           no == Stale(p, k, v) \/ p.ver[k] = 0
<1>1. CASE no \/ OverBytes(p, k, merged)
  BY <1>1, SelfSucceeds DEF Patch, Outcome, States
<1>2. CASE ~(no \/ OverBytes(p, k, merged))
  <2>1. p.ver[k] \in Nat /\ p.ver[k] # 0
    BY <1>2 DEF Sound, Partition
  <2>2. merged \in Data
    BY <2>1, PayloadsWellFormed DEF Sound, EntriesOf
  <2>3. ~OverRecords(p, k)
    BY <2>1 DEF OverRecords
  <2>4. Succeeds(p, StoreEntry(p, k, merged, v), v)
    BY <1>2, <2>2, <2>3, StoreEntrySucceeds
  <2> QED BY <1>2, <2>4 DEF Patch, Outcome, States
<1> QED BY <1>1, <1>2

LEMMA DeleteSucceeds ==
    ASSUME NEW p, Sound(p), NEW k \in Keys, NEW v \in Nat \ {0}
    PROVE  LET m == Delete(p, k, v) IN
           m.state \in States /\ Succeeds(p, m.part, v) /\ (m.state # "applied" => m.part = p)
<1>1. Succeeds(p, p, v) /\ Succeeds(p, RememberTombstone(ClearEntry(p, k), k, v), v)
  BY SelfSucceeds, RetireSucceeds
<1> QED BY <1>1 DEF Delete, Outcome, States

LEMMA MutationSucceeds ==
    ASSUME NEW p, Sound(p), NEW e, WellFormed(e), NEW v \in Nat \ {0}
    PROVE  LET m == ApplyMutation(p, e, v) IN
           m.state \in States /\ Succeeds(p, m.part, v) /\ (m.state # "applied" => m.part = p)
<1>1. CASE e.op = "upsert"
  <2>1. ApplyMutation(p, e, v) = Upsert(p, e.key, e.data, v)
    BY <1>1 DEF ApplyMutation
  <2> QED BY <1>1, <2>1, UpsertSucceeds DEF WellFormed
<1>2. CASE e.op = "patch"
  <2>1. ApplyMutation(p, e, v) = Patch(p, e.key, e.data, v)
    BY <1>2 DEF ApplyMutation
  <2> QED BY <1>2, <2>1, PatchSucceeds DEF WellFormed
<1>3. CASE e.op = "delete"
  <2>1. ApplyMutation(p, e, v) = Delete(p, e.key, v)
    BY <1>3 DEF ApplyMutation
  <2> QED BY <2>1, DeleteSucceeds DEF WellFormed
<1>4. CASE e.op \notin {"upsert", "patch", "delete"}
  <2>1. ApplyMutation(p, e, v) = Outcome("rejected", p)
    BY <1>4 DEF ApplyMutation
  <2> QED BY <2>1, SelfSucceeds DEF Outcome, States
<1> QED BY <1>1, <1>2, <1>3, <1>4

LEMMA RememberAppliedSucceeds ==
    ASSUME NEW p, NEW q, NEW v \in Nat, Succeeds(p, q, v), NEW s \in Sources \cup {NoSource}
    PROVE  LET r == RememberApplied(q, s, v) IN
           Succeeds(p, r, v) /\ r.ver = q.ver /\ r.data = q.data
<1> DEFINE r == RememberApplied(q, s, v)
<1>0. q \in Partition
  BY DEF Succeeds, Sound
<1>1. /\ r.ver = q.ver /\ r.data = q.data /\ r.tomb = q.tomb /\ r.tombOrder = q.tombOrder
      /\ r.epoch = q.epoch /\ r.watermark = q.watermark
      /\ r.records = q.records /\ r.bytes = q.bytes
  BY <1>0 DEF RememberApplied, Partition
<1>2. r \in Partition /\ WindowOf(r)
  BY <1>0, RememberAppliedType, RememberAppliedWindow DEF Succeeds, Sound
<1> HIDE DEF r
<1>3. Sound(r)
  BY <1>1, <1>2 DEF Succeeds, Sound, EntriesOf, TombstonesOf, CountersOf, BytesOf, Live
<1>4. Succeeds(p, r, v)
  BY <1>1, <1>3, SMTT(20) DEF Succeeds
<1> QED
  BY <1>1, <1>4 DEF r

\* What one event does to a sound partition whose watermark covers it.
LEMMA ApplyEventSound ==
    ASSUME NEW p, Sound(p), CoveredBy(p, p.watermark), NEW e, WellFormed(e)
    PROVE  LET r == ApplyEvent(p, e)
               q == r.part
           IN /\ r.state \in States
              /\ Sound(q)
              /\ CoveredBy(q, q.watermark)
              /\ q.epoch = p.epoch
              /\ q.watermark >= p.watermark
              /\ \A k \in Keys : q.ver[k] > 0 => q.ver[k] >= p.ver[k] /\ q.ver[k] >= p.tomb[k]
              /\ r.state # "applied" => q.ver = p.ver /\ q.data = p.data
<1> DEFINE v == EffectiveVersion(p, e.version)
           m == ApplyMutation(p, e, v)
           n == RememberApplied(m.part, e.source, v)
           o == ObserveWatermark(n, v)
           r == ApplyEvent(p, e)
<1>0. p \in Partition /\ p.watermark \in Nat /\ p.ver \in [Keys -> Nat] /\ p.tomb \in [Keys -> Nat]
  BY DEF Sound, Partition
<1>1. v \in Nat \ {0}
  BY <1>0, EffectiveVersionPositive DEF WellFormed
<1> HIDE DEF v
<1>2. m.state \in States /\ Succeeds(p, m.part, v) /\ (m.state # "applied" => m.part = p)
  BY <1>1, MutationSucceeds
<1> HIDE DEF m
<1>3. Succeeds(p, n, v) /\ n.ver = m.part.ver /\ n.data = m.part.data
  BY <1>1, <1>2, RememberAppliedSucceeds DEF WellFormed
<1> HIDE DEF n
<1>4. n \in Partition /\ n.watermark = p.watermark
  BY <1>3 DEF Succeeds, Sound
<1>5. /\ o.ver = n.ver /\ o.data = n.data /\ o.tomb = n.tomb /\ o.tombOrder = n.tombOrder
      /\ o.epoch = n.epoch /\ o.watermark = Max2(p.watermark, v)
      /\ o.records = n.records /\ o.bytes = n.bytes
      /\ o.applied = n.applied /\ o.applyOrder = n.applyOrder /\ o.fence = n.fence
  BY <1>4 DEF ObserveWatermark, Partition
<1>6. o \in Partition
  BY <1>0, <1>1, <1>4, WatermarkUpdate
<1> HIDE DEF o
<1>7. Sound(o)
  <2>1. EntriesOf(n) /\ TombstonesOf(n) /\ WindowOf(n) /\ CountersOf(n) /\ BytesOf(n)
    BY <1>3 DEF Succeeds, Sound
  <2>2. EntriesOf(o) /\ TombstonesOf(o)
    BY <1>5, <2>1 DEF EntriesOf, TombstonesOf
  <2>3. CountersOf(o) /\ BytesOf(o)
    BY <1>5, <2>1 DEF CountersOf, BytesOf, Live
  <2>4. WindowOf(o)
    BY <1>5, <2>1 DEF WindowOf, Remembered
  <2> QED BY <1>6, <2>2, <2>3, <2>4 DEF Sound
<1>8. o.watermark \in Nat /\ o.watermark >= p.watermark /\ o.watermark >= v
  BY <1>0, <1>1, <1>5 DEF Max2
<1>9. \A k \in Keys : /\ o.ver[k] \in {p.ver[k], 0, v} /\ o.tomb[k] \in {p.tomb[k], 0, v}
                      /\ o.ver[k] > 0 => o.ver[k] >= p.ver[k] /\ o.ver[k] >= p.tomb[k]
  BY <1>3, <1>5 DEF Succeeds
<1>10. CoveredBy(o, o.watermark)
  BY <1>0, <1>1, <1>8, <1>9 DEF CoveredBy
<1>11. Succeeds(p, p, v)
  BY SelfSucceeds
<1>12. CASE AlreadyApplied(p, e.source, v) \/ m.state = "rejected"
  <2>1. r.part = p /\ r.state \in {"duplicate", "rejected"}
    BY <1>2, <1>12, SMTT(20) DEF ApplyEvent, Outcome, v, m
  <2> QED BY <1>0, <1>11, <2>1 DEF States, Succeeds
<1>13. CASE ~AlreadyApplied(p, e.source, v) /\ m.state = "ignored"
  <2>1. r.part = n /\ r.state = "ignored"
    BY <1>13 DEF ApplyEvent, Outcome, v, m, n
  <2>2. CoveredBy(n, p.watermark)
    <3>1. m.part = p
      BY <1>2, <1>13
    <3>2. n.ver = p.ver /\ n.tomb = p.tomb
      BY <1>0, <3>1 DEF n, RememberApplied, Partition
    <3> QED BY <3>2 DEF CoveredBy
  <2> QED BY <1>0, <1>2, <1>3, <1>4, <1>13, <2>1, <2>2 DEF States, Succeeds
<1>14. CASE ~AlreadyApplied(p, e.source, v) /\ m.state \notin {"rejected", "ignored"}
  <2>1. r.part = o /\ r.state = "applied"
    BY <1>14 DEF ApplyEvent, Outcome, v, m, n, o
  <2>2. o.epoch = p.epoch
    BY <1>3, <1>5 DEF Succeeds
  <2> QED BY <1>7, <1>8, <1>9, <1>10, <2>1, <2>2 DEF States
<1> QED BY <1>12, <1>13, <1>14, SMTT(20)

-----------------------------------------------------------------------------
(* Construction and replacement.                                           *)

LEMMA EmptyWindow ==
    ASSUME NEW p, p.applied = {}, p.applyOrder = <<>>,
           \A f \in Prefixes : p.fence[f].refs >= 0
    PROVE  WindowOf(p)
<1>1. \A f \in Prefixes : Remembered(p, f) = {}
  BY DEF Remembered
<1>2. IsFiniteSet(p.applied) /\ Cardinality({}) = 0
  BY FS_EmptySet
<1>3. DOMAIN p.applyOrder = {} /\ Len(p.applyOrder) = 0
  OBVIOUS
<1>4. p.applied = {p.applyOrder[i] : i \in DOMAIN p.applyOrder}
  BY <1>3
<1>5. \A f \in Prefixes : p.fence[f].refs >= Cardinality(Remembered(p, f))
  BY <1>1, <1>2, Zenon
<1>6. Len(p.applyOrder) <= MaxAppliedEvents
  BY <1>3, BoundsPositive
<1> QED
  BY <1>2, <1>3, <1>4, <1>5, <1>6 DEF WindowOf

LEMMA NewPartitionSound ==
    Sound(NewPartition) /\ CoveredBy(NewPartition, NewPartition.watermark)
<1> DEFINE p == NewPartition
<1>1. /\ p.ver = [k \in Keys |-> 0] /\ p.tomb = [k \in Keys |-> 0]
      /\ p.tombOrder = <<>> /\ p.applied = {} /\ p.applyOrder = <<>>
      /\ p.watermark = 0 /\ p.records = 0 /\ p.bytes = 0
      /\ \A f \in Prefixes : p.fence[f].refs = 0
  BY DEF NewPartition, NoFence
<1>2. p \in Partition
  BY DEF NewPartition, NoFence, Partition
<1> HIDE DEF p
<1>3. EntriesOf(p) /\ CoveredBy(p, p.watermark)
  BY <1>1 DEF EntriesOf, CoveredBy
<1>4. TombstonesOf(p)
  BY <1>1, BoundsPositive DEF TombstonesOf
<1>5. CountersOf(p)
  <2>1. Live(p) = {}
    BY <1>1 DEF Live
  <2> QED BY <1>1, <2>1, FS_EmptySet, BoundsPositive DEF CountersOf
<1>6. WindowOf(p)
  <2>1. \A f \in Prefixes : p.fence[f].refs >= 0
    BY <1>1
  <2> QED BY <1>1, <2>1, EmptyWindow
<1>7. BytesOf(p)
  <2>1. p.data \in [Keys -> Data \cup {NoData}] /\ \A k \in Keys : p.data[k] = NoData
    BY DEF p, NewPartition
  <2> QED BY <1>1, <2>1, NoBytes DEF BytesOf
<1>8. Sound(p) /\ CoveredBy(p, p.watermark)
  BY <1>2, <1>3, <1>4, <1>5, <1>6, <1>7 DEF Sound
<1> QED
  BY <1>8 DEF p

LEMMA BulkLoadSound ==
    ASSUME NEW p, Sound(p), NEW ver \in [Keys -> Nat],
           NEW data \in [Keys -> Data \cup {NoData}],
           Numbering(ver), LoadFits(ver, data),
           \A k \in Keys : (data[k] = NoData) <=> (ver[k] = 0)
    PROVE  LET q == BulkLoad(p, ver, data)
           IN Sound(q) /\ CoveredBy(q, q.watermark) /\ q.epoch = p.epoch + 1
<1> DEFINE q == BulkLoad(p, ver, data)
           n == Cardinality(Loaded(ver))
           b == TotalBytes(data)
<1>1. b \in Int /\ b <= MaxBytes /\ n <= MaxRecords
  BY BoundsPositive DEF LoadFits
<1>2. n \in Nat
  BY FiniteKeys, FS_Subset, FS_CardinalityType DEF Loaded
<1>3. p.fence \in [Prefixes -> [version : Nat, refs : Nat]] /\ p.epoch \in Nat
  BY DEF Sound, Partition
<1> HIDE DEF n, b
<1>4. q = [ver |-> ver, data |-> data,
           tomb |-> [k \in Keys |-> 0], tombOrder |-> <<>>,
           applied |-> {}, applyOrder |-> <<>>, fence |-> p.fence,
           epoch |-> p.epoch + 1, watermark |-> n, records |-> n, bytes |-> b]
  BY SMTT(20) DEF BulkLoad, n, b
<1> HIDE DEF q
<1>5. q \in Partition
  BY <1>1, <1>2, <1>3, <1>4 DEF Partition
<1>6. EntriesOf(q)
  BY <1>4 DEF EntriesOf
<1>7. CoveredBy(q, q.watermark)
  <2>1. \A k \in Keys : ver[k] > 0 => ver[k] <= n
    BY DEF Numbering, Loaded, n
  <2> QED BY <1>2, <1>4, <2>1 DEF CoveredBy
<1>8. TombstonesOf(q)
  BY <1>4, BoundsPositive DEF TombstonesOf
<1>9. CountersOf(q)
  <2>1. Live(q) = Loaded(ver)
    BY <1>4 DEF Live, Loaded
  <2> QED BY <1>1, <1>4, <2>1 DEF CountersOf, n
<1>10. WindowOf(q)
  <2>1. q.applied = {} /\ q.applyOrder = <<>> /\ q.fence = p.fence
    BY <1>4
  <2>2. \A f \in Prefixes : q.fence[f].refs >= 0
    BY <1>3, <2>1
  <2> QED BY <2>1, <2>2, EmptyWindow
<1>11. BytesOf(q)
  BY <1>4 DEF BytesOf, b
<1>12. Sound(q) /\ CoveredBy(q, q.watermark) /\ q.epoch = p.epoch + 1
  BY <1>4, <1>5, <1>6, <1>7, <1>8, <1>9, <1>10, <1>11 DEF Sound
<1> QED
  BY <1>12 DEF q

-----------------------------------------------------------------------------
(* Expiry and publication.                                                 *)

\* An expiry only removes: what is still live is what was.
LEMMA ExpireView ==
    ASSUME NEW p, Sound(p), NEW k \in Keys
    PROVE  LET q == Expire(p, k) IN
           \A j \in Keys : q.ver[j] > 0 => q.ver[j] = p.ver[j] /\ q.data[j] = p.data[j]
<1> DEFINE c == ClearEntry(p, k)
           q == Expire(p, k)
<1>0. p \in Partition /\ p.ver \in [Keys -> Nat] /\ p.data \in [Keys -> Data \cup {NoData}]
  BY DEF Sound, Partition
<1>1. c.ver = [p.ver EXCEPT ![k] = 0] /\ c.data = [p.data EXCEPT ![k] = NoData]
  BY <1>0 DEF ClearEntry, Partition
<1>2. c \in Partition
  BY <1>0, ClearEntryType
<1>3. q = RememberTombstone(c, k, p.ver[k])
  BY DEF Expire
<1> HIDE DEF c
<1>4. q.ver = c.ver /\ q.data = c.data
  BY <1>2, <1>3 DEF RememberTombstone, Partition
<1> QED
  BY <1>0, <1>1, <1>4

LEMMA EpochUpdate ==
    ASSUME NEW p \in Partition, NEW n \in Nat
    PROVE  [p EXCEPT !.epoch = n] \in Partition
BY Zenon DEF Partition

LEMMA FinishApplySound ==
    ASSUME NEW p, Sound(p), NEW a \in BOOLEAN
    PROVE  LET q == FinishApply(p, a) IN
           /\ Sound(q) /\ q.ver = p.ver /\ q.data = p.data /\ q.tomb = p.tomb
           /\ q.watermark = p.watermark
           /\ q.epoch = IF a THEN p.epoch + 1 ELSE p.epoch
<1> DEFINE q == FinishApply(p, a)
<1>1. CASE ~a
  BY <1>1 DEF FinishApply
<1>2. CASE a
  <2>0. p \in Partition /\ q = [p EXCEPT !.epoch = @ + 1]
    BY <1>2 DEF FinishApply, Sound
  <2>1. q \in Partition
    <3>1. p.epoch + 1 \in Nat
      BY <2>0 DEF Partition
    <3> QED BY <2>0, <3>1, EpochUpdate
  <2>2. /\ q.ver = p.ver /\ q.data = p.data /\ q.tomb = p.tomb /\ q.tombOrder = p.tombOrder
        /\ q.applied = p.applied /\ q.applyOrder = p.applyOrder /\ q.fence = p.fence
        /\ q.records = p.records /\ q.bytes = p.bytes
        /\ q.watermark = p.watermark /\ q.epoch = p.epoch + 1
    BY <2>0 DEF Partition
  <2> HIDE DEF q
  <2>3. EntriesOf(q) /\ TombstonesOf(q)
    BY <2>2 DEF Sound, EntriesOf, TombstonesOf
  <2>4. CountersOf(q) /\ BytesOf(q)
    BY <2>2 DEF Sound, CountersOf, BytesOf, Live
  <2>5. WindowOf(q)
    BY <2>2 DEF Sound, WindowOf, Remembered
  <2>6. Sound(q)
    BY <2>1, <2>3, <2>4, <2>5 DEF Sound
  <2> QED BY <1>2, <2>2, <2>6, Zenon DEF q
<1> QED BY <1>1, <1>2

-----------------------------------------------------------------------------
(* A fresh event: its source is not remembered, its version is not below   *)
(* what the key has, and the record it carries fits.                       *)

LEMMA AddRefValues ==
    ASSUME NEW f \in [Prefixes -> [version : Nat, refs : Nat]], NEW s, NEW v \in Nat
    PROVE  /\ AddRef(f, s, v) \in [Prefixes -> [version : Nat, refs : Nat]]
           /\ \A g \in Prefixes : AddRef(f, s, v)[g].version \in {f[g].version, v}
BY DEF AddRef, Scoped, Max2

LEMMA DropRefValues ==
    ASSUME NEW f \in [Prefixes -> [version : Nat, refs : Nat]], NEW s
    PROVE  \A g \in Prefixes : DropRef(f, s)[g].version \in {f[g].version, 0}
BY DEF DropRef, Scoped

LEMMA RememberAppliedValues ==
    ASSUME NEW p \in Partition, NEW s \in Sources \cup {NoSource}, NEW v \in Nat
    PROVE  LET q == RememberApplied(p, s, v) IN
           /\ q.applied \subseteq p.applied \cup {s}
           /\ \A g \in Prefixes : q.fence[g].version \in {p.fence[g].version, 0, v}
<1> DEFINE q == RememberApplied(p, s, v)
<1>0. p.fence \in [Prefixes -> [version : Nat, refs : Nat]]
  BY DEF Partition
<1>1. CASE s = NoSource \/ s \in p.applied
  <2>1. q = p
    BY <1>1 DEF RememberApplied
  <2> QED BY <2>1
<1>2. CASE ~(s = NoSource \/ s \in p.applied)
  <2> DEFINE fence == AddRef(p.fence, s, v)
             order == Append(p.applyOrder, s)
             old   == Head(order)
             full  == Len(order) > MaxAppliedEvents
  <2>1. /\ q.applied = IF full THEN (p.applied \cup {s}) \ {old} ELSE p.applied \cup {s}
        /\ q.fence = IF full THEN DropRef(fence, old) ELSE fence
    BY <1>2, Zenon DEF RememberApplied, Partition
  <2> HIDE DEF order, old, full
  <2>2. /\ fence \in [Prefixes -> [version : Nat, refs : Nat]]
        /\ \A g \in Prefixes : fence[g].version \in {p.fence[g].version, v}
    BY <1>0, AddRefValues
  <2> HIDE DEF fence, q
  <2>3. \A g \in Prefixes : DropRef(fence, old)[g].version \in {fence[g].version, 0}
    BY <2>2, DropRefValues
  <2>4. q.applied \subseteq p.applied \cup {s}
    BY <2>1
  <2>5. \A g \in Prefixes : q.fence[g].version \in {p.fence[g].version, 0, v}
    BY <2>1, <2>2, <2>3
  <2> QED BY <2>4, <2>5 DEF q
<1> QED BY <1>1, <1>2

LEMMA FreshMutation ==
    ASSUME NEW p, Sound(p), NEW e, WellFormed(e), e.op \in {"upsert", "delete"}, e.version > 0,
           ~Stale(p, e.key, e.version),
           e.op = "upsert" => ~OverRecords(p, e.key) /\ ~OverBytes(p, e.key, e.data)
    PROVE  LET m == ApplyMutation(p, e, e.version)
               q == m.part
           IN /\ m.state = "applied"
              /\ q.ver = [p.ver EXCEPT ![e.key] = IF e.op = "upsert" THEN e.version ELSE 0]
              /\ q.data = [p.data EXCEPT ![e.key] = IF e.op = "upsert" THEN e.data ELSE NoData]
              /\ q.applied = p.applied /\ q.fence = p.fence
<1> DEFINE k == e.key
           v == e.version
<1>0. p \in Partition /\ k \in Keys /\ v \in Nat \ {0}
  BY DEF Sound, WellFormed
<1>1. CASE e.op = "upsert"
  <2>1. ApplyMutation(p, e, v) = Outcome("applied", StoreEntry(p, k, e.data, v))
    BY <1>1 DEF ApplyMutation, Upsert
  <2>2. LET q == StoreEntry(p, k, e.data, v)
        IN /\ q.ver = [p.ver EXCEPT ![k] = v] /\ q.data = [p.data EXCEPT ![k] = e.data]
           /\ q.applied = p.applied /\ q.fence = p.fence
    BY <1>0, Zenon DEF StoreEntry, Partition
  <2> HIDE DEF v
  <2>3. /\ ApplyMutation(p, e, v).state = "applied"
        /\ ApplyMutation(p, e, v).part = StoreEntry(p, k, e.data, v)
    BY <2>1 DEF Outcome
  <2> QED BY <1>1, <2>2, <2>3, Zenon DEF v
<1>2. CASE e.op = "delete"
  <2> DEFINE c == ClearEntry(p, k)
  <2>1. ApplyMutation(p, e, v) = Outcome("applied", RememberTombstone(c, k, v))
    <3>1. p.ver[k] \in Nat /\ p.tomb[k] \in Nat
      BY <1>0 DEF Partition
    <3>2. ~(v < p.ver[k]) /\ ~BlockedByNewerTombstone(p, k, v)
      BY DEF Stale
    <3>3. ApplyMutation(p, e, v) = Delete(p, k, v)
      BY <1>2 DEF ApplyMutation
    <3> QED BY <3>2, <3>3, Zenon DEF Delete
  <2>2. /\ c.ver = [p.ver EXCEPT ![k] = 0] /\ c.data = [p.data EXCEPT ![k] = NoData]
        /\ c.applied = p.applied /\ c.fence = p.fence
    BY <1>0, Zenon DEF ClearEntry, Partition
  <2>3. c \in Partition
    BY <1>0, ClearEntryType
  <2> HIDE DEF c
  <2>4. LET q == RememberTombstone(c, k, v)
        IN q.ver = c.ver /\ q.data = c.data /\ q.applied = c.applied /\ q.fence = c.fence
    BY <2>3, Zenon DEF RememberTombstone, Partition
  <2>5. e.op # "upsert"
    BY <1>2
  <2> HIDE DEF v
  <2>6. /\ ApplyMutation(p, e, v).state = "applied"
        /\ ApplyMutation(p, e, v).part = RememberTombstone(c, k, v)
    BY <2>1 DEF Outcome
  <2> QED BY <2>2, <2>4, <2>5, <2>6, Zenon DEF v
<1> QED BY <1>1, <1>2

LEMMA FreshEventApplied ==
    ASSUME NEW p, Sound(p), NEW e, WellFormed(e), e.op \in {"upsert", "delete"}, e.version > 0,
           ~AlreadyApplied(p, e.source, e.version), ~Stale(p, e.key, e.version),
           e.op = "upsert" => ~OverRecords(p, e.key) /\ ~OverBytes(p, e.key, e.data)
    PROVE  LET r == ApplyEvent(p, e)
               q == r.part
           IN /\ r.state = "applied"
              /\ q.ver = [p.ver EXCEPT ![e.key] = IF e.op = "upsert" THEN e.version ELSE 0]
              /\ q.data = [p.data EXCEPT ![e.key] = IF e.op = "upsert" THEN e.data ELSE NoData]
              /\ \A k \in Keys : q.tomb[k] \in {p.tomb[k], 0, e.version}
              /\ q.applied \subseteq p.applied \cup {e.source}
              /\ \A f \in Prefixes : q.fence[f].version \in {p.fence[f].version, 0, e.version}
<1> DEFINE v == e.version
           m == ApplyMutation(p, e, v)
           n == RememberApplied(m.part, e.source, v)
           o == ObserveWatermark(n, v)
           r == ApplyEvent(p, e)
<1>0. v \in Nat \ {0} /\ EffectiveVersion(p, v) = v /\ e.source \in Sources \cup {NoSource}
  BY DEF WellFormed, EffectiveVersion
<1>1. /\ m.state = "applied"
      /\ m.part.ver = [p.ver EXCEPT ![e.key] = IF e.op = "upsert" THEN v ELSE 0]
      /\ m.part.data = [p.data EXCEPT ![e.key] = IF e.op = "upsert" THEN e.data ELSE NoData]
      /\ m.part.applied = p.applied /\ m.part.fence = p.fence
  BY FreshMutation, Zenon
<1>2. Succeeds(p, m.part, v)
  BY <1>0, MutationSucceeds
<1>3. r = Outcome("applied", o)
  <2>1. ~AlreadyApplied(p, e.source, v) /\ m.state # "rejected" /\ m.state # "ignored"
    BY <1>1
  <2> HIDE DEF m
  <2>2. r = LET w == v IN
            CASE AlreadyApplied(p, e.source, w) -> Outcome("duplicate", p)
              [] ~AlreadyApplied(p, e.source, w) /\ m.state = "rejected" -> m
              [] ~AlreadyApplied(p, e.source, w) /\ m.state = "ignored"  -> Outcome("ignored", n)
              [] OTHER -> Outcome("applied", o)
    BY <1>0, Zenon DEF ApplyEvent, m
  <2> QED BY <2>1, <2>2 DEF Outcome
<1> HIDE DEF m
<1>4. m.part \in Partition /\ \A k \in Keys : m.part.tomb[k] \in {p.tomb[k], 0, v}
  BY <1>2 DEF Succeeds, Sound
<1>5. /\ n.applied \subseteq m.part.applied \cup {e.source}
      /\ \A f \in Prefixes : n.fence[f].version \in {m.part.fence[f].version, 0, v}
  BY <1>0, <1>4, RememberAppliedValues
<1>6. n.ver = m.part.ver /\ n.data = m.part.data /\ n.tomb = m.part.tomb /\ n \in Partition
  <2>1. n \in Partition
    BY <1>0, <1>4, RememberAppliedType
  <2> QED BY <1>4, <2>1, Zenon DEF RememberApplied, Partition
<1> HIDE DEF n
<1>7. /\ o.ver = n.ver /\ o.data = n.data /\ o.tomb = n.tomb
      /\ o.applied = n.applied /\ o.fence = n.fence
  BY <1>6, Zenon DEF ObserveWatermark, Partition
<1> HIDE DEF o, r
<1>8. r.state = "applied" /\ r.part = o
  BY <1>3 DEF Outcome
<1>9. /\ o.applied \subseteq p.applied \cup {e.source}
      /\ \A f \in Prefixes : o.fence[f].version \in {p.fence[f].version, 0, v}
      /\ \A k \in Keys : o.tomb[k] \in {p.tomb[k], 0, v}
  BY <1>1, <1>4, <1>5, <1>6, <1>7, Zenon
<1>10. /\ o.ver = [p.ver EXCEPT ![e.key] = IF e.op = "upsert" THEN v ELSE 0]
       /\ o.data = [p.data EXCEPT ![e.key] = IF e.op = "upsert" THEN e.data ELSE NoData]
  BY <1>1, <1>6, <1>7, Zenon
<1> QED BY <1>8, <1>9, <1>10, Zenon DEF r

\* An upsert or a delete installs its own payload or leaves a record alone
\* (upsertLocked, deleteLocked): it never makes a payload up.
LEMMA ApplyEventPayloads ==
    ASSUME NEW p, Sound(p), NEW e, WellFormed(e), e.op \in {"upsert", "delete"}
    PROVE  LET q == ApplyEvent(p, e).part
           IN \A k \in Keys : q.ver[k] > 0 =>
                \/ p.ver[k] > 0 /\ q.data[k] = p.data[k]
                \/ e.op = "upsert" /\ k = e.key /\ q.data[k] = e.data
<1> DEFINE v == EffectiveVersion(p, e.version)
           m == ApplyMutation(p, e, v)
           n == RememberApplied(m.part, e.source, v)
           o == ObserveWatermark(n, v)
           r == ApplyEvent(p, e)
           Kept(q) == \A k \in Keys : q.ver[k] > 0 =>
                        \/ p.ver[k] > 0 /\ q.data[k] = p.data[k]
                        \/ e.op = "upsert" /\ k = e.key /\ q.data[k] = e.data
<1>0. p \in Partition /\ e.key \in Keys /\ e.version \in Nat /\ e.source \in Sources \cup {NoSource}
  BY DEF Sound, WellFormed
<1>1. v \in Nat \ {0} /\ v \in Nat
  BY <1>0, EffectiveVersionPositive
<1>2. p.ver \in [Keys -> Nat] /\ p.data \in [Keys -> Data \cup {NoData}]
  BY <1>0 DEF Partition
<1> HIDE DEF v
<1>3. Succeeds(p, m.part, v)
  BY <1>1, MutationSucceeds
<1>4. Kept(p)
  OBVIOUS
<1>5. Kept(m.part)
  <2>1. CASE e.op = "upsert"
    <3> DEFINE q == StoreEntry(p, e.key, e.data, v)
    <3>1. q.ver = [p.ver EXCEPT ![e.key] = v] /\ q.data = [p.data EXCEPT ![e.key] = e.data]
      BY <1>0 DEF StoreEntry, Partition
    <3> HIDE DEF q
    <3>2. Kept(q)
      BY <1>0, <1>2, <2>1, <3>1
    <3>3. m.part = p \/ m.part = q
      BY <2>1 DEF q, ApplyMutation, Upsert, Outcome
    <3> QED BY <1>4, <3>2, <3>3, Zenon
  <2>2. CASE e.op = "delete"
    <3> DEFINE c == ClearEntry(p, e.key)
               q == RememberTombstone(c, e.key, v)
    <3>1. c \in Partition
      BY <1>0, ClearEntryType
    <3>2. c.ver = [p.ver EXCEPT ![e.key] = 0] /\ c.data = [p.data EXCEPT ![e.key] = NoData]
      BY <1>0 DEF ClearEntry, Partition
    <3> HIDE DEF c
    <3>3. q.ver = c.ver /\ q.data = c.data
      BY <3>1 DEF RememberTombstone, Partition
    <3> HIDE DEF q
    <3>4. Kept(q)
      BY <1>0, <1>2, <3>2, <3>3
    <3>5. m.part = p \/ m.part = q
      BY <2>2 DEF q, c, ApplyMutation, Delete, Outcome
    <3> QED BY <1>4, <3>4, <3>5, Zenon
  <2> QED BY <2>1, <2>2
<1> HIDE DEF m
<1>6. n.ver = m.part.ver /\ n.data = m.part.data /\ n \in Partition
  <2>1. Succeeds(p, n, v) /\ n.ver = m.part.ver /\ n.data = m.part.data
    BY <1>0, <1>1, <1>3, RememberAppliedSucceeds
  <2> QED BY <2>1 DEF Succeeds, Sound
<1> HIDE DEF n
<1>7. o.ver = n.ver /\ o.data = n.data
  BY <1>6 DEF ObserveWatermark, Partition
<1> HIDE DEF o
<1>8. Kept(n) /\ Kept(o)
  BY <1>5, <1>6, <1>7
<1>9. r.part \in {p, m.part, n, o}
  BY DEF r, ApplyEvent, Outcome, m, n, o, v
<1> HIDE DEF r
<1>10. Kept(r.part)
  BY <1>4, <1>5, <1>8, <1>9, Zenon
<1> QED BY <1>10 DEF r

=============================================================================
