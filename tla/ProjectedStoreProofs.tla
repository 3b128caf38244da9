------------------------ MODULE ProjectedStoreProofs ------------------------
(***************************************************************************)
(* Safety of the projected store for every number of callers, every        *)
(* workload they may issue, and every limit of the partition; and that to  *)
(* a single caller that stays within the limits it is one copy of the      *)
(* records.                                                                *)
(***************************************************************************)
EXTENDS ProjectedStoreSteps, HermesApplyProofs

-----------------------------------------------------------------------------
(* The rebuild.                                                            *)

\* Everything the stream reads is in the base, and so committed.
LEMMA StreamStep ==
    ASSUME Inv, NEW t \in Threads, Stream(t)
    PROVE  Inv'
<1>0. Leading(th[t]) /\ th[t] \in Thread
  BY DEF Stream, Pc, Leading, Inv, Types
<1>1. UNCHANGED <<base, committed, hot, mu, counter, warm, overLimit, flight>>
  BY DEF Stream, store, part
<1>2. CASE LeaderFails(t) /\ UNCHANGED snapshot
  BY <1>0, <1>1, <1>2, LeaderQuiet, QuietInv, MarksTyped DEF Still
<1>3. CASE MarkDegraded(t, "finishErr") /\ UNCHANGED snapshot
  BY <1>0, <1>1, <1>3, MarkQuiet, QuietInv, MarksTyped, Zenon DEF Still, MarkDegraded
<1>4. ASSUME NEW ver \in [Keys -> 0..Cardinality(Keys)], NEW data,
             data = [k \in Keys |-> IF ver[k] > 0 THEN base[k] ELSE NoData],
             Numbering(ver), Loaded(ver) \subseteq BaseKeys, LoadFits(ver, data),
             snapshot' = [ver |-> ver, data |-> data], Goto(t, "swap"), UNCHANGED health
      PROVE  Inv'
  <2> DEFINE x == [th[t] EXCEPT !.pc = "swap"]
  <2>1. th' = [th EXCEPT ![t] = x]
    BY <1>4 DEF Goto
  <2>2. x \in Thread /\ x.pc = "swap"
    BY <1>0, GotoThread, ZenonT(30) DEF Pcs
  <2> HIDE DEF x
  <2>3. CallOK(x) /\ Leading(x)
    BY <2>2 DEF CallOK, Asking, Leading
  <2>5. Types'
    BY <1>1, <1>4, <2>1, <2>2, OneThread DEF Inv, Types, health
  <2>6. Calls'
    BY <1>1, <2>1, <2>2, <2>3, CallsKept, ZenonT(30)
  <2>7. SnapshotOK'
    BY <1>1, <1>4, FiniteKeys, FS_CardinalityType DEF SnapshotOK, Inv, Types, Payloads, Loaded,
       BaseKeys
  <2>8. Rebuild'
    BY <1>0, <1>1, <2>2, <2>3, <2>1, OneThread, <2>7 DEF Inv, Rebuild
  <2> QED BY <2>5, <2>6, <2>8, <1>1 DEF Inv, Payloads, NoUncommittedTruth
<1> QED BY <1>2, <1>3, <1>4, Zenon DEF Stream

LEMMA SwapStep ==
    ASSUME Inv, NEW t \in Threads, Swap(t)
    PROVE  Inv'
<1> DEFINE x == [th[t] EXCEPT !.pc = "warmed"]
<1>0. /\ th[t] \in Thread /\ th[t].pc = "swap" /\ Leading(th[t]) /\ SnapshotOK
      /\ flight = t
  BY DEF Swap, Pc, Leading, Inv, Types, Rebuild
<1>1. /\ th' = [th EXCEPT ![t] = x]
      /\ hot' = BulkLoad(hot, snapshot.ver, snapshot.data)
      /\ UNCHANGED <<base, committed, mu, counter, degraded, degradedCount, warm, overLimit, flight>>
  BY SMTT(20) DEF Swap, Goto, store, health
<1>2. x \in Thread /\ x.pc = "warmed"
  BY <1>0, GotoThread, ZenonT(30) DEF Pcs
<1> HIDE DEF x
<1>3. CallOK(x) /\ Leading(x)
  BY <1>2 DEF CallOK, Asking, Leading
<1>5. Types'
  BY <1>1, <1>2, OneThread DEF Inv, Types
<1>6. Calls'
  BY <1>1, <1>2, <1>3, CallsKept, ZenonT(30)
<1>7. Rebuild'
  BY <1>0, <1>2, <1>1, OneThread, <1>3, Zenon DEF Inv, Rebuild, Leading
<1>8. Payloads'
  BY <1>0, <1>1, BulkLoadSound, Zenon DEF Inv, Payloads, SnapshotOK, BulkLoad,
     NoUncommittedTruth, Live
<1> QED BY <1>5, <1>6, <1>7, <1>8 DEF Inv

-----------------------------------------------------------------------------
(* Writes.                                                                 *)

LEMMA ApplyStep ==
    ASSUME Inv, NEW t \in Threads, ApplyNext(t)
    PROVE  Inv'
<1> DEFINE r       == th[t]
           e       == EventOf(r)
           a       == ApplyEvent(hot, e)
           applied == r.applied \/ a.state = "applied"
           last    == Len(r.recs) = 1
           pc      == IF last THEN "remember" ELSE "apply"
           err     == IF a.state = "rejected" THEN "limit" ELSE r.err
           rest    == Tail(r.recs)
           v       == r.version + 1
           x       == [r EXCEPT !.pc = pc, !.recs = rest, !.version = v,
                                !.applied = applied, !.err = err]
<1>0. /\ r \in Thread /\ r.pc = "apply" /\ r.recs \in Seq(Record) /\ Len(r.recs) \in Nat /\ r.version \in Nat
      /\ CallOK(r) /\ Len(r.recs) >= 1 /\ r.version + Len(r.recs) - 1 <= counter /\ counter \in Nat
      /\ r.err \in {"none", "limit", "failed"}
  BY StoreBounds, SMTT(20) DEF ApplyNext, Pc, Inv, Types, Calls, CallOK, Thread
<1>1. /\ th' = [th EXCEPT ![t] = x]
      /\ hot' = IF last THEN FinishApply(a.part, applied) ELSE a.part
      /\ mu' = IF last THEN NoThread ELSE t
      /\ UNCHANGED <<base, committed, counter, degraded, degradedCount, warm, overLimit, flight, snapshot>>
  BY ZenonT(30) DEF ApplyNext, store, health, scope
<1>2. WellFormed(e) /\ e.op \in {"upsert", "delete"} /\ (e.op = "upsert" => e.data \in committed[e.key])
  BY <1>0, EventSound
<1> HIDE DEF e
<1>3. /\ Sound(hot) /\ CoveredBy(hot, hot.watermark)
      /\ \A k \in Keys : hot.ver[k] > 0 => hot.data[k] \in committed[k]
  BY DEF Inv, Payloads, NoUncommittedTruth, Live
<1>4. Sound(a.part) /\ CoveredBy(a.part, a.part.watermark)
  BY <1>2, <1>3, ApplyEventSound, SMTT(20)
<1>5. \A k \in Keys : a.part.ver[k] > 0 => a.part.data[k] \in committed[k]
  BY <1>2, <1>3, ApplyEventPayloads
<1> HIDE DEF a
<1>6. applied \in BOOLEAN
  BY Zenon
<1>7. err \in {"none", "limit", "failed"}
  BY <1>0
<1>8. pc \in Pcs /\ pc \in {"apply", "remember"} /\ (pc = "apply" => ~last)
  BY DEF Pcs
<1> HIDE DEF applied, err, pc
<1>9. Sound(hot') /\ CoveredBy(hot', hot'.watermark) /\ NoUncommittedTruth'
  <2>1. CASE last
    <3> DEFINE q == FinishApply(a.part, applied)
    <3>1. Sound(q) /\ q.ver = a.part.ver /\ q.data = a.part.data /\ q.tomb = a.part.tomb
          /\ q.watermark = a.part.watermark
      BY <1>4, <1>6, FinishApplySound
    <3>2. hot' = q /\ committed' = committed
      BY <1>1, <2>1
    <3> HIDE DEF q
    <3> QED BY <1>4, <1>5, <3>1, <3>2, SMTT(20) DEF CoveredBy, NoUncommittedTruth, Live
  <2>2. CASE ~last
    BY <1>1, <1>4, <1>5, <2>2, SMTT(20) DEF NoUncommittedTruth, Live
  <2> QED BY <2>1, <2>2
<1>10. /\ rest \in Seq(Record) /\ Len(rest) = Len(r.recs) - 1
       /\ \A i \in 1..(Len(r.recs) - 1) : rest[i] = r.recs[i + 1]
       /\ v \in Nat /\ v = r.version + 1
  BY <1>0
<1> HIDE DEF rest, v
<1>11. /\ x \in Thread /\ x.pc = pc /\ x.op = r.op /\ x.recs = rest /\ x.version = v
  BY <1>0, <1>6, <1>7, <1>8, <1>10, ZenonT(30) DEF Thread
<1> HIDE DEF x
<1>12. CallOK(x)
  <2> DEFINE n == Len(r.recs)
  <2>1. DOMAIN x.recs = 1..(n - 1) /\ DOMAIN r.recs = 1..n /\ Len(x.recs) = n - 1 /\ n \in Nat
    BY <1>0, <1>10, <1>11, SMTT(20)
  <2>2. \A i \in DOMAIN x.recs : i + 1 \in DOMAIN r.recs /\ x.recs[i] = r.recs[i + 1]
    BY <1>10, <1>11, <2>1
  <2>3. x.pc = "apply" => n # 1
    BY <1>8, <1>11
  <2>4. /\ x.pc = "apply" => Len(x.recs) >= 1
        /\ x.version >= 1 /\ x.version + Len(x.recs) - 1 <= counter
    <3>1. n >= 1 /\ r.version \in Nat /\ r.version + n - 1 <= counter /\ counter \in Nat
      BY <1>0
    <3> HIDE DEF n
    <3>2. (n # 1 => n - 1 >= 1) /\ r.version + 1 >= 1 /\ (r.version + 1) + (n - 1) - 1 <= counter
      BY <2>1, <3>1, SMTT(20)
    <3> QED BY <1>10, <1>11, <2>1, <2>3, <3>2, SMTT(20)
  <2> HIDE DEF n
  <2> QED BY <1>8, <1>11, <2>4, <1>0, <2>2, Zenon DEF CallOK, Asking
<1>13. x.version + Len(x.recs) = r.version + Len(r.recs)
  <2> DEFINE n == Len(r.recs)
             w == r.version
  <2>1. n \in Nat /\ w \in Nat /\ x.version = w + 1 /\ Len(x.recs) = n - 1
    BY <1>0, <1>10, <1>11
  <2> HIDE DEF n, w
  <2>2. (w + 1) + (n - 1) = w + n
    BY <2>1
  <2> QED BY <2>1, <2>2, SMTT(20) DEF n, w
<1>14. mu' \in Threads \cup {NoThread}
  BY <1>1
<1> QED BY <1>0, <1>1, <1>8, <1>9, <1>10, <1>11, <1>12, <1>13, <1>14, ProjectStep, Zenon

LEMMA CancelStep ==
    ASSUME Inv, NEW t \in Threads, CancelApply(t)
    PROVE  Inv'
<1> DEFINE r   == th[t]
           err == IF r.err = "limit" THEN "limit" ELSE "failed"
           x   == [r EXCEPT !.pc = "remember", !.err = err]
           q   == FinishApply(hot, r.applied)
<1>0. r \in Thread /\ r.pc = "apply" /\ r.applied \in BOOLEAN /\ mu \in Threads \cup {NoThread}
  BY DEF CancelApply, Pc, Inv, Types, Thread
<1>1. /\ th' = [th EXCEPT ![t] = x] /\ hot' = q
      /\ mu' = IF mu = t THEN NoThread ELSE mu
      /\ UNCHANGED <<base, committed, counter, degraded, degradedCount, warm, overLimit, flight, snapshot>>
  BY Zenon DEF CancelApply, store, health, scope
<1>2. x \in Thread /\ x.pc = "remember"
  BY <1>0, ZenonT(30) DEF Thread, Pcs
<1> HIDE DEF x
<1>3. CallOK(x)
  BY <1>2 DEF CallOK, Asking
<1>4. Sound(q) /\ q.ver = hot.ver /\ q.data = hot.data /\ q.tomb = hot.tomb /\ q.watermark = hot.watermark
  BY <1>0, FinishApplySound, SMTT(20) DEF Inv, Payloads
<1> HIDE DEF q
<1>5. Sound(hot') /\ CoveredBy(hot', hot'.watermark) /\ NoUncommittedTruth'
  BY <1>1, <1>4, Zenon DEF Inv, Payloads, CoveredBy, NoUncommittedTruth, Live
<1>6. mu' \in Threads \cup {NoThread}
  BY <1>0, <1>1
<1> QED BY <1>0, <1>1, <1>2, <1>3, <1>5, <1>6, ProjectStep, Zenon

-----------------------------------------------------------------------------
(* The invariant and what follows from it.                                 *)

LEMMA InitInv == Init => Inv
<1> SUFFICES ASSUME Init PROVE Inv
  OBVIOUS
<1>1. \A t \in Threads : th[t] = Idle
  BY DEF Init
<1>2. Types
  <2>4. warm \in BOOLEAN /\ degraded \in BOOLEAN /\ overLimit \in BOOLEAN
    BY Zenon DEF Init
  <2> QED BY SeedTyped, IdleThread, StoreBounds, <2>4 DEF Types, Init
<1>3. Calls
  BY <1>1, IdleThread DEF Calls, Apart
<1>4. Rebuild
  BY <1>1, IdleThread, ThreadsApart DEF Init, Rebuild
<1>5. Payloads
  BY NewPartitionSound DEF NewPartition, Init, NoUncommittedTruth, Live, Payloads
<1> QED BY <1>2, <1>3, <1>4, <1>5 DEF Inv

LEMMA NextInv == Inv /\ [Next]_vars => Inv'
<1> SUFFICES ASSUME Inv, [Next]_vars PROVE Inv'
  BY SMTT(20)
<1>1. CASE UNCHANGED vars
  BY <1>1, Zenon DEF vars, Inv, Types, Calls, CallOK, Apart, Rebuild, SnapshotOK, Payloads, NoUncommittedTruth
<1>2. ASSUME NEW t \in Threads, Begin(t) \/ Step(t)
      PROVE  Inv'
  <2>1. CASE Begin(t)
    BY <2>1, BeginStep
  <2>2. CASE WriteBase(t) \/ Reserve(t) \/ ApplyNext(t) \/ CancelApply(t) \/ Remember(t) \/ Adjust(t)
    BY <2>2, WriteBaseStep, ReserveStep, ApplyStep, CancelStep, RememberStep, AdjustStep, SMTT(20)
  <2>3. CASE GetHot(t) \/ Lookup(t) \/ Missed(t) \/ GetBase(t)
    BY <2>3, GetHotStep, LookupStep, MissedStep, GetBaseStep, SMTT(20)
  <2>4. CASE EnsureWarm(t) \/ CheckLimit(t) \/ Join(t) \/ CountBase(t) \/ Stream(t) \/ Swap(t) \/ Warmed(t) \/ Finish(t)
    BY <2>4, EnsureWarmStep, CheckLimitStep, JoinStep, CountBaseStep, StreamStep, SwapStep, WarmedStep, FinishStep, SMTT(20)
  <2>5. CASE ListHot(t) \/ ListBase(t)
    BY <2>5, ListHotStep, ListBaseStep
  <2> QED BY <1>2, <2>1, <2>2, <2>3, <2>4, <2>5 DEF Step
<1> QED BY <1>1, <1>2 DEF Next

\* The strengthened invariant holds in every reachable state of the store.
THEOREM StoreInvariance == Spec => []Inv
BY InitInv, NextInv, PTL DEF Spec

\* Every variable has its type, and the versions a call applies are versions it
\* has reserved (nextVersion, reserveVersions).
THEOREM StoreTypeCorrect == Spec => []TypeOK
<1>1. Inv => TypeOK
  <2> SUFFICES ASSUME Inv PROVE TypeOK
    OBVIOUS
  <2>2. ASSUME NEW t \in Threads
        PROVE  Pc(t) \in Pcs /\ (Pc(t) = "apply" => Reserved(t) \subseteq 1..counter)
    <3> DEFINE v == th[t].version
               n == Len(th[t].recs)
    <3>1. Pc(t) \in Pcs /\ v \in Nat /\ n \in Nat /\ counter \in Nat
      BY StoreBounds, SMTT(20) DEF Inv, Types, Thread, Pc
    <3>2. Pc(t) = "apply" => v >= 1 /\ v + n - 1 <= counter
      BY DEF Inv, Calls, CallOK, Pc
    <3>3. Pc(t) = "apply" => Reserved(t) = v..(v + n - 1)
      BY DEF Reserved
    <3> HIDE DEF v, n
    <3> QED BY <3>1, <3>2, <3>3
  <2> QED BY <2>2, StoreBounds DEF Inv, Types, TypeOK, Payloads, Sound
<1> QED BY <1>1, StoreInvariance, PTL

\* No two calls ever hold the same version, however many threads race for the
\* counter and however large their batches are (s.version.Add).
THEOREM VersionsCorrect == Spec => []VersionsApart
<1>1. Inv => VersionsApart
  <2> SUFFICES ASSUME Inv, NEW t \in Threads, NEW u \in Threads, t # u
               PROVE  Reserved(t) \cap Reserved(u) = {}
    BY DEF VersionsApart
  <2>1. CASE Pc(t) # "apply" \/ Pc(u) # "apply"
    BY <2>1 DEF Reserved
  <2>2. CASE Pc(t) = "apply" /\ Pc(u) = "apply"
    <3> DEFINE v == th[t].version
               n == Len(th[t].recs)
               w == th[u].version
               m == Len(th[u].recs)
    <3>1. v \in Nat /\ n \in Nat /\ w \in Nat /\ m \in Nat
      BY DEF Inv, Types, Thread
    <3>2. v + n <= w \/ w + m <= v
      BY <2>2 DEF Inv, Calls, Apart, Pc
    <3>3. Reserved(t) = v..(v + n - 1) /\ Reserved(u) = w..(w + m - 1)
      BY <2>2 DEF Reserved
    <3> HIDE DEF v, n, w, m
    <3> QED BY <3>3, <3>1, <3>2
  <2> QED BY <2>1, <2>2
<1> QED BY <1>1, StoreInvariance, PTL

\* However many callers find the scope cold, one of them rebuilds it, and the
\* ones that wait have a leader to wait for (ensureWarm, rebuildSF.Do).
THEOREM RebuildCorrect == Spec => []SingleRebuild
<1>1. Inv => SingleRebuild
  BY DEF Inv, Rebuild, SingleRebuild, Rebuilding, Leading, Pc
<1> QED BY <1>1, StoreInvariance, PTL

\* The partition never holds a payload the base did not commit for that key,
\* whatever writes, repairs and rebuilds race, fail or are cancelled.
THEOREM CommittedCorrect == Spec => []NoUncommittedTruth
<1>1. Inv => NoUncommittedTruth
  BY DEF Inv, Payloads
<1> QED BY <1>1, StoreInvariance, PTL

\* Whatever the store does to its partition (events of calls that interleave,
\* cancelled batches, rebuilds that replace it), the partition keeps its own
\* promises: every tombstone is in the order of eviction, the deduplication
\* window agrees with its fences, the counters with the records and their
\* bytes, and the watermark covers every version.
THEOREM PartitionStaysSound == Spec => [](Sound(hot) /\ CoveredBy(hot, hot.watermark))
<1>1. Inv => Sound(hot) /\ CoveredBy(hot, hot.watermark)
  BY DEF Inv, Payloads
<1> QED BY <1>1, StoreInvariance, PTL

-----------------------------------------------------------------------------
(* The count of degraded scopes.                                           *)

LEMMA AdjustingFinite ==
    ASSUME NEW n
    PROVE  IsFiniteSet(Adjusting(n)) /\ Cardinality(Adjusting(n)) \in Nat
BY ThreadsApart, FS_Subset, FS_CardinalityType DEF Adjusting

\* LoadOrStore and LoadAndDelete: the thread that changes the mark, and no
\* other, takes on the adjustment.
LEMMA MarkHealth ==
    ASSUME Inv, HealthInv, NEW t \in Threads, th[t].pc # "adjust",
           NEW d \in BOOLEAN, NEW then, Mark(t, d, then)
    PROVE  HealthInv'
<1>0. th[t] \in Thread /\ th[t].delta = 0 /\ degraded \in BOOLEAN /\ degradedCount \in Int
  BY DEF Inv, Types, HealthInv
<1>1. CASE degraded = d
  <2> DEFINE x == IF then = "idle" THEN Idle ELSE [th[t] EXCEPT !.pc = then]
  <2>1. th' = [th EXCEPT ![t] = x] /\ UNCHANGED <<degraded, degradedCount>>
    BY <1>1 DEF Mark
  <2>2. x.delta = 0
    BY <1>0 DEF Idle, Thread
  <2> HIDE DEF x
  <2> QED BY <2>1, <2>2, SilentHealth, Zenon DEF Silent
<1>2. CASE degraded # d
  <2> DEFINE n == IF d THEN 1 ELSE -1
             x == [th[t] EXCEPT !.pc = "adjust", !.then = then, !.delta = n]
  <2>1. th' = [th EXCEPT ![t] = x] /\ degraded' = d /\ degradedCount' = degradedCount
    BY <1>2, Zenon DEF Mark
  <2>2. x.delta = n /\ x.pc = "adjust"
    BY <1>0, Zenon DEF Thread
  <2> HIDE DEF x
  <2>3. \A u \in Threads : th'[u] = IF u = t THEN x ELSE th[u]
    BY <2>1, SMTT(20) DEF Inv, Types
  <2>4. \A u \in Threads : th'[u].delta # 0 => th'[u].pc = "adjust"
    BY <2>2, <2>3 DEF HealthInv
  <2>5. /\ t \notin Adjusting(1) /\ t \notin Adjusting(-1)
        /\ IsFiniteSet(Adjusting(1)) /\ Cardinality(Adjusting(1)) \in Nat
        /\ IsFiniteSet(Adjusting(-1)) /\ Cardinality(Adjusting(-1)) \in Nat
    <3>1. t \notin Adjusting(1) /\ t \notin Adjusting(-1)
      BY <1>0 DEF Adjusting
    <3> QED BY <3>1, AdjustingFinite
  <2>6. CASE d
    <3>1. Adjusting(1)' = Adjusting(1) \cup {t} /\ Adjusting(-1)' = Adjusting(-1)
      BY <1>0, <2>2, <2>3, <2>6 DEF Adjusting
    <3>2. Cardinality(Adjusting(1)') = Cardinality(Adjusting(1)) + 1
      BY <2>5, <3>1, FS_AddElement, Zenon
    <3>3. degraded = FALSE /\ degraded' = TRUE
      BY <1>0, <1>2, <2>1, <2>6, Zenon
    <3> QED BY <2>4, <1>0, <2>1, <2>5, <3>1, <3>2, <3>3 DEF HealthInv, HealthCountExact
  <2>7. CASE ~d
    <3>1. Adjusting(-1)' = Adjusting(-1) \cup {t} /\ Adjusting(1)' = Adjusting(1)
      BY <1>0, <2>2, <2>3, <2>7 DEF Adjusting
    <3>2. Cardinality(Adjusting(-1)') = Cardinality(Adjusting(-1)) + 1
      BY <2>5, <3>1, FS_AddElement, Zenon
    <3>4. HealthCountExact'
      BY <1>0, <2>1, <2>5, <3>1, <3>2, <1>2, <2>7 DEF HealthInv, HealthCountExact
    <3> QED BY <2>4, <3>4 DEF HealthInv
  <2> QED BY <2>6, <2>7
<1> QED BY <1>1, <1>2

LEMMA AdjustHealth ==
    ASSUME Inv, HealthInv, NEW t \in Threads, Adjust(t)
    PROVE  HealthInv'
<1> DEFINE n == th[t].delta
           x == IF th[t].then = "idle" THEN Idle
                ELSE [th[t] EXCEPT !.pc = th[t].then, !.then = "idle", !.delta = 0]
<1>0. th[t] \in Thread /\ n \in {-1, 0, 1} /\ degradedCount \in Int
  BY DEF Inv, Types, Thread
<1>1. th' = [th EXCEPT ![t] = x] /\ degraded' = degraded /\ degradedCount' = degradedCount + n
  BY DEF Adjust
<1>2. x.delta = 0
  BY <1>0 DEF Idle, Thread
<1> HIDE DEF x
<1>3. \A u \in Threads : th'[u] = IF u = t THEN x ELSE th[u]
  BY <1>1, SMTT(20) DEF Inv, Types
<1>4. \A u \in Threads : th'[u].delta # 0 => th'[u].pc = "adjust"
  BY <1>2, <1>3 DEF HealthInv
<1>5. /\ IsFiniteSet(Adjusting(1)) /\ Cardinality(Adjusting(1)) \in Nat
      /\ IsFiniteSet(Adjusting(-1)) /\ Cardinality(Adjusting(-1)) \in Nat
  BY AdjustingFinite
<1>6. Adjusting(1)' = Adjusting(1) \ {t} /\ Adjusting(-1)' = Adjusting(-1) \ {t}
  BY <1>2, <1>3 DEF Adjusting
<1>7. Cardinality(Adjusting(1)') = IF n = 1 THEN Cardinality(Adjusting(1)) - 1 ELSE Cardinality(Adjusting(1))
  <2>1. t \in Adjusting(1) <=> n = 1
    BY DEF Adjusting
  <2> QED BY <1>5, <1>6, <2>1, FS_RemoveElement, Zenon
<1>8. Cardinality(Adjusting(-1)') = IF n = -1 THEN Cardinality(Adjusting(-1)) - 1 ELSE Cardinality(Adjusting(-1))
  <2>1. t \in Adjusting(-1) <=> n = -1
    BY DEF Adjusting
  <2> QED BY <1>5, <1>6, <2>1, FS_RemoveElement, Zenon
<1>9. HealthCountExact'
  BY <1>0, <1>1, <1>5, <1>7, <1>8 DEF HealthInv, HealthCountExact
<1> QED BY <1>4, <1>9 DEF HealthInv

LEMMA InitHealth == Init => HealthInv
<1> SUFFICES ASSUME Init PROVE HealthInv
  OBVIOUS
<1>1. \A t \in Threads : th[t].delta = 0
  BY DEF Init, Idle
<1>2. Adjusting(1) = {} /\ Adjusting(-1) = {}
  BY <1>1 DEF Adjusting
<1>5. Cardinality(Adjusting(1)) = 0 /\ Cardinality(Adjusting(-1)) = 0
  BY <1>2, FS_EmptySet
<1>6. HealthCountExact
  BY <1>5 DEF HealthCountExact, Init
<1> QED BY <1>1, <1>6 DEF HealthInv

LEMMA NextHealth ==
    ASSUME Inv, HealthInv, [Next]_vars
    PROVE  HealthInv'
<1>1. CASE UNCHANGED vars
  BY <1>1, SameDeltas DEF vars
<1>2. ASSUME NEW t \in Threads, Begin(t) \/ Step(t)
      PROVE  HealthInv'
  <2>1. ASSUME th[t].pc # "adjust", HealthStep(t) PROVE HealthInv'
    BY <2>1, SilentHealth, MarkHealth DEF HealthStep
  <2>2. CASE Begin(t) \/ WriteBase(t) \/ Reserve(t) \/ ApplyNext(t) \/ CancelApply(t)
    BY <2>1, <2>2, WriteHealth DEF HealthStep
  <2>3. CASE \/ Remember(t) \/ GetHot(t) \/ Lookup(t) \/ Missed(t) \/ GetBase(t)
             \/ EnsureWarm(t) \/ CheckLimit(t) \/ Join(t) \/ ListHot(t) \/ ListBase(t)
    BY <2>1, <2>3, ReadHealth
  <2>4. CASE CountBase(t) \/ Stream(t) \/ Swap(t) \/ Warmed(t)
    BY <2>1, <2>4, RebuildHealth
  <2>5. CASE Adjust(t)
    BY <2>5, AdjustHealth
  <2>6. CASE Finish(t)
    BY <2>6, FinishHealth
  <2> QED BY <1>2, <2>2, <2>3, <2>4, <2>5, <2>6 DEF Step
<1> QED BY <1>1, <1>2 DEF Next

\* The count HermesHealth reports differs from the number of degraded scopes by
\* the adjustments in flight and nothing else, whatever marks race
\* (markDegraded, markHealthy).
THEOREM HealthCorrect == Spec => []HealthCountExact
<1>1. Inv /\ HealthInv /\ [Next]_vars => HealthInv'
  BY NextHealth
<1>2. HealthInv => HealthCountExact
  BY DEF HealthInv
<1> QED BY InitHealth, StoreInvariance, <1>1, <1>2, PTL DEF Spec

-----------------------------------------------------------------------------
(* One caller: reads.                                                      *)

\* The repair of a record the partition does not have.
LEMMA SoloGetBase ==
    ASSUME OneCaller, Inv, SoloInv, NEW t \in Threads, GetBase(t)
    PROVE  SoloInv'
<1>0. /\ ~Faults /\ th[t].pc = "getBase" /\ th[t] \in Thread /\ th \in [Threads -> Thread]
      /\ UNCHANGED <<base, hot, counter, snapshot, degraded, warm>>
  BY CallTypes, Zenon DEF OneCaller, GetBase, store, part, health, scope, Pc
<1>1. PICK k : k = AskedKey(t)
  OBVIOUS
<1>2. k \in Keys
  <2>1. Len(th[t].recs) >= 1 /\ th[t].recs \in Seq(Record)
    BY <1>0, CallTypes DEF CallOK, Asking
  <2>2. th[t].recs[1] \in Record
    BY <2>1
  <2> QED BY <1>1, <2>2 DEF AskedKey, Record
<1>3. CASE Return(t)
  BY <1>0, <1>3, SoloReturn
<1>4. CASE th' = [th EXCEPT ![t].pc = "reserve", ![t].op = "upsert",
                            ![t].recs = <<[key |-> k, data |-> base[k]]>>]
  <2>1. PICK recs : recs = <<[key |-> k, data |-> base[k]]>>
    BY Zenon
  <2>2. Len(recs) = 1 /\ DOMAIN recs = {1} /\ recs[1].key = k /\ recs[1].data = base[k]
    BY <2>1
  <2>4. /\ th'[t].pc = "reserve" /\ th'[t].op = "upsert" /\ th'[t].recs = recs
        /\ th'[t].batch = th[t].batch /\ th'[t].err = th[t].err
    BY <1>0, <1>4, <2>1 DEF Thread
  <2>5. Solo(th[t])
    BY DEF SoloInv
  <2>6. Calm(th[t])'
    BY <1>0, <2>4, <2>5, <2>2 DEF Asking, Solo, Calm
  <2>7. UpTo(th[t]) = counter /\ Pending(th[t]) = {} /\ UpTo(th[t])' = counter /\ Pending(th[t])' = {k}
    BY <1>0, <2>2, <2>4 DEF UpTo, Pending
  <2>10. Owed(th[t])' /\ Seen(th[t])'
    BY <1>0, <2>2, <2>4 DEF Owed, Seen
  <2>11. Counted(th[t])'
    <3>1. Cardinality(BaseKeys) <= counter /\ BaseKeys' = BaseKeys
      BY <1>0, <2>5 DEF Solo, Counted, BaseKeys
    <3>3. Cardinality(BaseKeys) <= counter + 1
      BY <3>1, StoreTypes, FiniteKeys, FS_Subset, FS_CardinalityType DEF BaseKeys
    <3> QED BY <1>0, <2>2, <2>4, <3>1, <3>3, Zenon DEF Counted
  <2>8. Older(UpTo(th[t]))'
    BY <1>0, <2>5, <2>7 DEF Solo, Older
  <2>9. Agree(Keys \ Pending(th[t]))'
    BY <1>0, <2>5, <2>7 DEF Solo, Agree
  <2>12. Solo(th[t])'
    BY <2>6, <2>8, <2>9, <2>10, <2>11, Zenon DEF Solo
  <2> QED BY <1>0, <2>12, SoloThread DEF SoloInv
<1> QED BY <1>0, <1>1, <1>3, <1>4, Zenon DEF GetBase

-----------------------------------------------------------------------------
(* One caller: the rebuild.                                                *)

\* What the leader streams is everything the base holds, and it fits.
LEMMA SoloSnapshot ==
    ASSUME OneCaller, Inv, NEW ver \in [Keys -> 0..Cardinality(Keys)],
           Numbering(ver), Loaded(ver) \subseteq BaseKeys,
           Cardinality(Loaded(ver)) = Min({MaxRecords, Cardinality(BaseKeys)})
    PROVE  LET data == [k \in Keys |-> IF ver[k] > 0 THEN base[k] ELSE NoData]
           IN /\ data = base
              /\ LoadFits(ver, data)
              /\ \A k \in Keys : ver[k] <= Cardinality(BaseKeys)
<1> DEFINE data == [k \in Keys |-> IF ver[k] > 0 THEN base[k] ELSE NoData]
           n == Cardinality(BaseKeys)
<1>0. base \in [Keys -> Data \cup {NoData}] /\ MaxRecords \in Nat
  BY BoundsPositive DEF Inv, Types
<1>1. IsFiniteSet(BaseKeys) /\ n \in Nat /\ n <= Cardinality(Keys) /\ Cardinality(Keys) \in Nat
  BY FiniteKeys, FS_Subset, FS_CardinalityType DEF BaseKeys
<1>2. n <= MaxRecords
  BY <1>0, <1>1 DEF OneCaller
<1>3. Min({MaxRecords, n}) = n
  <2> HIDE DEF n
  <2> QED BY <1>1, <1>2, <1>0 DEF Min
<1>4. Loaded(ver) = BaseKeys
  BY <1>1, <1>3, FS_Subset, Zenon
<1>5. data = base
  BY <1>4, <1>0 DEF Loaded, BaseKeys
<1>6. \A k \in Keys : ver[k] <= n
  BY <1>4, <1>1 DEF Numbering, Loaded
<1>7. LoadFits(ver, base)
  <2>1. TotalBytes(base) \in Nat
    BY <1>0, BytesInFinite, Zenon DEF TotalBytes, BytesIn
  <2> QED BY <1>2, <1>4, <2>1, <1>0, BoundsPositive DEF LoadFits, OneCaller
<1> HIDE DEF data
<1> QED BY <1>5, <1>6, <1>7 DEF data

LEMMA SoloStream ==
    ASSUME OneCaller, Inv, SoloInv, NEW t \in Threads, Stream(t)
    PROVE  SoloInv'
<1>0. ~LeaderFails(t) /\ th[t].pc = "stream" /\ UNCHANGED <<base, hot, counter, warm>> /\ Solo(th[t])
  BY Zenon DEF OneCaller, LeaderFails, Stream, store, part, Pc, SoloInv
<1>1. PICK ver \in [Keys -> 0..Cardinality(Keys)] :
        LET data == [k \in Keys |-> IF ver[k] > 0 THEN base[k] ELSE NoData]
        IN /\ Numbering(ver) /\ Loaded(ver) \subseteq BaseKeys
           /\ Cardinality(Loaded(ver)) = Min({MaxRecords, Cardinality(BaseKeys)})
           /\ IF LoadFits(ver, data)
              THEN /\ snapshot' = [ver |-> ver, data |-> data]
                   /\ Goto(t, "swap") /\ UNCHANGED health
              ELSE MarkDegraded(t, "finishErr") /\ UNCHANGED snapshot
  BY <1>0, Zenon DEF Stream
<1> DEFINE data == [k \in Keys |-> IF ver[k] > 0 THEN base[k] ELSE NoData]
<1>2. data = base /\ LoadFits(ver, data) /\ \A k \in Keys : ver[k] <= Cardinality(BaseKeys)
  BY <1>1, SoloSnapshot, Zenon
<1>3. snapshot' = [ver |-> ver, data |-> data] /\ Goto(t, "swap") /\ UNCHANGED health
  BY <1>1, <1>2
<1> HIDE DEF data
<1>4. snapshot'.ver = ver /\ snapshot'.data = base /\ UNCHANGED degraded
  BY <1>2, <1>3 DEF health
<1>5. /\ th'[t].pc = "swap" /\ th'[t].recs = th[t].recs /\ th'[t].op = th[t].op
      /\ th'[t].batch = th[t].batch /\ th'[t].err = th[t].err
  BY <1>3, GotoFields
<1>6. Calm(th[t])'
  BY <1>0, <1>5 DEF Solo, Calm, Asking
<1>7. /\ UpTo(th[t]) = counter /\ Pending(th[t]) = {}
      /\ UpTo(th[t])' = counter /\ Pending(th[t])' = {}
  BY <1>0, <1>5 DEF UpTo, Pending
<1>p. Older(UpTo(th[t])) /\ Agree(Keys \ Pending(th[t])) /\ Counted(th[t])
  BY <1>0, Zenon DEF Solo
<1>8. Older(UpTo(th[t]))'
  BY <1>0, <1>p, <1>7 DEF Older
<1>9. Agree(Keys \ Pending(th[t]))'
  BY <1>0, <1>p, <1>7 DEF Agree
<1>10. Cardinality(BaseKeys) <= counter /\ BaseKeys' = BaseKeys
  BY <1>0, <1>p DEF Counted, BaseKeys
<1>11. Counted(th[t])' /\ Owed(th[t])'
  BY <1>0, <1>5, <1>10 DEF Counted, Owed
<1>12. Seen(th[t])'
  <2>1. Cardinality(BaseKeys) \in Nat /\ counter \in Nat
    BY StoreTypes, FiniteKeys, FS_Subset, FS_CardinalityType DEF BaseKeys
  <2>3. \A k \in Keys : ver[k] <= counter
    BY <1>2, <1>10, <2>1, FiniteKeys, FS_CardinalityType
  <2> QED BY <1>0, <1>4, <1>5, <2>3 DEF Seen
<1>13. Solo(th[t])'
  BY <1>6, <1>8, <1>9, <1>11, <1>12 DEF Solo
<1> QED BY <1>0, <1>4, <1>13, SoloThread DEF SoloInv

-----------------------------------------------------------------------------
(* One caller: writes.                                                     *)

LEMMA SoloWriteBase ==
    ASSUME OneCaller, Inv, SoloInv, NEW t \in Threads, WriteBase(t)
    PROVE  SoloInv'
<1>1. /\ UNCHANGED <<hot, counter, degraded, warm, snapshot>> /\ th[t].pc = "write"
      /\ base' = Written(base, th[t].op, th[t].recs) /\ Goto(t, "reserve")
  BY Zenon DEF WriteBase, Commit, part, health, scope, OneCaller, Pc
<1>2. /\ th'[t].pc = "reserve" /\ th'[t].recs = th[t].recs /\ th'[t].op = th[t].op
      /\ th'[t].batch = th[t].batch /\ th'[t].err = th[t].err
  BY <1>1, GotoFields, Zenon
<1>3. PICK recs, op : recs = th[t].recs /\ op = th[t].op
  OBVIOUS
<1>4. Calm(th[t]) /\ Older(counter) /\ Agree(Keys) /\ Cardinality(BaseKeys) <= counter
  <2>1. UpTo(th[t]) = counter /\ Pending(th[t]) = {}
    BY <1>1 DEF UpTo, Pending
  <2>2. Keys \ {} = Keys
    OBVIOUS
  <2>3. Solo(th[t])
    BY Zenon DEF SoloInv
  <2> QED BY <1>1, <2>1, <2>2, <2>3 DEF Solo, Counted
<1>5. recs \in Seq(Record) /\ Len(recs) \in Nat /\ Len(recs) >= 1 /\ op \in {"upsert", "delete"}
  BY <1>1, <1>3, CallTypes DEF CallOK
<1>6. op = "upsert" => Len(recs) = 1
  <2>1. op = "upsert" => Len(recs) <= 1
    BY <1>3, <1>4, Zenon DEF Calm
  <2>2. \A n \in Nat : n >= 1 /\ n <= 1 => n = 1
    OBVIOUS
  <2> QED BY <1>5, <2>1, <2>2, Zenon
<1>7. /\ \A i \in DOMAIN recs :
           base'[recs[i].key] = IF op = "upsert" THEN recs[i].data ELSE NoData
      /\ \A k \in Keys : (\A i \in DOMAIN recs : recs[i].key # k) => base'[k] = base[k]
  <2>1. base' = Written(base, op, recs) /\ base \in [Keys -> Data \cup {NoData}]
    BY <1>1, <1>3, StoreTypes
  <2> QED BY <1>5, <1>6, <2>1, WrittenValues
<1>8. /\ UpTo(th[t])' = counter /\ Pending(th[t])' = {recs[i].key : i \in DOMAIN recs}
  BY <1>1, <1>2, <1>3 DEF UpTo, Pending
<1>9. Older(UpTo(th[t]))'
  BY <1>1, <1>4, <1>8, Zenon DEF Older
<1>10. Agree(Keys \ Pending(th[t]))'
  <2>1. ASSUME NEW k \in Keys \ Pending(th[t])' PROVE base'[k] = base[k]
    BY <1>7, <1>8, <2>1
  <2> QED BY <1>1, <1>4, <2>1 DEF Agree
<1>11. Counted(th[t])'
  <2>1. IsFiniteSet(BaseKeys) /\ Cardinality(BaseKeys) \in Nat
    BY FiniteKeys, FS_Subset, FS_CardinalityType DEF BaseKeys
  <2>2. Cardinality(BaseKeys') <= Cardinality(BaseKeys) + Len(recs) /\ Cardinality(BaseKeys') \in Nat
    <3>1. CASE op = "upsert"
      <4>1. DOMAIN recs = {1}
        BY <1>5, <1>6, <3>1
      <4>2. BaseKeys' \subseteq BaseKeys \cup {recs[1].key}
        BY <1>7, <4>1 DEF BaseKeys
      <4>3. /\ IsFiniteSet(BaseKeys \cup {recs[1].key})
            /\ Cardinality(BaseKeys \cup {recs[1].key}) \in {Cardinality(BaseKeys), Cardinality(BaseKeys) + 1}
        BY <2>1, FS_AddElement, Zenon
      <4>4. Cardinality(BaseKeys') <= Cardinality(BaseKeys \cup {recs[1].key}) /\ Cardinality(BaseKeys') \in Nat
        BY <4>2, <4>3, FS_Subset, FS_CardinalityType, Zenon
      <4> QED BY <2>1, <4>3, <4>4, <1>6, <3>1
    <3>2. CASE op = "delete"
      <4>1. BaseKeys' \subseteq BaseKeys
        BY <1>7, <3>2 DEF BaseKeys
      <4>2. Cardinality(BaseKeys') <= Cardinality(BaseKeys) /\ Cardinality(BaseKeys') \in Nat
        BY <2>1, <4>1, FS_Subset, FS_CardinalityType, Zenon
      <4> QED BY <1>5, <2>1, <4>2
    <3> QED BY <1>5, <3>1, <3>2
  <2> QED BY <1>1, <1>2, <1>3, <1>4, <1>5, <2>1, <2>2, StoreTypes DEF Counted
<1>12. Calm(th[t])' /\ Seen(th[t])'
  BY <1>1, <1>2, <1>4 DEF Calm, Asking, Seen
<1>13. Owed(th[t])'
  BY <1>2, <1>3, <1>7, Zenon DEF Owed
<1>14. Solo(th[t])'
  BY <1>9, <1>10, <1>11, <1>12, <1>13, Zenon DEF Solo
<1> QED BY <1>1, <1>14, SoloThread DEF SoloInv

\* The event of a single caller is newer than all the partition has seen, and
\* there is room for it.
LEMMA SoloEventFresh ==
    ASSUME OneCaller, Inv, NEW t \in Threads, th[t].pc = "apply", Solo(th[t])
    PROVE  LET e == EventOf(th[t])
           IN /\ WellFormed(e) /\ e.op \in {"upsert", "delete"}
              /\ e.op = th[t].op /\ e.key = th[t].recs[1].key /\ e.data = th[t].recs[1].data
              /\ e.version = th[t].version /\ e.version > 0
              /\ e.source = <<e.key, e.version>>
              /\ ~AlreadyApplied(hot, e.source, e.version) /\ ~Stale(hot, e.key, e.version)
              /\ e.op = "upsert" => ~OverRecords(hot, e.key) /\ ~OverBytes(hot, e.key, e.data)
<1> DEFINE r == th[t]
           e == EventOf(r)
           k == e.key
           v == e.version
<1>1. WellFormed(e) /\ e.op \in {"upsert", "delete"}
  BY EventSound
<1>2. r.recs \in Seq(Record) /\ Len(r.recs) >= 1 /\ r.version \in Nat /\ r.version >= 1
  BY CallTypes DEF CallOK
<1>3. Head(r.recs) = r.recs[1]
  BY <1>2
<1>4. r.op = "upsert" => ~r.batch
  BY Zenon DEF Solo, Calm
<1>5. /\ e.op = r.op /\ e.key = r.recs[1].key /\ e.data = r.recs[1].data
      /\ e.version = r.version /\ e.source = <<e.key, e.version>>
  BY <1>3, <1>4, Zenon DEF EventOf
<1>7. Older(v - 1)
  <2>1. UpTo(r) = v - 1
    BY <1>5, Zenon DEF UpTo
  <2> QED BY <2>1, Zenon DEF Solo
<1> HIDE DEF e
<1>6. v \in Nat /\ v >= 1 /\ k \in Keys
  BY <1>1, <1>2, <1>5 DEF WellFormed
<1>8. hot \in Partition /\ Sound(hot)
  BY StoreTypes
<1>9. ~Stale(hot, k, v)
  <2>1. hot.ver[k] \in Nat /\ hot.tomb[k] \in Nat
    BY <1>6, <1>8 DEF Partition
  <2>2. hot.ver[k] <= v - 1 /\ hot.tomb[k] <= v - 1
    BY <1>6, <1>7 DEF Older
  <2> QED BY <1>6, <2>1, <2>2 DEF Stale, BlockedByNewerTombstone
<1>10. ~AlreadyApplied(hot, e.source, v)
  <2>2. ~Fenced(hot, e.source, v)
    <3>1. ASSUME NEW f \in Prefixes PROVE ~(v <= hot.fence[f].version)
      BY <1>7, <1>8, <3>1, <1>6 DEF Older, Partition
    <3> QED BY <3>1 DEF Fenced, Scoped
  <2>3. <<k, v>> \notin hot.applied
    <3>1. hot.applied \subseteq Keys \X (0..(v - 1))
      BY <1>7, Zenon DEF Older
    <3>2. v \notin 0..(v - 1)
      BY <1>6
    <3> QED BY <3>1, <3>2
  <2> QED BY <1>5, <2>2, <2>3 DEF AlreadyApplied
<1>11. ~OverRecords(hot, k)
  <2>1. SUFFICES ASSUME hot.ver[k] = 0 PROVE hot.records < MaxRecords
    BY <1>8, BoundsPositive, <2>1 DEF Partition, OverRecords
  <2>3. IsFiniteSet(Keys \ {k}) /\ Cardinality(Keys \ {k}) = Cardinality(Keys) - 1 /\ Cardinality(Keys) \in Nat
    BY <1>6, FiniteKeys, FS_RemoveElement, FS_CardinalityType
  <2>4. Cardinality(Live(hot)) <= Cardinality(Keys \ {k}) /\ Cardinality(Live(hot)) \in Nat
    BY <2>1, <2>3, FS_Subset, FS_CardinalityType DEF Live
  <2> QED BY <2>3, <2>4, <1>8, BoundsPositive DEF Sound, CountersOf, OneCaller
<1>12. e.op = "upsert" => ~OverBytes(hot, k, e.data)
  <2>1. SUFFICES ASSUME e.op = "upsert" PROVE ~OverBytes(hot, k, e.data)
    OBVIOUS
  <2>2. e.data \in Data /\ hot.data \in [Keys -> Data \cup {NoData}] /\ BytesOf(hot)
    BY <1>1, <1>8, <2>1 DEF WellFormed, Partition, Sound
  <2>3. PICK new : new = [hot.data EXCEPT ![k] = e.data]
    BY Zenon
  <2>4. TotalBytes(new) = TotalBytes(hot.data) + Bytes(e.data) - Bytes(hot.data[k])
    BY <1>6, <2>2, <2>3, BytesReplaced
  <2>5. new \in [Keys -> Data \cup {NoData}]
    BY <2>2, <2>3, Zenon
  <2>6. TotalBytes(new) <= MaxBytes /\ TotalBytes(new) \in Nat
    BY <2>5, BytesInFinite, Zenon DEF OneCaller, TotalBytes, BytesIn
  <2> QED BY <2>2, <2>4, <2>6, BoundsPositive DEF OverBytes, BytesOf
<1>13. v > 0
  BY <1>6
<1> QED BY <1>1, <1>5, <1>9, <1>10, <1>11, <1>12, <1>13, Zenon DEF e

LEMMA SoloApplyNext ==
    ASSUME OneCaller, Inv, SoloInv, NEW t \in Threads, ApplyNext(t)
    PROVE  SoloInv'
<1>r. PICK r : r = th[t]
  OBVIOUS
<1> DEFINE e       == EventOf(r)
           a       == ApplyEvent(hot, e)
           applied == r.applied \/ a.state = "applied"
           last    == Len(r.recs) = 1
           err     == IF a.state = "rejected" THEN "limit" ELSE r.err
           k       == r.recs[1].key
           q       == a.part
<1>0. r.pc = "apply" /\ Solo(th[t])
  BY <1>r, Zenon DEF ApplyNext, Pc, SoloInv
<1>1. /\ th' = [th EXCEPT ![t].pc = IF last THEN "remember" ELSE "apply",
                          ![t].recs = Tail(r.recs), ![t].version = r.version + 1,
                          ![t].applied = applied, ![t].err = err]
      /\ hot' = IF last THEN FinishApply(q, applied) ELSE q
      /\ UNCHANGED <<base, counter, degraded, warm, snapshot>>
  BY <1>r, ZenonT(30) DEF ApplyNext, store, health, scope
<1>2. /\ WellFormed(e) /\ e.op \in {"upsert", "delete"}
      /\ e.op = r.op /\ e.key = k /\ e.data = r.recs[1].data
      /\ e.version = r.version /\ e.version > 0 /\ e.source = <<e.key, e.version>>
      /\ ~AlreadyApplied(hot, e.source, e.version) /\ ~Stale(hot, e.key, e.version)
      /\ e.op = "upsert" => ~OverRecords(hot, e.key) /\ ~OverBytes(hot, e.key, e.data)
  BY <1>r, <1>0, SoloEventFresh, Zenon
<1> HIDE DEF e
<1>3. /\ a.state = "applied"
      /\ q.ver = [hot.ver EXCEPT ![e.key] = IF e.op = "upsert" THEN e.version ELSE 0]
      /\ q.data = [hot.data EXCEPT ![e.key] = IF e.op = "upsert" THEN e.data ELSE NoData]
      /\ \A j \in Keys : q.tomb[j] \in {hot.tomb[j], 0, e.version}
      /\ q.applied \subseteq hot.applied \cup {e.source}
      /\ \A f \in Prefixes : q.fence[f].version \in {hot.fence[f].version, 0, e.version}
  BY <1>2, StoreTypes, FreshEventApplied, Zenon
<1>4. Sound(q)
  <2>1. Sound(hot) /\ CoveredBy(hot, hot.watermark)
    BY Zenon DEF Inv, Payloads
  <2> QED BY <1>2, <2>1, ApplyEventSound, Zenon
<1> HIDE DEF a
<1>5. err = r.err
  BY <1>3
<1> HIDE DEF applied, err
<1>6. /\ hot'.ver = q.ver /\ hot'.data = q.data /\ hot'.tomb = q.tomb
      /\ hot'.applied = q.applied /\ hot'.fence = q.fence /\ Sound(hot')
  <2>1. CASE last
    <3>3. q \in Partition
      BY <1>4 DEF Sound
    <3> QED BY <1>4, FinishApplySound, <3>3, <1>1, <2>1, Zenon DEF Partition, applied,
               FinishApply
  <2>2. CASE ~last
    BY <1>1, <1>4, <2>2, Zenon
  <2> QED BY <2>1, <2>2
<1>7. /\ hot'.ver = [hot.ver EXCEPT ![k] = IF r.op = "upsert" THEN r.version ELSE 0]
      /\ hot'.data = [hot.data EXCEPT ![k] = IF r.op = "upsert" THEN r.recs[1].data ELSE NoData]
      /\ hot'.applied \subseteq hot.applied \cup {<<k, r.version>>}
  BY <1>2, <1>3, <1>6, Zenon
<1>8. /\ \A j \in Keys : hot'.tomb[j] \in {hot.tomb[j], 0, r.version}
      /\ \A f \in Prefixes : hot'.fence[f].version \in {hot.fence[f].version, 0, r.version}
  BY <1>2, <1>3, <1>6, Zenon
<1>9. Landed(t, r, k, applied)
  BY <1>1, <1>5, <1>6, <1>7, <1>8, Zenon DEF Landed
<1> QED BY <1>r, <1>0, <1>1, <1>9, SoloApplied, Zenon

-----------------------------------------------------------------------------
(* One caller: what the store answers.                                     *)

LEMMA SoloInit ==
    ASSUME OneCaller, Init
    PROVE  SoloInv
<1>1. ~degraded
  BY Zenon DEF Init
<1>2. /\ \A k \in Keys : hot.ver[k] = 0 /\ hot.data[k] = NoData /\ hot.tomb[k] = 0
      /\ hot.applied = {} /\ \A f \in Prefixes : hot.fence[f].version = 0
  BY DEF Init, NewPartition, NoFence
<1>3. \A k \in Keys : base[k] = NoData
  BY DEF Init, OneCaller
<1>4. counter = 0 /\ Cardinality(BaseKeys) = 0
  BY <1>3, FS_EmptySet, Zenon DEF BaseKeys, Init
<1>5. ASSUME NEW t \in Threads PROVE Solo(th[t])
  <2>1. th[t] = Idle
    BY DEF Init
  <2>2. UpTo(th[t]) = 0 /\ Counted(th[t])
    BY <1>4, <2>1 DEF UpTo, Counted, Idle
  <2>3. Older(0)
    BY <1>2 DEF Older
  <2>4. Agree(Keys \ Pending(th[t]))
    BY <1>2, <1>3, Zenon DEF Agree
  <2>5. Calm(th[t]) /\ Owed(th[t]) /\ Seen(th[t])
    BY <2>1 DEF Calm, Asking, Owed, Seen, Idle
  <2> QED BY <2>2, <2>3, <2>4, <2>5, Zenon DEF Solo
<1> QED BY <1>1, <1>2, <1>5 DEF SoloInv

LEMMA SoloNext ==
    ASSUME OneCaller, Inv, SoloInv, [Next]_vars
    PROVE  SoloInv'
<1>1. CASE UNCHANGED vars
  <2>1. UNCHANGED <<base, hot, counter, warm, degraded, snapshot, th>>
    BY <1>1 DEF vars
  <2>2. ASSUME NEW t \in Threads PROVE Solo(th[t])'
    <3>1. Solo(th[t])
      BY DEF SoloInv
    <3>2. UpTo(th[t])' = UpTo(th[t]) /\ Pending(th[t])' = Pending(th[t]) /\ BaseKeys' = BaseKeys
      BY <2>1 DEF UpTo, Pending, BaseKeys
    <3>3. Calm(th[t])' /\ Owed(th[t])' /\ Seen(th[t])'
      BY <2>1, <3>1, Zenon DEF Solo, Calm, Asking, Owed, Seen
    <3>4. Older(UpTo(th[t]))'
      BY <2>1, <3>1, <3>2, Zenon DEF Solo, Older
    <3>5. Agree(Keys \ Pending(th[t]))' /\ Counted(th[t])'
      BY <2>1, <3>1, <3>2, Zenon DEF Solo, Agree, Counted
    <3> QED BY <3>3, <3>4, <3>5, Zenon DEF Solo
  <2> QED BY <2>1, <2>2 DEF SoloInv
<1>2. ASSUME NEW t \in Threads, Begin(t) \/ Step(t)
      PROVE  SoloInv'
  <2>1. ~CancelApply(t) /\ ~Adjust(t)
    BY Zenon DEF OneCaller, CancelApply, Adjust, Pc, SoloInv, Solo, Calm
  <2>2. CASE Begin(t) \/ WriteBase(t) \/ Reserve(t) \/ ApplyNext(t) \/ Remember(t)
    BY <2>2, SoloBegin, SoloWriteBase, SoloReserve, SoloApplyNext, SoloRemember, Zenon
  <2>3. CASE GetHot(t) \/ Lookup(t) \/ Missed(t) \/ GetBase(t)
    BY <2>3, SoloGet, SoloGetBase
  <2>4. CASE \/ EnsureWarm(t) \/ CheckLimit(t) \/ Join(t) \/ CountBase(t) \/ ListHot(t) \/ ListBase(t)
             \/ Finish(t)
    BY <2>4, SoloWarm, SoloFinish
  <2>5. CASE Stream(t) \/ Swap(t) \/ Warmed(t)
    BY <2>5, SoloStream, SoloSwap, SoloWarmed
  <2> QED BY <1>2, <2>1, <2>2, <2>3, <2>4, <2>5 DEF Step
<1> QED BY <1>1, <1>2 DEF Next

LEMMA SoloInvariance ==
    ASSUME OneCaller
    PROVE  Spec => []SoloInv
<1>1. Init => SoloInv
  BY SoloInit
<1>2. Inv /\ SoloInv /\ [Next]_vars => SoloInv'
  BY SoloNext
<1> QED BY <1>1, <1>2, StoreInvariance, PTL DEF Spec

\* A single caller of a store that booted empty and has room for its records
\* never leaves partition and base apart: once no call is running, what the
\* partition answers, a miss in a warm scope included, is what the base holds
\* (ProjectedRuntimeStore).
THEOREM SequentialReads ==
    ASSUME OneCaller
    PROVE  Spec => []SettledReadsAgree
<1>1. Inv /\ SoloInv => SettledReadsAgree
  <2> SUFFICES ASSUME Inv, SoloInv, Settled, NEW k \in Keys, k \in Live(hot) \/ warm
               PROVE  hot.data[k] = base[k]
    BY DEF SettledReadsAgree
  <2>1. PICK t \in Threads : Solo(th[t])
    BY DEF OneCaller, SoloInv
  <2> QED BY <2>1 DEF Agree, Live, Solo, Settled, Pc, Pending
<1> QED BY <1>1, SoloInvariance, StoreInvariance, PTL

\* To a single caller the projected store is one copy of the records: every
\* read, from the partition or from the base, answers with what the last
\* writes left (ProjectedRuntimeStore's promise to its callers).
THEOREM SequentialRefines ==
    ASSUME OneCaller
    PROVE  Spec => ImplementsRecordStore
<1>1. Init => Abstract!Init
  BY InitInv DEF Abstract!Init, Init, Inv, Types
<1>2. Inv /\ Inv' /\ SoloInv /\ [Next]_vars => [Abstract!Next]_(Abstract!vars)
  <2> SUFFICES ASSUME Inv, Inv', SoloInv, [Next]_vars
               PROVE  [Abstract!Next]_(Abstract!vars)
    OBVIOUS
  <2>1. CASE UNCHANGED vars
    BY <2>1 DEF vars, Abstract!vars
  <2>2. ASSUME NEW t \in Threads, Begin(t) \/ Step(t)
        PROVE  Abstract!Next
    <3>2. CASE UNCHANGED reply
      BY <3>2 DEF Abstract!Next, Abstract!Write, Inv, Types
    <3>3. CASE UNCHANGED base /\ \E asked \in SUBSET Keys : reply' = [k \in asked |-> base[k]]
      BY <3>3 DEF Abstract!Next, Abstract!Read
    <3> QED BY <2>2, <3>2, <3>3, SoloAnswers
  <2> QED BY <2>1, <2>2 DEF Next
<1>3. Spec => []Inv /\ []SoloInv
  BY StoreInvariance, SoloInvariance, PTL
<1> QED BY <1>1, <1>2, <1>3, PTL DEF Spec, ImplementsRecordStore, Abstract!Spec
=============================================================================
