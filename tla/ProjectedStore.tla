--------------------------- MODULE ProjectedStore ---------------------------
(***************************************************************************)
(* ProjectedRuntimeStore (server-kit/go/hermes/state_store.go): a durable  *)
(* base store with a Hermes partition in front of it, for one scope.       *)
(* Writes commit to the base and are then projected; reads are answered by *)
(* the partition when the scope is warm and healthy, and otherwise fall    *)
(* back to the base and repair or rebuild the partition.                   *)
(*                                                                         *)
(* Threads are the goroutines that call the store; a step of a thread ends *)
(* at its next access to state another thread can change.  The partition   *)
(* is the one of HermesApply; an apply call holds its mutex over all its   *)
(* events, and readers do not take it.                                     *)
(***************************************************************************)
EXTENDS HermesApply, FiniteSetsExt

CONSTANTS
    Threads, NoThread,
    Seed,         \* base contents when the process boots
    Requests(_),  \* the calls a thread may make
    Faults,       \* whether base calls fail and contexts are cancelled
    MaxVersion,   \* model bound: versions the process assigns
    MaxEpoch      \* model bound: publications of the partition

ASSUME SeedTyped == Seed \in [Keys -> Data \cup {NoData}]
ASSUME ThreadsApart == NoThread \notin Threads /\ IsFiniteSet(Threads)
ASSUME StoreBounds == Faults \in BOOLEAN /\ MaxVersion \in Nat /\ MaxEpoch \in Nat

Record == [key : Keys, data : Data \cup {NoData}]

\* A get asks for one record, a list for none; a write carries at least one.
ASSUME RequestsWellFormed ==
    \A t \in Threads : \A r \in Requests(t) :
      /\ r \in [op : {"upsert", "delete", "get", "list"}, recs : Seq(Record)]
      /\ r.op \in {"upsert", "delete", "get"} => Len(r.recs) >= 1
      /\ r.op = "upsert" => \A i \in DOMAIN r.recs : r.recs[i].data \in Data

\* A source identifier names a record and a version.
ASSUME SourcesCover == Keys \X (0..MaxVersion) \subseteq Sources

VARIABLES
    base,           \* the records the base store holds
    committed,      \* history: every payload each key ever had in the base
    hot,            \* the partition
    mu,             \* who holds the partition's mutex
    counter,        \* s.version
    warm,           \* the scope is in s.warm
    degraded,       \* the scope is in s.degraded
    degradedCount,  \* s.degradedCount
    overLimit,      \* the scope is in s.overLimit
    flight,         \* the leader of the rebuild in rebuildSF
    snapshot,       \* what the rebuild has read
    reply,          \* the answer to the last read
    th              \* per thread: program counter and locals

vars == <<base, committed, hot, mu, counter, warm, degraded, degradedCount, overLimit,
          flight, snapshot, reply, th>>

health == <<degraded, degradedCount>>
scope == <<warm, overLimit, flight, snapshot>>
store == <<base, committed>>
part == <<hot, mu>>

\* A request: an operation and the records it carries.
Request(op, recs) == [op |-> op, recs |-> recs]

Idle == [pc |-> "idle", op |-> "none", recs |-> <<>>, batch |-> FALSE,
         version |-> 0, applied |-> FALSE, err |-> "none", delta |-> 0, then |-> "idle"]

Pc(t) == th[t].pc

Goto(t, pc) == th' = [th EXCEPT ![t].pc = pc]

Return(t) == th' = [th EXCEPT ![t] = Idle]

AskedKey(t) == th[t].recs[1].key

NoSnapshot == [ver |-> [k \in Keys |-> 0], data |-> [k \in Keys |-> NoData]]

Init ==
    /\ base = Seed
    /\ committed = [k \in Keys |-> {Seed[k]} \ {NoData}]
    /\ hot = NewPartition
    /\ mu = NoThread
    /\ counter = 0
    /\ warm = FALSE
    /\ degraded = FALSE
    /\ degradedCount = 0
    /\ overLimit = FALSE
    /\ flight = NoThread
    /\ snapshot = NoSnapshot
    /\ reply = <<>>
    /\ th = [t \in Threads |-> Idle]

Begin(t) ==
    /\ Pc(t) = "idle"
    /\ hot.epoch < MaxEpoch
    /\ \E r \in Requests(t) :
         /\ counter + MapThenSumSet(LAMBDA u : Len(th[u].recs), Threads) + Len(r.recs) <= MaxVersion
         /\ th' = [th EXCEPT ![t] = [Idle EXCEPT
                  !.pc = CASE r.op \in {"upsert", "delete"} -> "write"
                           [] r.op = "get"  -> "get"
                           [] r.op = "list" -> "warm",
                  !.op = r.op, !.recs = r.recs, !.batch = Len(r.recs) > 1]]
    /\ UNCHANGED <<store, part, counter, health, scope, reply>>

-----------------------------------------------------------------------------
(* Health of the scope.                                                    *)

\* Mutation: Store and Delete, which count a mark that is already there.
MarkRepeatedly(t, d, then) ==
    /\ degraded' = d
    /\ th' = [th EXCEPT ![t].pc = "adjust", ![t].then = then, ![t].delta = IF d THEN 1 ELSE -1]
    /\ UNCHANGED degradedCount

\* LoadOrStore / LoadAndDelete decide whether the count is to be adjusted,
\* which is a second step.
Mark(t, d, then) ==
    /\ degraded' = d
    /\ th' = IF degraded = d
             THEN [th EXCEPT ![t] = IF then = "idle" THEN Idle ELSE [@ EXCEPT !.pc = then]]
             ELSE [th EXCEPT ![t].pc = "adjust", ![t].then = then,
                             ![t].delta = IF d THEN 1 ELSE -1]
    /\ UNCHANGED degradedCount

MarkDegraded(t, then) == Mark(t, TRUE, then)

MarkHealthy(t, then) == Mark(t, FALSE, then)

Adjust(t) ==
    /\ Pc(t) = "adjust"
    /\ degradedCount' = degradedCount + th[t].delta
    /\ th' = [th EXCEPT ![t] = IF @.then = "idle" THEN Idle
                               ELSE [@ EXCEPT !.pc = th[t].then, !.then = "idle", !.delta = 0]]
    /\ UNCHANGED <<store, part, counter, degraded, scope, reply>>

-----------------------------------------------------------------------------
(* Writes.                                                                 *)

\* The last record of a key decides.
Written(b, op, recs) ==
    [k \in Keys |->
       LET at == {i \in DOMAIN recs : recs[i].key = k}
       IN IF at = {} THEN b[k] ELSE IF op = "delete" THEN NoData ELSE recs[Max(at)].data]

Commit(op, recs) ==
    /\ base' = Written(base, op, recs)
    /\ committed' = [k \in Keys |-> committed[k] \cup
                        {recs[i].data : i \in {j \in DOMAIN recs : op = "upsert" /\ recs[j].key = k}}]

\* Mutation: the base deletes and the partition is not told.
WriteBaseOnly(t) ==
    /\ Pc(t) = "write"
    /\ Commit(th[t].op, th[t].recs)
    /\ IF th[t].op = "delete" THEN Return(t) ELSE Goto(t, "reserve")
    /\ UNCHANGED <<part, counter, health, scope, reply>>

\* Mutation: a failed base write is projected all the same.
WriteBaseUnchecked(t) ==
    /\ Pc(t) = "write"
    /\ \/ Commit(th[t].op, th[t].recs)
       \/ Faults /\ UNCHANGED store
    /\ Goto(t, "reserve")
    /\ UNCHANGED <<part, counter, health, scope, reply>>

\* A base store without batching may fail after a prefix of the records; what
\* it wrote is then not projected.
WriteBase(t) ==
    /\ Pc(t) = "write"
    /\ \/ Commit(th[t].op, th[t].recs) /\ Goto(t, "reserve")
       \/ /\ Faults
          /\ \E n \in 0..(Len(th[t].recs) - 1) : Commit(th[t].op, SubSeq(th[t].recs, 1, n))
          /\ Return(t)
    /\ UNCHANGED <<part, counter, health, scope, reply>>

\* s.version.Add(n): the call's versions run from first.  Begin leaves room for
\* every call it admits, so the bound never stops a call here.
ReserveRun(t, n, first) ==
    /\ Pc(t) = "reserve"
    /\ counter + n <= MaxVersion
    /\ counter' = counter + n
    /\ th' = [th EXCEPT ![t].pc = "apply", ![t].version = first]
    /\ UNCHANGED <<store, part, health, scope, reply>>

\* Mutations: the counter is read and not advanced; a batch advances it by one;
\* the first version is computed without taking the count off again.
ReserveNothing(t) == ReserveRun(t, 0, counter + 1)
ReserveOne(t) == ReserveRun(t, 1, counter + 1)
ReserveBeyond(t) == ReserveRun(t, Len(th[t].recs), counter + Len(th[t].recs) + 1)

Reserve(t) == ReserveRun(t, Len(th[t].recs), counter + 1)

\* The event for the next record of a call.  A source identifier names the
\* record and the version, except in a batch of upserts, where it names the
\* record only; all of them have the prefix "state".
EventOf(r) ==
    LET rec == Head(r.recs)
    IN [op |-> r.op, key |-> rec.key, data |-> rec.data, version |-> r.version,
        source |-> <<rec.key, IF r.op = "upsert" /\ r.batch THEN 0 ELSE r.version>>]

\* One event of an apply call.  A rejected event is reported and does not stop
\* the batch; the last one publishes the batch and releases the mutex.
ApplyNext(t) ==
    /\ Pc(t) = "apply" /\ mu \in {NoThread, t}
    /\ LET r       == ApplyEvent(hot, EventOf(th[t]))
           applied == th[t].applied \/ r.state = "applied"
           last    == Len(th[t].recs) = 1
       IN /\ hot' = IF last THEN FinishApply(r.part, applied) ELSE r.part
          /\ mu' = IF last THEN NoThread ELSE t
          /\ th' = [th EXCEPT
                      ![t].pc = IF last THEN "remember" ELSE "apply",
                      ![t].recs = Tail(@), ![t].version = @ + 1, ![t].applied = applied,
                      ![t].err = IF r.state = "rejected" THEN "limit" ELSE @]
    /\ UNCHANGED <<store, counter, health, scope, reply>>

\* The context is cancelled before the call takes the mutex or before an
\* event: what was applied is published.  The error still matches
\* ErrProjectionLimit if an earlier event did.
CancelApply(t) ==
    /\ Faults
    /\ Pc(t) = "apply"
    /\ hot' = FinishApply(hot, th[t].applied)
    /\ mu' = IF mu = t THEN NoThread ELSE mu
    /\ th' = [th EXCEPT ![t].pc = "remember",
                        ![t].err = IF @ = "limit" THEN "limit" ELSE "failed"]
    /\ UNCHANGED <<store, counter, health, scope, reply>>

\* rememberProjectionResult: a projection at its limit is left as it is.
Remember(t) ==
    /\ Pc(t) = "remember"
    /\ CASE th[t].err = "limit"  -> Return(t) /\ UNCHANGED health
         [] th[t].err = "failed" -> MarkDegraded(t, "idle")
         [] th[t].err = "none"   -> MarkHealthy(t, "idle")
    /\ UNCHANGED <<store, part, counter, scope, reply>>

-----------------------------------------------------------------------------
(* GetRecord.                                                              *)

\* getHot: a degraded scope is not consulted.
GetHot(t) ==
    /\ Pc(t) = "get"
    /\ Goto(t, IF degraded THEN "getBase" ELSE "lookup")
    /\ UNCHANGED <<store, part, counter, health, scope, reply>>

\* The lookup answers, misses, or fails on a cancelled context.
Lookup(t) ==
    /\ Pc(t) = "lookup"
    /\ LET k == AskedKey(t)
       IN \/ /\ k \in Live(hot)
             /\ reply' = [x \in {k} |-> hot.data[k]]
             /\ Return(t)
             /\ UNCHANGED health
          \/ /\ k \notin Live(hot)
             /\ Goto(t, "missed")
             /\ UNCHANGED <<health, reply>>
          \/ /\ Faults
             /\ MarkDegraded(t, "getBase")
             /\ UNCHANGED reply
    /\ UNCHANGED <<store, part, counter, scope>>

\* A miss in a warm scope is the answer.
Missed(t) ==
    /\ Pc(t) = "missed"
    /\ IF warm
       THEN Return(t) /\ reply' = [x \in {AskedKey(t)} |-> NoData]
       ELSE Goto(t, "getBase") /\ UNCHANGED reply
    /\ UNCHANGED <<store, part, counter, health, scope>>

\* The base answers, and a record it has is projected like a write.
GetBase(t) ==
    /\ Pc(t) = "getBase"
    /\ LET k == AskedKey(t)
       IN \/ /\ reply' = [x \in {k} |-> base[k]]
             /\ IF base[k] = NoData
                THEN Return(t)
                ELSE th' = [th EXCEPT ![t].pc = "reserve", ![t].op = "upsert",
                                      ![t].recs = <<[key |-> k, data |-> base[k]]>>]
          \/ Faults /\ Return(t) /\ UNCHANGED reply
    /\ UNCHANGED <<store, part, counter, health, scope>>

-----------------------------------------------------------------------------
(* ForEachRecord and CountRecords, and the warming of the scope.           *)

\* ensureWarm: a warm and healthy scope needs nothing.
EnsureWarm(t) ==
    /\ Pc(t) = "warm"
    /\ Goto(t, IF warm /\ ~degraded THEN "list" ELSE "limit")
    /\ UNCHANGED <<store, part, counter, health, scope, reply>>

\* overLimitUntil: the mark holds until its retry interval has passed.
CheckLimit(t) ==
    /\ Pc(t) = "limit"
    /\ \/ overLimit /\ Goto(t, "listBase") /\ UNCHANGED overLimit
       \/ overLimit' = FALSE /\ Goto(t, "join")
    /\ UNCHANGED <<store, part, counter, health, warm, flight, snapshot, reply>>

\* Mutation: no singleflight, every caller rebuilds.
JoinAlone(t) ==
    /\ Pc(t) = "join"
    /\ flight' = t /\ Goto(t, "lead")
    /\ UNCHANGED <<store, part, counter, health, warm, overLimit, snapshot, reply>>

\* rebuildSF.Do: the first caller leads, the others wait for its result.
Join(t) ==
    /\ Pc(t) = "join"
    /\ IF flight = NoThread
       THEN flight' = t /\ Goto(t, "lead")
       ELSE UNCHANGED flight /\ Goto(t, "wait")
    /\ UNCHANGED <<store, part, counter, health, warm, overLimit, snapshot, reply>>

\* Mutation: the callers that wait are not released.
FinishAlone(t) ==
    /\ Pc(t) \in {"finishOk", "finishErr"}
    /\ flight' = NoThread
    /\ Goto(t, IF Pc(t) = "finishOk" THEN "list" ELSE "listBase")
    /\ UNCHANGED <<store, part, counter, health, warm, overLimit, snapshot, reply>>

\* The leader's result is every waiter's result.
Finish(t) ==
    /\ Pc(t) \in {"finishOk", "finishErr"}
    /\ flight' = NoThread
    /\ th' = [u \in Threads |->
                IF u = t \/ Pc(u) = "wait"
                THEN [th[u] EXCEPT !.pc = IF Pc(t) = "finishOk" THEN "list" ELSE "listBase"]
                ELSE th[u]]
    /\ UNCHANGED <<store, part, counter, health, warm, overLimit, snapshot, reply>>

BaseKeys == {k \in Keys : base[k] # NoData}

\* A failed base call of the leader: a cancellation of its context is not a
\* fault of the scope, any other error is.
LeaderFails(t) ==
    /\ Faults
    /\ \/ MarkDegraded(t, "finishErr")
       \/ Goto(t, "finishErr") /\ UNCHANGED health

\* The leader checks again, and counts the records.
CountBase(t) ==
    /\ Pc(t) = "lead"
    /\ \/ /\ warm /\ ~degraded
          /\ Goto(t, "finishOk")
          /\ UNCHANGED <<health, overLimit>>
       \/ /\ ~(warm /\ ~degraded)
          /\ IF Cardinality(BaseKeys) > MaxRecords
             THEN overLimit' = TRUE /\ Goto(t, "finishErr")
             ELSE UNCHANGED overLimit /\ Goto(t, "stream")
          /\ UNCHANGED health
       \/ /\ ~(warm /\ ~degraded)
          /\ LeaderFails(t)
          /\ UNCHANGED overLimit
    /\ UNCHANGED <<store, part, counter, warm, flight, snapshot, reply>>

\* Rebuild streams the base, at most MaxRecords records of it, into a new
\* partition outside the mutex; a stream that does not fit is an error.
Stream(t) ==
    /\ Pc(t) = "stream"
    /\ \/ \E ver \in [Keys -> 0..Cardinality(Keys)] :
            LET data == [k \in Keys |-> IF ver[k] > 0 THEN base[k] ELSE NoData]
            IN /\ Numbering(ver) /\ Loaded(ver) \subseteq BaseKeys
               /\ Cardinality(Loaded(ver)) = Min({MaxRecords, Cardinality(BaseKeys)})
               /\ IF LoadFits(ver, data)
                  THEN /\ snapshot' = [ver |-> ver, data |-> data]
                       /\ Goto(t, "swap") /\ UNCHANGED health
                  ELSE MarkDegraded(t, "finishErr") /\ UNCHANGED snapshot
       \/ LeaderFails(t) /\ UNCHANGED snapshot
    /\ UNCHANGED <<store, part, counter, warm, overLimit, flight, reply>>

Swap(t) ==
    /\ Pc(t) = "swap" /\ mu = NoThread
    /\ hot' = BulkLoad(hot, snapshot.ver, snapshot.data)
    /\ snapshot' = NoSnapshot
    /\ Goto(t, "warmed")
    /\ UNCHANGED <<store, mu, counter, health, warm, overLimit, flight, reply>>

Warmed(t) ==
    /\ Pc(t) = "warmed"
    /\ warm' = TRUE
    /\ overLimit' = FALSE
    /\ MarkHealthy(t, "finishOk")
    /\ UNCHANGED <<store, part, counter, flight, snapshot, reply>>

ListHot(t) ==
    /\ Pc(t) = "list"
    /\ \/ /\ reply' = hot.data
          /\ Return(t)
          /\ UNCHANGED health
       \/ /\ Faults
          /\ MarkDegraded(t, "listBase")
          /\ UNCHANGED reply
    /\ UNCHANGED <<store, part, counter, scope>>

ListBase(t) ==
    /\ Pc(t) = "listBase"
    /\ reply' = base \/ (Faults /\ UNCHANGED reply)
    /\ Return(t)
    /\ UNCHANGED <<store, part, counter, health, scope>>

-----------------------------------------------------------------------------

Step(t) ==
    \/ WriteBase(t) \/ Reserve(t) \/ ApplyNext(t) \/ CancelApply(t) \/ Remember(t) \/ Adjust(t)
    \/ GetHot(t) \/ Lookup(t) \/ Missed(t) \/ GetBase(t)
    \/ EnsureWarm(t) \/ CheckLimit(t) \/ Join(t) \/ CountBase(t) \/ Stream(t) \/ Swap(t) \/ Warmed(t) \/ Finish(t)
    \/ ListHot(t) \/ ListBase(t)

Next == \E t \in Threads : Begin(t) \/ Step(t)

Spec == Init /\ [][Next]_vars

\* The Go scheduler runs every goroutine that can run.
FairSpec == Spec /\ \A t \in Threads : WF_vars(Step(t))

-----------------------------------------------------------------------------
(* Properties.                                                             *)

Pcs == {"idle", "write", "reserve", "apply", "remember", "adjust",
        "get", "lookup", "missed", "getBase",
        "warm", "limit", "join", "wait", "lead", "stream", "swap", "warmed", "finishOk", "finishErr",
        "list", "listBase"}

\* The versions a call has reserved and not yet applied.
Reserved(t) ==
    IF Pc(t) = "apply" THEN th[t].version..(th[t].version + Len(th[t].recs) - 1) ELSE {}

Rebuilding(t) ==
    \/ Pc(t) \in {"lead", "stream", "swap", "warmed", "finishOk", "finishErr"}
    \/ Pc(t) = "adjust" /\ th[t].then \in {"finishOk", "finishErr"}

\* Every variable has its type, and the versions a call is about to apply are
\* versions it has reserved.
TypeOK ==
    /\ base \in [Keys -> Data \cup {NoData}]
    /\ committed \in [Keys -> SUBSET Data]
    /\ hot \in Partition /\ mu \in Threads \cup {NoThread}
    /\ counter \in Nat /\ degradedCount \in Int
    /\ {warm, degraded, overLimit} \subseteq BOOLEAN
    /\ flight \in Threads \cup {NoThread}
    /\ \A t \in Threads :
         /\ Pc(t) \in Pcs
         /\ Pc(t) = "apply" => Reserved(t) \subseteq 1..counter

\* No two calls hold the same version, whatever batches race for the counter
\* (s.version.Add): a version identifies one write.
VersionsApart ==
    \A t, u \in Threads : t # u => Reserved(t) \cap Reserved(u) = {}

\* ensureWarm rebuilds a scope once at a time: the thread that counts, streams,
\* swaps or reports is the one leader, and whoever waits, waits for a leader.
SingleRebuild ==
    /\ \A t \in Threads : Rebuilding(t) <=> flight = t
    /\ (\E t \in Threads : Pc(t) = "wait") => flight # NoThread

\* HermesNoUncommittedTruth (hermes_hotplane.md): the partition holds no
\* payload that the base did not commit for that key, whatever writes, repairs
\* and rebuilds race or fail.
NoUncommittedTruth ==
    \A k \in Live(hot) : hot.data[k] \in committed[k]

\* The threads that are about to add n to the count.
Adjusting(n) == {t \in Threads : th[t].delta = n}

\* The count HermesHealth reports is the number of degraded scopes, up to the
\* adjustments still to be made: no race of markDegraded and markHealthy makes
\* it drift.
HealthCountExact ==
    degradedCount + Cardinality(Adjusting(1)) - Cardinality(Adjusting(-1))
        = IF degraded THEN 1 ELSE 0

\* A settled scope: no call is running.
Settled == \A t \in Threads : Pc(t) = "idle"

\* "Hermes may be stale only inside a documented freshness window"
\* (hermes_hotplane.md): once no call is running, a record the partition would
\* answer with is the one the base holds, and so is an authoritative miss.
SettledReadsAgree ==
    Settled /\ ~degraded =>
        \A k \in Keys : k \in Live(hot) \/ warm => hot.data[k] = base[k]

\* Every call returns: no failure of a rebuild leaves its leader or the callers
\* that wait on it behind (rebuildSF in ensureWarm).
CallsReturn == \A t \in Threads : Pc(t) # "idle" ~> Pc(t) = "idle"

\* One caller of a scope that boots empty, with room for every record, no
\* faults, and no upserts in batches.
OneCaller ==
    /\ Threads # {} /\ \A t, u \in Threads : t = u
    /\ ~Faults
    /\ \A k \in Keys : Seed[k] = NoData
    /\ Cardinality(Keys) <= MaxRecords
    /\ \A data \in [Keys -> Data \cup {NoData}] : TotalBytes(data) <= MaxBytes
    /\ \A t \in Threads : \A r \in Requests(t) : r.op \in {"upsert", "get"} => Len(r.recs) = 1

\* A single caller sees one copy of the records: the store implements
\* RecordStore, with the base as the copy.
Abstract == INSTANCE RecordStore WITH store <- base

ImplementsRecordStore == Abstract!Spec
=============================================================================
