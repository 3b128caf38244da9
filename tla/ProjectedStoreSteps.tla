------------------------ MODULE ProjectedStoreSteps -------------------------
(***************************************************************************)
(* The steps of the projected store that do not enter the partition: that  *)
(* each keeps the inductive invariant, the count of degraded scopes, and   *)
(* what holds when there is one caller.                                    *)
(***************************************************************************)
EXTENDS ProjectedStore, WellFoundedInduction, TLAPS

-----------------------------------------------------------------------------
(* The inductive invariant.                                                *)

Thread ==
    [pc : Pcs, op : {"none", "upsert", "delete", "get", "list"}, recs : Seq(Record),
     batch : BOOLEAN, version : Nat, applied : BOOLEAN, err : {"none", "limit", "failed"},
     delta : {-1, 0, 1}, then : {"idle", "getBase", "finishOk", "finishErr", "listBase"}]

Asking(r) ==
    r.pc \in {"get", "lookup", "missed", "getBase"} \/ (r.pc = "adjust" /\ r.then = "getBase")

\* What a call knows of its own records: a write has some, what it is about to
\* project is committed, and the versions it is about to apply are reserved.
CallOK(r) ==
    /\ Asking(r) => Len(r.recs) >= 1
    /\ r.pc \in {"write", "reserve", "apply"} =>
         /\ r.op \in {"upsert", "delete"}
         /\ Len(r.recs) >= 1
         /\ r.op = "upsert" => \A i \in DOMAIN r.recs : r.recs[i].data \in Data
    /\ r.pc \in {"reserve", "apply"} /\ r.op = "upsert" =>
         \A i \in DOMAIN r.recs : r.recs[i].data \in committed[r.recs[i].key]
    /\ r.pc = "apply" => r.version >= 1 /\ r.version + Len(r.recs) - 1 <= counter

Leading(r) ==
    \/ r.pc \in {"lead", "stream", "swap", "warmed", "finishOk", "finishErr"}
    \/ r.pc = "adjust" /\ r.then \in {"finishOk", "finishErr"}

\* The versions of two calls do not overlap.
Apart(r, s) ==
    r.pc = "apply" /\ s.pc = "apply" =>
      r.version + Len(r.recs) <= s.version \/ s.version + Len(s.recs) <= r.version

Types ==
    /\ th \in [Threads -> Thread]
    /\ base \in [Keys -> Data \cup {NoData}]
    /\ committed \in [Keys -> SUBSET Data]
    /\ mu \in Threads \cup {NoThread}
    /\ counter \in 0..MaxVersion
    /\ warm \in BOOLEAN /\ degraded \in BOOLEAN /\ overLimit \in BOOLEAN
    /\ degradedCount \in Int
    /\ flight \in Threads \cup {NoThread}

\* What the swap is about to install: a numbering of committed records that
\* fits the limits.
SnapshotOK ==
    /\ snapshot.ver \in [Keys -> Nat]
    /\ snapshot.data \in [Keys -> Data \cup {NoData}]
    /\ Numbering(snapshot.ver)
    /\ LoadFits(snapshot.ver, snapshot.data)
    /\ \A k \in Keys : (snapshot.data[k] = NoData) <=> (snapshot.ver[k] = 0)
    /\ \A k \in Keys : snapshot.ver[k] > 0 => snapshot.data[k] \in committed[k]

Calls ==
    /\ \A t \in Threads : CallOK(th[t])
    /\ \A t, u \in Threads : t # u => Apart(th[t], th[u])

Rebuild ==
    /\ \A t \in Threads : Leading(th[t]) <=> flight = t
    /\ \A t \in Threads : th[t].pc = "wait" => flight # NoThread
    /\ \A t \in Threads : th[t].pc = "swap" => SnapshotOK

Payloads ==
    /\ Sound(hot) /\ CoveredBy(hot, hot.watermark)
    /\ \A k \in Keys : base[k] # NoData => base[k] \in committed[k]
    /\ NoUncommittedTruth

Inv == Types /\ Calls /\ Rebuild /\ Payloads

\* A thread that is idle knows nothing.
LEMMA IdleThread ==
    /\ Idle \in Thread
    /\ CallOK(Idle)
    /\ ~Leading(Idle)
    /\ Idle.pc = "idle"
BY DEF Idle, Thread, CallOK, Asking, Leading, Pcs

LEMMA GotoThread ==
    ASSUME NEW r \in Thread, NEW pc \in Pcs
    PROVE  /\ [r EXCEPT !.pc = pc] \in Thread
           /\ [r EXCEPT !.pc = pc].pc = pc
           /\ [r EXCEPT !.pc = pc].recs = r.recs
           /\ [r EXCEPT !.pc = pc].op = r.op
           /\ [r EXCEPT !.pc = pc].version = r.version
BY DEF Thread

\* A step that moves only one thread, to a place where it holds no versions
\* and no snapshot, and neither begins nor ends its lead of a rebuild.
LEMMA QuietStep ==
    ASSUME Inv, NEW t \in Threads, NEW x \in Thread, th' = [th EXCEPT ![t] = x],
           UNCHANGED <<base, committed, hot, mu, counter, flight, snapshot>>,
           warm' \in BOOLEAN, degraded' \in BOOLEAN, overLimit' \in BOOLEAN, degradedCount' \in Int,
           CallOK(x), x.pc \notin {"apply", "swap", "wait"}, Leading(x) <=> Leading(th[t])
    PROVE  Inv'
<1>1. Types'
  BY DEF Inv, Types
<1>2. \A u \in Threads : th'[u] = IF u = t THEN x ELSE th[u]
  BY DEF Inv, Types
<1>3. Calls'
  BY <1>2 DEF Inv, Calls, CallOK, Apart
<1>4. Rebuild'
  BY <1>2 DEF Inv, Rebuild, SnapshotOK
<1>5. Payloads'
  BY DEF Inv, Payloads, NoUncommittedTruth
<1> QED
  BY <1>1, <1>3, <1>4, <1>5 DEF Inv

\* A thread record a quiet step may install for t.
Quiet(t, x) ==
    /\ x \in Thread /\ th' = [th EXCEPT ![t] = x]
    /\ CallOK(x) /\ x.pc \notin {"apply", "swap", "wait"}
    /\ Leading(x) <=> Leading(th[t])

LEMMA GotoQuiet ==
    ASSUME Inv, NEW t \in Threads, NEW pc \in Pcs, Goto(t, pc),
           pc \notin {"write", "reserve", "apply", "swap", "wait", "adjust"},
           pc \in {"get", "lookup", "missed", "getBase"} => Len(th[t].recs) >= 1,
           Leading(th[t]) <=> pc \in {"lead", "stream", "warmed", "finishOk", "finishErr"}
    PROVE  \E x : Quiet(t, x)
<1> DEFINE x == [th[t] EXCEPT !.pc = pc]
<1>1. x \in Thread /\ x.pc = pc /\ x.recs = th[t].recs
  BY GotoThread DEF Inv, Types
<1>2. th' = [th EXCEPT ![t] = x]
  BY DEF Goto
<1> HIDE DEF x
<1>3. CallOK(x) /\ (Leading(x) <=> Leading(th[t]))
  BY <1>1 DEF CallOK, Asking, Leading
<1> QED
  BY <1>1, <1>2, <1>3, Zenon DEF Quiet

LEMMA ReturnQuiet ==
    ASSUME Inv, NEW t \in Threads, Return(t), ~Leading(th[t])
    PROVE  \E x : Quiet(t, x)
BY IdleThread, Zenon DEF Return, Quiet

\* markDegraded and markHealthy, wherever the thread goes from there.
LEMMA MarkQuiet ==
    ASSUME Inv, NEW t \in Threads, NEW d \in BOOLEAN,
           NEW then \in {"idle", "getBase", "finishOk", "finishErr", "listBase"},
           Mark(t, d, then),
           then = "getBase" => Len(th[t].recs) >= 1,
           Leading(th[t]) <=> then \in {"finishOk", "finishErr"}
    PROVE  /\ degraded' \in BOOLEAN /\ degradedCount' \in Int
           /\ \E x : Quiet(t, x)
<1>0. th[t] \in Thread
  BY DEF Inv, Types
<1>1. degraded' \in BOOLEAN
  BY Zenon DEF Mark
<1>2. degradedCount' \in Int
  BY DEF Mark, Inv, Types
<1>3. CASE degraded = d /\ then = "idle"
  BY <1>3, <1>1, <1>2, IdleThread, Zenon DEF Mark, Quiet
<1>4. CASE degraded = d /\ then # "idle"
  BY <1>4, <1>1, <1>2, GotoQuiet, Zenon DEF Pcs, Mark, Goto
<1>5. CASE degraded # d
  <2> DEFINE n == IF d THEN 1 ELSE -1
             x == [th[t] EXCEPT !.pc = "adjust", !.then = then, !.delta = n]
  <2>1. th' = [th EXCEPT ![t] = x]
    BY <1>5, Zenon DEF Mark
  <2>2. x \in Thread /\ x.pc = "adjust" /\ x.then = then /\ x.recs = th[t].recs
    BY <1>0, ZenonT(30) DEF Thread, Pcs
  <2> HIDE DEF x
  <2> QED BY <1>1, <1>2, <2>1, <2>2, Zenon DEF Quiet, CallOK, Asking, Leading
<1> QED BY <1>3, <1>4, <1>5

\* The variables a step of a caller leaves alone when it only reads, answers
\* or marks.
Still == UNCHANGED <<base, committed, hot, mu, counter, flight, snapshot>>

LEMMA QuietInv ==
    ASSUME Inv, NEW t \in Threads, \E x : Quiet(t, x), Still,
           warm' \in BOOLEAN, degraded' \in BOOLEAN, overLimit' \in BOOLEAN, degradedCount' \in Int
    PROVE  Inv'
BY QuietStep, Zenon DEF Quiet, Still

-----------------------------------------------------------------------------
(* Quiet actions.                                                          *)

LEMMA MarksTyped ==
    ASSUME Inv
    PROVE  warm \in BOOLEAN /\ degraded \in BOOLEAN /\ overLimit \in BOOLEAN /\ degradedCount \in Int
BY DEF Inv, Types

LEMMA BeginStep ==
    ASSUME Inv, NEW t \in Threads, Begin(t)
    PROVE  Inv'
<1>1. PICK r \in Requests(t) :
        th' = [th EXCEPT ![t] = [Idle EXCEPT
                  !.pc = CASE r.op \in {"upsert", "delete"} -> "write"
                           [] r.op = "get"  -> "get"
                           [] r.op = "list" -> "warm",
                  !.op = r.op, !.recs = r.recs, !.batch = Len(r.recs) > 1]]
  BY Zenon DEF Begin
<1>2. /\ r.op \in {"upsert", "delete", "get", "list"} /\ r.recs \in Seq(Record)
      /\ r.op \in {"upsert", "delete", "get"} => Len(r.recs) >= 1
      /\ r.op = "upsert" => \A i \in DOMAIN r.recs : r.recs[i].data \in Data
  BY RequestsWellFormed
<1> DEFINE pc == CASE r.op \in {"upsert", "delete"} -> "write"
                   [] r.op = "get"  -> "get"
                   [] r.op = "list" -> "warm"
           many == Len(r.recs) > 1
           x == [Idle EXCEPT !.pc = pc, !.op = r.op, !.recs = r.recs, !.batch = many]
<1>3. /\ pc \in Pcs
      /\ pc \in {"write", "get", "warm"}
      /\ pc = "write" => r.op \in {"upsert", "delete"}
      /\ pc = "get" => r.op = "get"
  BY <1>2 DEF Pcs
<1>4. many \in BOOLEAN
  OBVIOUS
<1>5. th' = [th EXCEPT ![t] = x]
  BY <1>1
<1> HIDE DEF pc, many
<1>6. x \in Thread /\ x.pc = pc /\ x.op = r.op /\ x.recs = r.recs
  BY <1>2, <1>3, <1>4, Zenon DEF Thread, Idle
<1> HIDE DEF x
<1>9. Quiet(t, x)
  BY <1>3, <1>5, <1>6, <1>2, Zenon DEF Quiet, CallOK, Asking, Leading, Begin, Pc
<1>10. Still /\ UNCHANGED <<warm, degraded, overLimit, degradedCount>>
  BY Zenon DEF Begin, Still, store, part, health, scope
<1> QED
  BY <1>9, <1>10, QuietInv, MarksTyped

LEMMA AdjustStep ==
    ASSUME Inv, NEW t \in Threads, Adjust(t)
    PROVE  Inv'
<1>0. th[t] \in Thread /\ th[t].pc = "adjust" /\ CallOK(th[t])
  BY DEF Inv, Types, Calls, Adjust, Pc
<1>1. Still /\ UNCHANGED <<warm, degraded, overLimit>> /\ degradedCount' = degradedCount + th[t].delta
  BY DEF Adjust, Still, store, part, scope
<1>2. degradedCount' \in Int
  BY <1>0, <1>1, MarksTyped DEF Thread
<1>3. CASE th[t].then = "idle"
  BY <1>3, <1>0, <1>1, <1>2, ReturnQuiet, QuietInv, MarksTyped, Zenon DEF Adjust, Return, Leading
<1>4. CASE th[t].then # "idle"
  <2> DEFINE x == [th[t] EXCEPT !.pc = th[t].then, !.then = "idle", !.delta = 0]
  <2>1. th' = [th EXCEPT ![t] = x]
    BY <1>4 DEF Adjust
  <2>2. th[t].then \in {"getBase", "finishOk", "finishErr", "listBase"}
    BY <1>0, <1>4 DEF Thread
  <2>3. x \in Thread /\ x.pc = th[t].then /\ x.recs = th[t].recs
    BY <1>0, <2>2, Zenon DEF Thread, Pcs
  <2> HIDE DEF x
  <2>5. Quiet(t, x)
    BY <2>1, <2>2, <2>3, <1>0 DEF Quiet, CallOK, Asking, Leading
  <2> QED BY <1>1, <1>2, <2>5, QuietInv, MarksTyped
<1> QED BY <1>3, <1>4

LEMMA RememberStep ==
    ASSUME Inv, NEW t \in Threads, Remember(t)
    PROVE  Inv'
<1>0. th[t] \in Thread /\ ~Leading(th[t])
  BY DEF Inv, Types, Remember, Pc, Leading
<1>1. Still /\ UNCHANGED <<warm, overLimit>>
  BY DEF Remember, Still, store, part, scope
<1>2. th[t].err \in {"none", "limit", "failed"}
  BY <1>0 DEF Thread
<1>3. CASE th[t].err = "limit"
  BY <1>3, <1>0, <1>1, ReturnQuiet, QuietInv, MarksTyped DEF Remember, health
<1>4. CASE th[t].err = "failed"
  BY <1>4, <1>0, <1>1, MarkQuiet, QuietInv, MarksTyped, Zenon DEF Remember, MarkDegraded
<1>5. CASE th[t].err = "none"
  BY <1>5, <1>0, <1>1, MarkQuiet, QuietInv, MarksTyped, Zenon DEF Remember, MarkHealthy
<1> QED BY <1>2, <1>3, <1>4, <1>5

LEMMA GetHotStep ==
    ASSUME Inv, NEW t \in Threads, GetHot(t)
    PROVE  Inv'
<1> DEFINE pc == IF degraded THEN "getBase" ELSE "lookup"
<1>1. Goto(t, pc) /\ Still /\ UNCHANGED <<warm, degraded, overLimit, degradedCount>>
  BY DEF GetHot, Still, store, part, health, scope
<1>2. pc \in Pcs /\ pc \in {"getBase", "lookup"}
  BY DEF Pcs
<1> HIDE DEF pc
<1>3. ~Leading(th[t]) /\ Len(th[t].recs) >= 1
  BY DEF GetHot, Pc, Leading, Inv, Calls, CallOK, Asking
<1> QED BY <1>1, <1>2, <1>3, GotoQuiet, QuietInv, MarksTyped

LEMMA LookupStep ==
    ASSUME Inv, NEW t \in Threads, Lookup(t)
    PROVE  Inv'
<1>1. Still /\ UNCHANGED <<warm, overLimit>>
  BY DEF Lookup, Still, store, part, scope
<1>2. ~Leading(th[t]) /\ Len(th[t].recs) >= 1
  BY DEF Lookup, Pc, Leading, Inv, Calls, CallOK, Asking
<1>3. CASE Return(t) /\ UNCHANGED health
  BY <1>1, <1>2, <1>3, ReturnQuiet, QuietInv, MarksTyped DEF health
<1>4. CASE Goto(t, "missed") /\ UNCHANGED health
  BY <1>1, <1>2, <1>4, GotoQuiet, QuietInv, MarksTyped DEF Pcs, health
<1>5. CASE MarkDegraded(t, "getBase")
  BY <1>1, <1>2, <1>5, MarkQuiet, QuietInv, MarksTyped, Zenon DEF MarkDegraded
<1> QED BY <1>3, <1>4, <1>5 DEF Lookup

LEMMA MissedStep ==
    ASSUME Inv, NEW t \in Threads, Missed(t)
    PROVE  Inv'
<1>1. Still /\ UNCHANGED <<warm, degraded, overLimit, degradedCount>>
  BY DEF Missed, Still, store, part, health, scope
<1>2. ~Leading(th[t]) /\ Len(th[t].recs) >= 1
  BY DEF Missed, Pc, Leading, Inv, Calls, CallOK, Asking
<1>3. CASE Return(t)
  BY <1>1, <1>2, <1>3, ReturnQuiet, QuietInv, MarksTyped, SMTT(20)
<1>4. CASE Goto(t, "getBase")
  BY <1>1, <1>2, <1>4, GotoQuiet, QuietInv, MarksTyped DEF Pcs
<1> QED BY <1>3, <1>4 DEF Missed

\* A repair projects what the base has just answered, which is committed.
LEMMA GetBaseStep ==
    ASSUME Inv, NEW t \in Threads, GetBase(t)
    PROVE  Inv'
<1>0. th[t] \in Thread /\ ~Leading(th[t]) /\ Len(th[t].recs) >= 1
  BY DEF GetBase, Pc, Leading, Inv, Types, Calls, CallOK, Asking
<1>1. Still /\ UNCHANGED <<warm, degraded, overLimit, degradedCount>>
  BY DEF GetBase, Still, store, part, health, scope
<1>2. CASE Return(t)
  BY <1>0, <1>1, <1>2, ReturnQuiet, QuietInv, MarksTyped
<1> DEFINE k == AskedKey(t)
           rec == [key |-> k, data |-> base[k]]
           x == [th[t] EXCEPT !.pc = "reserve", !.op = "upsert", !.recs = <<rec>>]
<1>3. CASE base[k] # NoData /\ th' = [th EXCEPT ![t] = x]
  <2>1. k \in Keys
    <3>2. th[t].recs[1] \in Record
      BY <1>0 DEF Thread
    <3> QED BY <3>2 DEF AskedKey, Record
  <2>2. base[k] \in Data /\ base[k] \in committed[k]
    BY <1>3, <2>1 DEF Inv, Types, Payloads
  <2>3. rec \in Record /\ rec.key = k /\ rec.data = base[k]
    BY <2>1, <2>2 DEF Record
  <2> HIDE DEF k, rec
  <2>4. /\ <<rec>> \in Seq(Record) /\ Len(<<rec>>) = 1
        /\ \A i \in DOMAIN <<rec>> : <<rec>>[i] = rec
    BY <2>3
  <2> DEFINE recs == <<rec>>
  <2> HIDE DEF recs
  <2>5. x \in Thread /\ x.pc = "reserve" /\ x.op = "upsert" /\ x.recs = recs
    BY <1>0, <2>4, Zenon DEF recs, Thread, Pcs
  <2> HIDE DEF x
  <2>7. Quiet(t, x)
    BY <1>0, <1>3, <2>5, <2>2, <2>3, <2>4 DEF Quiet, recs, CallOK, Asking, Leading
  <2> QED BY <1>1, <2>7, QuietInv, MarksTyped
<1> QED BY <1>2, <1>3, Zenon DEF GetBase

LEMMA EnsureWarmStep ==
    ASSUME Inv, NEW t \in Threads, EnsureWarm(t)
    PROVE  Inv'
<1> DEFINE pc == IF warm /\ ~degraded THEN "list" ELSE "limit"
<1>1. Goto(t, pc) /\ Still /\ UNCHANGED <<warm, degraded, overLimit, degradedCount>>
  BY DEF EnsureWarm, Still, store, part, health, scope
<1>2. pc \in Pcs /\ pc \in {"list", "limit"}
  BY DEF Pcs
<1> HIDE DEF pc
<1>3. ~Leading(th[t])
  BY DEF EnsureWarm, Pc, Leading
<1> QED BY <1>1, <1>2, <1>3, GotoQuiet, QuietInv, MarksTyped, SMTT(20)

LEMMA CheckLimitStep ==
    ASSUME Inv, NEW t \in Threads, CheckLimit(t)
    PROVE  Inv'
<1>1. Still /\ UNCHANGED <<warm, degraded, degradedCount>>
  BY DEF CheckLimit, Still, store, part, health
<1>2. overLimit' \in BOOLEAN
  BY MarksTyped, Zenon DEF CheckLimit
<1>3. ~Leading(th[t])
  BY DEF CheckLimit, Pc, Leading
<1>4. "listBase" \in Pcs /\ "join" \in Pcs
  BY DEF Pcs
<1>5. Goto(t, "listBase") \/ Goto(t, "join")
  BY DEF CheckLimit
<1> QED BY <1>1, <1>2, <1>3, <1>4, <1>5, GotoQuiet, QuietInv, MarksTyped

LEMMA ListHotStep ==
    ASSUME Inv, NEW t \in Threads, ListHot(t)
    PROVE  Inv'
<1>1. Still /\ UNCHANGED <<warm, overLimit>>
  BY DEF ListHot, Still, store, part, scope
<1>2. ~Leading(th[t])
  BY DEF ListHot, Pc, Leading
<1>3. CASE Return(t) /\ UNCHANGED health
  BY <1>1, <1>2, <1>3, ReturnQuiet, QuietInv, MarksTyped DEF health
<1>4. CASE MarkDegraded(t, "listBase")
  BY <1>1, <1>2, <1>4, MarkQuiet, QuietInv, MarksTyped, Zenon DEF MarkDegraded
<1> QED BY <1>3, <1>4 DEF ListHot

LEMMA ListBaseStep ==
    ASSUME Inv, NEW t \in Threads, ListBase(t)
    PROVE  Inv'
<1>1. Still /\ UNCHANGED <<warm, degraded, overLimit, degradedCount>> /\ Return(t)
  BY DEF ListBase, Still, store, part, health, scope
<1>2. ~Leading(th[t])
  BY DEF ListBase, Pc, Leading
<1> QED BY <1>1, <1>2, ReturnQuiet, QuietInv, MarksTyped

-----------------------------------------------------------------------------
(* The rebuild.                                                            *)

LEMMA OneThread ==
    ASSUME Inv, NEW t \in Threads, NEW x \in Thread, th' = [th EXCEPT ![t] = x]
    PROVE  /\ th' \in [Threads -> Thread]
           /\ \A u \in Threads : th'[u] = IF u = t THEN x ELSE th[u]
BY SMTT(20) DEF Inv, Types

LEMMA CallsKept ==
    ASSUME Inv, NEW t \in Threads, NEW x \in Thread, th' = [th EXCEPT ![t] = x],
           CallOK(x), x.pc # "apply", UNCHANGED <<committed, counter>>
    PROVE  Calls'
BY OneThread DEF Inv, Calls, CallOK, Apart

LEMMA JoinStep ==
    ASSUME Inv, NEW t \in Threads, Join(t)
    PROVE  Inv'
<1> DEFINE pc == IF flight = NoThread THEN "lead" ELSE "wait"
           x == [th[t] EXCEPT !.pc = pc]
<1>1. /\ th' = [th EXCEPT ![t] = x]
      /\ flight' = IF flight = NoThread THEN t ELSE flight
      /\ UNCHANGED <<base, committed, hot, mu, counter, degraded, degradedCount, warm, overLimit, snapshot>>
  BY DEF Join, Goto, store, part, health
<1>2. pc \in Pcs /\ th[t] \in Thread /\ flight \in Threads \cup {NoThread}
  BY DEF Pcs, Inv, Types
<1>3. x \in Thread /\ x.pc = pc
  BY <1>2, GotoThread
<1> HIDE DEF x
<1>7. Types'
  BY <1>1, <1>3, OneThread DEF Inv, Types
<1>8. Calls'
  BY <1>1, <1>3, CallsKept, Zenon DEF CallOK, Asking
<1>9. \A u \in Threads : th'[u] = IF u = t THEN x ELSE th[u]
  BY <1>1, <1>3, OneThread, ZenonT(30)
<1>10. Rebuild'
  <2>1. ASSUME NEW u \in Threads PROVE Leading(th'[u]) <=> flight' = u
    BY <1>1, <1>2, <1>3, <1>9, ThreadsApart DEF Inv, Rebuild, Join, Pc, Leading
  <2>2. ASSUME NEW u \in Threads, th'[u].pc = "wait" PROVE flight' # NoThread
    BY <1>1, <1>3, <1>9, <2>2, ThreadsApart, SMTT(20) DEF Inv, Rebuild
  <2>3. ASSUME NEW u \in Threads, th'[u].pc = "swap" PROVE SnapshotOK'
    BY <1>1, <1>3, <1>9, <2>3, SMTT(20) DEF Inv, Rebuild, SnapshotOK
  <2> QED BY <2>1, <2>2, <2>3, SMTT(20) DEF Rebuild, Leading
<1>11. Payloads'
  BY <1>1 DEF Inv, Payloads, NoUncommittedTruth
<1> QED BY <1>7, <1>8, <1>10, <1>11 DEF Inv

\* The leader gives up, with or without a mark.
LEMMA LeaderQuiet ==
    ASSUME Inv, NEW t \in Threads, LeaderFails(t), Leading(th[t])
    PROVE  degraded' \in BOOLEAN /\ degradedCount' \in Int /\ \E x : Quiet(t, x)
<1>1. CASE MarkDegraded(t, "finishErr")
  BY <1>1, MarkQuiet, Zenon DEF MarkDegraded
<1>2. CASE Goto(t, "finishErr") /\ UNCHANGED health
  BY <1>2, GotoQuiet, MarksTyped DEF Pcs, health
<1> QED BY <1>1, <1>2 DEF LeaderFails

LEMMA CountBaseStep ==
    ASSUME Inv, NEW t \in Threads, CountBase(t)
    PROVE  Inv'
<1>1. Still /\ UNCHANGED warm
  BY DEF CountBase, Still, store, part
<1>2. Leading(th[t])
  BY DEF CountBase, Pc, Leading
<1>4. overLimit' \in BOOLEAN
  BY MarksTyped, Zenon DEF CountBase
<1>5. CASE UNCHANGED health /\ (Goto(t, "finishOk") \/ Goto(t, "finishErr") \/ Goto(t, "stream"))
  BY <1>2, <1>5, GotoQuiet, <1>1, <1>4, QuietInv, MarksTyped DEF health, Pcs
<1>6. CASE LeaderFails(t)
  BY <1>1, <1>2, <1>4, <1>6, LeaderQuiet, QuietInv, MarksTyped
<1> QED BY <1>5, <1>6 DEF CountBase

LEMMA WarmedStep ==
    ASSUME Inv, NEW t \in Threads, Warmed(t)
    PROVE  Inv'
<1>1. Still /\ warm' \in BOOLEAN /\ overLimit' \in BOOLEAN
  BY Zenon DEF Warmed, Still, store, part
<1>2. Leading(th[t])
  BY DEF Warmed, Pc, Leading
<1>3. Mark(t, FALSE, "finishOk")
  BY Zenon DEF Warmed, MarkHealthy
<1> QED BY <1>1, <1>2, <1>3, MarkQuiet, QuietInv, Zenon

\* The leader and all who wait leave together.
LEMMA FinishStep ==
    ASSUME Inv, NEW t \in Threads, Finish(t)
    PROVE  Inv'
<1> DEFINE pc == IF Pc(t) = "finishOk" THEN "list" ELSE "listBase"
           y(u) == [th[u] EXCEPT !.pc = pc]
<1>1. /\ th' = [u \in Threads |-> IF u = t \/ th[u].pc = "wait" THEN y(u) ELSE th[u]]
      /\ flight' = NoThread
      /\ UNCHANGED <<base, committed, hot, mu, counter, degraded, degradedCount, warm, overLimit, snapshot>>
  BY DEF Finish, Pc, store, part, health
<1>2. pc \in {"list", "listBase"} /\ pc \in Pcs
  BY DEF Pcs
<1>3. \A u \in Threads : th[u] \in Thread
  BY DEF Inv, Types
<1> HIDE DEF pc
<1>4. \A u \in Threads : y(u) \in Thread /\ y(u).pc = pc
  BY <1>2, <1>3, GotoThread, SMTT(20)
<1> HIDE DEF y
<1>5. \A u \in Threads : CallOK(y(u)) /\ ~Leading(y(u))
  BY <1>2, <1>4 DEF CallOK, Asking, Leading
<1>7. Types'
  BY <1>1, <1>3, <1>4, SMTT(20) DEF Inv, Types
<1>8. Calls'
  BY <1>1, <1>2, <1>4, <1>5 DEF Inv, Calls, CallOK, Apart
<1>9. Rebuild'
  BY <1>1, <1>2, <1>4, <1>5, ThreadsApart DEF Inv, Rebuild, Leading, Finish, Pc
<1>10. Payloads'
  BY <1>1, Zenon DEF Inv, Payloads, NoUncommittedTruth
<1> QED BY <1>7, <1>8, <1>9, <1>10 DEF Inv

-----------------------------------------------------------------------------
(* Positions.                                                              *)

\* A non-empty set of positions in a sequence has a last one.
LEMMA LastPosition ==
    ASSUME NEW n \in Nat, NEW at, at \subseteq 1..n, at # {}
    PROVE  Max(at) \in at
<1> DEFINE T == {n - i : i \in at}
<1>0. \A i \in at : i \in Int /\ n - i \in Nat
  OBVIOUS
<1>1. T \subseteq Nat /\ T # {}
  BY <1>0, Zenon
<1>2. PICK x \in T : \A y \in T : ~(<<y, x>> \in OpToRel(<, Nat))
  BY <1>1, WFMin, NatLessThanWellFounded, Zenon
<1>3. \A y \in T : ~(y < x)
  BY <1>1, <1>2, Zenon DEF OpToRel
<1>4. PICK i \in at : x = n - i
  OBVIOUS
<1>5. ASSUME NEW j \in at PROVE j <= i
  BY <1>3, <1>4, <1>0
<1> QED
  BY <1>4, <1>5, Zenon DEF Max

-----------------------------------------------------------------------------
(* Writes.                                                                 *)

\* A base write only adds to what was committed, and what the base then holds
\* was.
LEMMA CommitPayloads ==
    ASSUME Inv, NEW op \in {"upsert", "delete"}, NEW recs \in Seq(Record), Commit(op, recs),
           op = "upsert" => \A i \in DOMAIN recs : recs[i].data \in Data
    PROVE  /\ base' \in [Keys -> Data \cup {NoData}]
           /\ committed' \in [Keys -> SUBSET Data]
           /\ \A k \in Keys : committed[k] \subseteq committed'[k]
           /\ \A k \in Keys : base'[k] # NoData => base'[k] \in committed'[k]
           /\ op = "upsert" => \A i \in DOMAIN recs : recs[i].data \in committed'[recs[i].key]
<1> DEFINE At(k) == {i \in DOMAIN recs : recs[i].key = k}
           New(k) == {recs[i].data : i \in {j \in DOMAIN recs : op = "upsert" /\ recs[j].key = k}}
<1>0. /\ base \in [Keys -> Data \cup {NoData}] /\ committed \in [Keys -> SUBSET Data]
      /\ \A k \in Keys : base[k] # NoData => base[k] \in committed[k]
  BY DEF Inv, Types, Payloads
<1>1. committed' = [k \in Keys |-> committed[k] \cup New(k)]
  BY DEF Commit
<1>2. base' = [k \in Keys |-> IF At(k) = {} THEN base[k]
                              ELSE IF op = "delete" THEN NoData ELSE recs[Max(At(k))].data]
  BY DEF Commit, Written
<1>3. Len(recs) \in Nat /\ DOMAIN recs = 1..Len(recs) /\ \A i \in DOMAIN recs : recs[i].key \in Keys
  <2>1. Len(recs) \in Nat /\ DOMAIN recs = 1..Len(recs) /\ \A i \in 1..Len(recs) : recs[i] \in Record
    OBVIOUS
  <2> QED BY <2>1 DEF Record
<1>5. op = "upsert" => \A i \in DOMAIN recs : recs[i].data \in New(recs[i].key)
  OBVIOUS
<1>6. \A k \in Keys : New(k) \subseteq Data
  OBVIOUS
<1>7. ASSUME NEW k \in Keys
      PROVE  base'[k] \in Data \cup {NoData} /\ (base'[k] # NoData => base'[k] \in committed'[k])
  <2>1. CASE At(k) = {}
    BY <1>0, <1>1, <1>2, <2>1
  <2>2. CASE At(k) # {} /\ op = "delete"
    BY <1>2, <2>2
  <2>3. CASE At(k) # {} /\ op = "upsert"
    <3> DEFINE i == Max(At(k))
    <3>1. i \in DOMAIN recs /\ recs[i].key = k
      BY <1>3, LastPosition, <2>3, Zenon
    <3>2. base'[k] = recs[i].data
      BY <1>2, <2>3
    <3> HIDE DEF i
    <3> QED BY <1>1, <1>5, <1>6, <2>3, <3>1, <3>2
  <2> QED BY <2>1, <2>2, <2>3
<1> HIDE DEF At, New
<1>8. base' \in [Keys -> Data \cup {NoData}]
  BY <1>2, <1>7
<1>9. committed' \in [Keys -> SUBSET Data] /\ \A k \in Keys : committed[k] \subseteq committed'[k]
  BY <1>0, <1>1, <1>6
<1>10. op = "upsert" => \A i \in DOMAIN recs : recs[i].data \in committed'[recs[i].key]
  BY <1>1, <1>3, <1>5
<1> QED BY <1>7, <1>8, <1>9, <1>10

LEMMA WriteBaseStep ==
    ASSUME Inv, NEW t \in Threads, WriteBase(t)
    PROVE  Inv'
<1> DEFINE r == th[t]
<1>0. /\ r \in Thread /\ r.pc = "write" /\ r.recs \in Seq(Record) /\ Len(r.recs) \in Nat
      /\ r.op \in {"upsert", "delete"} /\ Len(r.recs) >= 1
      /\ r.op = "upsert" => \A i \in DOMAIN r.recs : r.recs[i].data \in Data
      /\ ~Leading(r)
  BY DEF WriteBase, Pc, Inv, Types, Calls, CallOK, Thread, Leading
<1>1. UNCHANGED <<hot, mu, counter, degraded, degradedCount, warm, overLimit, flight, snapshot>>
  BY DEF WriteBase, part, health, scope
<1>2. PICK recs \in Seq(Record), x \in Thread :
        /\ Commit(r.op, recs)
        /\ r.op = "upsert" => \A i \in DOMAIN recs : recs[i].data \in Data
        /\ th' = [th EXCEPT ![t] = x]
        /\ \/ x = Idle
           \/ x = [r EXCEPT !.pc = "reserve"] /\ recs = r.recs
  <2>1. CASE Commit(r.op, r.recs) /\ Goto(t, "reserve")
    <3>1. th' = [th EXCEPT ![t] = [r EXCEPT !.pc = "reserve"]] /\ [r EXCEPT !.pc = "reserve"] \in Thread
      BY <1>0, <2>1, GotoThread, ZenonT(30) DEF Goto, Pcs
    <3> QED BY <1>0, <2>1, <3>1, Zenon
  <2>2. CASE (\E n \in 0..(Len(r.recs) - 1) : Commit(r.op, SubSeq(r.recs, 1, n))) /\ Return(t)
    <3>1. PICK n \in 0..(Len(r.recs) - 1) : Commit(r.op, SubSeq(r.recs, 1, n))
      BY <2>2
    <3> DEFINE q == SubSeq(r.recs, 1, n)
    <3>2. q \in Seq(Record) /\ Len(q) = n /\ \A i \in 1..n : q[i] = r.recs[i]
      BY <1>0
    <3>3. Commit(r.op, q)
      BY <3>1
    <3> HIDE DEF q
    <3>5. r.op = "upsert" => \A i \in DOMAIN q : q[i].data \in Data
      BY <1>0, <3>2
    <3> QED BY <3>2, <3>3, <3>5, <2>2, IdleThread, Zenon DEF Return
  <2> QED BY <2>1, <2>2 DEF WriteBase
<1>3. /\ base' \in [Keys -> Data \cup {NoData}]
      /\ committed' \in [Keys -> SUBSET Data]
      /\ \A k \in Keys : committed[k] \subseteq committed'[k]
      /\ \A k \in Keys : base'[k] # NoData => base'[k] \in committed'[k]
      /\ r.op = "upsert" => \A i \in DOMAIN recs : recs[i].data \in committed'[recs[i].key]
  BY <1>0, <1>2, CommitPayloads
<1>4. \A u \in Threads : th'[u] = IF u = t THEN x ELSE th[u]
  BY <1>2, OneThread, Zenon
<1>5. /\ x.pc \in {"idle", "reserve"}
      /\ x.pc = "reserve" => x.op = r.op /\ x.recs = r.recs /\ recs = r.recs
  <2>1. "reserve" \in Pcs
    BY DEF Pcs
  <2>2. CASE x = Idle
    BY <2>2, IdleThread
  <2>3. CASE x = [r EXCEPT !.pc = "reserve"] /\ recs = r.recs
    BY <1>0, <2>1, <2>3, GotoThread
  <2> QED BY <1>2, <2>2, <2>3
<1>6. ~Leading(x)
  BY <1>5 DEF Leading
<1>7. Types'
  BY <1>1, <1>2, <1>3, OneThread DEF Inv, Types
<1>8. ASSUME NEW u \in Threads PROVE CallOK(th[u])'
  <2>1. CASE u = t
    BY <1>0, <1>3, <1>4, <1>5, <1>6, <2>1, SMTT(20) DEF CallOK, Asking
  <2>2. CASE u # t
    <3>1. th'[u] = th[u] /\ CallOK(th[u]) /\ th[u] \in Thread
      BY <1>4, <2>2 DEF Inv, Calls, Types
    <3>2. \A i \in DOMAIN th[u].recs : th[u].recs[i].key \in Keys
      <4>2. \A i \in DOMAIN th[u].recs : th[u].recs[i] \in Record
        BY <3>1 DEF Thread
      <4> QED BY <4>2 DEF Record
    <3> QED BY <1>1, <1>3, <3>1, <3>2 DEF CallOK, Asking
  <2> QED BY <2>1, <2>2, SMTT(20)
<1>9. Calls'
  BY <1>4, <1>5, <1>8 DEF Inv, Calls, Apart
<1>10. Rebuild'
  BY <1>1, <1>3, <1>0, <1>4, <1>5, <1>6, Zenon DEF SnapshotOK, Inv, Rebuild
<1>11. Payloads'
  BY <1>1, <1>3 DEF Inv, Payloads, NoUncommittedTruth, Live
<1> QED BY <1>7, <1>9, <1>10, <1>11, SMTT(20) DEF Inv

\* The versions a call reserves lie beyond all that were reserved before.
LEMMA ReserveStep ==
    ASSUME Inv, NEW t \in Threads, Reserve(t)
    PROVE  Inv'
<1> DEFINE r == th[t]
           v == counter + 1
           x == [r EXCEPT !.pc = "apply", !.version = v]
<1>0. /\ r \in Thread /\ r.pc = "reserve" /\ r.recs \in Seq(Record) /\ Len(r.recs) \in Nat
      /\ CallOK(r) /\ ~Leading(r) /\ counter \in Nat /\ MaxVersion \in Nat
  BY StoreBounds DEF Reserve, ReserveRun, Pc, Inv, Types, Calls, Thread, Leading
<1>1. /\ th' = [th EXCEPT ![t] = x]
      /\ counter' = counter + Len(r.recs) /\ counter' <= MaxVersion
      /\ UNCHANGED <<base, committed, hot, mu, degraded, degradedCount, warm, overLimit, flight, snapshot>>
  BY Zenon DEF Reserve, ReserveRun, store, part, health, scope
<1>2. v \in Nat
  BY <1>0
<1>3. /\ x \in Thread /\ x.pc = "apply" /\ x.op = r.op /\ x.recs = r.recs /\ x.version = counter + 1
  BY <1>0, <1>2, Zenon DEF Thread, Pcs
<1> HIDE DEF v, x
<1>4. \A u \in Threads : th'[u] = IF u = t THEN x ELSE th[u]
  BY <1>1, <1>3, OneThread, Zenon
<1>6. Types'
  BY <1>0, <1>1, <1>3, OneThread DEF Inv, Types
<1>7. ASSUME NEW u \in Threads, u # t
      PROVE  /\ CallOK(th[u])' /\ th'[u] = th[u]
             /\ th[u].pc = "apply" => th[u].version + Len(th[u].recs) <= counter + 1
  <2>1. /\ th'[u] = th[u] /\ CallOK(th[u]) /\ th[u].version \in Nat /\ Len(th[u].recs) \in Nat
    BY <1>4, <1>7, SMTT(20) DEF Inv, Calls, Types, Thread
  <2>3. th[u].pc = "apply" => /\ th[u].version + Len(th[u].recs) <= counter + 1
                              /\ th[u].version + Len(th[u].recs) - 1 <= counter'
    <3> DEFINE a == th[u].version
               b == Len(th[u].recs)
               n == Len(r.recs)
    <3>1. a \in Nat /\ b \in Nat /\ n \in Nat /\ counter \in Nat /\ counter' = counter + n
      BY <1>0, <1>1, <2>1
    <3> HIDE DEF a, b, n
    <3> QED BY <2>1, <3>1 DEF a, b, CallOK
  <2> QED BY <2>1, <2>3, <1>1 DEF CallOK, Asking
<1>8. CallOK(th[t])'
  BY <1>0, <1>1, <1>3, <1>4, SMTT(20) DEF CallOK, Asking
<1>9. Calls'
  <2>1. ASSUME NEW u \in Threads, NEW w \in Threads, u # w
        PROVE  Apart(th[u], th[w])'
    <3>1. CASE u = t
      BY <1>3, <1>4, <1>7, <2>1, <3>1, SMTT(20) DEF Apart
    <3>2. CASE w = t
      BY <1>3, <1>4, <1>7, <2>1, <3>2, SMTT(20) DEF Apart
    <3>3. CASE u # t /\ w # t
      BY <1>4, <2>1, <3>3, SMTT(20) DEF Inv, Calls, Apart
    <3> QED BY <3>1, <3>2, <3>3
  <2> QED BY <1>7, <1>8, <2>1 DEF Calls
<1>10. Rebuild'
  BY <1>0, <1>1, <1>3, <1>4 DEF Inv, Rebuild, SnapshotOK, Leading
<1>11. Payloads'
  BY <1>1, Zenon DEF Inv, Payloads, NoUncommittedTruth
<1> QED BY <1>6, <1>9, <1>10, <1>11 DEF Inv

\* A step of an apply call: the partition stays sound and what it holds stays
\* committed, and the call gives up versions and takes none.
LEMMA ProjectStep ==
    ASSUME Inv, NEW t \in Threads, NEW x \in Thread, th' = [th EXCEPT ![t] = x],
           th[t].pc = "apply", CallOK(x), x.pc \in {"apply", "remember"},
           x.pc = "apply" => /\ x.version = th[t].version + 1
                             /\ x.version + Len(x.recs) = th[t].version + Len(th[t].recs),
           mu' \in Threads \cup {NoThread},
           Sound(hot'), CoveredBy(hot', hot'.watermark), NoUncommittedTruth',
           UNCHANGED <<base, committed, counter, degraded, degradedCount, warm, overLimit, flight, snapshot>>
    PROVE  Inv'
<1>1. \A u \in Threads : th'[u] = IF u = t THEN x ELSE th[u]
  BY OneThread, Zenon
<1>3. Types'
  BY OneThread, SMTT(20) DEF Inv, Types
<1>4. \A u \in Threads : th[u].version \in Nat /\ Len(th[u].recs) \in Nat
  BY SMTT(20) DEF Inv, Types, Thread
<1>5. ASSUME NEW u \in Threads, u # t, th[u].pc = "apply", x.pc = "apply"
      PROVE  \/ x.version + Len(x.recs) <= th[u].version
             \/ th[u].version + Len(th[u].recs) <= x.version
  <2>1. \/ th[t].version + Len(th[t].recs) <= th[u].version
        \/ th[u].version + Len(th[u].recs) <= th[t].version
    BY <1>5, Zenon DEF Inv, Calls, Apart
  <2>2. th[u].version + Len(th[u].recs) \in Nat /\ th[t].version \in Nat
    BY <1>4
  <2>3. x.version = th[t].version + 1 /\ x.version + Len(x.recs) = th[t].version + Len(th[t].recs)
    BY <1>5, Zenon
  <2>4. ASSUME NEW n \in Nat, n <= th[t].version PROVE n <= x.version
    BY <2>2, <2>3, <2>4
  <2> QED BY <2>1, <2>2, <2>3, <2>4, Zenon
<1>6. Calls'
  <2>1. ASSUME NEW u \in Threads PROVE CallOK(th[u])'
    <3>1. CallOK(th'[u])
      BY <1>1, Zenon DEF Inv, Calls
    <3> QED BY <3>1, Zenon DEF CallOK
  <2>2. ASSUME NEW u \in Threads, NEW w \in Threads, u # w
        PROVE  Apart(th'[u], th'[w])
    <3>1. CASE u = t
      BY <1>1, <1>5, <2>2, <3>1, Zenon DEF Apart
    <3>2. CASE w = t
      BY <1>1, <1>5, <2>2, <3>2, Zenon DEF Apart
    <3>3. CASE u # t /\ w # t
      BY <1>1, <2>2, <3>3, Zenon DEF Inv, Calls
    <3> QED BY <3>1, <3>2, <3>3, Zenon
  <2> QED BY <2>1, <2>2, Zenon DEF Calls, Apart
<1>7. Rebuild'
  BY <1>1 DEF Inv, Rebuild, SnapshotOK, Leading
<1>8. Payloads'
  BY Zenon DEF Inv, Payloads
<1> QED BY <1>3, <1>6, <1>7, <1>8 DEF Inv

\* The event an apply call is at is one the partition understands, and its
\* payload is committed.
LEMMA EventSound ==
    ASSUME Inv, NEW t \in Threads, th[t].pc = "apply"
    PROVE  LET e == EventOf(th[t])
           IN /\ WellFormed(e) /\ e.op \in {"upsert", "delete"}
              /\ e.op = "upsert" => e.data \in committed[e.key]
<1> DEFINE r == th[t]
           h == r.recs[1]
           s == <<h.key, IF r.op = "upsert" /\ r.batch THEN 0 ELSE r.version>>
           e == EventOf(r)
<1>1. /\ r.recs \in Seq(Record) /\ Len(r.recs) \in Nat /\ r.version \in Nat
      /\ counter \in 0..MaxVersion /\ MaxVersion \in Nat
  BY StoreBounds, SMTT(20) DEF Inv, Types, Thread
<1>2. /\ r.op \in {"upsert", "delete"} /\ Len(r.recs) >= 1
      /\ r.op = "upsert" => \A i \in DOMAIN r.recs : r.recs[i].data \in Data
      /\ r.op = "upsert" => \A i \in DOMAIN r.recs : r.recs[i].data \in committed[r.recs[i].key]
      /\ r.version >= 1 /\ r.version + Len(r.recs) - 1 <= counter
  BY DEF Inv, Calls, CallOK
<1>3. 1 \in DOMAIN r.recs /\ h \in Record /\ Head(r.recs) = h
  BY <1>1, <1>2, SMTT(20)
<1>4. h.key \in Keys /\ (r.op = "upsert" => h.data \in Data /\ h.data \in committed[h.key])
  BY <1>2, <1>3 DEF Record
<1>5. r.version \in 0..MaxVersion /\ 0 \in 0..MaxVersion
  <2> DEFINE n == Len(r.recs)
             v == r.version
  <2>1. n \in Nat /\ n >= 1 /\ v \in Nat /\ v + n - 1 <= counter /\ counter \in 0..MaxVersion /\ MaxVersion \in Nat
    BY <1>1, <1>2
  <2> HIDE DEF n, v
  <2> QED BY <2>1 DEF v
<1>6. s \in Sources
  BY <1>4, <1>5, SourcesCover
<1>7. e.op = r.op /\ e.key = h.key /\ e.data = h.data /\ e.version = r.version /\ e.source = s
  BY <1>3, Zenon DEF EventOf
<1> HIDE DEF e, s, h
<1>8. WellFormed(e)
  BY <1>1, <1>2, <1>4, <1>6, <1>7, SMTT(20) DEF WellFormed
<1> QED BY <1>2, <1>4, <1>7, <1>8 DEF e

-----------------------------------------------------------------------------
(* The count of degraded scopes.                                           *)

\* Only a thread that is about to adjust the count has something to add.
HealthInv ==
    /\ \A t \in Threads : th[t].delta # 0 => th[t].pc = "adjust"
    /\ HealthCountExact

\* A step of a thread that neither marks the scope nor adjusts the count.
Silent(t) ==
    /\ UNCHANGED <<degraded, degradedCount>>
    /\ \E x : th' = [th EXCEPT ![t] = x] /\ x.delta \in {0, th[t].delta}

LEMMA SameDeltas ==
    ASSUME HealthInv, UNCHANGED <<degraded, degradedCount>>,
           \A u \in Threads : /\ th'[u].delta = th[u].delta
                              /\ th'[u].pc = th[u].pc \/ th[u].delta = 0
    PROVE  HealthInv'
<1>2. HealthCountExact'
  BY Zenon DEF HealthInv, HealthCountExact, Adjusting
<1>3. \A u \in Threads : th'[u].delta # 0 => th'[u].pc = "adjust"
  BY DEF HealthInv
<1> QED BY <1>2, <1>3 DEF HealthInv

LEMMA SilentHealth ==
    ASSUME Inv, HealthInv, NEW t \in Threads, th[t].pc # "adjust", Silent(t)
    PROVE  HealthInv'
<1>1. PICK x : th' = [th EXCEPT ![t] = x] /\ x.delta \in {0, th[t].delta}
  BY Zenon DEF Silent
<1>4. \A u \in Threads : /\ th'[u].delta = th[u].delta
                         /\ th'[u].pc = th[u].pc \/ th[u].delta = 0
  BY <1>1 DEF Inv, Types, HealthInv
<1> QED BY <1>4, SameDeltas DEF Silent

\* A move to another place leaves the deltas alone, and so does a return.
LEMMA GotoSilent ==
    ASSUME Inv, NEW t \in Threads, NEW pc, Goto(t, pc), UNCHANGED health
    PROVE  Silent(t)
<1> DEFINE x == [th[t] EXCEPT !.pc = pc]
<1>2. x.delta = th[t].delta
  BY DEF Thread, Inv, Types
<1>3. th' = [th EXCEPT ![t] = x]
  BY DEF Goto
<1> HIDE DEF x
<1> QED BY <1>2, <1>3, Zenon DEF Silent, health

LEMMA ReturnSilent ==
    ASSUME NEW t \in Threads, Return(t), UNCHANGED health
    PROVE  Silent(t)
<1>1. Idle.delta = 0
  BY DEF Idle
<1> QED BY <1>1, Zenon DEF Return, Silent, health

\* What the steps of a call do to the health of the scope.
HealthStep(t) ==
    Silent(t) \/ \E d \in BOOLEAN, then \in Pcs : Mark(t, d, then)

LEMMA WriteHealth ==
    ASSUME Inv, NEW t \in Threads,
           Begin(t) \/ WriteBase(t) \/ Reserve(t) \/ ApplyNext(t) \/ CancelApply(t)
    PROVE  th[t].pc # "adjust" /\ Silent(t)
<1>0. th[t] \in Thread
  BY DEF Inv, Types
<1>1. CASE Begin(t)
  <2>1. PICK r \in Requests(t) :
          th' = [th EXCEPT ![t] = [Idle EXCEPT
                    !.pc = CASE r.op \in {"upsert", "delete"} -> "write"
                             [] r.op = "get"  -> "get"
                             [] r.op = "list" -> "warm",
                    !.op = r.op, !.recs = r.recs, !.batch = Len(r.recs) > 1]]
    BY <1>1, Zenon DEF Begin
  <2> DEFINE pc == CASE r.op \in {"upsert", "delete"} -> "write"
                     [] r.op = "get"  -> "get"
                     [] r.op = "list" -> "warm"
             x  == [Idle EXCEPT !.pc = pc, !.op = r.op, !.recs = r.recs, !.batch = Len(r.recs) > 1]
  <2>2. th' = [th EXCEPT ![t] = x]
    BY <2>1
  <2> HIDE DEF pc
  <2>3. x.delta = 0
    BY DEF Idle
  <2> HIDE DEF x
  <2> QED BY <1>1, <2>2, <2>3, Zenon DEF Begin, Pc, Silent, health
<1>2. CASE WriteBase(t)
  BY <1>2, GotoSilent, ReturnSilent DEF WriteBase, Pc
<1>3. CASE Reserve(t)
  <2> DEFINE x == [th[t] EXCEPT !.pc = "apply", !.version = counter + 1]
  <2>1. th' = [th EXCEPT ![t] = x]
    BY <1>3, Zenon DEF Reserve, ReserveRun
  <2>2. x.delta = th[t].delta
    BY <1>0 DEF Thread
  <2> HIDE DEF x
  <2> QED BY <1>3, <2>1, <2>2, Zenon DEF Reserve, ReserveRun, Pc, Silent, health
<1>4. CASE ApplyNext(t)
  <2> DEFINE a       == ApplyEvent(hot, EventOf(th[t]))
             applied == th[t].applied \/ a.state = "applied"
             pc      == IF Len(th[t].recs) = 1 THEN "remember" ELSE "apply"
             err     == IF a.state = "rejected" THEN "limit" ELSE th[t].err
             rest    == Tail(th[t].recs)
             v       == th[t].version + 1
             x       == [th[t] EXCEPT !.pc = pc, !.recs = rest, !.version = v,
                                      !.applied = applied, !.err = err]
  <2>1. th' = [th EXCEPT ![t] = x]
    BY <1>4, ZenonT(30) DEF ApplyNext
  <2> HIDE DEF a, applied, pc, err, rest, v
  <2>2. x.delta = th[t].delta
    BY <1>0 DEF Thread
  <2> HIDE DEF x
  <2> QED BY <1>4, <2>1, <2>2, Zenon DEF ApplyNext, Pc, Silent, health
<1>5. CASE CancelApply(t)
  <2> DEFINE err == IF th[t].err = "limit" THEN "limit" ELSE "failed"
             x   == [th[t] EXCEPT !.pc = "remember", !.err = err]
  <2>1. th' = [th EXCEPT ![t] = x]
    BY <1>5, Zenon DEF CancelApply
  <2> HIDE DEF err
  <2>2. x.delta = th[t].delta
    BY <1>0 DEF Thread
  <2> HIDE DEF x
  <2> QED BY <1>5, <2>1, <2>2, Zenon DEF CancelApply, Pc, Silent, health
<1> QED BY <1>1, <1>2, <1>3, <1>4, <1>5

LEMMA ReadHealth ==
    ASSUME Inv, NEW t \in Threads,
           \/ Remember(t) \/ GetHot(t) \/ Lookup(t) \/ Missed(t) \/ GetBase(t)
           \/ EnsureWarm(t) \/ CheckLimit(t) \/ Join(t) \/ ListHot(t) \/ ListBase(t)
    PROVE  th[t].pc # "adjust" /\ HealthStep(t)
<1>0. th[t] \in Thread
  BY DEF Inv, Types
<1>p. {"idle", "getBase", "listBase"} \subseteq Pcs
  BY DEF Pcs
<1>1. CASE Remember(t)
  BY <1>0, <1>1, <1>p, ReturnSilent, Zenon DEF Thread, Remember, MarkDegraded, MarkHealthy, Pc,
     HealthStep
<1>2. CASE GetHot(t)
  BY <1>2, GotoSilent DEF GetHot, Pc, HealthStep
<1>3. CASE Lookup(t)
  BY <1>3, <1>p, ReturnSilent, GotoSilent, Zenon DEF Lookup, MarkDegraded, health, Pc, HealthStep
<1>4. CASE Missed(t)
  BY <1>4, GotoSilent, ReturnSilent DEF Missed, Pc, HealthStep
<1>5. CASE GetBase(t)
  <2> DEFINE k == AskedKey(t)
             recs == <<[key |-> k, data |-> base[k]]>>
             x == [th[t] EXCEPT !.pc = "reserve", !.op = "upsert", !.recs = recs]
  <2>1. Return(t) \/ th' = [th EXCEPT ![t] = x]
    BY <1>5, Zenon DEF GetBase
  <2> HIDE DEF recs
  <2>2. x.delta = th[t].delta
    BY <1>0 DEF Thread
  <2> HIDE DEF x
  <2> QED BY <1>5, <2>1, <2>2, ReturnSilent DEF HealthStep, Silent, health, GetBase, Pc
<1>6. CASE EnsureWarm(t)
  BY <1>6, GotoSilent DEF EnsureWarm, Pc, HealthStep
<1>7. CASE CheckLimit(t)
  BY <1>7, GotoSilent DEF CheckLimit, Pc, HealthStep
<1>8. CASE Join(t)
  BY <1>8, GotoSilent DEF Join, Pc, HealthStep
<1>9. CASE ListHot(t)
  BY <1>9, <1>p, ReturnSilent, Zenon DEF ListHot, MarkDegraded, Pc, HealthStep
<1>10. CASE ListBase(t)
  BY <1>10, ReturnSilent DEF ListBase, Pc, HealthStep
<1> QED BY <1>1, <1>2, <1>3, <1>4, <1>5, <1>6, <1>7, <1>8, <1>9, <1>10

LEMMA RebuildHealth ==
    ASSUME Inv, NEW t \in Threads,
           CountBase(t) \/ Stream(t) \/ Swap(t) \/ Warmed(t)
    PROVE  th[t].pc # "adjust" /\ HealthStep(t)
<1>p. {"finishOk", "finishErr"} \subseteq Pcs
  BY DEF Pcs
<1>f. ASSUME LeaderFails(t) PROVE HealthStep(t)
  BY <1>f, <1>p, GotoSilent, Zenon DEF LeaderFails, MarkDegraded, HealthStep
<1>1. CASE CountBase(t)
  BY <1>1, <1>f, GotoSilent DEF CountBase, Pc, HealthStep
<1>2. CASE Stream(t)
  BY <1>2, <1>f, <1>p, GotoSilent, Zenon DEF Stream, MarkDegraded, Pc, HealthStep
<1>3. CASE Swap(t)
  BY <1>3, GotoSilent DEF Swap, Pc, HealthStep
<1>4. CASE Warmed(t)
  BY <1>4, <1>p, Zenon DEF Warmed, MarkHealthy, Pc, HealthStep
<1> QED BY <1>1, <1>2, <1>3, <1>4

\* Finish moves the threads that wait, none of which has an adjustment to make.
LEMMA FinishHealth ==
    ASSUME Inv, HealthInv, NEW t \in Threads, Finish(t)
    PROVE  HealthInv'
<1> DEFINE pc == IF th[t].pc = "finishOk" THEN "list" ELSE "listBase"
<1>1. /\ th[t].pc \in {"finishOk", "finishErr"} /\ UNCHANGED <<degraded, degradedCount>>
      /\ th' = [u \in Threads |-> IF u = t \/ th[u].pc = "wait"
                                  THEN [th[u] EXCEPT !.pc = pc] ELSE th[u]]
  BY DEF Finish, Pc, health
<1> HIDE DEF pc
<1>2. ASSUME NEW u \in Threads
      PROVE  /\ th'[u].delta = th[u].delta
             /\ th'[u].pc = th[u].pc \/ th[u].delta = 0
  BY <1>1 DEF Inv, Types, Thread, HealthInv
<1> QED BY <1>1, <1>2, SameDeltas

-----------------------------------------------------------------------------
(* One caller.                                                             *)

\* The versions handed to the partition so far, and the keys whose events are
\* still to be applied.
UpTo(r) == IF r.pc = "apply" THEN r.version - 1 ELSE counter

Pending(r) == IF r.pc \in {"reserve", "apply"} THEN {r.recs[i].key : i \in DOMAIN r.recs} ELSE {}

\* Nothing failed, and only deletes come in batches.
Calm(r) ==
    /\ r.err = "none" /\ r.pc # "adjust"
    /\ r.op = "upsert" \/ Asking(r) => ~r.batch /\ Len(r.recs) <= 1

\* The partition has seen no version after w.
Older(w) ==
    /\ \A k \in Keys : hot.ver[k] <= w /\ hot.tomb[k] <= w
    /\ \A f \in Prefixes : hot.fence[f].version <= w
    /\ hot.applied \subseteq Keys \X (0..w)

Agree(K) == \A k \in K : hot.ver[k] > 0 \/ warm => hot.data[k] = base[k]

\* The events to apply carry what the base holds.
Owed(r) ==
    r.pc \in {"reserve", "apply"} =>
      \A i \in DOMAIN r.recs :
        base[r.recs[i].key] = IF r.op = "upsert" THEN r.recs[i].data ELSE NoData

\* A rebuild numbers the records of the base; the counter is past them.
Counted(r) ==
    Cardinality(BaseKeys) <= IF r.pc = "reserve" THEN counter + Len(r.recs) ELSE counter

\* What the caller concluded from an earlier step still holds.
Seen(r) ==
    /\ r.pc = "missed" => hot.ver[r.recs[1].key] = 0
    /\ r.pc = "swap" => snapshot.data = base /\ \A k \in Keys : snapshot.ver[k] <= counter
    /\ r.pc = "warmed" => hot.data = base
    /\ r.pc \in {"finishOk", "list"} => warm

Solo(r) ==
    /\ Calm(r) /\ Older(UpTo(r)) /\ Agree(Keys \ Pending(r))
    /\ Owed(r) /\ Counted(r) /\ Seen(r)

SoloInv ==
    /\ ~degraded
    /\ \A k \in Keys : hot.ver[k] = 0 => hot.data[k] = NoData
    /\ \A t \in Threads : Solo(th[t])

LEMMA SoloThread ==
    ASSUME OneCaller, NEW t \in Threads, ~degraded',
           \A k \in Keys : hot'.ver[k] = 0 => hot'.data[k] = NoData, Solo(th[t])'
    PROVE  SoloInv'
<1>2. \A u \in Threads : Solo(th[u])'
  BY DEF OneCaller
<1> QED BY <1>2 DEF SoloInv

\* What the store's invariant says of the call of t and of the store.
LEMMA CallTypes ==
    ASSUME Inv, NEW t \in Threads
    PROVE  /\ th \in [Threads -> Thread] /\ th[t] \in Thread /\ CallOK(th[t])
           /\ th[t].recs \in Seq(Record) /\ Len(th[t].recs) \in Nat /\ th[t].version \in Nat
<1>1. th \in [Threads -> Thread] /\ CallOK(th[t])
  BY Zenon DEF Inv, Types, Calls
<1>2. th[t] \in Thread
  BY <1>1
<1>3. th[t].recs \in Seq(Record) /\ th[t].version \in Nat
  BY <1>2 DEF Thread
<1> QED BY <1>1, <1>2, <1>3

LEMMA StoreTypes ==
    ASSUME Inv
    PROVE  /\ base \in [Keys -> Data \cup {NoData}] /\ counter \in Nat
           /\ hot \in Partition /\ Sound(hot)
<1>1. base \in [Keys -> Data \cup {NoData}] /\ counter \in 0..MaxVersion /\ Sound(hot)
  BY Zenon DEF Inv, Types, Payloads
<1>2. counter \in Nat
  BY <1>1, StoreBounds
<1> QED BY <1>1, <1>2, Zenon DEF Sound

\* A step that leaves base, partition and counter alone, outside a write.
LEMMA SoloQuiet ==
    ASSUME OneCaller, SoloInv, NEW t \in Threads,
           UNCHANGED <<base, hot, counter, snapshot, degraded, warm>>,
           th[t].pc \notin {"reserve", "apply"}, Calm(th[t])',
           th'[t].pc \notin {"reserve", "apply", "swap", "warmed"},
           th'[t].pc = "missed" => hot.ver[th'[t].recs[1].key] = 0,
           th'[t].pc \in {"finishOk", "list"} => warm
    PROVE  SoloInv'
<1>1. Older(UpTo(th[t])) /\ Agree(Keys \ Pending(th[t])) /\ Counted(th[t])
  BY Zenon DEF SoloInv, Solo
<1>2. /\ UpTo(th[t]) = counter /\ Pending(th[t]) = {}
      /\ UpTo(th[t])' = counter /\ Pending(th[t])' = {}
  BY DEF UpTo, Pending
<1>3. Older(UpTo(th[t]))'
  BY <1>1, <1>2 DEF Older
<1>4. Agree(Keys \ Pending(th[t]))'
  BY <1>1, <1>2 DEF Agree
<1>5. Owed(th[t])' /\ Seen(th[t])'
  BY Zenon DEF Owed, Seen
<1>6. Counted(th[t])'
  BY <1>1 DEF Counted, BaseKeys
<1>7. Solo(th[t])'
  BY <1>3, <1>4, <1>5, <1>6, Zenon DEF Solo
<1>8. ~degraded' /\ \A k \in Keys : hot'.ver[k] = 0 => hot'.data[k] = NoData
  BY Zenon DEF SoloInv
<1> QED BY <1>7, <1>8, SoloThread, Zenon

LEMMA GotoFields ==
    ASSUME Inv, NEW t \in Threads, NEW pc, Goto(t, pc)
    PROVE  /\ th'[t].pc = pc /\ th'[t].recs = th[t].recs /\ th'[t].op = th[t].op
           /\ th'[t].batch = th[t].batch /\ th'[t].err = th[t].err
           /\ th'[t].then = th[t].then
<1>1. th \in [Threads -> Thread]
  BY DEF Inv, Types
<1>2. th'[t] = [th[t] EXCEPT !.pc = pc]
  BY <1>1 DEF Goto
<1>3. th[t] \in Thread
  BY <1>1
<1> QED BY <1>2, <1>3 DEF Thread

LEMMA SoloGoto ==
    ASSUME OneCaller, Inv, SoloInv, NEW t \in Threads, NEW pc, Goto(t, pc),
           UNCHANGED <<base, hot, counter, snapshot, degraded, warm>>,
           th[t].pc \notin {"reserve", "apply"},
           pc \notin {"reserve", "apply", "swap", "warmed", "adjust"},
           pc \in {"get", "lookup", "missed", "getBase"} => Asking(th[t]),
           pc = "missed" => hot.ver[th[t].recs[1].key] = 0,
           pc \in {"finishOk", "list"} => warm
    PROVE  SoloInv'
<1>1. /\ th'[t].pc = pc /\ th'[t].recs = th[t].recs /\ th'[t].op = th[t].op
      /\ th'[t].batch = th[t].batch /\ th'[t].err = th[t].err
  BY GotoFields, Zenon
<1>3. Calm(th[t])'
  BY <1>1, Zenon DEF Calm, Asking, SoloInv, Solo
<1> QED BY <1>1, <1>3, SoloQuiet, Zenon

LEMMA SoloReturn ==
    ASSUME OneCaller, Inv, SoloInv, NEW t \in Threads, Return(t),
           UNCHANGED <<base, hot, counter, snapshot, degraded, warm>>,
           th[t].pc \notin {"reserve", "apply"}
    PROVE  SoloInv'
<1>2. Calm(th[t])' /\ th'[t].pc = "idle"
  BY CallTypes DEF Idle, Calm, Asking, Return
<1> QED BY <1>2, SoloQuiet

-----------------------------------------------------------------------------
(* One caller: reads.                                                      *)

LEMMA SoloBegin ==
    ASSUME OneCaller, Inv, SoloInv, NEW t \in Threads, Begin(t)
    PROVE  SoloInv'
<1>1. PICK r \in Requests(t) :
        th' = [th EXCEPT ![t] = [Idle EXCEPT
                  !.pc = CASE r.op \in {"upsert", "delete"} -> "write"
                           [] r.op = "get"  -> "get"
                           [] r.op = "list" -> "warm",
                  !.op = r.op, !.recs = r.recs, !.batch = Len(r.recs) > 1]]
  BY Zenon DEF Begin
<1>2. /\ r.op \in {"upsert", "delete", "get", "list"} /\ r.recs \in Seq(Record)
      /\ r.op \in {"upsert", "get"} => Len(r.recs) = 1
  BY RequestsWellFormed DEF OneCaller
<1> DEFINE pc == CASE r.op \in {"upsert", "delete"} -> "write"
                   [] r.op = "get"  -> "get"
                   [] r.op = "list" -> "warm"
           many == Len(r.recs) > 1
           x == [Idle EXCEPT !.pc = pc, !.op = r.op, !.recs = r.recs, !.batch = many]
<1>3. pc \in {"write", "get", "warm"} /\ (pc = "get" => r.op = "get")
  BY <1>2
<1>4. r.op \in {"upsert", "get"} => ~many
  <2>1. ~(1 > 1)
    OBVIOUS
  <2> QED BY <1>2, <2>1, Zenon
<1>5. th'[t] = x
  BY <1>1, Zenon DEF Inv, Types
<1> HIDE DEF pc, many
<1>6. x.pc = pc /\ x.op = r.op /\ x.recs = r.recs /\ x.batch = many /\ x.err = "none"
  BY Zenon DEF Idle
<1> HIDE DEF x
<1>7. Calm(th[t])'
  <2>4. 1 <= 1
    OBVIOUS
  <2> QED BY <1>2, <1>4, <1>5, <1>6, <1>3, <2>4, Zenon DEF Calm, Asking
<1>8. UNCHANGED <<base, hot, counter, snapshot, degraded, warm>> /\ th[t].pc = "idle"
  BY Zenon DEF Begin, store, part, health, scope, Pc
<1>9. th'[t].pc \in {"write", "get", "warm"}
  BY <1>3, <1>5, <1>6
<1> QED BY <1>7, <1>8, <1>9, SoloQuiet

LEMMA SoloRemember ==
    ASSUME OneCaller, Inv, SoloInv, NEW t \in Threads, Remember(t)
    PROVE  SoloInv'
<1>1. th[t].err = "none" /\ ~degraded /\ th[t].pc = "remember"
  BY Zenon DEF SoloInv, Solo, Calm, Remember, Pc
<1>2. Mark(t, FALSE, "idle") /\ UNCHANGED <<base, hot, counter, snapshot, warm>>
  BY <1>1, Zenon DEF Remember, MarkHealthy, store, part, scope
<1>4. Return(t) /\ UNCHANGED degraded
  BY <1>2, <1>1, Zenon DEF Mark, Return, Inv, Types
<1> QED BY <1>1, <1>2, <1>4, SoloReturn

LEMMA SoloGet ==
    ASSUME OneCaller, Inv, SoloInv, NEW t \in Threads, GetHot(t) \/ Lookup(t) \/ Missed(t)
    PROVE  SoloInv'
<1>0. ~Faults /\ ~degraded
  BY DEF OneCaller, SoloInv
<1>1. CASE GetHot(t)
  <2>1. /\ th[t].pc = "get" /\ Goto(t, "lookup")
        /\ UNCHANGED <<base, hot, counter, snapshot, degraded, warm>>
    BY <1>0, <1>1, Zenon DEF GetHot, store, part, health, scope, Pc
  <2> QED BY <2>1, SoloGoto DEF Asking
<1>2. CASE Lookup(t)
  <2>1. th[t].pc = "lookup" /\ UNCHANGED <<base, hot, counter, snapshot, warm>>
    BY <1>2 DEF Lookup, store, part, scope, Pc
  <2>2. CASE Return(t) /\ UNCHANGED health
    BY <2>1, <2>2, SoloReturn DEF health
  <2>3. CASE AskedKey(t) \notin Live(hot) /\ Goto(t, "missed") /\ UNCHANGED health
    <3>1. th[t].recs[1].key \in Keys /\ hot.ver \in [Keys -> Nat]
      <4>2. Len(th[t].recs) >= 1 /\ th[t].recs \in Seq(Record)
        BY <2>1, CallTypes DEF CallOK, Asking
      <4>3. th[t].recs[1] \in Record
        BY <4>2
      <4>4. hot.ver \in [Keys -> Nat]
        BY StoreTypes DEF Partition
      <4> QED BY <4>3, <4>4 DEF Record
    <3>2. hot.ver[th[t].recs[1].key] = 0
      BY <2>3, <3>1 DEF AskedKey, Live
    <3>3. Asking(th[t]) /\ UNCHANGED degraded
      BY <2>1, <2>3 DEF Asking, health
    <3> QED BY <2>1, <2>3, <3>2, <3>3, SoloGoto
  <2> QED BY <1>0, <1>2, <2>2, <2>3, Zenon DEF Lookup
<1>3. CASE Missed(t)
  <2>1. /\ th[t].pc = "missed" /\ (Return(t) \/ Goto(t, "getBase"))
        /\ UNCHANGED <<base, hot, counter, snapshot, degraded, warm>>
    BY <1>3, Zenon DEF Missed, store, part, health, scope, Pc
  <2>2. Asking(th[t])
    BY <2>1 DEF Asking
  <2> QED BY <2>1, <2>2, SoloReturn, SoloGoto, Zenon
<1> QED BY <1>1, <1>2, <1>3

-----------------------------------------------------------------------------
(* One caller: the rebuild.                                                *)

LEMMA SoloWarm ==
    ASSUME OneCaller, Inv, SoloInv, NEW t \in Threads,
           EnsureWarm(t) \/ CheckLimit(t) \/ Join(t) \/ CountBase(t) \/ ListHot(t) \/ ListBase(t)
    PROVE  SoloInv'
<1>0. ~Faults /\ ~degraded /\ ~LeaderFails(t)
  BY DEF OneCaller, SoloInv, LeaderFails
<1>1. CASE EnsureWarm(t)
  <2>1. /\ th[t].pc = "warm" /\ Goto(t, IF warm /\ ~degraded THEN "list" ELSE "limit")
        /\ UNCHANGED <<base, hot, counter, snapshot, degraded, warm>>
    BY <1>1, Zenon DEF EnsureWarm, store, part, health, scope, Pc
  <2> QED BY <2>1, SoloGoto, Zenon
<1>2. CASE CheckLimit(t)
  <2>1. /\ th[t].pc = "limit" /\ (Goto(t, "listBase") \/ Goto(t, "join"))
        /\ UNCHANGED <<base, hot, counter, snapshot, degraded, warm>>
    BY <1>2, Zenon DEF CheckLimit, store, part, health, Pc
  <2> QED BY <2>1, SoloGoto
<1>3. CASE Join(t)
  <2>1. /\ th[t].pc = "join" /\ (Goto(t, "lead") \/ Goto(t, "wait"))
        /\ UNCHANGED <<base, hot, counter, snapshot, degraded, warm>>
    BY <1>3, Zenon DEF Join, store, part, health, Pc
  <2> QED BY <2>1, SoloGoto
<1>4. CASE CountBase(t)
  <2>1. /\ th[t].pc = "lead"
        /\ (warm /\ Goto(t, "finishOk")) \/ Goto(t, "finishErr") \/ Goto(t, "stream")
        /\ UNCHANGED <<base, hot, counter, snapshot, degraded, warm>>
    BY <1>0, <1>4, Zenon DEF CountBase, store, part, health, Pc
  <2> QED BY <2>1, SoloGoto
<1>5. CASE ListHot(t)
  BY <1>0, <1>5, SoloReturn DEF ListHot, store, part, health, scope, Pc
<1>6. CASE ListBase(t)
  BY <1>6, SoloReturn DEF ListBase, store, part, health, scope, Pc
<1> QED BY <1>1, <1>2, <1>3, <1>4, <1>5, <1>6

LEMMA SoloFinish ==
    ASSUME OneCaller, Inv, SoloInv, NEW t \in Threads, Finish(t)
    PROVE  SoloInv'
<1> DEFINE pc == IF th[t].pc = "finishOk" THEN "list" ELSE "listBase"
<1>1. th' = [th EXCEPT ![t].pc = pc]
  <2>1. th' = [u \in Threads |-> IF u = t \/ th[u].pc = "wait"
                                 THEN [th[u] EXCEPT !.pc = pc] ELSE th[u]]
    BY DEF Finish, Pc
  <2> HIDE DEF pc
  <2> QED BY <2>1, Zenon DEF Inv, Types, OneCaller
<1>2. UNCHANGED <<base, hot, counter, snapshot, degraded, warm>> /\ th[t].pc \in {"finishOk", "finishErr"}
  BY DEF Finish, store, part, health, Pc
<1>3. pc = "list" => warm
  BY Zenon DEF SoloInv, Solo, Seen
<1>4. Goto(t, pc) /\ pc \in {"list", "listBase"}
  BY <1>1 DEF Goto
<1> HIDE DEF pc
<1> QED BY <1>2, <1>3, <1>4, SoloGoto

LEMMA SoloSwap ==
    ASSUME OneCaller, Inv, SoloInv, NEW t \in Threads, Swap(t)
    PROVE  SoloInv'
<1>0. /\ th[t].pc = "swap" /\ UNCHANGED <<base, counter, warm, degraded>> /\ Solo(th[t])
      /\ Goto(t, "warmed")
      /\ hot' = BulkLoad(hot, snapshot.ver, snapshot.data)
  BY Zenon DEF Swap, store, health, Pc, SoloInv
<1>1. /\ hot'.ver = snapshot.ver /\ hot'.data = snapshot.data
      /\ hot'.tomb = [k \in Keys |-> 0] /\ hot'.applied = {} /\ hot'.fence = hot.fence
  BY <1>0, Zenon DEF BulkLoad
<1>2. snapshot.data = base /\ \A k \in Keys : snapshot.ver[k] <= counter
  BY <1>0, Zenon DEF Solo, Seen
<1>3. /\ th'[t].pc = "warmed" /\ th'[t].recs = th[t].recs /\ th'[t].op = th[t].op
      /\ th'[t].batch = th[t].batch /\ th'[t].err = th[t].err
  BY <1>0, GotoFields, Zenon
<1>4. Calm(th[t]) /\ Older(counter) /\ Counted(th[t])
  BY <1>0, Zenon DEF Solo, UpTo
<1>5. UpTo(th[t])' = counter /\ counter \in Nat /\ Pending(th[t])' = {}
  BY <1>0, <1>3, StoreTypes DEF UpTo, Pending
<1>6. Older(UpTo(th[t]))'
  <2>1. (\A k \in Keys : hot'.ver[k] <= counter /\ hot'.tomb[k] <= counter) /\ hot'.applied = {}
    BY <1>1, <1>2, <1>5
  <2>2. \A f \in Prefixes : hot'.fence[f].version <= counter
    BY <1>1, <1>4 DEF Older
  <2> QED BY <1>5, <2>1, <2>2 DEF Older
<1>7. Agree(Keys \ Pending(th[t]))' /\ hot'.data = base'
  BY <1>0, <1>1, <1>2, Zenon DEF Agree
<1>8. Calm(th[t])' /\ Owed(th[t])' /\ Seen(th[t])'
  BY <1>3, <1>4, <1>7, Zenon DEF Calm, Asking, Owed, Seen
<1>9. \A k \in Keys : hot'.ver[k] = 0 => hot'.data[k] = NoData
  <2>1. SnapshotOK
    BY <1>0, Zenon DEF Inv, Rebuild
  <2> QED BY <1>1, <2>1 DEF SnapshotOK
<1>10. Counted(th[t])'
  BY <1>0, <1>3, <1>4 DEF Counted, BaseKeys
<1>11. Solo(th[t])'
  BY <1>6, <1>7, <1>8, <1>10, Zenon DEF Solo
<1>12. ~degraded'
  BY <1>0, Zenon DEF SoloInv
<1> QED BY <1>9, <1>11, <1>12, SoloThread, Zenon

LEMMA SoloWarmed ==
    ASSUME OneCaller, Inv, SoloInv, NEW t \in Threads, Warmed(t)
    PROVE  SoloInv'
<1>0. /\ th[t].pc = "warmed" /\ UNCHANGED <<base, counter, hot, snapshot>> /\ Solo(th[t])
      /\ warm' /\ ~degraded /\ Mark(t, FALSE, "finishOk")
  BY Zenon DEF Warmed, MarkHealthy, store, part, Pc, SoloInv
<1>2. Goto(t, "finishOk") /\ UNCHANGED degraded
  BY <1>0, Zenon DEF Mark, Goto, Inv, Types
<1>3. /\ th'[t].pc = "finishOk" /\ th'[t].recs = th[t].recs /\ th'[t].op = th[t].op
      /\ th'[t].batch = th[t].batch /\ th'[t].err = th[t].err
  BY <1>2, GotoFields
<1>4. Calm(th[t]) /\ Older(counter) /\ Counted(th[t]) /\ hot.data = base
  BY <1>0, Zenon DEF Solo, UpTo, Seen
<1>5. UpTo(th[t])' = counter
  BY <1>0, <1>3 DEF UpTo
<1>6. Older(UpTo(th[t]))'
  BY <1>0, <1>4, <1>5 DEF Older
<1>7. Agree(Keys \ Pending(th[t]))'
  BY <1>0, <1>4, Zenon DEF Agree
<1>8. Calm(th[t])' /\ Owed(th[t])' /\ Seen(th[t])'
  BY <1>0, <1>3, <1>4, Zenon DEF Calm, Asking, Owed, Seen
<1>9. Counted(th[t])'
  BY <1>0, <1>3, <1>4, Zenon DEF Counted, BaseKeys
<1>10. Solo(th[t])'
  BY <1>6, <1>7, <1>8, <1>9, Zenon DEF Solo
<1> QED BY <1>0, <1>2, <1>10, SoloThread DEF SoloInv

-----------------------------------------------------------------------------
(* One caller: writes.                                                     *)

\* What a base write leaves.
LEMMA WrittenValues ==
    ASSUME NEW b \in [Keys -> Data \cup {NoData}], NEW op, NEW recs \in Seq(Record),
           op = "upsert" => Len(recs) = 1
    PROVE  LET w == Written(b, op, recs) IN
           /\ \A i \in DOMAIN recs :
                w[recs[i].key] = IF op = "upsert" THEN recs[i].data
                                 ELSE IF op = "delete" THEN NoData ELSE w[recs[i].key]
           /\ \A k \in Keys : (\A i \in DOMAIN recs : recs[i].key # k) => w[k] = b[k]
<1> DEFINE at(k) == {i \in DOMAIN recs : recs[i].key = k}
           w == Written(b, op, recs)
<1>1. \A k \in Keys : w[k] = IF at(k) = {} THEN b[k]
                             ELSE IF op = "delete" THEN NoData ELSE recs[Max(at(k))].data
  BY DEF Written
<1> HIDE DEF w
<1>2. ASSUME NEW i \in DOMAIN recs
      PROVE  recs[i].key \in Keys /\ at(recs[i].key) # {}
  <2>1. recs[i] \in Record
    BY <1>2
  <2>2. i \in at(recs[i].key)
    BY <1>2
  <2> HIDE DEF at
  <2> QED BY <2>1, <2>2 DEF Record
<1>3. ASSUME NEW i \in DOMAIN recs, op = "upsert"
      PROVE  w[recs[i].key] = recs[i].data
  <2>1. i = 1 /\ DOMAIN recs = {1}
    BY <1>3
  <2>2. at(recs[i].key) = {1}
    BY <2>1
  <2> HIDE DEF at
  <2> QED BY <2>1, <1>1, <2>2, <1>2, <1>3 DEF Max
<1>4. ASSUME NEW i \in DOMAIN recs, op = "delete"
      PROVE  w[recs[i].key] = NoData
  BY <1>1, <1>2, <1>4, Zenon
<1>5. ASSUME NEW k \in Keys, \A i \in DOMAIN recs : recs[i].key # k
      PROVE  w[k] = b[k]
  <2>1. at(k) = {}
    BY <1>5
  <2> HIDE DEF at
  <2> QED BY <1>1, <2>1
<1>6. "upsert" # "delete"
  OBVIOUS
<1> HIDE DEF at
<1> QED BY <1>3, <1>4, <1>5, <1>6, Zenon DEF w

LEMMA SoloReserve ==
    ASSUME OneCaller, Inv, SoloInv, NEW t \in Threads, Reserve(t)
    PROVE  SoloInv'
<1>1. /\ UNCHANGED <<base, hot, degraded, warm, snapshot>> /\ th[t].pc = "reserve"
      /\ counter' = counter + Len(th[t].recs)
      /\ th' = [th EXCEPT ![t].pc = "apply", ![t].version = counter + 1]
  BY Zenon DEF Reserve, ReserveRun, store, part, health, scope, Pc
<1>2. /\ th'[t].pc = "apply" /\ th'[t].recs = th[t].recs /\ th'[t].op = th[t].op
      /\ th'[t].version = counter + 1
      /\ th'[t].batch = th[t].batch /\ th'[t].err = th[t].err
  BY <1>1, CallTypes DEF Thread
<1>3. /\ Calm(th[t]) /\ Older(counter) /\ Agree(Keys \ Pending(th[t]))
      /\ Owed(th[t]) /\ Counted(th[t])
  <2>1. UpTo(th[t]) = counter
    BY <1>1 DEF UpTo
  <2> QED BY <2>1, Zenon DEF Solo, SoloInv
<1>5. UpTo(th[t])' = counter /\ Pending(th[t])' = Pending(th[t])
  <2>1. (counter + 1) - 1 = counter
    BY StoreTypes
  <2> QED BY <1>1, <1>2, <2>1, Zenon DEF UpTo, Pending
<1>6. Older(UpTo(th[t]))'
  BY <1>1, <1>3, <1>5, Zenon DEF Older
<1>7. Agree(Keys \ Pending(th[t]))'
  BY <1>1, <1>3, <1>5 DEF Agree
<1>8. Owed(th[t])'
  BY <1>1, <1>2, <1>3 DEF Owed
<1>9. Counted(th[t])'
  BY <1>1, <1>2, <1>3 DEF Counted, BaseKeys
<1>10. Calm(th[t])' /\ Seen(th[t])'
  BY <1>2, <1>3 DEF Calm, Asking, Seen
<1>11. Solo(th[t])'
  BY <1>6, <1>7, <1>8, <1>9, <1>10, Zenon DEF Solo
<1> QED BY <1>1, <1>11, SoloThread, Zenon DEF SoloInv

\* What an event that was applied leaves: the versions of the call move on, and
\* the record of the event is what the call wrote.
Landed(t, r, k, applied) ==
    /\ th' = [th EXCEPT ![t].pc = IF Len(r.recs) = 1 THEN "remember" ELSE "apply",
                        ![t].recs = Tail(r.recs), ![t].version = r.version + 1,
                        ![t].applied = applied, ![t].err = r.err]
    /\ Sound(hot')
    /\ hot'.ver = [hot.ver EXCEPT ![k] = IF r.op = "upsert" THEN r.version ELSE 0]
    /\ hot'.data = [hot.data EXCEPT ![k] = IF r.op = "upsert" THEN r.recs[1].data ELSE NoData]
    /\ hot'.applied \subseteq hot.applied \cup {<<k, r.version>>}
    /\ \A j \in Keys : hot'.tomb[j] \in {hot.tomb[j], 0, r.version}
    /\ \A f \in Prefixes : hot'.fence[f].version \in {hot.fence[f].version, 0, r.version}

LEMMA SoloApplied ==
    ASSUME OneCaller, Inv, SoloInv, NEW t \in Threads, NEW r, r = th[t], r.pc = "apply",
           NEW k, k = r.recs[1].key, NEW applied, Landed(t, r, k, applied),
           UNCHANGED <<base, counter, degraded, warm, snapshot>>
    PROVE  SoloInv'
<1> DEFINE last == Len(r.recs) = 1
           pc   == IF last THEN "remember" ELSE "apply"
           rest == Tail(r.recs)
           v    == r.version + 1
           ver  == IF r.op = "upsert" THEN r.version ELSE 0
           data == IF r.op = "upsert" THEN r.recs[1].data ELSE NoData
<1>0. /\ r.recs \in Seq(Record) /\ Len(r.recs) \in Nat /\ r.version \in Nat /\ r.version >= 1
      /\ Len(r.recs) >= 1 /\ r.version + Len(r.recs) - 1 <= counter /\ counter \in Nat
  BY CallTypes, StoreTypes, Zenon DEF CallOK
<1>p. /\ Calm(r) /\ Older(r.version - 1) /\ Agree(Keys \ Pending(r)) /\ Owed(r) /\ Counted(r)
  BY Zenon DEF SoloInv, Solo, UpTo
<1>7. /\ th'[t].pc = pc /\ th'[t].recs = rest /\ th'[t].version = v /\ th'[t].err = r.err
      /\ th'[t].op = r.op /\ th'[t].batch = r.batch
  <2>1. th' = [th EXCEPT ![t].pc = pc, ![t].recs = rest, ![t].version = v,
                         ![t].applied = applied, ![t].err = r.err]
    BY Zenon DEF Landed
  <2> HIDE DEF pc, rest, v
  <2> QED BY <2>1, CallTypes DEF Thread
<1>9. k \in Keys /\ hot \in Partition /\ 1 \in DOMAIN r.recs
  <2>1. r.recs[1] \in Record /\ 1 \in DOMAIN r.recs
    BY <1>0
  <2> QED BY <2>1, StoreTypes, Zenon DEF Record
<1> HIDE DEF pc, rest, v
<1>10. \A j \in Keys : /\ hot'.ver[j] = IF j = k THEN ver ELSE hot.ver[j]
                       /\ hot'.data[j] = IF j = k THEN data ELSE hot.data[j]
  <2>1. hot'.ver = [hot.ver EXCEPT ![k] = ver] /\ hot'.data = [hot.data EXCEPT ![k] = data]
    BY Zenon DEF Landed
  <2> HIDE DEF ver, data
  <2>2. hot.ver \in [Keys -> Nat] /\ hot.data \in [Keys -> Data \cup {NoData}]
    BY <1>9, Zenon DEF Partition
  <2> QED BY <2>1, <2>2
<1>11. ver \in {0, r.version} /\ (ver = 0 => data = NoData)
  <2>1. r.version # 0
    BY <1>0
  <2> QED BY <2>1, Zenon
<1> HIDE DEF ver, data
<1>12. \A j \in Keys : hot'.ver[j] = 0 => hot'.data[j] = NoData
  BY <1>10, <1>11 DEF SoloInv
<1>14. PICK w \in Nat : w = r.version /\ w - 1 \in Int
  BY <1>0
<1>15. Older(w)'
  <2>0. Older(w - 1)
    BY <1>p, <1>14, Zenon
  <2>1. ASSUME NEW j \in Keys PROVE hot'.ver[j] <= w /\ hot'.tomb[j] <= w
    <3>0. hot.ver[j] \in Nat /\ hot.tomb[j] \in Nat
      BY <1>9 DEF Partition
    <3>1. hot.ver[j] <= w - 1 /\ hot.tomb[j] <= w - 1
      BY <2>0, Zenon DEF Older
    <3>2. hot'.ver[j] \in {hot.ver[j], 0, w}
      BY <1>10, <1>11, <1>14
    <3>3. hot'.tomb[j] \in {hot.tomb[j], 0, w}
      BY <1>14, Zenon DEF Landed
    <3> QED BY <3>0, <3>1, <3>2, <3>3
  <2>2. ASSUME NEW f \in Prefixes PROVE hot'.fence[f].version <= w
    <3>0. hot.fence[f].version \in Nat
      BY <1>9 DEF Partition
    <3>1. hot.fence[f].version <= w - 1
      BY <2>0, Zenon DEF Older
    <3>2. hot'.fence[f].version \in {hot.fence[f].version, 0, w}
      BY <1>14, Zenon DEF Landed
    <3> QED BY <3>0, <3>1, <3>2
  <2>3. hot'.applied \subseteq Keys \X (0..w)
    <3>1. hot'.applied \subseteq hot.applied \cup {<<k, w>>}
      BY <1>14, Zenon DEF Landed
    <3>2. hot.applied \subseteq Keys \X (0..(w - 1))
      BY <2>0, Zenon DEF Older
    <3>3. w \in 0..w /\ 0..(w - 1) \subseteq 0..w
      OBVIOUS
    <3> QED BY <1>9, <3>1, <3>2, <3>3
  <2> QED BY <2>1, <2>2, <2>3, Zenon DEF Older
<1>16. /\ Len(rest) = Len(r.recs) - 1 /\ rest \in Seq(Record)
       /\ DOMAIN r.recs = 1..Len(r.recs) /\ DOMAIN rest = 1..(Len(r.recs) - 1)
       /\ \A i \in 1..(Len(r.recs) - 1) : rest[i] = r.recs[i + 1]
  BY <1>0, SMTT(20) DEF rest
<1>17. (pc = "apply" /\ ~last) \/ (pc = "remember" /\ last)
  BY DEF pc
<1> DEFINE n == Len(r.recs)
<1>n. n \in Nat /\ n >= 1 /\ Len(rest) = n - 1
  BY <1>0, <1>16
<1>18. Calm(th[t])'
  <2>1. n <= 1 => n - 1 <= 1
    BY <1>n
  <2>2. ~Asking(r) /\ ~Asking(th[t])'
    BY <1>0, <1>7, <1>17 DEF Asking
  <2>3. r.err = "none" /\ (r.op = "upsert" => ~r.batch /\ n <= 1)
    BY <1>p, Zenon DEF Calm
  <2>4. th'[t].pc # "adjust"
    BY <1>7, <1>17
  <2> HIDE DEF n
  <2> QED BY <1>7, <1>n, <2>1, <2>2, <2>3, <2>4, Zenon DEF Calm
<1>19. Older(UpTo(th[t]))'
  <2>1. CASE pc = "apply"
    <3>1. UpTo(th[t])' = w
      BY <1>7, <1>14, <2>1 DEF UpTo, v
    <3> QED BY <3>1, <1>15, Zenon
  <2>2. CASE pc = "remember"
    <3>3. Older(counter)'
      <4>1. PICK c : c = counter
        OBVIOUS
      <4>2. w <= c /\ w \in Int /\ c \in Int
        BY <1>0, <1>14, <4>1
      <4>3. hot' \in Partition
        BY Zenon DEF Landed, Sound
      <4>4. ASSUME NEW j \in Keys PROVE hot'.ver[j] <= c /\ hot'.tomb[j] <= c
        BY <1>15, <4>2, <4>3 DEF Partition, Older
      <4>5. ASSUME NEW f \in Prefixes PROVE hot'.fence[f].version <= c
        BY <1>15, <4>2, <4>3 DEF Partition, Older
      <4>6. Older(c)'
        BY <4>2, <4>4, <4>5, <1>15 DEF Older
      <4> QED BY <4>1, <4>6, Zenon
    <3>4. UpTo(th[t])' = counter'
      BY <1>7, <2>2 DEF UpTo
    <3> QED BY <3>3, <3>4, Zenon
  <2> QED BY <1>17, <2>1, <2>2, Zenon
<1> DEFINE at == {r.recs[i].key : i \in DOMAIN r.recs}
           left == {rest[i].key : i \in DOMAIN rest}
<1>20. at = {k} \cup left
  <2>1. DOMAIN r.recs = 1..n /\ DOMAIN rest = 1..(n - 1) /\ \A i \in 1..(n - 1) : rest[i] = r.recs[i + 1]
    BY <1>16, Zenon
  <2> HIDE DEF n
  <2>2. ASSUME NEW i \in DOMAIN r.recs, i # 1
        PROVE  i - 1 \in DOMAIN rest /\ rest[i - 1] = r.recs[i]
    <3>1. i - 1 \in 1..(n - 1) /\ (i - 1) + 1 = i
      BY <1>n, <2>1, <2>2
    <3> QED BY <2>1, <3>1
  <2>3. ASSUME NEW i \in DOMAIN rest
        PROVE  i + 1 \in DOMAIN r.recs /\ rest[i] = r.recs[i + 1]
    BY <1>n, <2>1, <2>3
  <2> QED BY <1>9, <2>2, <2>3
<1>21. Pending(r) = at /\ Pending(th[t])' = IF last THEN {} ELSE left
  BY <1>0, <1>7, <1>17 DEF Pending
<1>22. last => left = {}
  BY <1>n, <1>16
<1> HIDE DEF at, left
<1>23. Agree(Keys \ Pending(th[t]))'
  <2>1. ASSUME NEW j \in Keys, j \notin left, hot'.ver[j] > 0 \/ warm
        PROVE  hot'.data[j] = base[j]
    <3>1. CASE j = k
      <4>1. base[k] = data
        BY <1>p, <1>0, <1>9, Zenon DEF Owed, data
      <4> QED BY <1>10, <3>1, <4>1, Zenon
    <3>2. CASE j # k
      <4>1. j \in Keys \ Pending(r)
        BY <1>20, <1>21, <2>1, <3>2, Zenon
      <4>2. hot'.ver[j] = hot.ver[j] /\ hot'.data[j] = hot.data[j]
        BY <1>10, <3>2, Zenon
      <4> QED BY <1>p, <2>1, <4>1, <4>2 DEF Agree
    <3> QED BY <3>1, <3>2
  <2>2. Keys \ Pending(th[t])' = Keys \ left
    BY <1>21, <1>22
  <2> QED BY <2>1, <2>2 DEF Agree
<1>24. Owed(th[t])'
  <2>1. ASSUME NEW i \in DOMAIN rest
        PROVE  base[rest[i].key] = IF r.op = "upsert" THEN rest[i].data ELSE NoData
    <3>1. i + 1 \in DOMAIN r.recs /\ rest[i] = r.recs[i + 1]
      BY <1>n, <1>16, <2>1
    <3> QED BY <1>0, <1>p, <3>1, Zenon DEF Owed
  <2> QED BY <1>7, <2>1, Zenon DEF Owed
<1>25. Seen(th[t])'
  BY <1>7, <1>17 DEF Seen
<1>26. Counted(th[t])'
  <2>1. Cardinality(BaseKeys) <= counter /\ BaseKeys' = BaseKeys
    BY <1>0, <1>p, Zenon DEF Counted, BaseKeys
  <2> QED BY <1>7, <1>17, <2>1 DEF Counted
<1>27. Solo(th[t])'
  BY <1>18, <1>19, <1>23, <1>24, <1>25, <1>26, Zenon DEF Solo
<1>28. ~degraded'
  BY Zenon DEF SoloInv
<1> QED BY <1>12, <1>27, <1>28, SoloThread, Zenon

-----------------------------------------------------------------------------
(* One caller: what the store answers.                                     *)

\* What a single caller is answered is what the base holds.
LEMMA SoloAnswers ==
    ASSUME OneCaller, Inv, SoloInv, NEW t \in Threads, Begin(t) \/ Step(t)
    PROVE  \/ UNCHANGED reply
           \/ UNCHANGED base /\ \E asked \in SUBSET Keys : reply' = [k \in asked |-> base[k]]
<1>0. ~Faults /\ Solo(th[t])
  BY DEF OneCaller, SoloInv
<1>1. CASE Lookup(t) \/ Missed(t) \/ GetBase(t)
  <2>1. PICK k : k = AskedKey(t)
    OBVIOUS
  <2>2. k \in Keys /\ base' = base /\ Pending(th[t]) = {}
    <3>1. th[t].pc \in {"lookup", "missed", "getBase"} /\ base' = base
      BY <1>1, Zenon DEF Lookup, Missed, GetBase, store, Pc
    <3>3. th[t].recs[1] \in Record
      <4>1. Len(th[t].recs) >= 1 /\ th[t].recs \in Seq(Record)
        BY <3>1, CallTypes DEF CallOK, Asking
      <4> QED BY <4>1
    <3> QED BY <2>1, <3>1, <3>3, Zenon DEF AskedKey, Record, Pending
  <2>3. Agree(Keys)
    BY <1>0, <2>2 DEF Solo
  <2>4. UNCHANGED reply \/ reply' = [x \in {k} |-> base[k]]
    <3>1. CASE Lookup(t)
      <4>1. UNCHANGED reply \/ (k \in Live(hot) /\ reply' = [x \in {k} |-> hot.data[k]])
        BY <1>0, <2>1, <3>1, Zenon DEF Lookup
      <4>2. k \in Live(hot) => hot.data[k] = base[k]
        BY <2>2, <2>3, Zenon DEF Agree, Live
      <4> QED BY <4>1, <4>2, Zenon
    <3>2. CASE Missed(t)
      <4>1. th[t].pc = "missed" /\ (UNCHANGED reply \/ (warm /\ reply' = [x \in {k} |-> NoData]))
        BY <2>1, <3>2, Zenon DEF Missed, Pc
      <4>2. hot.ver[k] = 0 /\ hot.data[k] = NoData
        BY <1>0, <2>1, <2>2, <4>1, Zenon DEF AskedKey, Solo, Seen, SoloInv
      <4>3. warm => base[k] = NoData
        BY <2>2, <2>3, <4>2, Zenon DEF Agree
      <4> QED BY <4>1, <4>3, Zenon
    <3>3. CASE GetBase(t)
      BY <1>0, <2>1, <3>3, Zenon DEF GetBase
    <3> QED BY <1>1, <3>1, <3>2, <3>3
  <2> QED BY <2>2, <2>4
<1>2. CASE ListHot(t) \/ ListBase(t)
  <2>1. /\ base' = base /\ base \in [Keys -> Data \cup {NoData}]
        /\ hot.data \in [Keys -> Data \cup {NoData}]
    <3>1. base' = base
      BY <1>2, Zenon DEF ListHot, ListBase, store
    <3> QED BY <3>1, StoreTypes DEF Partition
  <2>2. reply' = base
    <3>1. CASE ListHot(t)
      <4>1. th[t].pc = "list" /\ reply' = hot.data
        BY <1>0, <3>1, Zenon DEF ListHot, Pc
      <4>2. warm /\ Agree(Keys \ Pending(th[t]))
        BY <1>0, <4>1, Zenon DEF Solo, Seen
      <4>3. Keys \ Pending(th[t]) = Keys
        BY <4>1 DEF Pending
      <4>4. \A k \in Keys : hot.data[k] = base[k]
        BY <4>2, <4>3, Zenon DEF Agree
      <4> QED BY <2>1, <4>1, <4>4
    <3>2. CASE ListBase(t)
      BY <1>0, <3>2 DEF ListBase
    <3> QED BY <1>2, <3>1, <3>2
  <2> QED BY <2>1, <2>2, Zenon
<1>3. CASE \/ Begin(t) \/ WriteBase(t) \/ Reserve(t) \/ ApplyNext(t) \/ CancelApply(t)
           \/ Remember(t) \/ Adjust(t) \/ GetHot(t)
  BY <1>3, Zenon DEF Begin, WriteBase, Reserve, ReserveRun, ApplyNext, CancelApply, Remember, Adjust, GetHot
<1>4. CASE \/ EnsureWarm(t) \/ CheckLimit(t) \/ Join(t) \/ CountBase(t) \/ Stream(t)
           \/ Swap(t) \/ Warmed(t) \/ Finish(t)
  BY <1>4, Zenon DEF EnsureWarm, CheckLimit, Join, CountBase, Stream, Swap, Warmed, Finish
<1> QED BY <1>1, <1>2, <1>3, <1>4, Zenon DEF Step
=============================================================================
