---------------------------- MODULE MirrorSweep ----------------------------
(***************************************************************************)
(* The mirror sweeper (server-kit/go/hermes/mirror_sweep.go): source       *)
(* tables read past a cursor and pushed through the projected store, by    *)
(* the Run loop and by callers of SweepSource; Notify flags a source and   *)
(* wakes Run.  A row is named by its stamp (updated_at, deleted_at):       *)
(* stamps are taken when a transaction begins and are distinct within a    *)
(* source, and rows become visible when it commits, possibly in another    *)
(* order.  The delete sources differ only in what they push.               *)
(***************************************************************************)
EXTENDS Integers, Sequences, FiniteSets, FiniteSetsExt

CONSTANTS
    Sources,     \* registered sources
    Order,       \* the same in registration order
    Run, Callers, NoWorker,  \* the loop, callers of SweepSource
    NoSource,
    ReadLimit,   \* LIMIT of a source's query
    BatchSize,
    MaxStamp     \* model bound: transactions, per source

ASSUME Registration ==
    /\ Order \in Seq(Sources)
    /\ \A s \in Sources : \E i \in DOMAIN Order : Order[i] = s
ASSUME SweepBounds ==
    /\ ReadLimit \in Nat \ {0} /\ BatchSize \in Nat \ {0} /\ MaxStamp \in [Sources -> Nat]
ASSUME WorkersApart == NoWorker \notin {Run} \cup Callers /\ Run \notin Callers
ASSUME NoSourceApart == NoSource \notin Sources

Workers == {Run} \cup Callers

VARIABLES
    rows,       \* per source: visible rows
    mirrored,   \* per source: rows pushed through the projected store
    cursor,     \* per source
    dirty,      \* per source
    lock,       \* per source: the worker that holds src.mu
    wake,       \* whether the channel holds its token
    notifying,  \* the source Notify has flagged, before it sends on wake
    target,     \* per worker: the source it sweeps
    plan,       \* per worker: rows read and not yet pushed
    reached,    \* per worker: the highest stamp read
    mode,       \* of Run: "pass" (SweepOnce), "wait" (waitForWork), "signalled"
    left,       \* of Run: sources still to visit
    found,      \* of Run: the pass has swept rows
    late,       \* per source: rows that became visible below a stamp already
                \* read: history
    hinted,     \* per source: rows visible at a Notify, not pushed since and not
                \* left behind by LIMIT or a failure: history
    reflagged   \* sources flagged again after a failed sweep: history

runVars == <<mode, left, found>>
workVars == <<target, plan, reached>>
history == <<late, hinted, reflagged>>
sweepVars == <<rows, mirrored, cursor, dirty, lock, wake, notifying,
               workVars, runVars, history>>

SweepInit ==
    /\ rows = [s \in Sources |-> {}]
    /\ mirrored = [s \in Sources |-> {}]
    /\ cursor = [s \in Sources |-> 0]
    /\ dirty = [s \in Sources |-> FALSE]
    /\ lock = [s \in Sources |-> NoWorker]
    /\ wake = FALSE /\ notifying = NoSource
    /\ target = [w \in Workers |-> NoSource]
    /\ plan = [w \in Workers |-> {}]
    /\ reached = [w \in Workers |-> 0]
    /\ mode = "pass" /\ left = Order /\ found = FALSE
    /\ late = [s \in Sources |-> {}]
    /\ hinted = [s \in Sources |-> {}]
    /\ reflagged = {}

-----------------------------------------------------------------------------
(* The source tables (external) and the intake of signals.                 *)

Sweeping(s) == {w \in Workers : lock[s] = w}

Commit(s, r) ==
    /\ r \in 1..MaxStamp[s] \ rows[s]
    /\ rows' = [rows EXCEPT ![s] = @ \cup {r}]
    /\ late' = IF r < cursor[s] \/ \E w \in Sweeping(s) : r < reached[w]
               THEN [late EXCEPT ![s] = @ \cup {r}] ELSE late
    /\ UNCHANGED <<mirrored, cursor, dirty, lock, wake, notifying, workVars, runVars,
                   hinted, reflagged>>

\* dirty.Swap(true): an announcement of a flagged source ends here.  Signals come
\* from the one goroutine that dispatches the bus.
NotifyFlag(s) ==
    /\ notifying = NoSource
    /\ dirty' = [dirty EXCEPT ![s] = TRUE]
    /\ notifying' = IF dirty[s] THEN NoSource ELSE s
    /\ hinted' = [hinted EXCEPT ![s] = @ \cup (rows[s] \ mirrored[s])]
    /\ UNCHANGED <<rows, mirrored, cursor, lock, wake, workVars, runVars,
                   late, reflagged>>

NotifyWake ==
    /\ notifying # NoSource
    /\ wake' = TRUE
    /\ notifying' = NoSource
    /\ UNCHANGED <<rows, mirrored, cursor, dirty, lock, workVars, runVars, history>>

-----------------------------------------------------------------------------
(* sweepOne, by the loop or a caller: clear the flag, take the lock and    *)
(* read, push in batches, advance the cursor.                              *)

Lowest(n, S) == {i \in S : Cardinality({j \in S : j < i}) < n}

Idle(w) == target[w] = NoSource

Holds(w) == target[w] # NoSource /\ lock[target[w]] = w

StartSweep(w, s) ==
    /\ Idle(w)
    /\ target' = [target EXCEPT ![w] = s]
    /\ dirty' = [dirty EXCEPT ![s] = FALSE]
    /\ reflagged' = reflagged \ {s}

Unread(s) == {r \in rows[s] : r > cursor[s]}

\* Mutation: the source's mutex is not taken.
MutexIgnored(s) == TRUE

MutexFree(s) == lock[s] = NoWorker

LockAndRead(w) ==
    LET s == target[w]
        read == Lowest(ReadLimit, Unread(s))
    IN /\ ~Idle(w) /\ ~Holds(w) /\ MutexFree(s)
       /\ lock' = [lock EXCEPT ![s] = w]
       /\ plan' = [plan EXCEPT ![w] = read]
       /\ reached' = [reached EXCEPT ![w] = Max(read \cup {cursor[s]})]
       /\ hinted' = [hinted EXCEPT ![s] = @ \ (Unread(s) \ read)]
       /\ UNCHANGED <<rows, mirrored, cursor, dirty, wake, notifying, target, runVars,
                      late, reflagged>>

PushBatch(w) ==
    LET s == target[w]
        batch == Lowest(BatchSize, plan[w])
    IN /\ Holds(w) /\ plan[w] # {}
       /\ mirrored' = [mirrored EXCEPT ![s] = @ \cup batch]
       /\ plan' = [plan EXCEPT ![w] = @ \ batch]
       /\ hinted' = [hinted EXCEPT ![s] = @ \ batch]
       /\ found' = (found \/ (w = Run /\ mode = "pass"))
       /\ UNCHANGED <<rows, cursor, dirty, lock, wake, notifying, target, reached,
                      mode, left, late, reflagged>>

\* Mutation: the cursor moves as the rows are read.
CursorAlways(w, ok) == reached[w]

CursorAfter(w, ok) == IF ok THEN reached[w] ELSE cursor[target[w]]

\* Mutation: the flag is given the outcome of the sweep.
FlagIsOutcome(s, again) == [dirty EXCEPT ![s] = again]

FlagAfter(s, again) == IF again THEN [dirty EXCEPT ![s] = TRUE] ELSE dirty

\* The sweep returns: everything has been pushed, or the query or a push failed.
\* sweepSignalled flags a source again whose sweep failed.
EndSweep(w, ok) ==
    LET s == target[w]
        again == ~ok /\ w = Run /\ mode = "signalled"
    IN /\ Holds(w)
       /\ ok => plan[w] = {}
       /\ cursor' = [cursor EXCEPT ![s] = CursorAfter(w, ok)]
       /\ lock' = [lock EXCEPT ![s] = NoWorker]
       /\ dirty' = FlagAfter(s, again)
       /\ reflagged' = IF again THEN reflagged \cup {s} ELSE reflagged
       /\ hinted' = [hinted EXCEPT ![s] = @ \ plan[w]]
       /\ target' = [target EXCEPT ![w] = NoSource]
       /\ plan' = [plan EXCEPT ![w] = {}]
       /\ reached' = [reached EXCEPT ![w] = 0]
       /\ left' = IF w = Run THEN Tail(left) ELSE left
       /\ UNCHANGED <<rows, mirrored, wake, notifying, mode, found, late>>

SweepSource(w, s) ==
    /\ w \in Callers
    /\ StartSweep(w, s)
    /\ UNCHANGED <<rows, mirrored, cursor, lock, wake, notifying, plan, reached, runVars,
                   late, hinted>>

-----------------------------------------------------------------------------
(* Run                                                                     *)

Visit ==
    /\ mode # "wait" /\ left # <<>>
    /\ mode = "signalled" => dirty[Head(left)]
    /\ StartSweep(Run, Head(left))
    /\ UNCHANGED <<rows, mirrored, cursor, lock, wake, notifying, plan, reached, runVars,
                   late, hinted>>

\* sweepSignalled passes over a source that is not flagged.
Skip ==
    /\ mode = "signalled" /\ left # <<>> /\ Idle(Run)
    /\ ~dirty[Head(left)]
    /\ left' = Tail(left)
    /\ UNCHANGED <<rows, mirrored, cursor, dirty, lock, wake, notifying, workVars,
                   mode, found, history>>

\* Mutation: the token is drained after the flagged sources have been swept.
TokenDrained == FALSE

TokenAfterSignalled == wake

\* A pass that found rows starts over; after signalled sweeps the wait goes on.
EndPass ==
    /\ mode # "wait" /\ left = <<>>
    /\ IF mode = "pass" /\ found
       THEN mode' = "pass" /\ left' = Order
       ELSE mode' = "wait" /\ left' = <<>>
    /\ found' = FALSE
    /\ wake' = IF mode = "signalled" THEN TokenAfterSignalled ELSE wake
    /\ UNCHANGED <<rows, mirrored, cursor, dirty, lock, notifying, workVars, history>>

TakeWake ==
    /\ mode = "wait" /\ wake
    /\ wake' = FALSE
    /\ mode' = "signalled" /\ left' = Order
    /\ UNCHANGED <<rows, mirrored, cursor, dirty, lock, notifying, workVars, found, history>>

\* Mutation: the wait goes on when the reconcile interval has passed.
KeepsWaiting == "wait"

AfterInterval == "pass"

ReconcileTimer ==
    /\ mode = "wait"
    /\ mode' = AfterInterval
    /\ left' = Order /\ found' = FALSE
    /\ UNCHANGED <<rows, mirrored, cursor, dirty, lock, wake, notifying, workVars, history>>

\* The process ends and another one starts: a full sync from zero cursors.
Restart ==
    /\ mirrored' = [s \in Sources |-> {}]
    /\ cursor' = [s \in Sources |-> 0]
    /\ dirty' = [s \in Sources |-> FALSE]
    /\ lock' = [s \in Sources |-> NoWorker]
    /\ wake' = FALSE /\ notifying' = NoSource
    /\ target' = [w \in Workers |-> NoSource]
    /\ plan' = [w \in Workers |-> {}]
    /\ reached' = [w \in Workers |-> 0]
    /\ mode' = "pass" /\ left' = Order /\ found' = FALSE
    /\ late' = [s \in Sources |-> {}]
    /\ hinted' = [s \in Sources |-> {}]
    /\ reflagged' = {}
    /\ UNCHANGED rows

WorkStep(w) == LockAndRead(w) \/ PushBatch(w) \/ EndSweep(w, TRUE)

RunStep == WorkStep(Run) \/ Visit \/ Skip \/ EndPass \/ TakeWake \/ ReconcileTimer

\* The sweeper by itself: any transaction, any signal, any failure.
SweepNext ==
    \/ \E s \in Sources : (\E r \in 1..MaxStamp[s] : Commit(s, r)) \/ NotifyFlag(s)
    \/ NotifyWake
    \/ \E w \in Callers, s \in Sources : SweepSource(w, s)
    \/ \E w \in Callers : WorkStep(w)
    \/ RunStep
    \/ \E w \in Workers : EndSweep(w, FALSE)
    \/ Restart

SweepSpec == SweepInit /\ [][SweepNext]_sweepVars

-----------------------------------------------------------------------------
(* Properties.                                                             *)

SweepTypeOK ==
    /\ \A s \in Sources :
         /\ cursor[s] \in 0..MaxStamp[s] /\ rows[s] \subseteq 1..MaxStamp[s]
         /\ mirrored[s] \cup late[s] \cup hinted[s] \subseteq rows[s]
         /\ dirty[s] \in BOOLEAN /\ lock[s] \in Workers \cup {NoWorker}
    /\ wake \in BOOLEAN /\ notifying \in Sources \cup {NoSource}
    /\ \A w \in Workers :
         /\ target[w] \in Sources \cup {NoSource}
         /\ Holds(w) => plan[w] \subseteq rows[target[w]] \cap 1..reached[w]
         /\ ~Holds(w) => plan[w] = {} /\ reached[w] = 0
    /\ mode \in {"pass", "wait", "signalled"} /\ found \in BOOLEAN
    /\ left \in Seq(Sources) /\ reflagged \subseteq Sources

\* Every visible row at or below a source's cursor has been pushed, whatever sweeps
\* of the loop and of callers interleave, fail half way or are cut by LIMIT -- except
\* the rows that became visible below a stamp some sweep had already read.
NothingSkipped ==
    \A s \in Sources : \A r \in rows[s] : r <= cursor[s] => r \in mirrored[s] \cup late[s]

\* A flagged source is on its way to be swept: the token is in the wake channel, or
\* about to be, or the current round of Run still visits it -- except a source that
\* sweepSignalled flagged again, which waits for the reconcile pass.
NoLostWakeup ==
    \A s \in Sources : dirty[s] =>
        \/ wake \/ notifying = s
        \/ s \in reflagged
        \/ \E i \in DOMAIN left : left[i] = s /\ (i > 1 \/ Idle(Run))

\* A row that was visible when its source was signalled is pushed by a sweep that
\* the signal causes: until then the flag is up, a sweep is about to read, or the
\* row is in what a sweep has read -- unless LIMIT or a failure left it behind.
HintNotLost ==
    \A s \in Sources : \A r \in hinted[s] \ late[s] :
        \/ dirty[s]
        \/ \E w \in Workers : target[w] = s /\ (lock[s] # w \/ r \in plan[w])
=============================================================================
