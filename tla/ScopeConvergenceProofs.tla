----------------------- MODULE ScopeConvergenceProofs -----------------------
(***************************************************************************)
(* Safety of the announcement lane, of the sweeper, and of the two joined  *)
(* by the bus, for any number of writers and callers, any scopes, sources  *)
(* and stamps and any queue size.                                          *)
(***************************************************************************)
EXTENDS ScopeConvergence, TLAPS

-----------------------------------------------------------------------------
(* The lane.  AnnouncementComes is not inductive: a folded write leans on  *)
(* the pending mark, so a mark must itself be backed by an announcement to *)
(* come.                                                                   *)

SignalTypes ==
    /\ wrote \in [Writers -> Scopes \cup {NoScope}]
    /\ marked \in [Writers -> BOOLEAN]
    /\ pending \subseteq Scopes /\ owed \subseteq Scopes
    /\ queue \in Seq(Scopes)
    /\ holding \in Scopes \cup {NoScope}
    /\ cleared \in BOOLEAN /\ closed \in BOOLEAN

\* A scope is marked pending only while a send, a place in the queue or the
\* publishing goroutine stands for it.
PendingComes ==
    \A s \in pending : Sending(s) \/ Queued(s) \/ (holding = s /\ ~cleared)

LaneInv ==
    /\ SignalTypes
    /\ \A w \in Writers : marked[w] => wrote[w] # NoScope
    /\ cleared => holding # NoScope
    /\ PendingComes
    /\ AnnouncementComes
    /\ NoSendOnClosed

\* The lane starts with nothing marked and nothing owed.
LEMMA LaneInit == SignalInit => LaneInv
<1> SUFFICES ASSUME SignalInit PROVE LaneInv
  OBVIOUS
<1>0. wrote \in [Writers -> Scopes \cup {NoScope}] /\ marked \in [Writers -> BOOLEAN]
  BY Zenon DEF SignalInit
<1>b. cleared \in BOOLEAN /\ closed \in BOOLEAN /\ holding \in Scopes \cup {NoScope}
  BY Zenon DEF SignalInit
<1>q. queue \in Seq(Scopes) /\ pending \subseteq Scopes /\ owed \subseteq Scopes
  BY DEF SignalInit
<1>1. SignalTypes
  BY <1>0, <1>b, <1>q, Zenon DEF SignalTypes
<1>2. \A w \in Writers : ~marked[w]
  BY DEF SignalInit
<1> QED
  BY <1>1, <1>2 DEF SignalInit, LaneInv, PendingComes, AnnouncementComes, NoSendOnClosed

\* OnCommandWrite touches only a writer that sends nothing.
LEMMA WriteKeepsLane ==
    ASSUME LaneInv, NEW w \in Writers, NEW s \in Scopes, OnCommandWrite(w, s)
    PROVE  LaneInv'
<1>1. ~marked[w]
  BY DEF LaneInv, OnCommandWrite
<1>2. \A x : Sending(x) => Sending(x)'
  BY <1>1 DEF LaneInv, SignalTypes, OnCommandWrite, Sending
<1>3. \A x : Queued(x) => Queued(x)'
  BY DEF OnCommandWrite, Queued
<1>4. SignalTypes' /\ (\A v \in Writers : marked[v] => wrote[v] # NoScope)'
  BY <1>1, NoScopeApart DEF LaneInv, SignalTypes, OnCommandWrite
<1> QED
  BY <1>2, <1>3, <1>4 DEF LaneInv, PendingComes, AnnouncementComes, NoSendOnClosed, OnCommandWrite

\* enqueue: a folded write is backed by the mark it found, another one by its own send.
LEMMA EnqueueKeepsLane ==
    ASSUME LaneInv, NEW w \in Writers, Enqueue(w)
    PROVE  LaneInv'
<1>1. \A x : Sending(x) => Sending(x)'
  BY DEF LaneInv, SignalTypes, Enqueue, Sending
<1>2. \A x : Queued(x) => Queued(x)'
  BY DEF Enqueue, Queued
<1>3. SignalTypes' /\ (\A v \in Writers : marked[v] => wrote[v] # NoScope)'
  BY RegisteredScopes, Zenon DEF LaneInv, SignalTypes, Enqueue, Ignored
<1>4. PendingComes'
  <2>1. ASSUME NEW x \in pending' PROVE Sending(x)' \/ Queued(x)' \/ (holding' = x /\ ~cleared')
    <3>1. CASE x \in pending
      BY <1>1, <1>2, <3>1 DEF LaneInv, PendingComes, Enqueue
    <3>2. CASE x \notin pending
      BY <3>2, <2>1 DEF LaneInv, SignalTypes, Enqueue, Sending
    <3> QED BY <3>1, <3>2
  <2> QED BY <2>1 DEF PendingComes
<1>5. AnnouncementComes'
  <2>1. ASSUME NEW x \in owed' PROVE Sending(x)' \/ Queued(x)' \/ holding' = x
    <3>1. CASE x \in owed
      BY <1>1, <1>2, <3>1 DEF LaneInv, AnnouncementComes, Enqueue
    <3>2. CASE x \notin owed
      <4>1. x = wrote[w] /\ ~Ignored(w)
        BY <3>2, <2>1 DEF Enqueue
      <4>2. CASE x \in pending
        BY <1>1, <1>2, <4>2 DEF LaneInv, PendingComes, Enqueue
      <4>3. CASE x \notin pending
        BY <4>1, <4>3 DEF LaneInv, SignalTypes, Enqueue, Sending
      <4> QED BY <4>2, <4>3
    <3> QED BY <3>1, <3>2
  <2> QED BY <2>1 DEF AnnouncementComes
<1>6. NoSendOnClosed'
  BY DEF LaneInv, SignalTypes, NoSendOnClosed, Enqueue, Ignored
<1> QED
  BY <1>3, <1>4, <1>5, <1>6 DEF LaneInv, Enqueue

\* The send: a queued name is announced later, a dropped one is neither pending nor owed.
LEMMA SendKeepsLane ==
    ASSUME LaneInv, NEW w \in Writers, Send(w)
    PROVE  LaneInv'
<1> DEFINE full == Len(queue) = QueueSize
<1>s. PICK s \in Scopes : s = wrote[w]
  BY DEF LaneInv, SignalTypes, Send
<1>0. queue \in Seq(Scopes)
  BY DEF LaneInv, SignalTypes
<1>1. \A x : x # s /\ Sending(x) => Sending(x)'
  BY <1>s DEF LaneInv, SignalTypes, Send, Sending
<1>2. \A x : Queued(x) => Queued(x)'
  <2>1. \A i \in DOMAIN queue : i \in DOMAIN queue' /\ queue'[i] = queue[i]
    BY <1>0 DEF Send
  <2> QED BY <2>1 DEF Queued
<1>3. ~full => Queued(s)'
  <2>1. ASSUME ~full PROVE queue'[Len(queue) + 1] = s /\ Len(queue) + 1 \in DOMAIN queue'
    BY <1>s, <1>0, <2>1 DEF Send
  <2> QED BY <2>1 DEF Queued
<1>4. SignalTypes' /\ (\A v \in Writers : marked[v] => wrote[v] # NoScope)'
  BY <1>s, <1>0 DEF LaneInv, SignalTypes, Send, PendingAfterDrop
<1>5. PendingComes'
  <2>1. ASSUME NEW x \in pending' PROVE Sending(x)' \/ Queued(x)' \/ (holding' = x /\ ~cleared')
    <3>1. x \in pending /\ (full => x # s)
      BY <1>s, <2>1 DEF Send, PendingAfterDrop
    <3> QED BY <3>1, <1>1, <1>2, <1>3 DEF LaneInv, PendingComes, Send
  <2> QED BY <2>1 DEF PendingComes
<1>6. AnnouncementComes'
  <2>1. ASSUME NEW x \in owed' PROVE Sending(x)' \/ Queued(x)' \/ holding' = x
    <3>1. x \in owed /\ (full /\ holding # s => x # s)
      BY <1>s, <2>1 DEF Send
    <3> QED BY <3>1, <1>1, <1>2, <1>3 DEF LaneInv, AnnouncementComes, Send
  <2> QED BY <2>1 DEF AnnouncementComes
<1>7. NoSendOnClosed'
  BY DEF LaneInv, SignalTypes, NoSendOnClosed, Send
<1> QED
  BY <1>4, <1>5, <1>6, <1>7 DEF LaneInv, Send

\* publishLoop takes the head of the queue.
LEMMA TakeKeepsLane ==
    ASSUME LaneInv, Take
    PROVE  LaneInv'
<1>0. queue \in Seq(Scopes) /\ queue # <<>> /\ ~cleared
  BY DEF LaneInv, SignalTypes, Take
<1>1. \A x : Queued(x) => Queued(x)' \/ holding' = x
  <2>1. ASSUME NEW i \in DOMAIN queue, i # 1 PROVE i - 1 \in DOMAIN queue' /\ queue'[i - 1] = queue[i]
    BY <1>0, <2>1 DEF Take
  <2>2. queue[1] = holding'
    BY <1>0 DEF Take
  <2> QED BY <2>1, <2>2 DEF Queued
<1>2. \A x : Sending(x) => Sending(x)'
  BY DEF Take, Sending
<1>3. SignalTypes'
  BY <1>0 DEF LaneInv, SignalTypes, Take
<1>4. PendingComes'
  BY <1>0, <1>1, <1>2, NoScopeApart DEF LaneInv, SignalTypes, PendingComes, Take
<1>5. AnnouncementComes'
  BY <1>0, <1>1, <1>2, NoScopeApart DEF LaneInv, SignalTypes, AnnouncementComes, Take
<1> QED
  BY <1>0, <1>3, <1>4, <1>5 DEF LaneInv, NoSendOnClosed, Take

\* The mark is cleared before the publish, so a later write announces again.
LEMMA ClearKeepsLane ==
    ASSUME LaneInv, ClearPending
    PROVE  LaneInv'
<1>1. \A x : (Sending(x) => Sending(x)') /\ (Queued(x) => Queued(x)')
  BY DEF ClearPending, Sending, Queued
<1> QED
  BY <1>1 DEF LaneInv, SignalTypes, PendingComes, AnnouncementComes, NoSendOnClosed, ClearPending

\* The publish, sent or not, settles what was owed to the scope.
LEMMA PublishKeepsLane ==
    ASSUME LaneInv, NEW sent \in BOOLEAN, Publish(sent)
    PROVE  LaneInv'
<1>1. \A x : (Sending(x) => Sending(x)') /\ (Queued(x) => Queued(x)')
  BY DEF Publish, Sending, Queued
<1> QED
  BY <1>1, Zenon DEF LaneInv, SignalTypes, PendingComes, AnnouncementComes, NoSendOnClosed, Publish

\* Close holds closeMu alone: no writer is between its check and its send.
LEMMA CloseKeepsLane ==
    ASSUME LaneInv, Close
    PROVE  LaneInv'
<1>1. \A x : (Sending(x) => Sending(x)') /\ (Queued(x) => Queued(x)')
  BY DEF Close, Sending, Queued
<1> QED
  BY <1>1 DEF LaneInv, SignalTypes, PendingComes, AnnouncementComes, NoSendOnClosed, Close,
     CloseMuFree

\* Nothing in the lane depends on what the bus does with an announcement.
LEMMA LaneUnchanged ==
    ASSUME LaneInv, UNCHANGED <<wrote, marked, pending, queue, holding, cleared, closed, owed>>
    PROVE  LaneInv'
  BY DEF LaneInv, SignalTypes, PendingComes, AnnouncementComes, NoSendOnClosed, Sending, Queued

\* Every step of the lane keeps the invariant.
LEMMA LaneStepKeeps == LaneInv /\ [SignalNext]_signalVars => LaneInv'
<1> SUFFICES ASSUME LaneInv, [SignalNext]_signalVars PROVE LaneInv'
  OBVIOUS
<1>1. CASE UNCHANGED signalVars
  BY <1>1, LaneUnchanged DEF signalVars
<1>2. CASE SignalNext
  BY <1>2, WriteKeepsLane, EnqueueKeepsLane, SendKeepsLane, TakeKeepsLane, ClearKeepsLane,
     PublishKeepsLane, CloseKeepsLane, Zenon DEF SignalNext, SignalStep
<1> QED
  BY <1>1, <1>2

\* The invariant of the lane holds in every reachable state.
THEOREM LaneInvariance == SignalSpec => []LaneInv
  BY LaneInit, LaneStepKeeps, PTL DEF SignalSpec

\* Whatever enqueue accepted is announced later, or was given up: folding a write into
\* a pending announcement (markPending) never silences its scope.
THEOREM AnnouncementCorrect == SignalSpec => []AnnouncementComes
<1>1. LaneInv => AnnouncementComes
  BY DEF LaneInv
<1> QED
  BY <1>1, LaneInvariance, PTL

\* No writer sends on the queue that Close has closed (closeMu).
THEOREM CloseCorrect == SignalSpec => []NoSendOnClosed
<1>1. LaneInv => NoSendOnClosed
  BY DEF LaneInv
<1> QED
  BY <1>1, LaneInvariance, PTL

-----------------------------------------------------------------------------
(* Safety of the mirror sweeper for any sources, callers, read limit and   *)
(* batch size.  The three promises lean on each other: that a hinted row   *)
(* is pushed needs that a cursor skips nothing, which needs what a sweep   *)
(* in progress knows of the rows it has read.                              *)

Shapes ==
    /\ rows \in [Sources -> SUBSET Nat] /\ mirrored \in [Sources -> SUBSET Nat]
    /\ late \in [Sources -> SUBSET Nat] /\ hinted \in [Sources -> SUBSET Nat]
    /\ cursor \in [Sources -> Nat]
    /\ dirty \in [Sources -> BOOLEAN]
    /\ lock \in [Sources -> Workers \cup {NoWorker}]
    /\ target \in [Workers -> Sources \cup {NoSource}]
    /\ plan \in [Workers -> SUBSET Nat]
    /\ reached \in [Workers -> Nat]

\* The mutex of a source is held by a worker that sweeps it.
Locks == \A s \in Sources : lock[s] # NoWorker => target[lock[s]] = s

\* The loop sweeps the source at the head of its round.
RunAtHead == ~Idle(Run) => mode # "wait" /\ left # <<>> /\ Head(left) = target[Run]

\* What a sweep knows of the rows it has read: up to the highest stamp, each is below
\* the cursor, still to be pushed, pushed, or came late.
ReadSound(w) ==
    LET s == target[w]
    IN /\ reached[w] \in rows[s] \cup {0} /\ cursor[s] <= reached[w]
       /\ \A r \in rows[s] : r <= reached[w] =>
            r <= cursor[s] \/ r \in plan[w] \/ r \in mirrored[s] \/ r \in late[s]

Reads ==
    /\ \A s \in Sources : cursor[s] \in rows[s] \cup {0}
    /\ \A w \in Workers : Holds(w) => ReadSound(w)

HintsOpen == \A s \in Sources : \A r \in hinted[s] : r \notin mirrored[s]

\* The round of Run still visits the source.
OnRound(s) == \E i \in DOMAIN left : left[i] = s /\ (i > 1 \/ Idle(Run))

Wakes(s) == dirty[s] => wake \/ notifying = s \/ s \in reflagged \/ OnRound(s)

SweepInv ==
    /\ Shapes /\ SweepTypeOK /\ Locks /\ RunAtHead /\ Reads /\ HintsOpen
    /\ NothingSkipped /\ NoLostWakeup /\ HintNotLost

-----------------------------------------------------------------------------
(* Steps that only move flags, the token and the round of Run.             *)

tableVars == <<rows, mirrored, cursor, lock, target, plan, reached, late>>

\* They keep what is known of the tables and of sweeps in progress.
LEMMA TablesKept ==
    ASSUME SweepInv, UNCHANGED tableVars
    PROVE  Locks' /\ Reads' /\ NothingSkipped'
           /\ \A w \in Workers : Holds(w)' <=> Holds(w)
  BY DEF SweepInv, tableVars, Locks, Reads, ReadSound, Holds, NothingSkipped

\* The first half of Notify: the row's source is flagged.
LEMMA NotifyFlagKeeps ==
    ASSUME SweepInv, NEW s \in Sources, NotifyFlag(s)
    PROVE  SweepInv'
<1>0. UNCHANGED tableVars /\ UNCHANGED runVars
  BY DEF NotifyFlag, tableVars, workVars
<1>1. Locks' /\ Reads' /\ NothingSkipped' /\ \A w \in Workers : Holds(w)' <=> Holds(w)
  BY <1>0, TablesKept
<1>2. Shapes'
  BY <1>0 DEF SweepInv, Shapes, NotifyFlag, tableVars
<1>3. SweepTypeOK'
  BY <1>0, <1>1, ZenonT(30) DEF SweepInv, Shapes, SweepTypeOK, NotifyFlag, tableVars, runVars
<1>4. HintsOpen'
  BY <1>0 DEF SweepInv, Shapes, HintsOpen, NotifyFlag, tableVars
<1>5. RunAtHead'
  BY <1>0 DEF SweepInv, RunAtHead, Idle, runVars, tableVars
<1>6. NoLostWakeup'
  <2>1. ASSUME NEW x \in Sources PROVE Wakes(x)'
    <3>1. Wakes(x) /\ (OnRound(x)' <=> OnRound(x))
      BY <1>0 DEF SweepInv, NoLostWakeup, Wakes, OnRound, Idle, runVars, tableVars
    <3> QED BY <3>1, NoSourceApart DEF SweepInv, Shapes, Wakes, NotifyFlag, runVars
  <2> QED BY <2>1 DEF NoLostWakeup, Wakes, OnRound
<1>7. HintNotLost'
  BY <1>0 DEF SweepInv, Shapes, HintNotLost, NotifyFlag, tableVars
<1> QED
  BY <1>1, <1>2, <1>3, <1>4, <1>5, <1>6, <1>7 DEF SweepInv

\* The second half of Notify: the token goes into the wake channel.
LEMMA NotifyWakeKeeps ==
    ASSUME SweepInv, NotifyWake
    PROVE  SweepInv'
<1>0. UNCHANGED tableVars /\ UNCHANGED runVars /\ UNCHANGED history
  BY DEF NotifyWake, tableVars, workVars, runVars, history
<1>1. Locks' /\ Reads' /\ NothingSkipped' /\ \A w \in Workers : Holds(w)' <=> Holds(w)
  BY <1>0, TablesKept
<1>2. Shapes' /\ HintsOpen' /\ HintNotLost'
  BY <1>0 DEF SweepInv, Shapes, HintsOpen, HintNotLost, NotifyWake, tableVars, history
<1>3. SweepTypeOK'
  BY <1>0, <1>1 DEF SweepInv, SweepTypeOK, NotifyWake, tableVars, runVars, history
<1>4. RunAtHead'
  BY <1>0 DEF SweepInv, RunAtHead, Idle, runVars, tableVars
<1>5. NoLostWakeup'
  BY DEF NoLostWakeup, NotifyWake
<1> QED
  BY <1>1, <1>2, <1>3, <1>4, <1>5 DEF SweepInv

\* Steps of Run between sweeps leave tables, flags and hints alone.
LEMMA RoundKeeps ==
    ASSUME SweepInv, UNCHANGED <<tableVars, dirty, notifying, history>>,
           wake' \in BOOLEAN, found' \in BOOLEAN, mode' \in {"pass", "wait", "signalled"},
           left' \in Seq(Sources), RunAtHead', \A x \in Sources : Wakes(x)'
    PROVE  SweepInv'
<1>1. Locks' /\ Reads' /\ NothingSkipped' /\ \A w \in Workers : Holds(w)' <=> Holds(w)
  BY TablesKept
<1>2. Shapes' /\ HintsOpen' /\ HintNotLost'
  BY DEF SweepInv, Shapes, HintsOpen, HintNotLost, tableVars, history
<1>3. SweepTypeOK'
  BY <1>1 DEF SweepInv, SweepTypeOK, tableVars, history
<1>4. NoLostWakeup'
  BY DEF NoLostWakeup, Wakes, OnRound
<1> QED
  BY <1>1, <1>2, <1>3, <1>4 DEF SweepInv

\* sweepSignalled passes over a source that is not flagged.
LEMMA SkipKeeps ==
    ASSUME SweepInv, Skip
    PROVE  SweepInv'
<1>0. left \in Seq(Sources) /\ left # <<>> /\ left' = Tail(left) /\ Idle(Run) /\ Idle(Run)'
  BY DEF SweepInv, SweepTypeOK, Skip, Idle, workVars
<1>1. ASSUME NEW x \in Sources PROVE Wakes(x)'
  <2>1. Wakes(x)
    BY DEF SweepInv, NoLostWakeup, Wakes, OnRound
  <2>2. dirty[x] => (OnRound(x) => OnRound(x)')
    <3>1. SUFFICES ASSUME dirty[x], NEW i \in DOMAIN left, left[i] = x PROVE OnRound(x)'
      BY DEF OnRound
    <3>2. i # 1
      BY <1>0, <3>1 DEF Skip
    <3>3. i - 1 \in DOMAIN left' /\ left'[i - 1] = x
      BY <1>0, <3>1, <3>2
    <3> QED BY <1>0, <3>3 DEF OnRound
  <2> QED BY <2>1, <2>2 DEF Wakes, Skip, history
<1>2. UNCHANGED <<tableVars, dirty, notifying, history>>
  BY DEF Skip, tableVars, workVars, runVars, history
<1>3. left' \in Seq(Sources)
  BY <1>0
<1>4. wake' \in BOOLEAN /\ found' \in BOOLEAN /\ mode' \in {"pass", "wait", "signalled"}
  BY DEF SweepInv, SweepTypeOK, Skip
<1>5. RunAtHead'
  BY <1>0, Zenon DEF RunAtHead
<1> QED
  BY <1>1, <1>2, <1>3, <1>4, <1>5, RoundKeeps, Zenon

\* A new round visits every registered source.
LEMMA NewRound ==
    ASSUME left' = Order, Idle(Run)', NEW x \in Sources
    PROVE  OnRound(x)'
  BY Registration DEF OnRound

\* SweepOnce or sweepSignalled has visited its last source.
LEMMA EndPassKeeps ==
    ASSUME SweepInv, EndPass
    PROVE  SweepInv'
<1>1. UNCHANGED <<tableVars, dirty, notifying, history>>
  BY DEF EndPass, tableVars, workVars, runVars, history
<1>2. Idle(Run) /\ Idle(Run)'
  BY DEF SweepInv, RunAtHead, EndPass, Idle, workVars
<1>w. wake' = wake
  BY Zenon DEF EndPass, TokenAfterSignalled
<1>l. left' = Order \/ left' = <<>>
  BY Zenon DEF EndPass
<1>m. Order \in Seq(Sources) /\ <<>> \in Seq(Sources)
  BY Registration
<1>3. left' \in Seq(Sources)
  BY <1>l, <1>m, Zenon
<1>4. wake' \in BOOLEAN /\ found' \in BOOLEAN /\ mode' \in {"pass", "wait", "signalled"}
  BY <1>w, Zenon DEF SweepInv, SweepTypeOK, EndPass
<1>5. RunAtHead'
  BY <1>2, Zenon DEF RunAtHead
<1>6. ASSUME NEW x \in Sources PROVE Wakes(x)'
  <2>1. Wakes(x) /\ ~OnRound(x)
    BY DEF SweepInv, NoLostWakeup, Wakes, OnRound, EndPass
  <2> QED BY <1>1, <1>w, <2>1 DEF Wakes, history
<1> QED
  BY <1>1, <1>3, <1>4, <1>5, <1>6, RoundKeeps, Zenon

\* waitForWork ends with a token or after the interval: a round over all sources.
LEMMA WaitEndsKeeps ==
    ASSUME SweepInv, TakeWake \/ ReconcileTimer
    PROVE  SweepInv'
<1>1. UNCHANGED <<tableVars, dirty, notifying, history>> /\ left' = Order /\ mode = "wait"
  BY DEF TakeWake, ReconcileTimer, tableVars, workVars, runVars, history
<1>2. Idle(Run)'
  BY <1>1 DEF SweepInv, RunAtHead, Idle, tableVars
<1>3. left' \in Seq(Sources)
  BY <1>1, Registration
<1>4. wake' \in BOOLEAN /\ found' \in BOOLEAN /\ mode' \in {"pass", "wait", "signalled"}
  BY Zenon DEF SweepInv, SweepTypeOK, TakeWake, ReconcileTimer, AfterInterval
<1>5. RunAtHead'
  BY <1>2, Zenon DEF RunAtHead
<1>6. \A x \in Sources : Wakes(x)'
  BY <1>1, <1>2, NewRound DEF Wakes
<1> QED
  BY <1>1, <1>3, <1>4, <1>5, <1>6, RoundKeeps, Zenon

-----------------------------------------------------------------------------
(* Transactions and sweeps.                                                *)

\* A row becomes visible; below a stamp some sweep has read, it comes late.
LEMMA CommitKeeps ==
    ASSUME SweepInv, NEW s \in Sources, NEW r \in 1..MaxStamp[s], Commit(s, r)
    PROVE  SweepInv'
<1>0. UNCHANGED <<mirrored, cursor, dirty, lock, wake, notifying, target, plan, reached, mode,
                  left, found, hinted, reflagged>>
  BY DEF Commit, workVars, runVars
<1>t. r \in Nat /\ r \notin rows[s] /\ r # 0
  BY SweepBounds DEF Commit
<1>v. /\ rows' = [rows EXCEPT ![s] = @ \cup {r}]
      /\ late' = IF r < cursor[s] \/ \E w \in Sweeping(s) : r < reached[w]
                 THEN [late EXCEPT ![s] = @ \cup {r}] ELSE late
  BY DEF Commit
<1>h. \A w \in Workers : Holds(w)' <=> Holds(w)
  BY <1>0 DEF Holds
<1>1. Shapes'
  BY <1>0, <1>t, <1>v DEF SweepInv, Shapes
<1>2. SweepTypeOK'
  <2>1. ASSUME NEW x \in Sources
        PROVE  rows'[x] \subseteq 1..MaxStamp[x] /\ rows[x] \subseteq rows'[x]
               /\ late'[x] \subseteq rows'[x]
    BY <1>v, SMTT(20) DEF SweepInv, Shapes, SweepTypeOK
  <2>2. ASSUME NEW w \in Workers, Holds(w)' PROVE plan'[w] \subseteq rows'[target'[w]] \cap 1..reached'[w]
    BY <2>1, <2>2, <1>h, <1>0, NoSourceApart, SMTT(20) DEF SweepInv, Shapes, SweepTypeOK, Holds
  <2> QED BY <1>0, <1>h, <2>1, <2>2 DEF SweepInv, SweepTypeOK
<1>3. Locks' /\ RunAtHead'
  BY <1>0, Zenon DEF SweepInv, Locks, RunAtHead, Idle
<1>4. Reads'
  <2>1. \A x \in Sources : cursor'[x] \in rows'[x] \cup {0}
    BY <1>0, <1>v DEF SweepInv, Shapes, Reads
  <2>2. ASSUME NEW w \in Workers, Holds(w)' PROVE ReadSound(w)'
    <3>1. Holds(w) /\ ReadSound(w) /\ target[w] \in Sources /\ lock[target[w]] = w
      BY <1>h, <2>2 DEF SweepInv, Reads, Holds, Shapes
    <3>2. CASE target[w] # s
      BY <1>0, <1>v, <3>1, <3>2, SMTT(20) DEF SweepInv, Shapes, ReadSound
    <3>3. CASE target[w] = s
      <4>1. r < reached[w] => r \in late'[s]
        BY <1>v, <3>1, <3>3, SMTT(20) DEF SweepInv, Shapes, Sweeping
      <4>2. r # reached[w]
        BY <1>t, <3>1, <3>3, Zenon DEF ReadSound
      <4>3. r <= reached[w] => r \in late'[s]
        BY <1>t, <4>1, <4>2 DEF SweepInv, Shapes
      <4>4. late[s] \subseteq late'[s] /\ rows'[s] = rows[s] \cup {r}
        BY <1>v DEF SweepInv, Shapes
      <4> QED BY <1>0, <3>1, <3>3, <4>3, <4>4, Zenon DEF ReadSound
    <3> QED BY <3>2, <3>3
  <2> QED BY <2>1, <2>2 DEF Reads
<1>5. NothingSkipped'
  <2>1. r # cursor[s]
    BY <1>t, Zenon DEF SweepInv, Reads
  <2>2. r <= cursor[s] => r \in late'[s]
    BY <1>t, <1>v, <2>1, SMTT(20) DEF SweepInv, Shapes
  <2> QED BY <1>0, <1>v, <2>2, SMTT(20) DEF SweepInv, Shapes, NothingSkipped
<1>6. HintsOpen' /\ NoLostWakeup'
  BY <1>0, Zenon DEF SweepInv, HintsOpen, NoLostWakeup, Idle
<1>7. HintNotLost'
  <2>1. \A x \in Sources : late[x] \subseteq late'[x]
    BY <1>v DEF SweepInv, Shapes
  <2>2. hinted' = hinted /\ dirty' = dirty /\ target' = target /\ lock' = lock /\ plan' = plan
    BY <1>0, Zenon
  <2>3. ASSUME NEW x \in Sources, NEW q \in hinted'[x] \ late'[x]
        PROVE  dirty'[x] \/ \E w \in Workers : target'[w] = x /\ (lock'[x] # w \/ q \in plan'[w])
    <3>1. q \in hinted[x] \ late[x]
      BY <2>1, <2>2, Zenon
    <3>2. dirty[x] \/ \E w \in Workers : target[w] = x /\ (lock[x] # w \/ q \in plan[w])
      BY <3>1, Zenon DEF SweepInv, HintNotLost
    <3> QED BY <2>2, <3>2
  <2> QED BY <2>3, Zenon DEF HintNotLost
<1> QED
  BY <1>1, <1>2, <1>3, <1>4, <1>5, <1>6, <1>7 DEF SweepInv

\* The flag is cleared before the source is read.
LEMMA StartSweepKeeps ==
    ASSUME SweepInv, NEW w \in Workers, NEW s \in Sources, StartSweep(w, s),
           w = Run => mode # "wait" /\ left # <<>> /\ Head(left) = s,
           UNCHANGED <<rows, mirrored, cursor, lock, wake, notifying, plan, reached, mode, left,
                       found, late, hinted>>
    PROVE  SweepInv'
<1>0. target[w] = NoSource /\ target' = [target EXCEPT ![w] = s]
      /\ dirty' = [dirty EXCEPT ![s] = FALSE] /\ reflagged' = reflagged \ {s}
  BY DEF StartSweep, Idle
<1>f. \A x \in Sources : lock[x] # w
  BY <1>0, NoSourceApart, WorkersApart, Zenon DEF SweepInv, Shapes, Locks, Workers
<1>h. \A v \in Workers : Holds(v)' <=> Holds(v)
  BY <1>0, <1>f DEF SweepInv, Shapes, Holds
<1>k. \A v \in Workers : Holds(v) => target'[v] = target[v]
  BY <1>0, <1>f DEF SweepInv, Shapes, Holds
<1>1. Shapes'
  BY <1>0 DEF SweepInv, Shapes
<1>2. SweepTypeOK'
  BY <1>0, <1>h, <1>k, ZenonT(30) DEF SweepInv, Shapes, SweepTypeOK
<1>3. Locks'
  BY <1>0, <1>f DEF SweepInv, Shapes, Locks
<1>4. RunAtHead'
  BY <1>0 DEF SweepInv, Shapes, RunAtHead, Idle
<1>5. Reads'
  BY <1>h, <1>k, SMTT(20) DEF SweepInv, Reads, ReadSound
<1>6. HintsOpen' /\ NothingSkipped'
  BY Zenon DEF SweepInv, HintsOpen, NothingSkipped
<1>7. NoLostWakeup'
  <2>1. ASSUME NEW x \in Sources, dirty'[x] PROVE Wakes(x)'
    <3>1. x # s /\ dirty[x] /\ Wakes(x)
      BY <1>0, <2>1 DEF SweepInv, Shapes, NoLostWakeup, Wakes, OnRound
    <3>2. OnRound(x) => OnRound(x)'
      <4>1. CASE w # Run
        BY <1>0, <4>1 DEF OnRound, Idle, SweepInv, Shapes, Workers
      <4>2. CASE w = Run
        <5>0. left \in Seq(Sources) /\ left # <<>> /\ Head(left) = s
          BY <4>2, Zenon DEF SweepInv, SweepTypeOK
        <5>1. left \in Seq(Sources) /\ left[1] = s
          BY <5>0
        <5>2. ASSUME NEW i \in DOMAIN left, left[i] = x PROVE i > 1
          BY <3>1, <5>1, <5>2
        <5> QED BY <5>2, SMTT(20) DEF OnRound
      <4> QED BY <4>1, <4>2
    <3> QED BY <1>0, <3>1, <3>2 DEF Wakes
  <2> QED BY <2>1 DEF NoLostWakeup, Wakes, OnRound
<1>8. HintNotLost'
  <2>1. ASSUME NEW x \in Sources, NEW r \in hinted[x] \ late[x]
        PROVE  dirty'[x] \/ \E v \in Workers : target'[v] = x /\ (lock[x] # v \/ r \in plan[v])
    <3>1. CASE x = s
      BY <1>0, <1>f, <3>1 DEF SweepInv, Shapes
    <3>2. CASE x # s
      <4>1. dirty[x] \/ \E v \in Workers : target[v] = x /\ (lock[x] # v \/ r \in plan[v])
        BY Zenon DEF SweepInv, HintNotLost
      <4> QED BY <1>0, <3>2, <4>1, NoSourceApart, SMTT(20) DEF SweepInv, Shapes
    <3> QED BY <3>1, <3>2
  <2> QED BY <2>1 DEF HintNotLost
<1> QED
  BY <1>1, <1>2, <1>3, <1>4, <1>5, <1>6, <1>7, <1>8 DEF SweepInv

\* A batch of the rows read goes through the projected store.
LEMMA PushBatchKeeps ==
    ASSUME SweepInv, NEW w \in Workers, PushBatch(w)
    PROVE  SweepInv'
<1>s. PICK s \in Sources : s = target[w] /\ lock[s] = w
  BY DEF PushBatch, Holds, SweepInv, Shapes
<1>b. PICK batch : batch = Lowest(BatchSize, plan[w])
  OBVIOUS
<1>0. /\ mirrored' = [mirrored EXCEPT ![s] = @ \cup batch]
      /\ plan' = [plan EXCEPT ![w] = @ \ batch]
      /\ hinted' = [hinted EXCEPT ![s] = @ \ batch]
  BY <1>s, <1>b DEF PushBatch
<1>f. found' \in BOOLEAN
  BY Zenon DEF PushBatch
<1>u. UNCHANGED <<rows, cursor, dirty, lock, wake, notifying, target, reached, mode, left,
                  late, reflagged>>
  BY DEF PushBatch
<1>n. batch \subseteq plan[w] /\ batch \subseteq rows[s] /\ batch \subseteq Nat
  <2>1. batch \subseteq plan[w]
    BY <1>b, Zenon DEF Lowest
  <2> QED BY <1>s, <2>1, NoSourceApart, Zenon DEF SweepInv, Shapes, SweepTypeOK, Holds
<1>h. \A v \in Workers : (Holds(v)' <=> Holds(v)) /\ plan'[v] \subseteq plan[v]
                        /\ (v # w /\ Holds(v) => target[v] # s)
  BY <1>s, <1>0, <1>u DEF SweepInv, Shapes, Holds
<1>1. Shapes'
  BY <1>0, <1>u, <1>n, Zenon DEF SweepInv, Shapes
<1>2. SweepTypeOK'
  <2>1. \A x \in Sources : mirrored'[x] \subseteq rows[x] /\ hinted'[x] \subseteq hinted[x]
    BY <1>0, <1>n, ZenonT(30) DEF SweepInv, Shapes, SweepTypeOK
  <2> QED BY <1>f, <1>u, <1>h, <2>1 DEF SweepInv, SweepTypeOK
<1>3. Locks' /\ RunAtHead' /\ NoLostWakeup'
  BY <1>u, Zenon DEF SweepInv, Locks, RunAtHead, Idle, NoLostWakeup
<1>4. Reads'
  <2>1. ASSUME NEW v \in Workers, Holds(v) PROVE ReadSound(v)'
    <3>1. ReadSound(v)
      BY <2>1 DEF SweepInv, Reads
    <3>2. CASE v = w
      BY <1>s, <1>0, <1>u, <3>1, <3>2 DEF ReadSound, SweepInv, Shapes
    <3>3. CASE v # w
      BY <1>0, <1>u, <1>h, <2>1, <3>1, <3>3 DEF ReadSound, SweepInv, Shapes, Holds
    <3> QED BY <3>2, <3>3
  <2> QED BY <1>u, <1>h, <2>1, Zenon DEF SweepInv, Reads
<1>5. HintsOpen' /\ NothingSkipped'
  BY <1>0, <1>u, SMTT(20) DEF SweepInv, Shapes, HintsOpen, NothingSkipped
<1>6. HintNotLost'
  <2>1. ASSUME NEW x \in Sources, NEW r \in hinted'[x] \ late[x], ~dirty[x]
        PROVE  \E v \in Workers : target[v] = x /\ (lock[x] # v \/ r \in plan'[v])
    <3>1. r \in hinted[x] /\ (x = s => r \notin batch)
      BY <1>0, SMTT(20) DEF SweepInv, Shapes
    <3>2. PICK v \in Workers : target[v] = x /\ (lock[x] # v \/ r \in plan[v])
      BY <2>1, <3>1 DEF SweepInv, HintNotLost
    <3> QED BY <1>s, <1>0, <3>1, <3>2 DEF SweepInv, Shapes
  <2>2. \A x \in Sources : \A r \in hinted'[x] \ late'[x] :
           dirty'[x] \/ \E v \in Workers : target'[v] = x /\ (lock'[x] # v \/ r \in plan'[v])
    <3>1. late' = late /\ dirty' = dirty /\ target' = target /\ lock' = lock
      BY <1>u
    <3>2. ASSUME NEW x \in Sources, NEW r \in hinted'[x] \ late'[x], ~dirty'[x]
          PROVE  \E v \in Workers : target'[v] = x /\ (lock'[x] # v \/ r \in plan'[v])
      <4>1. PICK v \in Workers : target[v] = x /\ (lock[x] # v \/ r \in plan'[v])
        BY <2>1, <3>1, <3>2
      <4> QED BY <3>1, <4>1
    <3> QED BY <3>2, Zenon
  <2> QED BY <2>2, Zenon DEF HintNotLost
<1> QED
  BY <1>1, <1>2, <1>3, <1>4, <1>5, <1>6 DEF SweepInv

\* The sweep returns; only a sweep that pushed all it read moves the cursor.
LEMMA EndSweepKeeps ==
    ASSUME SweepInv, NEW w \in Workers, NEW ok \in BOOLEAN, EndSweep(w, ok)
    PROVE  SweepInv'
<1>s. PICK s \in Sources : s = target[w] /\ lock[s] = w
  BY DEF EndSweep, Holds, SweepInv, Shapes
<1>g. PICK again \in BOOLEAN : again = (~ok /\ w = Run /\ mode = "signalled")
  BY Zenon
<1>p. Holds(w) /\ ReadSound(w) /\ (ok => plan[w] = {})
  BY Zenon DEF EndSweep, SweepInv, Reads
<1>0. /\ cursor' = [cursor EXCEPT ![s] = IF ok THEN reached[w] ELSE cursor[s]]
      /\ lock' = [lock EXCEPT ![s] = NoWorker]
      /\ hinted' = [hinted EXCEPT ![s] = @ \ plan[w]]
      /\ target' = [target EXCEPT ![w] = NoSource]
      /\ plan' = [plan EXCEPT ![w] = {}]
      /\ reached' = [reached EXCEPT ![w] = 0]
      /\ left' = IF w = Run THEN Tail(left) ELSE left
  BY <1>s DEF EndSweep, CursorAfter
<1>d. /\ dirty' = IF again THEN [dirty EXCEPT ![s] = TRUE] ELSE dirty
      /\ reflagged' = IF again THEN reflagged \cup {s} ELSE reflagged
  BY <1>s, <1>g, Zenon DEF EndSweep, FlagAfter
<1>u. UNCHANGED <<rows, mirrored, wake, notifying, mode, found, late>>
  BY DEF EndSweep
<1>h. ~Holds(w)' /\ \A v \in Workers : v # w => (Holds(v)' <=> Holds(v)) /\ (Holds(v) => target[v] # s)
  BY <1>s, <1>0, NoSourceApart, WorkersApart DEF SweepInv, Shapes, Holds, Workers
<1>l. left \in Seq(Sources) /\ left' \in Seq(Sources) /\ (w = Run => left # <<>> /\ left[1] = s)
  <2>1. left \in Seq(Sources)
    BY DEF SweepInv, SweepTypeOK
  <2>2. w = Run => left # <<>> /\ Head(left) = s
    BY <1>s, NoSourceApart, SMTT(20) DEF SweepInv, RunAtHead, Idle
  <2> QED BY <1>0, <2>1, <2>2
<1>1. Shapes'
  BY <1>0, <1>d, <1>u, SMTT(20) DEF SweepInv, Shapes
<1>c. \A x \in Sources : cursor'[x] \in rows[x] \cup {0}
  BY <1>s, <1>0, <1>p, SMTT(20) DEF SweepInv, Shapes, Reads, ReadSound
<1>2. SweepTypeOK'
  <2>1. ASSUME NEW x \in Sources
        PROVE  /\ cursor'[x] \in 0..MaxStamp[x] /\ hinted'[x] \subseteq hinted[x]
               /\ lock'[x] \in Workers \cup {NoWorker} /\ dirty'[x] \in BOOLEAN
    <3>1. cursor'[x] \in 0..MaxStamp[x]
      BY <1>c, SweepBounds, SMTT(20) DEF SweepInv, SweepTypeOK
    <3> QED BY <1>0, <1>1, <3>1, Zenon DEF SweepInv, Shapes
  <2>2. ASSUME NEW v \in Workers
        PROVE  /\ target'[v] \in Sources \cup {NoSource}
               /\ Holds(v)' => plan'[v] \subseteq rows[target'[v]] \cap 1..reached'[v]
               /\ ~Holds(v)' => plan'[v] = {} /\ reached'[v] = 0
    BY <1>0, <1>h, ZenonT(30) DEF SweepInv, Shapes, SweepTypeOK
  <2>3. reflagged' \subseteq Sources
    BY <1>d, SMTT(20) DEF SweepInv, SweepTypeOK
  <2> QED BY <1>l, <1>u, <2>1, <2>2, <2>3, ZenonT(30) DEF SweepInv, SweepTypeOK
<1>3. Locks' /\ RunAtHead'
  BY <1>s, <1>0, <1>u, WorkersApart, SMTT(20) DEF SweepInv, Shapes, Locks, RunAtHead, Idle, Workers
<1>4. Reads'
  <2>1. ASSUME NEW v \in Workers, Holds(v)' PROVE ReadSound(v)'
    <3>1. v # w /\ Holds(v) /\ target[v] # s /\ target[v] \in Sources
      BY <1>h, <2>1, ZenonT(30) DEF SweepInv, Shapes, Holds
    <3>2. ReadSound(v)
      BY <3>1, Zenon DEF SweepInv, Reads
    <3>3. target'[v] = target[v] /\ plan'[v] = plan[v] /\ reached'[v] = reached[v]
          /\ cursor'[target[v]] = cursor[target[v]]
      BY <1>0, <3>1, SMTT(20) DEF SweepInv, Shapes
    <3> QED BY <1>u, <3>2, <3>3, SMTT(20) DEF ReadSound
  <2> QED BY <1>c, <1>u, <2>1, SMTT(20) DEF Reads
<1>5. HintsOpen' /\ NothingSkipped'
  <2>1. \A x \in Sources : \A r \in rows[x] : r <= cursor'[x] => r \in mirrored[x] \cup late[x]
    BY <1>s, <1>0, <1>p, SMTT(20) DEF SweepInv, Shapes, NothingSkipped, ReadSound
  <2> QED BY <1>0, <1>u, <2>1, SMTT(20) DEF SweepInv, Shapes, HintsOpen, NothingSkipped
<1>6. NoLostWakeup'
  <2>1. ASSUME NEW x \in Sources PROVE Wakes(x)'
    <3>1. Wakes(x)
      BY DEF SweepInv, NoLostWakeup, Wakes, OnRound
    <3>2. OnRound(x) => OnRound(x)'
      <4>1. CASE w # Run
        BY <1>0, <4>1 DEF OnRound, Idle, SweepInv, Shapes, Workers
      <4>2. CASE w = Run
        <5>1. ~Idle(Run) /\ Idle(Run)' /\ left' = Tail(left)
          BY <1>s, <1>0, <4>2, NoSourceApart DEF Idle, SweepInv, Shapes
        <5>2. ASSUME NEW i \in DOMAIN left, left[i] = x, i > 1
              PROVE  i - 1 \in DOMAIN left' /\ left'[i - 1] = x
          BY <1>l, <4>2, <5>1, <5>2
        <5> QED BY <5>1, <5>2, SMTT(20) DEF OnRound
      <4> QED BY <4>1, <4>2, SMTT(20)
    <3>3. dirty'[x] => dirty[x] \/ x \in reflagged'
      BY <1>d DEF SweepInv, Shapes
    <3>4. x \in reflagged => x \in reflagged'
      BY <1>d, SMTT(20)
    <3> QED BY <1>u, <3>1, <3>2, <3>3, <3>4, SMTT(20) DEF Wakes
  <2> QED BY <2>1, SMTT(20) DEF NoLostWakeup, Wakes, OnRound
<1>7. HintNotLost'
  <2>1. ASSUME NEW x \in Sources, NEW r \in hinted'[x] \ late[x], ~dirty'[x]
        PROVE  \E v \in Workers : target'[v] = x /\ (lock'[x] # v \/ r \in plan'[v])
    <3>1. r \in hinted[x] /\ (x = s => r \notin plan[w]) /\ ~dirty[x]
      BY <1>0, <1>d, <2>1, SMTT(20) DEF SweepInv, Shapes
    <3>2. PICK v \in Workers : target[v] = x /\ (lock[x] # v \/ r \in plan[v])
      BY <2>1, <3>1, ZenonT(30) DEF SweepInv, HintNotLost
    <3>3. v # w
      BY <1>s, <3>1, <3>2, Zenon
    <3> QED BY <1>0, <3>2, <3>3, WorkersApart, SMTT(20) DEF SweepInv, Shapes, Workers
  <2> QED BY <1>u, <2>1, SMTT(20) DEF HintNotLost
<1> QED
  BY <1>1, <1>2, <1>3, <1>4, <1>5, <1>6, <1>7, SMTT(20) DEF SweepInv

-----------------------------------------------------------------------------
(* A process that starts, and the invariant of the whole.                  *)

Fresh ==
    /\ rows \in [Sources -> SUBSET Nat] /\ \A s \in Sources : rows[s] \subseteq 1..MaxStamp[s]
    /\ mirrored = [s \in Sources |-> {}] /\ late = [s \in Sources |-> {}]
    /\ hinted = [s \in Sources |-> {}] /\ reflagged = {}
    /\ cursor = [s \in Sources |-> 0]
    /\ dirty = [s \in Sources |-> FALSE]
    /\ lock = [s \in Sources |-> NoWorker]
    /\ target = [w \in Workers |-> NoSource]
    /\ plan = [w \in Workers |-> {}]
    /\ reached = [w \in Workers |-> 0]
    /\ wake = FALSE /\ notifying = NoSource
    /\ mode = "pass" /\ left = Order /\ found = FALSE

\* Zero cursors and clear flags claim nothing about the tables.
LEMMA FreshSound == Fresh => SweepInv
<1> SUFFICES ASSUME Fresh PROVE SweepInv
  OBVIOUS
<1>1. Shapes
  <2>1. dirty \in [Sources -> BOOLEAN]
    BY Zenon DEF Fresh
  <2> QED BY <2>1 DEF Fresh, Shapes
<1>2. \A w \in Workers : ~Holds(w) /\ Idle(w)
  BY DEF Fresh, Holds, Idle
<1>3. SweepTypeOK
  <2>1. left \in Seq(Sources)
    BY Registration, Zenon DEF Fresh
  <2>2. wake \in BOOLEAN /\ found \in BOOLEAN /\ \A s \in Sources : dirty[s] \in BOOLEAN
    BY Zenon DEF Fresh
  <2>3. \A s \in Sources : cursor[s] \in 0..MaxStamp[s]
    BY SweepBounds DEF Fresh
  <2> QED BY <1>2, <2>1, <2>2, <2>3, SMTT(20) DEF Fresh, SweepTypeOK
<1>4. Locks /\ RunAtHead /\ Reads
  BY <1>2 DEF Fresh, Locks, RunAtHead, Reads, Workers
<1>5. \A s \in Sources : ~dirty[s] /\ hinted[s] = {}
  BY DEF Fresh
<1>6. HintsOpen /\ NoLostWakeup /\ HintNotLost
  BY <1>5 DEF HintsOpen, NoLostWakeup, HintNotLost
<1>7. NothingSkipped
  BY SweepBounds DEF Fresh, NothingSkipped
<1> QED
  BY <1>1, <1>3, <1>4, <1>6, <1>7 DEF SweepInv

\* The tables are empty and the process has just started.
LEMMA SweepInitSound == SweepInit => SweepInv
<1>1. SweepInit => Fresh
  BY DEF SweepInit, Fresh
<1> QED
  BY <1>1, FreshSound

\* A restart keeps the tables only.
LEMMA RestartKeeps ==
    ASSUME SweepInv, Restart
    PROVE  SweepInv'
<1>1. Fresh'
  BY DEF SweepInv, Shapes, SweepTypeOK, Restart, Fresh
<1>2. Fresh' => SweepInv'
  BY FreshSound, PTL
<1> QED
  BY <1>1, <1>2, SMTT(20)

-----------------------------------------------------------------------------
(* Joined by the bus, the lane and the sweeper each stay within their own  *)
(* specification: the safety of the composition follows from that of the   *)
(* parts, for any number of writers and callers and any sources.           *)

\* Only names of registered sources travel from a writer to the bus (routable).
NamesRouted ==
    /\ \A w \in Writers : marked[w] => wrote[w] \in Registered
    /\ queue \in Seq(Registered)
    /\ holding \in Registered \cup {NoScope}
    /\ bus \in Seq(Registered)

ConvInv == LaneInv /\ NamesRouted

\* Before the first write nothing is on its way.
LEMMA ConvInitSound == ConvInit => ConvInv
<1> SUFFICES ASSUME ConvInit PROVE ConvInv
  OBVIOUS
<1>1. LaneInv
  BY LaneInit DEF ConvInit
<1>2. \A w \in Writers : ~marked[w]
  BY DEF ConvInit, SignalInit
<1>3. queue \in Seq(Registered) /\ bus \in Seq(Registered) /\ holding \in Registered \cup {NoScope}
  BY DEF ConvInit, SignalInit
<1> QED
  BY <1>1, <1>2, <1>3 DEF ConvInv, NamesRouted

\* A step of the lane routes registered names only.
LEMMA LaneRoutes ==
    ASSUME ConvInv, SignalNext
    PROVE  ConvInv'
<1>1. LaneInv'
  BY LaneStepKeeps DEF ConvInv
<1>2. ASSUME NEW w \in Writers, NEW s \in Scopes, OnCommandWrite(w, s) PROVE NamesRouted'
  BY <1>2, SMTT(20) DEF ConvInv, LaneInv, SignalTypes, NamesRouted, OnCommandWrite
<1>3. ASSUME NEW w \in Writers, Enqueue(w) PROVE NamesRouted'
  BY <1>3, SMTT(20) DEF ConvInv, LaneInv, SignalTypes, NamesRouted, Enqueue, Ignored
<1>4. ASSUME NEW w \in Writers, Send(w) PROVE NamesRouted'
  BY <1>4, SMTT(20) DEF ConvInv, LaneInv, SignalTypes, NamesRouted, Send
<1>5. ASSUME Take PROVE NamesRouted'
  BY <1>5, SMTT(20) DEF ConvInv, NamesRouted, Take
<1>6. ASSUME ClearPending \/ Close PROVE NamesRouted'
  BY <1>6, SMTT(20) DEF ConvInv, NamesRouted, ClearPending, Close
<1>7. ASSUME NEW sent \in BOOLEAN, Publish(sent) PROVE NamesRouted'
  <2>1. bus' \in Seq(Registered)
    <3>1. /\ holding \in Registered /\ bus \in Seq(Registered)
          /\ bus' = Append(bus, holding) \/ bus' = bus
      BY <1>7, Zenon DEF ConvInv, NamesRouted, Publish
    <3> QED BY <3>1
  <2> QED BY <1>7, <2>1, ZenonT(30) DEF ConvInv, NamesRouted, Publish
<1> QED
  BY <1>1, <1>2, <1>3, <1>4, <1>5, <1>6, <1>7, Zenon DEF ConvInv, SignalNext, SignalStep

\* What a step of the composition is to the lane and to the sweeper.
LEMMA ConvStepSplits ==
    ASSUME ConvInv, [ConvNext]_convVars
    PROVE  ConvInv' /\ [SweepNext]_sweepVars
<1>u. ASSUME UNCHANGED signalVars PROVE ConvInv'
  <2>1. UNCHANGED <<wrote, marked, pending, queue, holding, cleared, closed, owed>> /\ bus' = bus
    BY <1>u DEF signalVars
  <2>2. LaneInv'
    BY <2>1, LaneUnchanged DEF ConvInv
  <2> QED BY <2>1, <2>2 DEF ConvInv, NamesRouted
<1>1. CASE UNCHANGED convVars
  BY <1>1, <1>u DEF convVars
<1>2. ASSUME NEW w \in Writers, NEW s \in Sources, NEW r \in 1..MaxStamp[s], CommandWrite(w, s, r)
      PROVE  ConvInv' /\ SweepNext
  <2>1. SignalNext
    BY <1>2, SourcesRegistered, RegisteredScopes DEF CommandWrite, SignalNext
  <2> QED BY <1>2, <2>1, LaneRoutes, Zenon DEF CommandWrite, SweepNext
<1>3. ASSUME LaneStep PROVE ConvInv' /\ UNCHANGED sweepVars
  BY <1>3, LaneRoutes, Zenon DEF LaneStep, SignalNext
<1>4. ASSUME Deliver PROVE ConvInv' /\ SweepNext
  <2>1. Head(bus) \in Sources /\ bus' \in Seq(Registered)
    <3>1. bus \in Seq(Sources) /\ bus # <<>> /\ bus' = Tail(bus)
      BY <1>4, SourcesRegistered, Zenon DEF ConvInv, NamesRouted, Deliver
    <3>2. Head(bus) \in Sources /\ Tail(bus) \in Seq(Sources)
      BY <3>1
    <3> QED BY <3>1, <3>2, SourcesRegistered, Zenon
  <2>2. LaneInv'
    BY <1>4, LaneUnchanged DEF ConvInv, Deliver
  <2>3. NamesRouted'
    BY <1>4, <2>1 DEF ConvInv, NamesRouted, Deliver
  <2> QED BY <1>4, <2>1, <2>2, <2>3, ZenonT(30) DEF ConvInv, Deliver, SweepNext
<1>5. ASSUME \/ NotifyWake /\ UNCHANGED <<signalVars, rare>>
             \/ LoopStep \/ \E w \in Callers : CallerStep(w)
             \/ SweeperEvent /\ UNCHANGED signalVars
      PROVE  ConvInv' /\ SweepNext
  <2>1. UNCHANGED signalVars
    BY <1>5, Zenon DEF LoopStep, CallerStep
  <2> QED BY <1>5, <2>1, <1>u, Zenon DEF LoopStep, CallerStep, SweeperEvent, SweepNext
<1>6. ASSUME (Publish(FALSE) \/ Close) /\ UNCHANGED sweepVars PROVE ConvInv' /\ UNCHANGED sweepVars
  BY <1>6, LaneRoutes, Zenon DEF SignalNext
<1> QED
  BY <1>1, <1>2, <1>3, <1>4, <1>5, <1>6, Zenon DEF ConvNext, IntakeStep, convVars

\* The lane keeps its invariant and routes only registered names, whatever the
\* converging process does with the announcements.
THEOREM LaneInComposition == ConvSpec => []ConvInv
  BY ConvInitSound, ConvStepSplits, PTL DEF ConvSpec

\* The composition implements the sweeper: announcements, processes that write and
\* the bus never make the sweeper do what it could not do by itself (receive, Notify).
THEOREM CompositionImplementsSweeper == ConvSpec => SweepSpec
<1>1. ConvInit => SweepInit
  BY DEF ConvInit
<1> QED
  BY <1>1, ConvInitSound, ConvStepSplits, PTL DEF ConvSpec, SweepSpec

-----------------------------------------------------------------------------
(* What a limited read returns.                                            *)

\* The library's facts about finite sets and about the order of the numbers.
Finite == INSTANCE FiniteSetTheorems

\* A bounded set of stamps has a highest one.
LEMMA MaxIsHighest ==
    ASSUME NEW n \in Nat, NEW S \in SUBSET (0..n), S # {}
    PROVE  Max(S) \in S /\ \A x \in S : x <= Max(S)
<1> DEFINE T == {n - i : i \in S}
<1>0. \A i \in S : i \in Int /\ n - i \in Nat
  OBVIOUS
<1>1. T \subseteq Nat /\ T # {}
  BY <1>0, Zenon
<1>2. PICK x \in T : \A y \in T : ~(<<y, x>> \in Finite!OpToRel(<, Nat))
  BY <1>1, Finite!WFMin, Finite!NatLessThanWellFounded, Zenon
<1>3. \A y \in T : ~(y < x)
  BY <1>1, <1>2, Zenon DEF Finite!OpToRel
<1>4. PICK i \in S : x = n - i
  OBVIOUS
<1>5. ASSUME NEW j \in S PROVE i >= j
  <2>1. n - j \in T
    BY Zenon
  <2>2. ~(n - j < n - i)
    BY <1>3, <1>4, <2>1, Zenon
  <2> QED BY <1>0, <2>2
<1>6. Max(S) \in S /\ \A y \in S : Max(S) >= y
  BY <1>4, <1>5, Zenon DEF Max
<1> QED
  BY <1>0, <1>6

\* A set of stamps has at most as many rows below one stamp as below a higher one.
LEMMA FewerRows ==
    ASSUME NEW b \in Nat, NEW B \in SUBSET (0..b), NEW A \in SUBSET B
    PROVE  /\ Cardinality(A) \in Nat /\ Cardinality(B) \in Nat
           /\ Cardinality(A) <= Cardinality(B)
<1>1. Finite!IsFiniteSet(0..b)
  BY Finite!FS_Interval
<1>2. Finite!IsFiniteSet(A) /\ Finite!IsFiniteSet(B) /\ Finite!Cardinality(A) <= Finite!Cardinality(B)
  BY <1>1, Finite!FS_Subset, Zenon
<1>3. Finite!Cardinality(A) \in Nat /\ Finite!Cardinality(B) \in Nat
  BY <1>2, Finite!FS_CardinalityType
<1>4. ASSUME NEW S PROVE Finite!Cardinality(S) = Cardinality(S)
  BY DEF Finite!Cardinality, Cardinality
<1> QED BY <1>2, <1>3, <1>4

\* LIMIT cuts off the high stamps: what lies below a row that was read was read too.
LEMMA LowestIsDownClosed ==
    ASSUME NEW n \in Nat, NEW b \in Nat, NEW S \in SUBSET (0..b),
           NEW x \in Lowest(n, S), NEW r \in S, r <= x
    PROVE  r \in Lowest(n, S)
<1> DEFINE A == {j \in S : j < r}
           B == {j \in S : j < x}
<1>0. x \in S
  BY Zenon DEF Lowest
<1>2. A \subseteq B
  <2>1. x \in Int /\ r \in Int /\ \A j \in S : j \in Int
    BY <1>0
  <2>2. \A j \in S : j < r => j < x
    BY <2>1
  <2> QED BY <2>2, Zenon
<1>3. Cardinality(A) <= Cardinality(B) /\ Cardinality(A) \in Nat /\ Cardinality(B) \in Nat
  BY <1>2, FewerRows, Zenon
<1>4. Cardinality(B) < n
  BY Zenon DEF Lowest
<1>5. Cardinality(A) < n
  BY <1>3, <1>4
<1> QED
  BY <1>5, Zenon DEF Lowest

\* A sweep takes the mutex and reads up to LIMIT rows past the cursor.
LEMMA LockAndReadKeeps ==
    ASSUME SweepInv, NEW w \in Workers, LockAndRead(w)
    PROVE  SweepInv'
<1>s. PICK s \in Sources : s = target[w]
  BY DEF LockAndRead, Idle, SweepInv, Shapes
<1>r. PICK read : read = Lowest(ReadLimit, Unread(s))
  OBVIOUS
<1>m. PICK top : top = Max(read \cup {cursor[s]})
  BY SMTT(20)
<1>0. /\ ~Holds(w) /\ lock[s] = NoWorker
      /\ lock' = [lock EXCEPT ![s] = w] /\ plan' = [plan EXCEPT ![w] = read]
      /\ reached' = [reached EXCEPT ![w] = top]
      /\ hinted' = [hinted EXCEPT ![s] = @ \ (Unread(s) \ read)]
  BY <1>s, <1>r, <1>m, Zenon DEF LockAndRead, MutexFree
<1>u. UNCHANGED <<rows, mirrored, cursor, dirty, wake, notifying, target, mode, left, found,
                  late, reflagged>>
  BY Zenon DEF LockAndRead, runVars
<1>1. Unread(s) \in SUBSET (0..MaxStamp[s]) /\ MaxStamp[s] \in Nat
  BY SweepBounds DEF SweepInv, SweepTypeOK, Unread
<1>2. read \subseteq Unread(s)
  BY <1>r, Zenon DEF Lowest
<1>3. read \cup {cursor[s]} \in SUBSET (0..MaxStamp[s])
  BY <1>1, <1>2 DEF SweepInv, SweepTypeOK
<1>4. top \in read \cup {cursor[s]} /\ \A x \in read \cup {cursor[s]} : x <= top
  BY <1>1, <1>3, <1>m, MaxIsHighest, Zenon
<1>5. \A x \in Unread(s) : x <= top => x \in read
  <2>1. SUFFICES ASSUME NEW x \in Unread(s), x <= top PROVE x \in read
    OBVIOUS
  <2>2. top # cursor[s]
    BY <2>1, <1>1 DEF Unread, SweepInv, Shapes
  <2>3. top \in Lowest(ReadLimit, Unread(s))
    BY <1>4, <1>r, <2>2
  <2> QED BY <1>1, <1>r, <2>1, <2>3, LowestIsDownClosed, SweepBounds, Zenon
<1>n. top \in Nat /\ read \subseteq Nat /\ read \subseteq rows[s] /\ read \subseteq 1..top
      /\ top \in rows[s] \cup {0} /\ cursor[s] <= top
  BY <1>1, <1>2, <1>3, <1>4 DEF SweepInv, Shapes, Unread, Reads, SweepTypeOK
<1>h. Holds(w)' /\ \A v \in Workers : v # w => (Holds(v)' <=> Holds(v))
  BY <1>s, <1>0, <1>u, NoSourceApart, WorkersApart DEF SweepInv, Shapes, Holds, Workers
<1>6. Shapes'
  BY <1>0, <1>u, <1>n, SMTT(20) DEF SweepInv, Shapes
<1>7. SweepTypeOK'
  <2>1. ASSUME NEW x \in Sources
        PROVE  hinted'[x] \subseteq hinted[x] /\ lock'[x] \in Workers \cup {NoWorker}
    BY <1>0, SMTT(20) DEF SweepInv, Shapes
  <2>2. ASSUME NEW v \in Workers
        PROVE  /\ Holds(v)' => plan'[v] \subseteq rows[target[v]] \cap 1..reached'[v]
               /\ ~Holds(v)' => plan'[v] = {} /\ reached'[v] = 0
    <3>1. CASE v = w
      BY <1>s, <1>0, <1>n, <1>h, <3>1, SMTT(20) DEF SweepInv, Shapes
    <3>2. CASE v # w
      BY <1>0, <1>h, <3>2 DEF SweepInv, Shapes, SweepTypeOK
    <3> QED BY <3>1, <3>2, Zenon
  <2> QED BY <1>u, <2>1, <2>2 DEF SweepInv, SweepTypeOK
<1>8. Locks' /\ RunAtHead'
  BY <1>s, <1>0, <1>u, SMTT(20) DEF SweepInv, Shapes, Locks, RunAtHead, Idle
<1>9. Reads'
  <2>1. ASSUME NEW v \in Workers, Holds(v)' PROVE ReadSound(v)'
    <3>1. CASE v = w
      <4>1. plan'[w] = read /\ reached'[w] = top /\ target'[w] = s
        BY <1>s, <1>0, <1>u DEF SweepInv, Shapes
      <4>2. \A x \in rows[s] : x <= top => x <= cursor[s] \/ x \in read
        BY <1>5, <1>n DEF Unread, SweepInv, Shapes
      <4> QED BY <1>n, <1>u, <3>1, <4>1, <4>2, Zenon DEF ReadSound
    <3>2. CASE v # w
      BY <1>0, <1>u, <1>h, <2>1, <3>2 DEF SweepInv, Shapes, Reads, ReadSound
    <3> QED BY <3>1, <3>2, SMTT(20)
  <2> QED BY <1>u, <2>1, Zenon DEF SweepInv, Reads
<1>10. HintsOpen' /\ NothingSkipped' /\ NoLostWakeup'
  BY <1>0, <1>u, SMTT(20) DEF SweepInv, Shapes, HintsOpen, NothingSkipped, NoLostWakeup, Idle
<1>11. HintNotLost'
  <2>1. ASSUME NEW x \in Sources, NEW r \in hinted'[x] \ late[x], ~dirty[x]
        PROVE  \E v \in Workers : target[v] = x /\ (lock'[x] # v \/ r \in plan'[v])
    <3>1. r \in hinted[x] /\ (x = s => r \notin Unread(s) \ read)
      BY <1>0, SMTT(20) DEF SweepInv, Shapes
    <3>2. PICK v \in Workers : target[v] = x /\ (lock[x] # v \/ r \in plan[v])
      BY <2>1, <3>1, Zenon DEF SweepInv, HintNotLost
    <3>3. CASE x # s
      BY <1>s, <1>0, <3>2, <3>3 DEF SweepInv, Shapes
    <3>4. CASE x = s /\ v # w
      BY <1>0, <3>2, <3>4 DEF SweepInv, Shapes
    <3>5. CASE x = s /\ v = w
      <4>1. r \in rows[s] /\ r \notin mirrored[s] /\ r \notin late[s]
        BY <2>1, <3>1, <3>5 DEF SweepInv, SweepTypeOK, HintsOpen
      <4>2. r \in Unread(s)
        BY <4>1 DEF SweepInv, NothingSkipped, Unread, Shapes
      <4>3. r \in plan'[w]
        BY <1>0, <3>1, <3>5, <4>2 DEF SweepInv, Shapes
      <4> QED BY <1>s, <3>5, <4>3, SMTT(20)
    <3> QED BY <3>3, <3>4, <3>5, Zenon
  <2> QED BY <1>u, <2>1, ZenonT(30) DEF HintNotLost
<1> QED
  BY <1>6, <1>7, <1>8, <1>9, <1>10, <1>11 DEF SweepInv

-----------------------------------------------------------------------------
(* The sweeper, alone and in the composition.                              *)

\* Every step of the sweeper keeps the invariant.
LEMMA SweepStepKeeps ==
    ASSUME SweepInv, [SweepNext]_sweepVars
    PROVE  SweepInv'
<1>1. CASE UNCHANGED sweepVars
  <2>1. UNCHANGED <<tableVars, dirty, notifying, history>> /\ UNCHANGED <<wake, mode, left, found>>
    BY <1>1, SMTT(20) DEF sweepVars, tableVars, workVars, runVars, history
  <2>2. RunAtHead' /\ \A x \in Sources : Wakes(x)'
    BY <2>1, SMTT(20) DEF SweepInv, RunAtHead, NoLostWakeup, Wakes, OnRound, Idle, tableVars, history
  <2>3. wake' \in BOOLEAN /\ found' \in BOOLEAN /\ mode' \in {"pass", "wait", "signalled"}
        /\ left' \in Seq(Sources)
    BY <2>1 DEF SweepInv, SweepTypeOK
  <2> QED BY <2>1, <2>2, <2>3, RoundKeeps, Zenon
<1>2. ASSUME NEW w \in Workers, WorkStep(w) PROVE SweepInv'
  BY <1>2, LockAndReadKeeps, PushBatchKeeps, EndSweepKeeps, Zenon DEF WorkStep
<1>3. ASSUME NEW w \in Callers, NEW s \in Sources, SweepSource(w, s) PROVE SweepInv'
  <2>1. w \in Workers /\ w # Run /\ StartSweep(w, s)
    BY <1>3, WorkersApart DEF Workers, SweepSource
  <2>2. UNCHANGED <<rows, mirrored, cursor, lock, wake, notifying, plan, reached, mode, left,
                    found, late, hinted>>
    BY <1>3 DEF SweepSource, runVars
  <2> QED BY <2>1, <2>2, StartSweepKeeps
<1>4. ASSUME Visit PROVE SweepInv'
  <2>1. UNCHANGED <<rows, mirrored, cursor, lock, wake, notifying, plan, reached, mode, left,
                    found, late, hinted>>
    BY <1>4, SMTT(20) DEF Visit, runVars
  <2>2. left \in Seq(Sources) /\ left # <<>> /\ mode # "wait" /\ StartSweep(Run, Head(left))
    BY <1>4 DEF SweepInv, SweepTypeOK, Visit
  <2>3. PICK s \in Sources : s = Head(left)
    BY <2>2
  <2>4. Run \in Workers /\ StartSweep(Run, s)
    BY <2>2, <2>3 DEF Workers
  <2> QED BY <2>1, <2>2, <2>3, <2>4, StartSweepKeeps
<1>5. CASE SweepNext
  <2>1. Run \in Workers /\ \A w \in Callers : w \in Workers
    BY DEF Workers
  <2>2. CASE RunStep
    BY <1>2, <1>4, <2>1, <2>2, SkipKeeps, EndPassKeeps, WaitEndsKeeps, Zenon DEF RunStep
  <2>3. CASE \E w \in Workers : EndSweep(w, FALSE)
    BY <2>3, EndSweepKeeps, Zenon
  <2> QED
    BY <1>2, <1>3, <1>5, <2>1, <2>2, <2>3, CommitKeeps, NotifyFlagKeeps, NotifyWakeKeeps,
       RestartKeeps, Zenon DEF SweepNext
<1> QED
  BY <1>1, <1>5

\* The invariant holds in every reachable state of the sweeper.
THEOREM SweepInvariance == SweepSpec => []SweepInv
  BY SweepInitSound, SweepStepKeeps, PTL DEF SweepSpec

\* The type invariant, with the mutexes that the sweeps hold (src.mu).
THEOREM SweepTypeCorrect == SweepSpec => []SweepTypeOK
<1>1. SweepInv => SweepTypeOK
  BY DEF SweepInv
<1> QED
  BY <1>1, SweepInvariance, PTL

\* Up to its cursor a source is mirrored, whatever sweeps interleave, are cut by LIMIT
\* or fail half way (sweepSource), except for rows that came late.
THEOREM SkipsNothing == SweepSpec => []NothingSkipped
<1>1. SweepInv => NothingSkipped
  BY DEF SweepInv
<1> QED
  BY <1>1, SweepInvariance, PTL

\* A flagged source is on its way to be swept, or sweepSignalled flagged it again.
THEOREM WakeupCorrect == SweepSpec => []NoLostWakeup
<1>1. SweepInv => NoLostWakeup
  BY DEF SweepInv
<1> QED
  BY <1>1, SweepInvariance, PTL

\* A row visible when its source was signalled is pushed by a sweep the signal caused,
\* unless LIMIT or a failure left it behind (Notify, sweepOne).
THEOREM HintCorrect == SweepSpec => []HintNotLost
<1>1. SweepInv => HintNotLost
  BY DEF SweepInv
<1> QED
  BY <1>1, SweepInvariance, PTL

\* In the composition, too, an accepted write is announced later or given up, no
\* writer sends on a closed queue, no cursor skips a row, no wake-up and no hint is
\* lost (scope_signal.go with mirror_sweep.go).
THEOREM CompositionSafe ==
    ConvSpec => [](/\ SweepTypeOK /\ AnnouncementComes /\ NoSendOnClosed
                   /\ NothingSkipped /\ NoLostWakeup /\ HintNotLost)
<1>1. ConvInv => AnnouncementComes /\ NoSendOnClosed
  BY DEF ConvInv, LaneInv
<1>2. SweepInv => SweepTypeOK /\ NothingSkipped /\ NoLostWakeup /\ HintNotLost
  BY DEF SweepInv
<1> QED
  BY <1>1, <1>2, LaneInComposition, CompositionImplementsSweeper, SweepInvariance, PTL
=============================================================================
