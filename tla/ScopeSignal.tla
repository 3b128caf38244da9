---------------------------- MODULE ScopeSignal ----------------------------
(***************************************************************************)
(* The announcement lane of a process that writes (ScopeSignal in          *)
(* server-kit/go/hermes/scope_signal.go): writers hand the names of the    *)
(* scopes they changed to a bounded queue and never wait; one goroutine    *)
(* publishes them on the bus; Close shuts the queue.  Wired: Converge has  *)
(* been called, so only registered names are routable.                     *)
(***************************************************************************)
EXTENDS Integers, Sequences, FiniteSets

CONSTANTS
    Scopes, NoScope,
    Registered,  \* scopes the sweeper has a source for
    Writers,     \* goroutines that commit command writes
    QueueSize

ASSUME NoScopeApart == NoScope \notin Scopes
ASSUME RegisteredScopes == Registered \subseteq Scopes
ASSUME PositiveQueue == QueueSize \in Nat \ {0}

VARIABLES
    wrote,    \* per writer: the scope of its commit, while OnCommandWrite runs
    marked,   \* per writer: has marked the scope, holds closeMu shared, will send
    pending,  \* s.pending
    queue,    \* s.queue
    holding,  \* the name publishLoop has taken from the queue
    cleared,  \* ... and released from pending
    bus,      \* announcements on their way, in order
    closed,   \* s.closed, and the queue closed
    owed      \* scopes with a write that no announcement has followed yet, and
              \* none was given up: history

signalVars == <<wrote, marked, pending, queue, holding, cleared, bus, closed, owed>>

SignalInit ==
    /\ wrote = [w \in Writers |-> NoScope]
    /\ marked = [w \in Writers |-> FALSE]
    /\ pending = {} /\ queue = <<>>
    /\ holding = NoScope /\ cleared = FALSE
    /\ bus = <<>> /\ closed = FALSE /\ owed = {}

\* A command write of the scope has been committed.
OnCommandWrite(w, s) ==
    /\ wrote[w] = NoScope
    /\ wrote' = [wrote EXCEPT ![w] = s]
    /\ UNCHANGED <<marked, pending, queue, holding, cleared, bus, closed, owed>>

Ignored(w) == closed \/ wrote[w] \notin Registered

\* enqueue up to the send: nothing for a closed lane or an unroutable name; a
\* name that is pending already is folded into the announcement to come.
Enqueue(w) ==
    /\ wrote[w] # NoScope /\ ~marked[w]
    /\ IF Ignored(w) \/ wrote[w] \in pending
       THEN /\ wrote' = [wrote EXCEPT ![w] = NoScope]
            /\ UNCHANGED <<marked, pending>>
       ELSE /\ marked' = [marked EXCEPT ![w] = TRUE]
            /\ pending' = pending \cup {wrote[w]}
            /\ UNCHANGED wrote
    /\ owed' = IF Ignored(w) THEN owed ELSE owed \cup {wrote[w]}
    /\ UNCHANGED <<queue, holding, cleared, bus, closed>>

\* Mutation: a name that found the queue full stays pending.
PendingAfterDropKept(s) == pending

PendingAfterDrop(s) == pending \ {s}

\* The non-blocking send.  A full queue drops the name, and with it the writes
\* that were folded into it meanwhile.
Send(w) ==
    LET s == wrote[w]
        full == Len(queue) = QueueSize
    IN /\ marked[w]
       /\ queue' = IF full THEN queue ELSE Append(queue, s)
       /\ pending' = IF full THEN PendingAfterDrop(s) ELSE pending
       /\ owed' = IF full /\ holding # s THEN owed \ {s} ELSE owed
       /\ marked' = [marked EXCEPT ![w] = FALSE]
       /\ wrote' = [wrote EXCEPT ![w] = NoScope]
       /\ UNCHANGED <<holding, cleared, bus, closed>>

-----------------------------------------------------------------------------
(* publishLoop                                                             *)

Take ==
    /\ holding = NoScope
    /\ queue # <<>>
    /\ holding' = Head(queue)
    /\ queue' = Tail(queue)
    /\ UNCHANGED <<wrote, marked, pending, cleared, bus, closed, owed>>

ClearPending ==
    /\ holding # NoScope /\ ~cleared
    /\ pending' = pending \ {holding}
    /\ cleared' = TRUE
    /\ UNCHANGED <<wrote, marked, queue, holding, bus, closed, owed>>

\* A failed publish is counted and given up.
Publish(sent) ==
    /\ holding # NoScope /\ cleared
    /\ bus' = IF sent THEN Append(bus, holding) ELSE bus
    /\ owed' = owed \ {holding}
    /\ holding' = NoScope /\ cleared' = FALSE
    /\ UNCHANGED <<wrote, marked, pending, queue, closed>>

\* Mutation: Close does not wait for the writers that hold closeMu.
CloseUnlocked == TRUE

CloseMuFree == \A w \in Writers : ~marked[w]

Close ==
    /\ ~closed
    /\ CloseMuFree
    /\ closed' = TRUE
    /\ UNCHANGED <<wrote, marked, pending, queue, holding, cleared, bus, owed>>

\* publishLoop has ended: Close returns.
Stopped == closed /\ queue = <<>> /\ holding = NoScope

SignalStep ==
    \/ \E w \in Writers : Enqueue(w) \/ Send(w)
    \/ Take \/ ClearPending

\* The lane by itself, with a bus that nobody reads.
SignalNext ==
    \/ \E w \in Writers, s \in Scopes : OnCommandWrite(w, s)
    \/ SignalStep \/ Close
    \/ \E sent \in BOOLEAN : Publish(sent)

SignalSpec == SignalInit /\ [][SignalNext]_signalVars

-----------------------------------------------------------------------------
(* Properties.                                                             *)

Sending(s) == \E w \in Writers : marked[w] /\ wrote[w] = s

Queued(s) == \E i \in DOMAIN queue : queue[i] = s

\* A write that enqueue accepted, folded into another announcement or not, has an
\* announcement of its scope still to be published, unless one was published after
\* the write or given up (queue full, publish failed).  Folding never silences a
\* scope, and a Close that has returned owes nothing.
AnnouncementComes == \A s \in owed : Sending(s) \/ Queued(s) \/ holding = s

\* After Close has shut the queue no writer is past the closed check and about to
\* send: the send on a closed channel, a panic in the writer, cannot happen.
NoSendOnClosed == closed => \A w \in Writers : ~marked[w]
=============================================================================
