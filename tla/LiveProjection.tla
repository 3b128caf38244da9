--------------------------- MODULE LiveProjection ---------------------------
(***************************************************************************)
(* The client of a live projection: the WebSocket and HTTP sources         *)
(* (runtime-transport/ts/src/projectionSource.ts) under the adapter and    *)
(* the binding (frontend-kit/ts/src/runtimeWorkbench.ts), wired as in      *)
(* templates/frontend/src/stores/prototype.ts, against the gateway of      *)
(* ProjectionHub.  One binding of one scope; other scopes may keep the     *)
(* socket in use.  A JavaScript task is one step.                          *)
(***************************************************************************)
EXTENDS ProjectionHub

CONSTANTS
    NoConn,
    MaxConsecutiveFailures,
    MaxBatchSize, MaxQueuedMutations,
    PageLimit,   \* records in a page of a snapshot
    MaxFaults    \* model bound: connections and loads that fail

ASSUME NoConnApart == NoConn \notin Conns
ASSUME ClientBounds ==
    /\ MaxConsecutiveFailures \in Nat \ {0} /\ MaxBatchSize \in Nat \ {0}
    /\ MaxQueuedMutations \in Nat \ {0} /\ PageLimit \in Nat \ {0} /\ MaxFaults \in Nat

VARIABLES
    others,    \* whether other scopes are subscribed on the same source
    src,       \* the WebSocket source:
               \*   ws       per connection: "unused", "connecting", "open", "closing"
               \*   socket, opening, live, exhausted, attempt
               \*   awaiting calls of connect that wait for query()
               \*   timers   reconnect timers that are set
               \*   handle   whether reconnectTimer is one of them
               \*   entry    the scope has a listener
    piped,     \* the adapter's queue
    status,    \* of the binding, "loading" when it is
    buffered,  \* mutations that arrived while loading
    queued,    \* queuedLiveMutations
    load,      \* the load of the last connect
    sourceWatermark,
    versions,  \* per key: the store's version, 0 for none
    shown,     \* keys whose record the store holds
    faults     \* faults so far

clientVars == <<src, piped, status, buffered, queued, load, sourceWatermark, versions, shown>>
liveVars == <<hubVars, others, clientVars, faults>>

Lowest(n, S) == {i \in S : Cardinality({j \in S : j < i}) < n}

NoLoad == [stage |-> "none", since |-> 0, cursor |-> 0, got |-> {}, mark |-> 0]

\* Other scopes have an open socket, or the source has never been used.
LiveInit ==
    /\ HubInit
    /\ others \in BOOLEAN
    /\ \E first \in Lowest(1, Conns) :
         src = [ws |-> [c \in Conns |-> IF others /\ c = first THEN "open" ELSE "unused"],
                socket |-> IF others THEN first ELSE NoConn,
                opening |-> FALSE, live |-> others, exhausted |-> FALSE, attempt |-> 0,
                awaiting |-> 0, timers |-> 0, handle |-> FALSE, entry |-> FALSE]
    /\ piped = {} /\ buffered = {} /\ queued = {}
    /\ status = "idle" /\ load = NoLoad /\ sourceWatermark = 0
    /\ versions = [k \in Keys |-> 0] /\ shown = {}
    /\ faults = 0

Fault == faults < MaxFaults /\ faults' = faults + 1

-----------------------------------------------------------------------------
(* createWebSocketProjectionSource, on S = [src, up].                      *)

Now == [src |-> src, up |-> up]

Entries(S) == S.src.entry \/ others

Sendable(S) ==
    S.src.live /\ S.src.socket # NoConn /\ S.src.ws[S.src.socket] = "open"

TrySend(S, message) ==
    IF Sendable(S) THEN [S EXCEPT !.up[S.src.socket] = Append(@, message)] ELSE S

Connect(S) ==
    IF S.src.socket # NoConn \/ S.src.opening \/ S.src.exhausted \/ ~Entries(S) THEN S
    ELSE [S EXCEPT !.src.opening = TRUE, !.src.awaiting = @ + 1]

SubscribeProjection(S) ==
    LET T == [S EXCEPT !.src.entry = TRUE,
                       !.src.attempt = IF S.src.exhausted THEN 0 ELSE @,
                       !.src.exhausted = FALSE]
    IN IF T.src.live THEN TrySend(T, "subscribe") ELSE Connect(T)

\* The last entry has gone: the socket is closed and the source starts afresh.
Shutdown(S) ==
    [S EXCEPT !.src.timers = IF S.src.handle THEN @ - 1 ELSE @,
              !.src.handle = FALSE,
              !.src.exhausted = FALSE, !.src.attempt = 0,
              !.src.socket = NoConn, !.src.opening = FALSE, !.src.live = FALSE,
              !.src.ws = [c \in Conns |-> IF c = S.src.socket THEN "closing" ELSE @[c]]]

Dispose(S) ==
    IF ~S.src.entry THEN S
    ELSE LET T == TrySend([S EXCEPT !.src.entry = FALSE], "unsubscribe")
         IN IF Entries(T) THEN T ELSE Shutdown(T)

ScheduleReconnect(S) ==
    IF S.src.attempt + 1 >= MaxConsecutiveFailures
    THEN [S EXCEPT !.src.exhausted = TRUE]
    ELSE [S EXCEPT !.src.attempt = @ + 1, !.src.timers = @ + 1, !.src.handle = TRUE]

\* The handler is that of any socket, also of one that was given up.
OnClose(S, c) ==
    LET T == [S EXCEPT !.src.ws[c] = "unused", !.src.socket = NoConn,
                       !.src.opening = FALSE, !.src.live = FALSE]
    IN IF ~Entries(T) \/ T.src.exhausted THEN T ELSE ScheduleReconnect(T)

\* Mutation: subscriptions are sent when they are made, not when the socket opens.
OpenSilently(S) == S

Resubscribe(S) == IF S.src.entry THEN TrySend(S, "subscribe") ELSE S

OnOpen(S, c) ==
    Resubscribe([S EXCEPT !.src.ws[c] = "open", !.src.opening = FALSE, !.src.live = TRUE,
                          !.src.attempt = 0, !.src.exhausted = FALSE])

Source(S) == src' = S.src /\ up' = S.up

Open(c) ==
    /\ src.ws[c] = "connecting"
    /\ Source(OnOpen(Now, c))
    /\ UNCHANGED <<recs, applied, reg, frames, shed, token, down, lost, others, piped, status,
                   buffered, queued, load, sourceWatermark, versions, shown, faults>>

\* Both ends forget the connection.
EndConnection(c) ==
    LET S == OnClose(Now, c)
    IN /\ src' = S.src
       /\ Ended(c)
       /\ up' = [S.up EXCEPT ![c] = <<>>]
       /\ down' = [down EXCEPT ![c] = <<>>]
       /\ lost' = lost \cup Undelivered(c)
       /\ UNCHANGED <<recs, applied, others, piped, status, buffered, queued, load,
                      sourceWatermark, versions, shown>>

Closed(c) == src.ws[c] = "closing" /\ EndConnection(c) /\ UNCHANGED faults

Break(c) == src.ws[c] \in {"connecting", "open"} /\ Fault /\ EndConnection(c)

\* connect goes on after query().
CreateSocket ==
    /\ src.awaiting > 0
    /\ IF ~Entries(Now)
       THEN src' = [src EXCEPT !.awaiting = @ - 1, !.opening = FALSE]
       ELSE \E c \in Lowest(1, {d \in Conns : src.ws[d] = "unused"}) :
              src' = [src EXCEPT !.awaiting = @ - 1, !.ws[c] = "connecting", !.socket = c]
    /\ UNCHANGED <<hubVars, others, piped, status, buffered, queued, load, sourceWatermark,
                   versions, shown, faults>>

ReconnectTimer(latest) ==
    /\ src.timers > 0
    /\ IF latest THEN src.handle ELSE ~src.handle \/ src.timers > 1
    /\ Source(Connect([Now EXCEPT !.src.timers = @ - 1, !.src.handle = @ /\ ~latest]))
    /\ UNCHANGED <<recs, applied, reg, frames, shed, token, down, lost, others, piped, status,
                   buffered, queued, load, sourceWatermark, versions, shown, faults>>

-----------------------------------------------------------------------------
(* createTenantProjectionStore, createLiveProjectionBinding and the        *)
(* adapter between the source and the binding.                             *)

\* Mutation: the store takes the mutations of a record as they come.
AcceptedAlways(S, k) == {m \in S : m.key = k}

\* applyMany: per record the order of a batch does not matter to applyOne.
Accepted(S, k) == {m \in S : m.key = k /\ m.version >= versions[k]}

Newest(S) == CHOOSE m \in S : \A n \in S : n.version <= m.version

ApplyMany(S) ==
    LET hit == {k \in Keys : Accepted(S, k) # {}}
        last == [k \in hit |-> Newest(Accepted(S, k))]
    IN /\ versions' = [k \in Keys |-> IF k \in hit THEN last[k].version ELSE versions[k]]
       /\ shown' = (shown \ hit) \cup {k \in hit : last[k].op = "upsert"}

\* connect: the old subscription goes, with what the adapter and the load before had
\* kept back; a new one is asked for, and a load is begun.  A load that is overtaken
\* by another connect has no effect when it returns.
BindingConnect ==
    /\ Source(SubscribeProjection(Dispose(Now)))
    /\ status' = "loading"
    /\ piped' = {} /\ buffered' = {}
    /\ load' = [NoLoad EXCEPT !.stage = "first", !.since = sourceWatermark]

AutoConnect ==
    /\ status = "idle"
    /\ BindingConnect
    /\ lost' = lost
    /\ UNCHANGED <<recs, applied, reg, frames, shed, token, down, others, queued,
                   sourceWatermark, versions, shown, faults>>

\* onmessage, on a socket that is current or not.  A resync degrades the status, and
\* the application connects its bindings again.
Receive(c) ==
    LET e == Head(down[c])
    IN /\ src.ws[c] \in {"open", "closing"} /\ down[c] # <<>>
       /\ down' = [down EXCEPT ![c] = Tail(@)]
       /\ IF e.type = "resync" /\ Entries(Now)
          THEN /\ BindingConnect
               /\ lost' = lost \cup piped \cup buffered
                               \cup {m \in e.of : m.op = "delete"}
          ELSE /\ IF e.type = "delta" /\ src.entry
                  THEN piped' = piped \cup e.of /\ lost' = lost
                  ELSE piped' = piped /\ lost' = lost \cup e.of
               /\ UNCHANGED <<src, up, status, buffered, load>>
       /\ UNCHANGED <<recs, applied, reg, frames, shed, token, others, queued,
                      sourceWatermark, versions, shown, faults>>

\* Mutation: the batch is flushed one mutation late.
BatchOverfull == Cardinality(queued) >= MaxBatchSize

BatchFull == Cardinality(queued) + 1 >= MaxBatchSize

\* The adapter's flush calls the binding's listener: buffer while loading, else
\* enqueueLiveMutation.
Listener(m) ==
    /\ m \in piped
    /\ piped' = piped \ {m}
    /\ IF status = "loading"
       THEN buffered' = buffered \cup {m} /\ UNCHANGED <<lost, status, queued, versions, shown>>
       ELSE /\ buffered' = buffered
            /\ IF Cardinality(queued) >= MaxQueuedMutations
               THEN lost' = lost \cup {m} /\ status' = "degraded"
               ELSE UNCHANGED <<lost, status>>
            /\ CASE Cardinality(queued) >= MaxQueuedMutations ->
                      UNCHANGED <<queued, versions, shown>>
                 [] Cardinality(queued) < MaxQueuedMutations /\ BatchFull ->
                      queued' = {} /\ ApplyMany(queued \cup {m})
                 [] OTHER ->
                      queued' = queued \cup {m} /\ UNCHANGED <<versions, shown>>
    /\ UNCHANGED <<recs, applied, reg, frames, shed, token, up, down, others, src, load,
                   sourceWatermark, faults>>

Flush ==
    /\ queued # {}
    /\ queued' = {}
    /\ ApplyMany(queued)
    /\ UNCHANGED <<hubVars, others, src, piped, status, buffered, load, sourceWatermark, faults>>

\* One page: the newest live records in the window, and where the next page starts.
Window == {m \in {recs[k] : k \in Keys} :
             /\ m.op = "upsert" /\ m.version > load.since
             /\ load.cursor > 0 => m.version < load.cursor}

Page == {m \in Window : Cardinality({n \in Window : n.version > m.version}) < PageLimit}

LoadPage ==
    /\ load.stage \in {"first", "next"}
    /\ load' = [load EXCEPT
                  !.stage = IF Cardinality(Page) < PageLimit THEN "done" ELSE "next",
                  !.cursor = IF Page = {} THEN @ ELSE Min({m.version : m \in Page}),
                  !.got = @ \cup Page,
                  !.mark = IF load.stage = "first" THEN Watermark ELSE @]
    /\ UNCHANGED <<hubVars, others, src, piped, status, buffered, queued, sourceWatermark,
                   versions, shown, faults>>

\* The load's mutations, then the buffered ones.  What was lost before the first page
\* was read is made good, except a delete: a snapshot lists live records.
LoadReturns ==
    /\ load.stage = "done"
    /\ ApplyMany(load.got \cup buffered)
    /\ buffered' = {} /\ load' = NoLoad
    /\ sourceWatermark' = load.mark
    /\ status' = "live"
    /\ lost' = {m \in lost : m.version > load.mark \/ m.op = "delete"}
    /\ UNCHANGED <<recs, applied, reg, frames, shed, token, up, down, others, src, piped, queued,
                   faults>>

\* connect's catch: the binding unsubscribes and nobody retries.
LoadFails ==
    /\ status = "loading" /\ Fault
    /\ Source(Dispose(Now))
    /\ status' = "error"
    /\ piped' = {} /\ buffered' = {} /\ load' = NoLoad
    /\ lost' = lost \cup piped \cup buffered
                    \cup {recs[k] : k \in {x \in Keys : recs[x].version > versions[x]}}
    /\ UNCHANGED <<recs, applied, reg, frames, shed, token, down, others, queued,
                   sourceWatermark, versions, shown>>

-----------------------------------------------------------------------------
(* Specification.                                                          *)

HubStep ==
    \/ \E m \in applied : Broadcast(m)
    \/ \E c \in Conns : \/ PumpDrops(c) \/ PumpFrame(c) \/ StartScope(c)
                       \/ \E notice \in BOOLEAN : StopScope(c, notice)

LiveStep ==
    \/ HubStep /\ UNCHANGED <<others, clientVars, faults>>
    \/ AutoConnect \/ CreateSocket \/ Flush \/ LoadPage \/ LoadReturns
    \/ \E c \in Conns : Open(c) \/ Closed(c) \/ Receive(c)
    \/ \E latest \in BOOLEAN : ReconnectTimer(latest)
    \/ \E m \in piped : Listener(m)

LiveNext ==
    \/ \E k \in Keys, op \in {"upsert", "delete"} :
         Apply(k, op) /\ UNCHANGED <<others, clientVars, faults>>
    \/ LiveStep
    \/ \E c \in Conns : Break(c)
    \/ LoadFails

LiveSpec == LiveInit /\ [][LiveNext]_liveVars

\* Goroutines, the browser's tasks, timers and requests that are answered.
FairLiveSpec == LiveSpec /\ WF_liveVars(LiveStep)

-----------------------------------------------------------------------------
(* Properties.                                                             *)

LiveTypeOK ==
    /\ \A k \in Keys : recs[k].version \in 0..MaxVersion /\ versions[k] \in 0..recs[k].version
    /\ applied \cup piped \cup buffered \cup queued \cup lost \subseteq Mutation
    /\ Cardinality(queued) < MaxBatchSize
    /\ shown \subseteq Keys /\ reg \subseteq Conns
    /\ \A c \in Conns :
         /\ src.ws[c] \in {"unused", "connecting", "open", "closing"}
         /\ Len(frames[c]) <= QueueSize
         /\ src.ws[c] = "unused" => c \notin reg /\ up[c] = <<>> /\ down[c] = <<>>
    /\ src.socket \in Conns \cup {NoConn}
    /\ src.attempt \in 0..(MaxConsecutiveFailures - 1)
    /\ status \in {"idle", "loading", "live", "degraded", "error"}
    /\ status = "loading" <=> load.stage # "none"
    /\ sourceWatermark \in 0..MaxVersion

OnItsWay == applied \cup piped \cup buffered \cup queued
                    \cup UNION {Undelivered(c) : c \in Conns}

Loading(m) ==
    /\ m.op = "upsert"
    /\ \/ load.stage = "first" /\ m.version > load.since
       \/ load.stage = "next" /\ m.version < load.cursor
       \/ m \in load.got

\* The client is never behind without reason: the last mutation of a record that its
\* store has not applied is on its way, covered by a resync notice on its way or by
\* the load the notice caused -- or it is one the stream cannot deliver: broadcast
\* while no subscription was registered, on a connection that ended, or a delete
\* that was shed or discarded.  Overlapping connects, pages read at different times
\* and mutations broadcast out of order lose nothing else.
Accounted ==
    \A k \in Keys : versions[k] < recs[k].version =>
        recs[k] \in lost \cup OnItsWay \/ Loading(recs[k])

\* Once writes and faults have ended the client's store agrees with the partition,
\* record for record, except for what the stream cannot deliver (see Accounted).
ClientConverges ==
    <>[](\A k \in Keys : \/ versions[k] = recs[k].version
                            /\ (k \in shown <=> recs[k].op = "upsert")
                         \/ recs[k] \in lost)

\* A subscribed scope ends up registered in the hub, through lost sockets, sockets
\* that are closed while others open, and late onclose events -- unless the source
\* has spent its reconnect budget.
StreamRestored == <>[](src.entry => src.exhausted \/ reg # {})
=============================================================================
