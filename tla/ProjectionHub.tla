--------------------------- MODULE ProjectionHub ---------------------------
(***************************************************************************)
(* The server side of live delivery, for one scope and one client:         *)
(* mutations the partition accepted, their fan-out by the gateway's hub    *)
(* (server-kit/go/projectiongw: gateway.go, hub.go) into the bounded       *)
(* channel of each subscription, and the pumps of the multiplexed          *)
(* WebSocket handler (http.go).  Each connection of the client carries at  *)
(* most one subscription to the scope.                                     *)
(***************************************************************************)
EXTENDS Integers, Sequences, FiniteSets, FiniteSetsExt

CONSTANTS
    Keys,
    Conns,       \* connections, used again when both ends have forgotten them
    QueueSize,   \* of a subscriber's channel
    MaxVersion   \* model bound: mutations

ASSUME HubBounds == QueueSize \in Nat \ {0} /\ MaxVersion \in Nat
ASSUME SomeKeys == Keys # {} /\ IsFiniteSet(Keys)

Mutation == [key : Keys, version : 1..MaxVersion, op : {"upsert", "delete"}]

\* What a pump writes: a delta, or a resync notice (its mutations are not on the wire).
Delta(m) == [type |-> "delta", of |-> {m}]

Resync(S) == [type |-> "resync", of |-> S]

VARIABLES
    recs,     \* per key: the last mutation the partition accepted, version 0 for none
    applied,  \* mutations accepted and not yet handed to the hub
    reg,      \* connections whose subscription is in the hub's index
    frames,   \* per connection: the subscriber's channel
    shed,     \* per connection: mutations dropped (sub.dropped) and not yet notified
    token,    \* per connection: the drops channel holds its token
    up, down, \* per connection: what is on its way to the server, to the client
    lost      \* mutations that no frame and no resync of the stream covers: history

hubVars == <<recs, applied, reg, frames, shed, token, up, down, lost>>

HubInit ==
    /\ recs = [k \in Keys |-> [key |-> k, version |-> 0, op |-> "delete"]]
    /\ applied = {} /\ lost = {}
    /\ reg = {}
    /\ frames = [c \in Conns |-> <<>>]
    /\ shed = [c \in Conns |-> {}]
    /\ token = [c \in Conns |-> FALSE]
    /\ up = [c \in Conns |-> <<>>]
    /\ down = [c \in Conns |-> <<>>]

Watermark == Max({recs[k].version : k \in Keys})

\* A write that the partition accepts, under its lock.
Apply(k, op) ==
    LET m == [key |-> k, version |-> Watermark + 1, op |-> op]
    IN /\ Watermark < MaxVersion
       /\ op = "delete" => recs[k].op = "upsert"
       /\ recs' = [recs EXCEPT ![k] = m]
       /\ applied' = applied \cup {m}
       /\ UNCHANGED <<reg, frames, shed, token, up, down, lost>>

\* onApplied, after the lock has been released: applies overtake each other here.
Broadcast(m) ==
    LET full == {c \in reg : Len(frames[c]) = QueueSize}
    IN /\ m \in applied
       /\ applied' = applied \ {m}
       /\ frames' = [c \in Conns |-> IF c \in reg \ full THEN Append(frames[c], m)
                                                         ELSE frames[c]]
       /\ shed' = [c \in Conns |-> IF c \in full THEN shed[c] \cup {m} ELSE shed[c]]
       /\ token' = [c \in Conns |-> token[c] \/ c \in full]
       /\ lost' = IF reg = {} THEN lost \cup {m} ELSE lost
       /\ UNCHANGED <<recs, reg, up, down>>

-----------------------------------------------------------------------------
(* One connection of SubscribeMultiplexHandler.                            *)

\* Mutation: the pump does not look at the drop counter.
NoNotice(c) == <<>>

Notice(c) == IF shed[c] = {} THEN <<>> ELSE <<Resync(shed[c])>>

PumpDrops(c) ==
    /\ token[c]
    /\ token' = [token EXCEPT ![c] = FALSE]
    /\ down' = [down EXCEPT ![c] = @ \o Notice(c)]
    /\ shed' = [shed EXCEPT ![c] = {}]
    /\ UNCHANGED <<recs, applied, reg, frames, up, lost>>

PumpFrame(c) ==
    /\ frames[c] # <<>>
    /\ frames' = [frames EXCEPT ![c] = Tail(@)]
    /\ down' = [down EXCEPT ![c] = @ \o Notice(c) \o <<Delta(Head(frames[c]))>>]
    /\ shed' = [shed EXCEPT ![c] = {}]
    /\ UNCHANGED <<recs, applied, reg, token, up, lost>>

\* startScope: a second subscription to the scope is ignored.
StartScope(c) ==
    /\ up[c] # <<>> /\ Head(up[c]) = "subscribe"
    /\ up' = [up EXCEPT ![c] = Tail(@)]
    /\ reg' = reg \cup {c}
    /\ UNCHANGED <<recs, applied, frames, shed, token, down, lost>>

\* stopScope closes the subscriber's channel: its pump writes what is left and ends,
\* with or without a last look at the drops channel.
StopScope(c, notice) ==
    /\ up[c] # <<>> /\ Head(up[c]) = "unsubscribe"
    /\ notice => shed[c] # {}
    /\ up' = [up EXCEPT ![c] = Tail(@)]
    /\ reg' = reg \ {c}
    /\ frames' = [frames EXCEPT ![c] = <<>>]
    /\ down' = [down EXCEPT ![c] = @ \o [i \in DOMAIN frames[c] |-> Delta(frames[c][i])]
                                       \o (IF notice THEN Notice(c) ELSE <<>>)]
    /\ shed' = [shed EXCEPT ![c] = {}]
    /\ lost' = IF notice THEN lost ELSE lost \cup shed[c]
    /\ token' = [token EXCEPT ![c] = FALSE]
    /\ UNCHANGED <<recs, applied>>

Elements(s) == {s[i] : i \in DOMAIN s}

\* The handler returns: every subscription of the connection is cancelled.
Ended(c) ==
    /\ reg' = reg \ {c}
    /\ frames' = [frames EXCEPT ![c] = <<>>]
    /\ shed' = [shed EXCEPT ![c] = {}]
    /\ token' = [token EXCEPT ![c] = FALSE]

Undelivered(c) == Elements(frames[c]) \cup shed[c] \cup UNION {e.of : e \in Elements(down[c])}
=============================================================================
