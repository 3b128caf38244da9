--------------------------- MODULE EventPipeline ---------------------------
(***************************************************************************)
(* The path of a committed fact to a Hermes projection: the event log, the *)
(* Redis stream with its consumer group, and a tailer that applies what it *)
(* reads and acknowledges afterwards (Tailer in server-kit/go/hermes/      *)
(* tailer.go, EnvelopeTailer in contract.go; the two have the same steps). *)
(* A loop that ends with an error is run again, over the same partition.   *)
(* The partition is the one of HermesApply, without TTL.                   *)
(***************************************************************************)
EXTENDS EventLog, HermesApply

CONSTANTS
    EventsOf(_),  \* the events EventsFromEnvelope makes of a row's envelope, none
                  \* if it does not decode: such a message is quarantined
    MaxRead,      \* messages one poll reads
    AckIgnoresContext  \* XAck takes effect under a cancelled context (it does in the
                       \* memory client, the Redis client returns the context's error)

ASSUME AckOfClient == AckIgnoresContext \in BOOLEAN

\* NewTailer and NewEnvelopeTailer replace a missing limit by a positive default.
ASSUME PositiveRead == MaxRead \in Nat \ {0}

Event ==
    [op : Ops, key : Keys, source : Sources \cup {NoSource}, version : Nat,
     data : Data \cup {NoData}]

ASSUME EnvelopesDecode ==
    \A id \in Ids :
        /\ EventsOf(id) \in Seq(Event)
        /\ \A j \in DOMAIN EventsOf(id) :
              EventsOf(id)[j].op \in {"upsert", "patch"} => EventsOf(id)[j].data \in Data

VARIABLES
    next,     \* messages the group has been given
    pending,  \* positions given out and not acknowledged
    batch,    \* positions of the current poll
    events,   \* events of the batch still to be applied, as pairs of a position and
              \* an index into the events of the message there
    accepted, \* result.Applied > 0
    spoiled,  \* eventErrs # nil: the batch had a rejected event
    phase,    \* "read", "apply", "ack", or "cancelled": ack under a cancelled context
    part,     \* the partition
    refused   \* events the partition rejected: history

tailVars == <<next, pending, batch, events, accepted, spoiled, phase, part, refused>>
pipeVars == <<vars, tailVars>>

PipeInit ==
    /\ Init
    /\ next = 0 /\ pending = {} /\ batch = {} /\ phase = "read"
    /\ events = {} /\ accepted = FALSE /\ spoiled = FALSE
    /\ part = NewPartition
    /\ refused = {}

\* XReadGroupPending, and XReadGroup when it has nothing.
Backlog == Lowest(MaxRead, pending)

Given == IF Len(stream) - next < MaxRead THEN Len(stream) ELSE next + MaxRead

Fresh == (next + 1)..Given

\* Mutation: only new messages are read.
ReadNewOnly == Fresh

ReadEnvelopes == IF pending # {} THEN Backlog ELSE Fresh

\* decodeMessages: the events of some messages, whatever does not decode left out.
Decoded(msgs) == UNION {{i} \X DOMAIN EventsOf(stream[i]) : i \in msgs}

EventAt(p) == EventsOf(stream[p[1]])[p[2]]

\* Messages in the order of the stream, events in the order of the envelope.
Earliest(S) == CHOOSE p \in S : \A q \in S : p[1] < q[1] \/ (p[1] = q[1] /\ p[2] <= q[2])

\* Mutation: the group forgets what it gives out.
DeliveredAndForgotten == pending

Delivered == pending \cup ReadEnvelopes

Poll ==
    /\ phase = "read"
    /\ ReadEnvelopes # {}
    /\ pending' = Delivered
    /\ next' = IF pending = {} THEN Given ELSE next
    /\ batch' = ReadEnvelopes
    /\ events' = Decoded(ReadEnvelopes)
    /\ phase' = "apply"
    /\ UNCHANGED <<rowVars, stream, callVars, budget, doubts, accepted, spoiled, part, refused>>

\* One event of ApplyBatch; a rejected one is skipped.
ApplyNext ==
    /\ phase = "apply"
    /\ events # {}
    /\ \E e \in {EventAt(Earliest(events))} : \E r \in {ApplyEvent(part, e)} :
          /\ part' = r.part
          /\ accepted' = (accepted \/ r.state = "applied")
          /\ spoiled' = (spoiled \/ r.state = "rejected")
          /\ refused' = IF r.state = "rejected" THEN refused \cup {e} ELSE refused
    /\ events' = events \ {Earliest(events)}
    /\ UNCHANGED <<rowVars, stream, callVars, budget, doubts, next, pending, batch, phase>>

\* Mutation: a system error is handled like a rejected event.
AckAnyway == "ack"

\* Only a system error keeps a batch from being acknowledged: a context cancelled
\* within it, or an answer of the read that never arrived.  The error of the
\* context is joined to those of rejected events, and then passes for one of them.
AfterApply ==
    CASE events = {} -> "ack"
      [] events # {} /\ spoiled -> "cancelled"
      [] OTHER -> "read"

EndApply ==
    /\ phase = "apply"
    /\ Spend(IF events = {} THEN 0 ELSE 1)
    /\ part' = FinishApply(part, accepted)
    /\ phase' = AfterApply
    /\ batch' = IF phase' = "read" THEN {} ELSE batch
    /\ events' = {} /\ accepted' = FALSE /\ spoiled' = FALSE
    /\ UNCHANGED <<rowVars, stream, callVars, doubts, next, pending, refused>>

\* An error of XAck ends the loop, whether or not it took effect.
Ack(applied) ==
    /\ \/ phase = "ack" /\ Spend(IF applied THEN 0 ELSE 1)
       \/ phase = "cancelled" /\ applied = AckIgnoresContext /\ Spend(0)
    /\ pending' = IF applied THEN pending \ batch ELSE pending
    /\ batch' = {}
    /\ phase' = "read"
    /\ UNCHANGED <<rowVars, stream, callVars, doubts, next, events, accepted, spoiled, part, refused>>

TailStep ==
    \/ Poll
    \/ ApplyNext
    \/ EndApply
    \/ \E applied \in BOOLEAN : Ack(applied)

PipeNext == (Next /\ UNCHANGED tailVars) \/ TailStep

PipeSpec == PipeInit /\ [][PipeNext]_pipeVars

\* As long as the tailer, a drain or the clock can move, one of them does:
\* PublishPending is called again and again, calls of the database and the stream
\* return, and Run is started again after an error.
SystemStep ==
    \/ TailStep
    \/ /\ \/ \E t \in Tokens : ExpireClaim(t)
          \/ \E p \in Publishers : Claim(p) \/ CallStep(p)
       /\ UNCHANGED tailVars

FairPipeSpec == PipeSpec /\ WF_pipeVars(SystemStep)

-----------------------------------------------------------------------------
(* Properties.                                                             *)

EventSet(id) == {EventsOf(id)[j] : j \in DOMAIN EventsOf(id)}

PipeTypeOK ==
    /\ log \subseteq Ids /\ done \subseteq log
    /\ stream \in Seq(Ids) /\ next \in 0..Len(stream)
    /\ pending \subseteq 1..next /\ batch \subseteq pending
    /\ events \subseteq Decoded(batch) /\ accepted \in BOOLEAN /\ spoiled \in BOOLEAN
    /\ phase \in {"read", "apply", "ack", "cancelled"} /\ (phase = "read" => batch = {})
    /\ part \in Partition
    /\ refused \subseteq UNION {EventSet(id) : id \in log}

\* A partition holds version v of a record, or a newer one.
Reached(p, k, v) == p.ver[k] >= v \/ p.tomb[k] >= v

\* The projection holds the event's effect, or a newer one on its record.
Reflected(e) == Reached(part, e.key, e.version)

Answered(id) == \A e \in EventSet(id) : Reflected(e) \/ e \in refused

Exhausted(id) == id \notin done /\ attempts[id] = MaxAttempts

AllEvents == UNION {EventSet(id) : id \in Ids}

Deletions == {<<e.key, e.version>> : e \in {f \in AllEvents : f.op = "delete"}}

\* Facts as eventFromMutation makes them of the envelopes of the log, that state whole
\* records: they carry a version, the source of an event is the identifier of its row
\* with the index of the mutation, no version of a record is both written and deleted,
\* and the tombstones of all deletions fit.  A patch of an absent record, a replay
\* fence or an evicted tombstone leaves an event without a trace.
PlainFacts ==
    /\ \A e \in AllEvents : e.op # "patch" /\ e.version > 0 /\ ~Scoped(e.source)
    /\ \A e, f \in AllEvents : e.source = f.source /\ e.source # NoSource => e = f
    /\ \A e, f \in AllEvents :
          e.op = "delete" /\ f.op = "upsert" /\ e.key = f.key => e.version # f.version
    /\ Cardinality(Deletions) <= MaxTombstones

\* A message leaves the group only after the projection holds the effect of its
\* events or has refused them, and what redelivered, duplicated and reordered
\* messages do later does not undo it.  Otherwise an acknowledged fact would be
\* lost to the projection for good.
AckedReflected == \A i \in 1..next : i \notin pending => Answered(stream[i])

\* Once no more rows are appended and no more faults happen, every committed fact
\* is for good in the projection, refused by it, or out of publish attempts: the
\* claims of dead calls expire and are taken over, pending messages are read again.
FactsArrive == <>[](\A id \in log : Answered(id) \/ Exhausted(id))
=============================================================================
