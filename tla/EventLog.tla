------------------------------ MODULE EventLog ------------------------------
(***************************************************************************)
(* The transactional event log (server-kit/go/eventlog/eventlog.go): rows  *)
(* appended with the business transaction, drained to a Redis stream by    *)
(* several concurrent PublishPending calls that claim rows for a limited   *)
(* time.  Each SQL statement and each stream append is one step; between   *)
(* two steps of a call anything may happen, including the end of its       *)
(* claim.  Modelled for a database that can return rows and row counts     *)
(* (database.RowQueryer, database.ResultExecutor) and generated claim      *)
(* tokens.                                                                 *)
(***************************************************************************)
EXTENDS Integers, Sequences, FiniteSets

CONSTANTS
    Ids,          \* row identifiers, in the order of ORDER BY id
    Publishers,   \* concurrent callers of PublishPending
    Batching,     \* the callers whose appender takes a whole batch
    Tokens, NoToken,
    Limit,        \* rows one call claims
    MaxAttempts,  \* failed appends after which a row is left alone
    MaxFaults     \* model bound: faults (see "budget")

ASSUME IdsNat == Ids \subseteq Nat /\ IsFiniteSet(Ids)  \* a 64-bit column
ASSUME FinitePublishers == IsFiniteSet(Publishers)
ASSUME BatchingCallers == Batching \subseteq Publishers
ASSUME NoTokenApart == NoToken \notin Tokens
ASSUME PositiveAttempts == MaxAttempts \in Nat \ {0}
ASSUME LimitAndFaults == Limit \in Nat \ {0} /\ MaxFaults \in Nat

VARIABLES
    log,       \* committed rows
    done,      \* rows with published_at set
    attempts,  \* publish_attempts of each row
    claim,     \* publish_claim_token of each row
    expired,   \* tokens whose publish_claim_expires_at has passed
    stream,    \* the Redis stream: the row each message carries
    tok,       \* per call: its claim token
    toAdd,     \* per call: claimed entries not yet appended to the stream
    added,     \* per call: entries appended and not yet marked published
    failing,   \* per call: entries whose append failed, not yet marked so
    budget,    \* faults that may still happen
    doubts     \* per row: claims that expired and appends whose failure was
               \* only reported: history, read by properties only

rowVars == <<log, done, attempts, claim, expired>>
callVars == <<tok, toAdd, added, failing>>
vars == <<rowVars, stream, callVars, budget, doubts>>

Init ==
    /\ log = {} /\ done = {} /\ expired = {}
    /\ attempts = [id \in Ids |-> 0]
    /\ claim = [id \in Ids |-> NoToken]
    /\ stream = <<>>
    /\ tok = [p \in Publishers |-> NoToken]
    /\ toAdd = [p \in Publishers |-> {}]
    /\ added = [p \in Publishers |-> {}]
    /\ failing = [p \in Publishers |-> {}]
    /\ budget = MaxFaults
    /\ doubts = [id \in Ids |-> 0]

Spend(cost) == cost \in {0, 1} /\ budget >= cost /\ budget' = budget - cost

Idle(p) == toAdd[p] = {} /\ added[p] = {} /\ failing[p] = {}

\* The call returns: what it had claimed stays claimed.
Return(p) ==
    /\ tok' = [tok EXCEPT ![p] = NoToken]
    /\ toAdd' = [toAdd EXCEPT ![p] = {}]
    /\ added' = [added EXCEPT ![p] = {}]
    /\ failing' = [failing EXCEPT ![p] = {}]

AppendEvent(id) ==
    /\ id \notin log
    /\ log' = log \cup {id}
    /\ UNCHANGED <<done, attempts, claim, expired, stream, callVars, budget, doubts>>

-----------------------------------------------------------------------------
(* Claiming.                                                               *)

\* Mutation: rows claimed by others are candidates before their claim expires.
ClaimableAtAnyTime(id) == id \in log \ done /\ attempts[id] < MaxAttempts

\* Mutation: published rows are candidates too.
ClaimableWhenPublished(id) ==
    id \in log /\ attempts[id] < MaxAttempts /\ (claim[id] = NoToken \/ claim[id] \in expired)

Unclaimed(id) == claim[id] = NoToken \/ claim[id] \in expired

\* The WHERE clause of claimPendingRows.
Claimable(id) == id \in log \ done /\ attempts[id] < MaxAttempts /\ Unclaimed(id)

\* ORDER BY id LIMIT n.
Lowest(n, S) == {i \in S : Cardinality({j \in S : j < i}) < n}

\* newClaimToken: a token no row and no call remembers.
FreshTokens == {t \in Tokens : (\A id \in Ids : claim[id] # t) /\ (\A p \in Publishers : tok[p] # t)}

Claim(p) ==
    LET rows == Lowest(Limit, {id \in Ids : Claimable(id)})
        t == CHOOSE u \in FreshTokens : TRUE
    IN /\ Idle(p)
       /\ rows # {}
       /\ FreshTokens # {}
       /\ claim' = [id \in Ids |-> IF id \in rows THEN t ELSE claim[id]]
       /\ expired' = expired \ {t}
       /\ tok' = [tok EXCEPT ![p] = t]
       /\ toAdd' = [toAdd EXCEPT ![p] = rows]
       /\ UNCHANGED <<log, done, attempts, stream, added, failing, budget, doubts>>

\* The claim's time is up.  Free of charge once its call has returned; a call
\* that is still at work has been slow, which is a fault.
ExpireClaim(t) ==
    /\ t \notin expired
    /\ \E id \in Ids : claim[id] = t
    /\ Spend(IF \E p \in Publishers : tok[p] = t THEN 1 ELSE 0)
    /\ expired' = expired \cup {t}
    /\ doubts' = [id \in Ids |-> IF claim[id] = t THEN doubts[id] + 1 ELSE doubts[id]]
    /\ UNCHANGED <<log, done, attempts, claim, stream, callVars>>

-----------------------------------------------------------------------------
(* Appending to the stream.  RETURNING gives the rows in no particular     *)
(* order.  A failed append may have reached the stream all the same.       *)

XAdd(p, id) ==
    /\ p \notin Batching
    /\ id \in toAdd[p] /\ added[p] = {} /\ failing[p] = {}
    /\ stream' = Append(stream, id)
    /\ toAdd' = [toAdd EXCEPT ![p] = @ \ {id}]
    /\ added' = [added EXCEPT ![p] = {id}]
    /\ UNCHANGED <<rowVars, tok, failing, budget, doubts>>

XAddFails(p, id, landed) ==
    /\ p \notin Batching
    /\ id \in toAdd[p] /\ added[p] = {} /\ failing[p] = {}
    /\ stream' = IF landed THEN Append(stream, id) ELSE stream
    /\ Spend(IF landed THEN 1 ELSE 0)
    /\ doubts' = [doubts EXCEPT ![id] = IF landed THEN @ + 1 ELSE @]
    /\ toAdd' = [toAdd EXCEPT ![p] = {}]
    /\ failing' = [failing EXCEPT ![p] = {id}]
    /\ UNCHANGED <<rowVars, tok, added>>

Orders(S) ==
    {s \in [1..Cardinality(S) -> S] : \A i, j \in DOMAIN s : s[i] = s[j] => i = j}

\* One pipelined call: "landed" reached the stream, "ok" were answered.
XAddMany(p, landed, ok) ==
    /\ p \in Batching
    /\ toAdd[p] # {}
    /\ \E s \in Orders(landed) : stream' = stream \o s
    /\ Spend(IF landed = ok THEN 0 ELSE 1)
    /\ doubts' = [id \in Ids |-> IF id \in landed \ ok THEN doubts[id] + 1 ELSE doubts[id]]
    /\ added' = [added EXCEPT ![p] = ok]
    /\ failing' = [failing EXCEPT ![p] = toAdd[p] \ ok]
    /\ toAdd' = [toAdd EXCEPT ![p] = {}]
    /\ UNCHANGED <<rowVars, tok>>

-----------------------------------------------------------------------------
(* Marking rows.                                                           *)

\* Mutation: a mark by identifier alone, as in the unclaimed statements.
MatchesById(p, id) == id \notin done

\* The WHERE clause of the three claimed updates.
Matches(p, id) == id \notin done /\ claim[id] = tok[p]

\* Mutation: the update selects by token only, so it also settles the rows of
\* the claim that have not been appended yet.
SettlesWholeClaim(p) == {id \in Ids : Matches(p, id)}

Settles(p) == {id \in added[p] : Matches(p, id)}

\* An error of this statement is ignored; "applied" tells whether it took effect.
MarkPublishFailed(p, id, applied) ==
    LET hit == applied /\ Matches(p, id)
    IN /\ id \in failing[p]
       /\ Spend(IF applied THEN 0 ELSE 1)
       /\ attempts' = [attempts EXCEPT ![id] = IF hit THEN @ + 1 ELSE @]
       /\ claim' = [claim EXCEPT ![id] = IF hit THEN NoToken ELSE @]
       /\ failing' = [failing EXCEPT ![p] = @ \ {id}]
       /\ tok' = [tok EXCEPT ![p] = IF failing[p] = {id} /\ added[p] = {} THEN NoToken ELSE @]
       /\ UNCHANGED <<log, done, expired, stream, toAdd, added, doubts>>

Settle(rows) ==
    /\ done' = done \cup rows
    /\ claim' = [id \in Ids |-> IF id \in rows THEN NoToken ELSE claim[id]]

\* Fewer rows than entries is ErrPublishClaimLost: the matching rows are settled
\* and the call returns.
MarkPublished(p) ==
    LET rest == IF Settles(p) = added[p] THEN toAdd[p] ELSE {}
    IN /\ added[p] # {} /\ failing[p] = {}
       /\ Settle(Settles(p))
       /\ added' = [added EXCEPT ![p] = {}]
       /\ toAdd' = [toAdd EXCEPT ![p] = rest]
       /\ tok' = [tok EXCEPT ![p] = IF rest = {} THEN NoToken ELSE @]
       /\ UNCHANGED <<log, attempts, expired, stream, failing, budget, doubts>>

\* The statement reports an error although it took effect.
MarkPublishedFails(p) ==
    /\ added[p] # {} /\ failing[p] = {}
    /\ Spend(1)
    /\ Settle(Settles(p))
    /\ Return(p)
    /\ UNCHANGED <<log, attempts, expired, stream, doubts>>

\* The context is cancelled, the batch answer has the wrong length, the update of
\* published rows fails without effect, or the process dies.
Abandon(p) ==
    /\ ~Idle(p)
    /\ Spend(1)
    /\ Return(p)
    /\ UNCHANGED <<rowVars, stream, doubts>>

CallStep(p) ==
    \/ \E id \in Ids : XAdd(p, id)
    \/ \E id \in Ids, landed \in BOOLEAN : XAddFails(p, id, landed)
    \/ \E landed \in SUBSET toAdd[p] : \E ok \in SUBSET landed : XAddMany(p, landed, ok)
    \/ \E id \in Ids, applied \in BOOLEAN : MarkPublishFailed(p, id, applied)
    \/ MarkPublished(p)
    \/ MarkPublishedFails(p)
    \/ Abandon(p)

Next ==
    \/ \E id \in Ids : AppendEvent(id)
    \/ \E p \in Publishers : Claim(p) \/ CallStep(p)
    \/ \E t \in Tokens : ExpireClaim(t)

Spec == Init /\ [][Next]_vars

-----------------------------------------------------------------------------
(* Properties.                                                             *)

Held(p) == toAdd[p] \cup added[p] \cup failing[p]

InStream(id) == \E i \in DOMAIN stream : stream[i] = id

Copies(id) == Cardinality({i \in DOMAIN stream : stream[i] = id})

\* As long as the claim of a PublishPending call has not expired, every entry
\* the call still works on is unpublished and carries its token, and no other
\* unexpired call works on it: neither the claim of another drainer nor the
\* late success or failure mark of a stale one takes it away.
ClaimExclusive ==
    \A p \in Publishers : \A id \in Held(p) : tok[p] \notin expired =>
        /\ id \notin done /\ claim[id] = tok[p]
        /\ \A q \in Publishers \ {p} : id \in Held(q) => tok[q] \in expired

\* Every message of a row beyond its first is accounted for by a claim on the
\* row that ran out or an append that reached the stream and was reported as
\* failed.  Without either, drainers publish a fact once, however they
\* interleave and fail.
CopiesExplained == \A id \in Ids : Copies(id) <= 1 + doubts[id]

\* A row is not tried more often than MaxAttempts: claimPendingRows compares the
\* count, but the increment comes much later, from a call that may be stale.
AttemptsBounded == \A id \in Ids : attempts[id] <= MaxAttempts

OutboxOfLog == INSTANCE Outbox WITH
    durable <- log, visible <- {id \in Ids : InStream(id)}, settled <- done

\* The log implements the outbox: a row reads as published only if its envelope
\* is in the stream, on the single and the batch path, with failed appends, lost
\* claims and marks that error.
ImplementsOutbox == OutboxOfLog!Spec
=============================================================================
