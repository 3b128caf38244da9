--------------------------- MODULE EventLogProofs ---------------------------
(***************************************************************************)
(* Safety of the event log for any number of concurrent drainers, rows,    *)
(* tokens and faults.  The four properties need one inductive invariant:   *)
(* what a call holds and under which token (CallShape, HeldClaims), what   *)
(* it has put into the stream (Shown), what a claimed row may still be     *)
(* tried (TriesLeft), and a balance of the messages of a row against the   *)
(* calls that may still append it (Balance).                               *)
(***************************************************************************)
EXTENDS EventLog, TLAPS, FiniteSetTheorems

LogTypes ==
    /\ log \subseteq Ids /\ done \subseteq Ids
    /\ attempts \in [Ids -> Nat] /\ doubts \in [Ids -> Nat]
    /\ claim \in [Ids -> Tokens \cup {NoToken}]
    /\ expired \subseteq Tokens
    /\ stream \in Seq(Ids)
    /\ tok \in [Publishers -> Tokens \cup {NoToken}]
    /\ toAdd \in [Publishers -> SUBSET Ids]
    /\ added \in [Publishers -> SUBSET Ids]
    /\ failing \in [Publishers -> SUBSET Ids]

\* A call works on rows of the log, under a token of its own; it gives up what it has
\* not appended once an append failed, and appends a batch in one go.
CallShape ==
    /\ \A p \in Publishers :
         /\ Held(p) \subseteq log
         /\ tok[p] = NoToken => Idle(p)
         /\ \A id \in added[p] : id \notin toAdd[p] /\ id \notin failing[p]
         /\ failing[p] # {} => toAdd[p] = {}
         /\ p \in Batching /\ toAdd[p] # {} => added[p] = {}
    /\ \A p, q \in Publishers : p # q /\ tok[p] = tok[q] => tok[p] = NoToken

\* Until its claim expires, what a call holds is unpublished and carries its token.
HeldClaims ==
    \A p \in Publishers : \A id \in Held(p) :
        tok[p] \notin expired => claim[id] = tok[p] /\ id \notin done

\* A row that is claimed has an attempt left.
TriesLeft ==
    \A id \in Ids : attempts[id] <= MaxAttempts /\ (claim[id] # NoToken => attempts[id] < MaxAttempts)

\* What is marked published, or about to be, is in the stream.
Shown ==
    /\ \A id \in done : InStream(id)
    /\ \A p \in Publishers : \A id \in added[p] : InStream(id)

Waiters(id) == {p \in Publishers : id \in toAdd[p] \/ id \in failing[p]}

Free(id) == IF id \notin done /\ Unclaimed(id) THEN 1 ELSE 0

\* The messages of a row, the calls that hold it unappended or failed, and one more if
\* it can be claimed, are covered by the doubts about it.
Balanced(id) == Copies(id) + Cardinality(Waiters(id)) + Free(id) <= 1 + doubts[id]

Balance == \A id \in Ids : Balanced(id)

LogInv == LogTypes /\ CallShape /\ HeldClaims /\ TriesLeft /\ Shown /\ Balance

-----------------------------------------------------------------------------
(* Counting.                                                               *)

\* One element more.
LEMMA OneMore ==
    ASSUME NEW S, NEW V, NEW x, IsFiniteSet(S), V \subseteq S \cup {x}
    PROVE  Cardinality(V) <= Cardinality(S) + 1
<1>1. IsFiniteSet(S \cup {x}) /\ Cardinality(S) \in Nat
  BY FS_AddElement, FS_CardinalityType
<1>2. Cardinality(V) \in Nat /\ Cardinality(V) <= Cardinality(S \cup {x})
  BY <1>1, FS_Subset, FS_CardinalityType
<1>3. CASE x \in S
  <2>1. S \cup {x} = S
    BY <1>3
  <2> QED BY <1>1, <1>2, <2>1
<1>4. CASE x \notin S
  <2>1. Cardinality(S \cup {x}) = Cardinality(S) + 1
    BY <1>4, FS_AddElement
  <2> QED BY <1>1, <1>2, <2>1
<1> QED
  BY <1>3, <1>4

\* Sets of calls are finite, and counting them respects inclusion.
LEMMA CallsCount ==
    ASSUME NEW W \in SUBSET Publishers, NEW V \in SUBSET Publishers
    PROVE  /\ Cardinality(W) \in Nat /\ Cardinality(V) \in Nat
           /\ V \subseteq W => Cardinality(V) <= Cardinality(W)
           /\ \A p \in W : V \subseteq W \ {p} => Cardinality(V) + 1 <= Cardinality(W)
           /\ \A p : V \subseteq W \cup {p} => Cardinality(V) <= Cardinality(W) + 1
<1>1. IsFiniteSet(W) /\ IsFiniteSet(V)
  BY FinitePublishers, FS_Subset
<1>2. Cardinality(W) \in Nat /\ Cardinality(V) \in Nat
  BY <1>1, FS_CardinalityType
<1>3. V \subseteq W => Cardinality(V) <= Cardinality(W)
  BY <1>1, FS_Subset
<1>4. ASSUME NEW p \in W, V \subseteq W \ {p} PROVE Cardinality(V) + 1 <= Cardinality(W)
  <2>1. IsFiniteSet(W \ {p}) /\ Cardinality(W \ {p}) = Cardinality(W) - 1
    BY <1>1, FS_RemoveElement
  <2>2. Cardinality(V) <= Cardinality(W \ {p})
    BY <1>4, <2>1, FS_Subset
  <2> QED BY <1>2, <2>1, <2>2
<1>5. ASSUME NEW p, V \subseteq W \cup {p} PROVE Cardinality(V) <= Cardinality(W) + 1
  BY <1>1, <1>5, OneMore, Zenon
<1> QED
  BY <1>2, <1>3, <1>4, <1>5

\* Distinct entries appended to the stream add at most one message to each row.
LEMMA StreamGrows ==
    ASSUME stream \in Seq(Ids), NEW n \in Nat, NEW f \in [1..n -> Ids],
           \A i, j \in 1..n : f[i] = f[j] => i = j,
           stream' = stream \o f
    PROVE  /\ stream' \in Seq(Ids)
           /\ \A x : InStream(x)' <=> InStream(x) \/ \E i \in 1..n : f[i] = x
           /\ \A x : /\ Copies(x) \in Nat /\ Copies(x)' \in Nat
                     /\ Copies(x)' <= Copies(x) + 1
                     /\ (\A i \in 1..n : f[i] # x) => Copies(x)' = Copies(x)
<1>0. f \in Seq(Ids) /\ Len(f) = n
  OBVIOUS
<1>1. stream' \in Seq(Ids) /\ Len(stream') = Len(stream) + n /\ DOMAIN stream' = 1..(Len(stream) + n)
      /\ Len(stream) \in Nat /\ DOMAIN stream = 1..Len(stream)
  <2>0. \A s, t \in Seq(Ids) : s \o t \in Seq(Ids) /\ Len(s \o t) = Len(s) + Len(t)
    OBVIOUS
  <2>1. stream' \in Seq(Ids) /\ Len(stream') = Len(stream) + n
    BY <1>0, <2>0, Zenon
  <2>2. \A s \in Seq(Ids) : Len(s) \in Nat /\ DOMAIN s = 1..Len(s)
    OBVIOUS
  <2> QED BY <2>1, <2>2
<1>2. \A i \in 1..Len(stream) : stream'[i] = stream[i]
  BY <1>0
<1>3. \A i \in 1..n : stream'[Len(stream) + i] = f[i]
  BY <1>0
<1>4. \A i \in DOMAIN stream' : i \in 1..Len(stream) \/ \E j \in 1..n : i = Len(stream) + j
  <2>1. ASSUME NEW i \in DOMAIN stream', i \notin 1..Len(stream)
        PROVE  i - Len(stream) \in 1..n /\ i = Len(stream) + (i - Len(stream))
    BY <1>1, <2>1
  <2> QED BY <2>1, Zenon
<1>5. \A j \in 1..n : Len(stream) + j \in DOMAIN stream'
  BY <1>1
<1>6. \A i \in 1..Len(stream) : i \in DOMAIN stream'
  BY <1>1
<1>7. ASSUME NEW x PROVE InStream(x)' <=> InStream(x) \/ \E i \in 1..n : f[i] = x
  <2>1. ASSUME InStream(x)' PROVE InStream(x) \/ \E i \in 1..n : f[i] = x
    <3>1. PICK i \in DOMAIN stream' : stream'[i] = x
      BY <2>1 DEF InStream
    <3> QED BY <1>1, <1>2, <1>3, <1>4, <3>1 DEF InStream
  <2>2. ASSUME InStream(x) PROVE InStream(x)'
    BY <1>1, <1>2, <1>6, <2>2 DEF InStream
  <2>3. ASSUME NEW i \in 1..n, f[i] = x PROVE InStream(x)'
    BY <1>3, <1>5, <2>3, Zenon DEF InStream
  <2> QED BY <2>1, <2>2, <2>3
<1>8. ASSUME NEW x
      PROVE  /\ Copies(x) \in Nat /\ Copies(x)' \in Nat
             /\ Copies(x)' <= Copies(x) + 1
             /\ (\A i \in 1..n : f[i] # x) => Copies(x)' = Copies(x)
  <2> DEFINE A == {i \in DOMAIN stream : stream[i] = x}
             B == {i \in DOMAIN stream' : stream'[i] = x}
  <2>1. IsFiniteSet(A) /\ IsFiniteSet(B)
    <3>1. IsFiniteSet(1..Len(stream)) /\ IsFiniteSet(1..(Len(stream) + n))
      BY <1>1, FS_Interval
    <3> QED BY <1>1, <3>1, FS_Subset
  <2>2. Cardinality(A) \in Nat /\ Cardinality(B) \in Nat
    BY <2>1, FS_CardinalityType, Zenon
  <2>3. Copies(x) = Cardinality(A) /\ Copies(x)' = Cardinality(B)
    BY DEF Copies
  <2>4. (\A i \in 1..n : f[i] # x) => A = B
    BY <1>1, <1>2, <1>3, <1>4, <1>6
  <2>5. ASSUME NEW k \in 1..n, f[k] = x PROVE B \subseteq A \cup {Len(stream) + k}
    <3>1. ASSUME NEW i \in B PROVE i \in A \/ i = Len(stream) + k
      <4>1. CASE i \in 1..Len(stream)
        BY <1>1, <1>2, <4>1
      <4>2. CASE \E j \in 1..n : i = Len(stream) + j
        <5>1. PICK j \in 1..n : i = Len(stream) + j
          BY <4>2, Zenon
        <5>2. f[j] = x
          BY <1>3, <5>1
        <5>3. j = k
          BY <2>5, <5>2
        <5> QED BY <5>1, <5>3
      <4> QED BY <1>4, <4>1, <4>2, Zenon
    <3> QED BY <3>1
  <2>6. Cardinality(B) <= Cardinality(A) + 1
    <3> HIDE DEF A, B
    <3>1. CASE \A i \in 1..n : f[i] # x
      <4>1. A = B
        BY <2>4, <3>1
      <4> QED BY <2>2, <4>1
    <3>2. CASE \E k \in 1..n : f[k] = x
      BY <2>1, <2>5, <3>2, OneMore, Zenon
    <3> QED BY <3>1, <3>2
  <2> HIDE DEF A, B
  <2> QED BY <2>2, <2>3, <2>4, <2>6
<1> QED
  BY <1>1, <1>7, <1>8

\* A stream left alone keeps its messages, and a row has finitely many.
LEMMA StreamKept ==
    ASSUME stream \in Seq(Ids), stream' = stream, NEW x
    PROVE  InStream(x)' = InStream(x) /\ Copies(x)' = Copies(x) /\ Copies(x) \in Nat
<1>1. IsFiniteSet({i \in DOMAIN stream : stream[i] = x})
  <2>1. Len(stream) \in Nat /\ DOMAIN stream = 1..Len(stream)
    OBVIOUS
  <2>2. IsFiniteSet(1..Len(stream))
    BY <2>1, FS_Interval
  <2> QED BY <2>1, <2>2, FS_Subset
<1>2. Copies(x) \in Nat
  BY <1>1, FS_CardinalityType DEF Copies
<1> QED
  BY <1>2 DEF InStream, Copies

LEMMA FreeCounts ==
    ASSUME NEW x
    PROVE  /\ Free(x) \in {0, 1} /\ Free(x)' \in {0, 1}
           /\ (x \notin done /\ Unclaimed(x)) => Free(x) = 1
           /\ ~(x \notin done' /\ Unclaimed(x)') => Free(x)' = 0
  BY Zenon DEF Free

\* The balance survives a step that adds no message of the row, no call waiting for
\* it and no freedom to claim it.
LEMMA BalanceKept ==
    ASSUME LogTypes, LogTypes', NEW x \in Ids, Balanced(x),
           Copies(x) \in Nat, Copies(x)' = Copies(x),
           Waiters(x)' \subseteq Waiters(x),
           (x \notin done' /\ Unclaimed(x)') => (x \notin done /\ Unclaimed(x)),
           doubts'[x] >= doubts[x]
    PROVE  Balanced(x)'
<1>1. Waiters(x) \in SUBSET Publishers /\ Waiters(x)' \in SUBSET Publishers
  BY DEF Waiters
<1>2. /\ Cardinality(Waiters(x)) \in Nat /\ Cardinality(Waiters(x)') \in Nat
      /\ Cardinality(Waiters(x)') <= Cardinality(Waiters(x))
  BY <1>1, CallsCount
<1>3. Free(x) \in {0, 1} /\ Free(x)' \in {0, 1} /\ (Free(x)' = 1 => Free(x) = 1)
  BY FreeCounts, Zenon
<1>4. Free(x) \in Nat /\ Free(x)' \in Nat /\ Free(x)' <= Free(x)
  BY <1>3
<1>5. doubts[x] \in Nat /\ doubts'[x] \in Nat
  BY DEF LogTypes
<1> QED
  BY <1>2, <1>4, <1>5 DEF Balanced

\* The balance survives a new message of the row, or a row becoming free, if a call
\* stops waiting for it or a doubt is recorded.
LEMMA BalancePaid ==
    ASSUME LogTypes, LogTypes', NEW x \in Ids, Balanced(x),
           Copies(x) \in Nat, Copies(x)' \in Nat,
           \/ /\ Copies(x)' <= Copies(x) + 1
              /\ (x \notin done' /\ Unclaimed(x)') => (x \notin done /\ Unclaimed(x))
           \/ Copies(x)' = Copies(x),
           \/ /\ \E p \in Waiters(x) : Waiters(x)' \subseteq Waiters(x) \ {p}
              /\ doubts'[x] >= doubts[x]
           \/ Waiters(x)' \subseteq Waiters(x) /\ doubts'[x] = doubts[x] + 1
    PROVE  Balanced(x)'
<1>1. Waiters(x) \in SUBSET Publishers /\ Waiters(x)' \in SUBSET Publishers
  BY DEF Waiters
<1>2. Cardinality(Waiters(x)) \in Nat /\ Cardinality(Waiters(x)') \in Nat
  BY <1>1, CallsCount
<1>3. Free(x) \in {0, 1} /\ Free(x)' \in {0, 1}
  BY FreeCounts
<1>4. Copies(x)' + Free(x)' <= Copies(x) + Free(x) + 1
  <2>1. CASE /\ Copies(x)' <= Copies(x) + 1
             /\ (x \notin done' /\ Unclaimed(x)') => (x \notin done /\ Unclaimed(x))
    <3>1. Free(x)' = 1 => Free(x) = 1
      BY <2>1, FreeCounts, Zenon
    <3> QED BY <1>3, <2>1, <3>1
  <2>2. CASE Copies(x)' = Copies(x)
    BY <1>3, <2>2
  <2> QED BY <2>1, <2>2
<1>5. doubts[x] \in Nat /\ doubts'[x] \in Nat
  BY DEF LogTypes
<1>6. Cardinality(Waiters(x)') + doubts[x] + 1 <= Cardinality(Waiters(x)) + doubts'[x]
  <2>1. CASE /\ \E p \in Waiters(x) : Waiters(x)' \subseteq Waiters(x) \ {p}
             /\ doubts'[x] >= doubts[x]
    <3>1. Cardinality(Waiters(x)') + 1 <= Cardinality(Waiters(x))
      BY <1>1, <2>1, CallsCount
    <3> QED BY <1>2, <1>5, <2>1, <3>1
  <2>2. CASE Waiters(x)' \subseteq Waiters(x) /\ doubts'[x] = doubts[x] + 1
    <3>1. Cardinality(Waiters(x)') <= Cardinality(Waiters(x))
      BY <1>1, <2>2, CallsCount
    <3> QED BY <1>2, <1>5, <2>2, <3>1
  <2> QED BY <2>1, <2>2
<1> QED
  BY <1>2, <1>3, <1>4, <1>5, <1>6 DEF Balanced

\* Two calls do not hold a row under unexpired claims: the token of the row, if it is
\* that of one call, is not that of the other.
LEMMA OneHolder ==
    ASSUME LogTypes, CallShape, HeldClaims,
           NEW p \in Publishers, NEW q \in Publishers, p # q,
           NEW x \in Held(q), tok[q] \notin expired
    PROVE  claim[x] # tok[p] /\ claim[x] = tok[q] /\ tok[q] # NoToken
<1>1. claim[x] = tok[q]
  BY DEF HeldClaims
<1>2. tok[q] # NoToken
  BY DEF CallShape, Held, Idle
<1> QED
  BY <1>1, <1>2 DEF CallShape

-----------------------------------------------------------------------------
(* Every step keeps the invariant.                                         *)

LEMMA LogInit == Init => LogInv
<1> SUFFICES ASSUME Init PROVE LogInv
  OBVIOUS
<1>0. <<>> \in Seq(Ids)
  OBVIOUS
<1>1. LogTypes
  BY <1>0 DEF Init, LogTypes
<1>2. CallShape /\ HeldClaims
  BY DEF Init, CallShape, HeldClaims, Held, Idle
<1>3. TriesLeft
  BY PositiveAttempts DEF Init, TriesLeft
<1>4. Shown
  BY DEF Init, Shown
<1>5. ASSUME NEW x \in Ids PROVE Balanced(x)
  <2>1. Waiters(x) = {}
    BY DEF Init, Waiters
  <2>2. {i \in DOMAIN stream : stream[i] = x} = {}
    <3>1. stream = <<>>
      BY DEF Init
    <3>2. DOMAIN stream = {}
      BY <3>1
    <3> QED BY <3>2, Zenon
  <2>3. Cardinality(Waiters(x)) = 0 /\ Copies(x) = 0
    BY <2>1, <2>2, FS_EmptySet, Zenon DEF Copies
  <2>4. Free(x) \in {0, 1}
    BY FreeCounts
  <2> QED BY <2>3, <2>4 DEF Balanced, Init
<1> QED
  BY <1>1, <1>2, <1>3, <1>4, <1>5 DEF LogInv, Balance

LEMMA AppendEventKeeps ==
    ASSUME LogInv, NEW i \in Ids, AppendEvent(i)
    PROVE  LogInv'
<1> USE DEF LogInv, AppendEvent, callVars
<1>1. LogTypes'
  BY DEF LogTypes
<1>2. CallShape' /\ HeldClaims'
  BY DEF CallShape, HeldClaims, Held, Idle
<1>3. TriesLeft'
  BY DEF TriesLeft
<1>4. Shown'
  BY DEF Shown, InStream
<1>5. ASSUME NEW x \in Ids PROVE Balanced(x)'
  BY DEF Balance, Balanced, Copies, Waiters, Free, Unclaimed
<1> QED
  BY <1>1, <1>2, <1>3, <1>4, <1>5 DEF Balance

LEMMA ExpireClaimKeeps ==
    ASSUME LogInv, NEW t \in Tokens, ExpireClaim(t)
    PROVE  LogInv'
<1> USE DEF LogInv, ExpireClaim, callVars
<1>1. LogTypes'
  BY DEF LogTypes
<1>2. CallShape' /\ HeldClaims'
  BY DEF CallShape, HeldClaims, Held, Idle
<1>3. TriesLeft'
  BY DEF TriesLeft
<1>4. Shown'
  BY DEF Shown, InStream
<1>5. ASSUME NEW x \in Ids PROVE Balanced(x)'
  <2>1. Copies(x)' = Copies(x) /\ Copies(x) \in Nat
    BY StreamKept DEF LogTypes
  <2>2. Waiters(x)' = Waiters(x)
    BY DEF Waiters
  <2>3. Balanced(x)
    BY DEF Balance
  <2>4. doubts[x] \in Nat
    BY DEF LogTypes
  <2>5. CASE claim[x] = t
    <3>1. doubts'[x] = doubts[x] + 1
      BY <2>5
    <3> QED BY <1>1, <2>1, <2>2, <2>3, <3>1, BalancePaid
  <2>6. CASE claim[x] # t
    <3>1. doubts'[x] = doubts[x] /\ doubts'[x] >= doubts[x]
      BY <2>4, <2>6
    <3>2. (x \notin done' /\ Unclaimed(x)') => (x \notin done /\ Unclaimed(x))
      BY <2>6 DEF Unclaimed
    <3> QED BY <1>1, <2>1, <2>2, <2>3, <3>1, <3>2, BalanceKept
  <2> QED BY <2>5, <2>6
<1> QED
  BY <1>1, <1>2, <1>3, <1>4, <1>5 DEF Balance

LEMMA ClaimKeeps ==
    ASSUME LogInv, NEW p \in Publishers, Claim(p)
    PROVE  LogInv'
<1> USE DEF LogInv
<1>1. PICK t \in Tokens, rows \in SUBSET Ids :
        /\ \A id \in Ids : claim[id] # t
        /\ \A q \in Publishers : tok[q] # t
        /\ \A id \in rows : Claimable(id)
        /\ rows # {}
        /\ claim' = [id \in Ids |-> IF id \in rows THEN t ELSE claim[id]]
        /\ expired' = expired \ {t}
        /\ tok' = [tok EXCEPT ![p] = t]
        /\ toAdd' = [toAdd EXCEPT ![p] = rows]
  <2> DEFINE r == Lowest(Limit, {id \in Ids : Claimable(id)})
             u == CHOOSE v \in FreshTokens : TRUE
  <2>1. u \in FreshTokens
    BY Zenon DEF Claim
  <2>2. r \in SUBSET Ids /\ \A id \in r : Claimable(id)
    BY DEF Lowest
  <2>3. u \in Tokens /\ (\A id \in Ids : claim[id] # u) /\ (\A q \in Publishers : tok[q] # u)
    BY <2>1 DEF FreshTokens
  <2>4. /\ r # {}
        /\ claim' = [id \in Ids |-> IF id \in r THEN u ELSE claim[id]]
        /\ expired' = expired \ {u}
        /\ tok' = [tok EXCEPT ![p] = u]
        /\ toAdd' = [toAdd EXCEPT ![p] = r]
    BY Zenon DEF Claim
  <2> HIDE DEF r, u
  <2> QED BY <2>2, <2>3, <2>4, Zenon
<1>2. Idle(p) /\ UNCHANGED <<log, done, attempts, stream, added, failing, doubts>>
  BY DEF Claim
<1>3. t # NoToken /\ t \notin expired'
  BY <1>1, NoTokenApart
<1>4. LogTypes'
  BY <1>1, <1>2 DEF LogTypes
<1>5. \A id \in rows : id \in log /\ id \notin done /\ attempts[id] < MaxAttempts /\ Unclaimed(id)
  BY <1>1 DEF Claimable
<1>6. CallShape'
  <2>1. Held(p)' = rows
    BY <1>1, <1>2 DEF Held, Idle, LogTypes
  <2>2. \A q \in Publishers : q # p => tok'[q] = tok[q] /\ toAdd'[q] = toAdd[q]
    BY <1>1 DEF LogTypes
  <2>3. tok'[p] = t /\ toAdd'[p] = rows /\ added'[p] = {} /\ failing'[p] = {}
    BY <1>1, <1>2 DEF LogTypes, Idle
  <2> QED BY <1>1, <1>2, <1>3, <1>5, <2>1, <2>2, <2>3 DEF CallShape, Held, Idle
<1>7. HeldClaims'
  <2>1. ASSUME NEW q \in Publishers, NEW x \in Held(q)', tok'[q] \notin expired'
        PROVE  claim'[x] = tok'[q] /\ x \notin done'
    <3>1. CASE q = p
      BY <1>1, <1>2, <1>5, <3>1 DEF Held, Idle, LogTypes
    <3>2. CASE q # p
      <4>1. tok'[q] = tok[q] /\ x \in Held(q) /\ tok[q] \notin expired
        BY <1>1, <1>2, <2>1, <3>2 DEF Held, LogTypes
      <4>2. claim[x] = tok[q] /\ tok[q] # NoToken /\ x \notin done
        BY <3>2, <4>1, OneHolder DEF HeldClaims
      <4>3. x \in Ids /\ x \notin rows
        BY <1>5, <4>1, <4>2 DEF Unclaimed, Held, LogTypes
      <4> QED BY <1>1, <1>2, <4>1, <4>2, <4>3
    <3> QED BY <3>1, <3>2
  <2> QED BY <2>1 DEF HeldClaims
<1>8. TriesLeft'
  BY <1>1, <1>2, <1>5 DEF TriesLeft
<1>9. Shown'
  BY <1>2 DEF Shown, InStream
<1>10. ASSUME NEW x \in Ids PROVE Balanced(x)'
  <2>1. Copies(x)' = Copies(x) /\ Copies(x) \in Nat
    BY <1>2, StreamKept DEF LogTypes
  <2>2. Balanced(x)
    BY DEF Balance
  <2>3. doubts[x] \in Nat /\ doubts'[x] = doubts[x]
    BY <1>2 DEF LogTypes
  <2>4. CASE x \in rows
    <3>1. Free(x) = 1
      BY <1>5, <2>4, FreeCounts
    <3>2. ~Unclaimed(x)'
      BY <1>1, <1>3, <2>4 DEF Unclaimed
    <3>3. Free(x)' = 0
      BY <3>2, FreeCounts
    <3>4. /\ Waiters(x)' \subseteq Waiters(x) \cup {p}
          /\ Waiters(x) \in SUBSET Publishers /\ Waiters(x)' \in SUBSET Publishers
      BY <1>1, <1>2 DEF Waiters, LogTypes
    <3>5. /\ Cardinality(Waiters(x)) \in Nat /\ Cardinality(Waiters(x)') \in Nat
          /\ Cardinality(Waiters(x)') <= Cardinality(Waiters(x)) + 1
      BY <3>4, CallsCount
    <3> QED BY <2>1, <2>2, <2>3, <3>1, <3>3, <3>5 DEF Balanced
  <2>5. CASE x \notin rows
    <3>1. Waiters(x)' \subseteq Waiters(x)
      BY <1>1, <1>2, <2>5 DEF Waiters, LogTypes
    <3>2. (x \notin done' /\ Unclaimed(x)') => (x \notin done /\ Unclaimed(x))
      BY <1>1, <1>2, <2>5 DEF Unclaimed
    <3>3. doubts'[x] >= doubts[x]
      BY <2>3
    <3> QED BY <1>4, <2>1, <2>2, <3>1, <3>2, <3>3, BalanceKept
  <2> QED BY <2>4, <2>5
<1> QED
  BY <1>4, <1>6, <1>7, <1>8, <1>9, <1>10 DEF Balance

\* A single message appended to the stream.
LEMMA OneAppended ==
    ASSUME stream \in Seq(Ids), NEW i \in Ids, stream' = Append(stream, i)
    PROVE  /\ stream' \in Seq(Ids)
           /\ \A x : InStream(x)' <=> InStream(x) \/ x = i
           /\ \A x : /\ Copies(x) \in Nat /\ Copies(x)' \in Nat
                     /\ Copies(x)' <= Copies(x) + 1
                     /\ x # i => Copies(x)' = Copies(x)
<1> DEFINE f == [k \in 1..1 |-> i]
<1>1. f \in [1..1 -> Ids] /\ (\A k, j \in 1..1 : f[k] = f[j] => k = j) /\ 1 \in Nat
  OBVIOUS
<1>2. \A x : (\E k \in 1..1 : f[k] = x) <=> x = i
  OBVIOUS
<1>3. stream' = stream \o f
  <2>1. f = <<i>>
    OBVIOUS
  <2> QED BY <2>1
<1> HIDE DEF f
<1>4. /\ stream' \in Seq(Ids)
      /\ \A x : InStream(x)' <=> InStream(x) \/ \E k \in 1..1 : f[k] = x
      /\ \A x : /\ Copies(x) \in Nat /\ Copies(x)' \in Nat
                /\ Copies(x)' <= Copies(x) + 1
                /\ (\A k \in 1..1 : f[k] # x) => Copies(x)' = Copies(x)
  BY <1>1, <1>3, StreamGrows, Zenon
<1> QED
  BY <1>2, <1>4, Zenon

LEMMA XAddKeeps ==
    ASSUME LogInv, NEW p \in Publishers, NEW i \in Ids, XAdd(p, i)
    PROVE  LogInv'
<1> USE DEF LogInv, XAdd, rowVars
<1>1. stream \in Seq(Ids) /\ stream' = Append(stream, i)
  BY DEF LogTypes
<1>2. /\ toAdd'[p] = toAdd[p] \ {i} /\ added'[p] = {i}
      /\ \A q \in Publishers : q # p => toAdd'[q] = toAdd[q] /\ added'[q] = added[q]
  BY DEF LogTypes
<1>3. LogTypes'
  BY <1>1, OneAppended DEF LogTypes
<1>4. \A q \in Publishers : Held(q)' \subseteq Held(q)
  BY <1>2 DEF Held
<1>5. CallShape'
  <2>1. tok[p] # NoToken
    BY DEF CallShape, Idle
  <2> QED BY <1>2, <1>4, <2>1 DEF CallShape, Idle
<1>6. HeldClaims'
  BY <1>4 DEF HeldClaims
<1>7. TriesLeft'
  BY DEF TriesLeft
<1>8. Shown'
  BY <1>1, <1>2, OneAppended DEF Shown
<1>9. ASSUME NEW x \in Ids PROVE Balanced(x)'
  <2>1. Balanced(x) /\ doubts'[x] >= doubts[x]
    BY DEF Balance, LogTypes
  <2>2. (x \notin done' /\ Unclaimed(x)') => (x \notin done /\ Unclaimed(x))
    BY DEF Unclaimed
  <2>3. CASE x = i
    <3>1. p \in Waiters(x) /\ Waiters(x)' \subseteq Waiters(x) \ {p}
      BY <1>2, <2>3 DEF Waiters
    <3>2. Copies(x) \in Nat /\ Copies(x)' \in Nat /\ Copies(x)' <= Copies(x) + 1
      BY <1>1, OneAppended
    <3> QED BY <1>3, <2>1, <2>2, <3>1, <3>2, BalancePaid
  <2>4. CASE x # i
    <3>1. Waiters(x)' \subseteq Waiters(x)
      BY <1>2 DEF Waiters
    <3>2. Copies(x) \in Nat /\ Copies(x)' = Copies(x)
      BY <1>1, <2>4, OneAppended
    <3> QED BY <1>3, <2>1, <2>2, <3>1, <3>2, BalanceKept
  <2> QED BY <2>3, <2>4
<1> QED
  BY <1>3, <1>5, <1>6, <1>7, <1>8, <1>9 DEF Balance

LEMMA XAddFailsKeeps ==
    ASSUME LogInv, NEW p \in Publishers, NEW i \in Ids, NEW landed \in BOOLEAN,
           XAddFails(p, i, landed)
    PROVE  LogInv'
<1> USE DEF LogInv
<1>0. /\ i \in toAdd[p] /\ added[p] = {} /\ failing[p] = {}
      /\ toAdd' = [toAdd EXCEPT ![p] = {}] /\ failing' = [failing EXCEPT ![p] = {i}]
      /\ UNCHANGED <<log, done, attempts, claim, expired, tok, added>>
      /\ stream \in Seq(Ids)
  BY DEF XAddFails, rowVars, LogTypes
<1>1. \/ landed /\ stream' = Append(stream, i) /\ doubts' = [doubts EXCEPT ![i] = @ + 1]
      \/ stream' = stream /\ doubts' = doubts
  <2>1. CASE landed
    BY <2>1, Zenon DEF XAddFails
  <2>2. CASE ~landed
    <3>1. stream' = stream /\ doubts' = [doubts EXCEPT ![i] = doubts[i]]
      BY <2>2, Zenon DEF XAddFails
    <3>2. doubts' = doubts
      BY <3>1 DEF LogTypes
    <3> QED BY <3>1, <3>2
  <2> QED BY <2>1, <2>2
<1>2. /\ toAdd'[p] = {} /\ failing'[p] = {i}
      /\ \A q \in Publishers : q # p => toAdd'[q] = toAdd[q] /\ failing'[q] = failing[q]
  BY <1>0 DEF LogTypes
<1>3. LogTypes'
  <2>1. stream' \in Seq(Ids)
    BY <1>0, <1>1, OneAppended
  <2>2. doubts' \in [Ids -> Nat]
    BY <1>1 DEF LogTypes
  <2> QED BY <1>0, <2>1, <2>2, SMTT(20) DEF LogTypes
<1>4. \A q \in Publishers : Held(q)' \subseteq Held(q)
  BY <1>0, <1>2 DEF Held
<1>5. CallShape'
  <2>1. tok[p] # NoToken
    BY <1>0, SMTT(20) DEF CallShape, Idle
  <2> QED BY <1>0, <1>2, <1>4, <2>1, SMTT(20), Z3T(20) DEF CallShape, Idle
<1>6. HeldClaims'
  BY <1>0, <1>4 DEF HeldClaims
<1>7. TriesLeft'
  BY <1>0 DEF TriesLeft
<1>8. Shown'
  <2>1. \A x : InStream(x) => InStream(x)'
    BY <1>0, <1>1, OneAppended, StreamKept
  <2> QED BY <1>0, <2>1 DEF Shown
<1>9. ASSUME NEW x \in Ids PROVE Balanced(x)'
  <2>1. Balanced(x)
    BY DEF Balance
  <2>2. (x \notin done' /\ Unclaimed(x)') => (x \notin done /\ Unclaimed(x))
    BY <1>0 DEF Unclaimed
  <2>3. Waiters(x)' \subseteq Waiters(x)
    BY <1>0, <1>2 DEF Waiters
  <2>4. CASE x = i /\ stream' = Append(stream, i) /\ doubts' = [doubts EXCEPT ![i] = @ + 1]
    <3>1. doubts'[x] = doubts[x] + 1
      BY <2>4 DEF LogTypes
    <3>2. Copies(x) \in Nat /\ Copies(x)' \in Nat /\ Copies(x)' <= Copies(x) + 1
      BY <1>0, <2>4, OneAppended
    <3> QED BY <1>3, <2>1, <2>2, <2>3, <3>1, <3>2, BalancePaid
  <2>5. CASE x # i \/ (stream' = stream /\ doubts' = doubts)
    <3>1. doubts'[x] >= doubts[x]
      BY <1>1, <2>5, SMTT(20) DEF LogTypes
    <3>2. Copies(x) \in Nat /\ Copies(x)' = Copies(x)
      BY <1>0, <1>1, <2>5, OneAppended, StreamKept
    <3> QED BY <1>3, <2>1, <2>2, <2>3, <3>1, <3>2, BalanceKept
  <2> QED BY <1>1, <2>4, <2>5
<1> QED
  BY <1>3, <1>5, <1>6, <1>7, <1>8, <1>9 DEF Balance

\* An order of a finite set of rows lists each of them once.
LEMMA OrderLists ==
    ASSUME NEW L \in SUBSET Ids, NEW s \in Orders(L)
    PROVE  \E n \in Nat : /\ s \in [1..n -> Ids]
                          /\ \A i, j \in 1..n : s[i] = s[j] => i = j
                          /\ \A x : x \in L <=> \E i \in 1..n : s[i] = x
<1>1. IsFiniteSet(L)
  BY IdsNat, FS_Subset, Zenon
<1>2. PICK n \in Nat : n = Cardinality(L)
  BY <1>1, FS_CardinalityType
<1>3. s \in [1..n -> L] /\ \A i, j \in 1..n : s[i] = s[j] => i = j
  BY <1>2 DEF Orders
<1>4. Cardinality(1..n) = n
  BY FS_Interval
<1>5. s \in Injection(1..n, L)
  BY <1>3 DEF Injection, IsInjective
<1>6. s \in Surjection(1..n, L)
  BY <1>1, <1>2, <1>4, <1>5, FS_Injection
<1>7. \A x : x \in L <=> \E i \in 1..n : s[i] = x
  BY <1>3, <1>6 DEF Surjection
<1> QED
  BY <1>3, <1>7

LEMMA XAddManyKeeps ==
    ASSUME LogInv, NEW p \in Publishers, NEW landed \in SUBSET toAdd[p], NEW ok \in SUBSET landed,
           XAddMany(p, landed, ok)
    PROVE  LogInv'
<1> USE DEF LogInv
<1>0. /\ p \in Batching /\ toAdd[p] # {}
      /\ toAdd' = [toAdd EXCEPT ![p] = {}] /\ failing' = [failing EXCEPT ![p] = toAdd[p] \ ok]
      /\ added' = [added EXCEPT ![p] = ok]
      /\ doubts' = [id \in Ids |-> IF id \in landed \ ok THEN doubts[id] + 1 ELSE doubts[id]]
      /\ UNCHANGED <<log, done, attempts, claim, expired, tok>>
      /\ stream \in Seq(Ids)
  BY DEF XAddMany, rowVars, LogTypes
<1>1. added[p] = {} /\ failing[p] = {} /\ tok[p] # NoToken
  BY <1>0 DEF CallShape, Idle
<1>2. landed \in SUBSET Ids /\ ok \in SUBSET Ids /\ toAdd[p] \subseteq Ids
  BY DEF LogTypes
<1>3. /\ stream' \in Seq(Ids)
      /\ \A x : InStream(x)' <=> InStream(x) \/ x \in landed
      /\ \A x : /\ Copies(x) \in Nat /\ Copies(x)' \in Nat
                /\ Copies(x)' <= Copies(x) + 1
                /\ x \notin landed => Copies(x)' = Copies(x)
  <2>1. PICK s \in Orders(landed) : stream' = stream \o s
    BY DEF XAddMany
  <2>2. PICK n \in Nat : /\ s \in [1..n -> Ids]
                         /\ \A i, j \in 1..n : s[i] = s[j] => i = j
                         /\ \A x : x \in landed <=> \E i \in 1..n : s[i] = x
    BY <1>2, <2>1, OrderLists, SMTT(20), Z3T(20)
  <2>3. /\ stream' \in Seq(Ids)
        /\ \A x : InStream(x)' <=> InStream(x) \/ \E i \in 1..n : s[i] = x
        /\ \A x : /\ Copies(x) \in Nat /\ Copies(x)' \in Nat
                  /\ Copies(x)' <= Copies(x) + 1
                  /\ (\A i \in 1..n : s[i] # x) => Copies(x)' = Copies(x)
    BY <1>0, <2>1, <2>2, StreamGrows, ZenonT(30)
  <2> QED BY <2>2, <2>3, Zenon
<1>4. /\ toAdd'[p] = {} /\ failing'[p] = toAdd[p] \ ok /\ added'[p] = ok
      /\ \A q \in Publishers : q # p => /\ toAdd'[q] = toAdd[q]
                                         /\ failing'[q] = failing[q]
                                         /\ added'[q] = added[q]
  BY <1>0 DEF LogTypes
<1>5. LogTypes'
  <2>1. doubts' \in [Ids -> Nat]
    BY <1>0, SMTT(20) DEF LogTypes
  <2> QED BY <1>0, <1>2, <1>3, <2>1, SMTT(20) DEF LogTypes
<1>6. \A q \in Publishers : Held(q)' \subseteq Held(q)
  BY <1>4, Zenon DEF Held
<1>7. CallShape'
  BY <1>0, <1>1, <1>4, <1>6, SMTT(20) DEF CallShape, Idle
<1>8. HeldClaims'
  BY <1>0, <1>6, ZenonT(30) DEF HeldClaims
<1>9. TriesLeft'
  BY <1>0, Zenon DEF TriesLeft
<1>10. Shown'
  BY <1>0, <1>3, <1>4, Zenon DEF Shown
<1>11. ASSUME NEW x \in Ids PROVE Balanced(x)'
  <2>1. Balanced(x) /\ doubts[x] \in Nat
    BY DEF Balance, LogTypes
  <2>2. (x \notin done' /\ Unclaimed(x)') => (x \notin done /\ Unclaimed(x))
    BY <1>0 DEF Unclaimed
  <2>3. Waiters(x)' \subseteq Waiters(x)
    BY <1>4, SMTT(20) DEF Waiters
  <2>4. CASE x \in landed \ ok
    <3>1. doubts'[x] = doubts[x] + 1
      BY <1>0, <2>4, SMTT(20)
    <3> QED BY <1>3, <1>5, <2>1, <2>2, <2>3, <3>1, BalancePaid, Zenon
  <2>5. CASE x \in ok
    <3>1. doubts'[x] >= doubts[x]
      BY <1>0, <2>1, <2>5
    <3>2. p \in Waiters(x) /\ Waiters(x)' \subseteq Waiters(x) \ {p}
      BY <1>4, <2>5, SMTT(20) DEF Waiters
    <3> QED BY <1>3, <1>5, <2>1, <2>2, <3>1, <3>2, BalancePaid
  <2>6. CASE x \notin landed
    <3>1. doubts'[x] >= doubts[x]
      BY <1>0, <2>1, <2>6, SMTT(20)
    <3> QED BY <1>3, <1>5, <2>1, <2>2, <2>3, <2>6, <3>1, BalanceKept, Zenon
  <2> QED BY <2>4, <2>5, <2>6
<1> QED
  BY <1>5, <1>7, <1>8, <1>9, <1>10, <1>11 DEF Balance

LEMMA MarkPublishFailedKeeps ==
    ASSUME LogInv, NEW p \in Publishers, NEW i \in Ids, NEW applied \in BOOLEAN,
           MarkPublishFailed(p, i, applied)
    PROVE  LogInv'
<1> USE DEF LogInv
<1>0. /\ i \in failing[p]
      /\ failing' = [failing EXCEPT ![p] = @ \ {i}]
      /\ UNCHANGED <<log, done, expired, stream, toAdd, added, doubts>>
  BY DEF MarkPublishFailed
<1>1. /\ failing'[p] = failing[p] \ {i}
      /\ \A q \in Publishers : q # p => failing'[q] = failing[q]
  BY <1>0 DEF LogTypes
<1>2. toAdd[p] = {} /\ i \notin added[p] /\ tok[p] # NoToken
  BY <1>0 DEF CallShape, Idle
<1>3. \/ /\ i \notin done /\ claim[i] = tok[p]
         /\ attempts' = [attempts EXCEPT ![i] = @ + 1]
         /\ claim' = [claim EXCEPT ![i] = NoToken]
      \/ attempts' = attempts /\ claim' = claim
  <2>1. CASE applied /\ Matches(p, i)
    BY <2>1, Zenon DEF MarkPublishFailed, Matches
  <2>2. CASE ~(applied /\ Matches(p, i))
    <3>1. attempts' = [attempts EXCEPT ![i] = attempts[i]] /\ claim' = [claim EXCEPT ![i] = claim[i]]
      BY <2>2, Zenon DEF MarkPublishFailed
    <3>2. attempts' = attempts /\ claim' = claim
      BY <3>1 DEF LogTypes
    <3> QED BY <3>2
  <2> QED BY <2>1, <2>2
<1>4. \/ tok' = [tok EXCEPT ![p] = NoToken] /\ failing[p] = {i} /\ added[p] = {}
      \/ tok' = tok /\ ~(failing[p] = {i} /\ added[p] = {})
  <2>1. CASE failing[p] = {i} /\ added[p] = {}
    BY <2>1, Zenon DEF MarkPublishFailed
  <2>2. CASE ~(failing[p] = {i} /\ added[p] = {})
    <3>1. tok' = [tok EXCEPT ![p] = tok[p]]
      BY <2>2, Zenon DEF MarkPublishFailed
    <3>2. tok' = tok
      BY <3>1 DEF LogTypes
    <3> QED BY <2>2, <3>2
  <2> QED BY <2>1, <2>2
<1>5. LogTypes'
  <2>1. attempts' \in [Ids -> Nat] /\ claim' \in [Ids -> Tokens \cup {NoToken}]
    <3>1. attempts' = [attempts EXCEPT ![i] = @ + 1] => attempts' \in [Ids -> Nat]
      BY DEF LogTypes
    <3>2. claim' = [claim EXCEPT ![i] = NoToken] => claim' \in [Ids -> Tokens \cup {NoToken}]
      BY DEF LogTypes
    <3> QED BY <1>3, <3>1, <3>2 DEF LogTypes
  <2>2. tok' \in [Publishers -> Tokens \cup {NoToken}]
    BY <1>4 DEF LogTypes
  <2> QED BY <1>0, <2>1, <2>2, Zenon DEF LogTypes
<1>6. \A q \in Publishers : Held(q)' \subseteq Held(q)
  BY <1>0, <1>1 DEF Held
<1>7. /\ \A q \in Publishers : q # p => tok'[q] = tok[q]
      /\ tok'[p] = NoToken => Held(p)' = {}
      /\ tok'[p] = NoToken \/ tok'[p] = tok[p]
  BY <1>0, <1>1, <1>2, <1>4, SMTT(20) DEF LogTypes, Held
<1>8. CallShape'
  <2>1. \A q \in Publishers :
          /\ Held(q)' \subseteq log'
          /\ tok'[q] = NoToken => Idle(q)'
          /\ \A id \in added'[q] : id \notin toAdd'[q] /\ id \notin failing'[q]
          /\ failing'[q] # {} => toAdd'[q] = {}
          /\ q \in Batching /\ toAdd'[q] # {} => added'[q] = {}
    BY <1>0, <1>1, <1>2, <1>6, <1>7, ZenonT(30) DEF CallShape, Idle, Held
  <2>2. \A q, r \in Publishers : q # r /\ tok'[q] = tok'[r] => tok'[q] = NoToken
    BY <1>7 DEF CallShape
  <2> QED BY <2>1, <2>2, SMTT(20), Z3T(20) DEF CallShape
<1>9. HeldClaims'
  <2>1. ASSUME NEW q \in Publishers, NEW x \in Held(q)', tok'[q] \notin expired'
        PROVE  claim'[x] = tok'[q] /\ x \notin done'
    <3>1. tok'[q] = tok[q] /\ x \in Held(q) /\ tok[q] \notin expired
      BY <1>0, <1>6, <1>7, <2>1
    <3>2. claim[x] = tok[q] /\ x \notin done
      BY <3>1 DEF HeldClaims
    <3>3. x # i \/ claim' = claim
      <4>1. CASE q = p
        BY <1>0, <1>1, <1>2, <4>1 DEF Held
      <4>2. CASE q # p
        BY <1>3, <3>1, <4>2, OneHolder
      <4> QED BY <4>1, <4>2
    <3>4. claim'[x] = claim[x]
      <4>1. x \in Ids
        BY <3>1 DEF Held, LogTypes
      <4> QED BY <1>3, <3>3, <4>1, SMTT(20) DEF LogTypes
    <3> QED BY <1>0, <3>1, <3>2, <3>4, SMTT(20)
  <2> QED BY <2>1 DEF HeldClaims
<1>10. TriesLeft'
  <2>1. ASSUME NEW x \in Ids
        PROVE  attempts'[x] <= MaxAttempts /\ (claim'[x] # NoToken => attempts'[x] < MaxAttempts)
    <3>1. CASE attempts' = attempts /\ claim' = claim
      BY <3>1 DEF TriesLeft
    <3>2. CASE /\ claim[i] = tok[p]
               /\ attempts' = [attempts EXCEPT ![i] = @ + 1]
               /\ claim' = [claim EXCEPT ![i] = NoToken]
      <4>1. attempts[i] < MaxAttempts /\ attempts[i] \in Nat /\ MaxAttempts \in Nat
        BY <1>2, <3>2, PositiveAttempts, SMTT(20) DEF TriesLeft, LogTypes
      <4> QED BY <3>2, <4>1 DEF TriesLeft, LogTypes
    <3> QED BY <1>3, <3>1, <3>2
  <2> QED BY <2>1 DEF TriesLeft
<1>11. Shown'
  BY <1>0 DEF Shown, InStream
<1>12. ASSUME NEW x \in Ids PROVE Balanced(x)'
  <2>1. Balanced(x) /\ doubts'[x] >= doubts[x]
    BY <1>0 DEF Balance, LogTypes
  <2>2. Copies(x)' = Copies(x) /\ Copies(x) \in Nat
    BY <1>0, StreamKept, SMTT(20) DEF LogTypes
  <2>3. CASE x = i
    <3>1. p \in Waiters(x) /\ Waiters(x)' \subseteq Waiters(x) \ {p}
      BY <1>0, <1>1, <1>2, <2>3, SMTT(20) DEF Waiters
    <3> QED BY <1>5, <2>1, <2>2, <3>1, BalancePaid
  <2>4. CASE x # i
    <3>1. Waiters(x)' \subseteq Waiters(x)
      BY <1>0, <1>1 DEF Waiters
    <3>2. claim'[x] = claim[x]
      BY <1>3, <2>4 DEF LogTypes
    <3>3. (x \notin done' /\ Unclaimed(x)') => (x \notin done /\ Unclaimed(x))
      BY <1>0, <3>2 DEF Unclaimed
    <3> QED BY <1>5, <2>1, <2>2, <3>1, <3>3, BalanceKept
  <2> QED BY <2>3, <2>4
<1> QED
  BY <1>5, <1>8, <1>9, <1>10, <1>11, <1>12 DEF Balance

\* A step of call p that lets go of rows and may settle some of those it appended: the
\* common part of marking rows published and of returning.
LetsGo(p, R, rest) ==
    /\ R \subseteq Settles(p)
    /\ rest = {} \/ (rest = toAdd[p] /\ failing[p] = {})
    /\ done' = done \cup R
    /\ claim' = [id \in Ids |-> IF id \in R THEN NoToken ELSE claim[id]]
    /\ added' = [added EXCEPT ![p] = {}]
    /\ toAdd' = [toAdd EXCEPT ![p] = rest]
    /\ failing' = [failing EXCEPT ![p] = {}]
    /\ tok' = [tok EXCEPT ![p] = IF rest = {} THEN NoToken ELSE tok[p]]
    /\ UNCHANGED <<log, attempts, expired, stream, doubts>>

LEMMA LetsGoKeeps ==
    ASSUME LogInv, NEW p \in Publishers, NEW R, NEW rest, LetsGo(p, R, rest)
    PROVE  LogInv'
<1> USE DEF LogInv
<1>r. rest = {} \/ (rest = toAdd[p] /\ failing[p] = {})
  BY Zenon DEF LetsGo
<1>q. rest \subseteq toAdd[p]
  BY <1>r, Zenon
<1>0. /\ done' = done \cup R
      /\ claim' = [id \in Ids |-> IF id \in R THEN NoToken ELSE claim[id]]
      /\ added' = [added EXCEPT ![p] = {}]
      /\ toAdd' = [toAdd EXCEPT ![p] = rest]
      /\ failing' = [failing EXCEPT ![p] = {}]
      /\ UNCHANGED <<log, attempts, expired, stream, doubts>>
  BY DEF LetsGo
<1>1. R \subseteq added[p] /\ R \subseteq Ids /\ \A id \in R : id \notin done /\ claim[id] = tok[p]
  BY DEF LetsGo, Settles, Matches, LogTypes
<1>2. /\ toAdd'[p] = rest /\ added'[p] = {} /\ failing'[p] = {}
      /\ \A q \in Publishers : q # p => /\ toAdd'[q] = toAdd[q]
                                         /\ failing'[q] = failing[q]
                                         /\ added'[q] = added[q]
  BY <1>0 DEF LogTypes
<1>3. \/ tok' = [tok EXCEPT ![p] = NoToken] /\ rest = {}
      \/ tok' = [tok EXCEPT ![p] = tok[p]] /\ rest # {}
  BY Zenon DEF LetsGo
<1>4. /\ \A q \in Publishers : q # p => tok'[q] = tok[q]
      /\ (tok'[p] = NoToken /\ rest = {}) \/ (tok'[p] = tok[p] /\ rest # {})
      /\ tok' \in [Publishers -> Tokens \cup {NoToken}]
  BY <1>3, Zenon DEF LogTypes
<1>5. LogTypes'
  <2>1. /\ added' \in [Publishers -> SUBSET Ids] /\ toAdd' \in [Publishers -> SUBSET Ids]
        /\ failing' \in [Publishers -> SUBSET Ids]
    BY <1>0, <1>q, Zenon DEF LogTypes
  <2>2. claim' \in [Ids -> Tokens \cup {NoToken}] /\ done' \subseteq Ids
    BY <1>0, <1>1, Zenon DEF LogTypes
  <2> QED BY <1>0, <1>4, <2>1, <2>2, ZenonT(30) DEF LogTypes
<1>6. /\ \A q \in Publishers : Held(q)' \subseteq Held(q)
      /\ Held(p)' = rest
  <2>1. Held(p)' = rest /\ Held(p)' \subseteq Held(p)
    BY <1>2, <1>q, Zenon DEF Held
  <2>2. \A q \in Publishers : q # p => Held(q)' = Held(q)
    BY <1>2, Zenon DEF Held
  <2> QED BY <2>1, <2>2, Zenon
<1>7. CallShape'
  <2>1. \A q \in Publishers :
          /\ Held(q)' \subseteq log'
          /\ tok'[q] = NoToken => Idle(q)'
          /\ \A id \in added'[q] : id \notin toAdd'[q] /\ id \notin failing'[q]
          /\ failing'[q] # {} => toAdd'[q] = {}
          /\ q \in Batching /\ toAdd'[q] # {} => added'[q] = {}
    <3>1. ASSUME NEW q \in Publishers, q # p
          PROVE  /\ Held(q)' \subseteq log'
                 /\ tok'[q] = NoToken => Idle(q)'
                 /\ \A id \in added'[q] : id \notin toAdd'[q] /\ id \notin failing'[q]
                 /\ failing'[q] # {} => toAdd'[q] = {}
                 /\ q \in Batching /\ toAdd'[q] # {} => added'[q] = {}
      <4>1. /\ toAdd'[q] = toAdd[q] /\ failing'[q] = failing[q] /\ added'[q] = added[q]
            /\ tok'[q] = tok[q] /\ log' = log /\ Held(q)' \subseteq Held(q)
        BY <1>0, <1>2, <1>4, <1>6, <3>1, ZenonT(30)
      <4> QED BY <4>1, Zenon DEF CallShape, Idle
    <3>2. /\ Held(p)' \subseteq log' /\ (tok'[p] = NoToken => Idle(p)')
          /\ added'[p] = {} /\ failing'[p] = {}
      <4>1. log' = log /\ Held(p)' \subseteq Held(p) /\ Held(p) \subseteq log
        BY <1>0, <1>6, Zenon DEF CallShape
      <4>2. tok'[p] = NoToken => rest = {}
        <5>1. CASE rest = {}
          BY <5>1
        <5>2. CASE rest # {}
          <6>1. tok'[p] = tok[p] /\ rest = toAdd[p]
            BY <1>r, <1>4, <5>2, Zenon
          <6>2. tok[p] # NoToken
            BY <5>2, <6>1, Zenon DEF CallShape, Idle
          <6> QED BY <6>1, <6>2
        <5> QED BY <5>1, <5>2
      <4> QED BY <1>2, <4>1, <4>2, Zenon DEF Idle
    <3> QED BY <3>1, <3>2, ZenonT(30)
  <2>2. \A q, r \in Publishers : q # r /\ tok'[q] = tok'[r] => tok'[q] = NoToken
    BY <1>4, ZenonT(30) DEF CallShape
  <2> QED BY <2>1, <2>2 DEF CallShape
<1>8. HeldClaims'
  <2>1. ASSUME NEW q \in Publishers, NEW x \in Held(q)', tok'[q] \notin expired'
        PROVE  claim'[x] = tok'[q] /\ x \notin done'
    <3>1. tok'[q] = tok[q] /\ x \in Held(q) /\ tok[q] \notin expired
      <4>1. tok'[q] = tok[q]
        <5>1. CASE q = p
          BY <1>4, <1>6, <2>1, <5>1, Zenon
        <5>2. CASE q # p
          BY <1>4, <5>2, Zenon
        <5> QED BY <5>1, <5>2, Zenon
      <4>2. x \in Held(q)
        BY <1>6, <2>1, Zenon
      <4>3. expired' = expired
        BY <1>0, Zenon
      <4> QED BY <2>1, <4>1, <4>2, <4>3, Zenon
    <3>2. claim[x] = tok[q] /\ x \notin done /\ x \in Ids
      BY <3>1, Zenon DEF HeldClaims, Held, LogTypes
    <3>3. x \notin R
      <4>1. CASE q = p
        <5>1. x \in rest /\ rest = toAdd[p]
          BY <1>r, <1>6, <2>1, <4>1, Zenon
        <5> QED BY <1>1, <5>1, Zenon DEF CallShape
      <4>2. CASE q # p
        BY <1>1, <3>1, <4>2, OneHolder, SMTT(20)
      <4> QED BY <4>1, <4>2, Zenon
    <3>4. claim'[x] = claim[x] /\ x \notin done'
      BY <1>0, <3>2, <3>3, Zenon
    <3> QED BY <3>1, <3>2, <3>4, Zenon
  <2> QED BY <2>1, Zenon DEF HeldClaims
<1>9. TriesLeft'
  BY <1>0, SMTT(20) DEF TriesLeft
<1>10. Shown'
  BY <1>0, <1>1, <1>2, SMTT(20) DEF Shown, InStream
<1>11. ASSUME NEW x \in Ids PROVE Balanced(x)'
  <2>1. Balanced(x) /\ doubts'[x] >= doubts[x]
    BY <1>0 DEF Balance, LogTypes
  <2>2. Copies(x)' = Copies(x) /\ Copies(x) \in Nat
    BY <1>0, StreamKept DEF LogTypes
  <2>3. Waiters(x)' \subseteq Waiters(x)
    BY <1>2, <1>q DEF Waiters
  <2>4. (x \notin done' /\ Unclaimed(x)') => (x \notin done /\ Unclaimed(x))
    BY <1>0 DEF Unclaimed
  <2> QED BY <1>5, <2>1, <2>2, <2>3, <2>4, BalanceKept, Zenon
<1> QED
  BY <1>5, <1>7, <1>8, <1>9, <1>10, <1>11 DEF Balance

LEMMA MarkPublishedLetsGo ==
    ASSUME LogInv, NEW p \in Publishers, MarkPublished(p)
    PROVE  \E rest : LetsGo(p, Settles(p), rest)
<1>1. PICK rest : rest = IF Settles(p) = added[p] THEN toAdd[p] ELSE {}
  BY Zenon
<1>2. rest = {} \/ rest = toAdd[p]
  BY <1>1, Zenon
<1>3. /\ failing[p] = {}
      /\ done' = done \cup Settles(p)
      /\ claim' = [id \in Ids |-> IF id \in Settles(p) THEN NoToken ELSE claim[id]]
      /\ added' = [added EXCEPT ![p] = {}]
      /\ toAdd' = [toAdd EXCEPT ![p] = rest]
      /\ tok' = [tok EXCEPT ![p] = IF rest = {} THEN NoToken ELSE tok[p]]
  BY <1>1, Zenon DEF MarkPublished, Settle
<1>4. UNCHANGED <<log, attempts, expired, stream, failing, doubts>>
  BY DEF MarkPublished
<1>5. failing' = [failing EXCEPT ![p] = {}]
  BY <1>3, <1>4 DEF LogInv, LogTypes
<1>6. LetsGo(p, Settles(p), rest)
  BY <1>2, <1>3, <1>4, <1>5, Zenon DEF LetsGo
<1> QED
  BY <1>6

LEMMA MarkPublishedFailsLetsGo ==
    ASSUME LogInv, NEW p \in Publishers, MarkPublishedFails(p)
    PROVE  LetsGo(p, Settles(p), {})
  BY DEF MarkPublishedFails, Settle, Return, LetsGo

LEMMA AbandonLetsGo ==
    ASSUME LogInv, NEW p \in Publishers, Abandon(p)
    PROVE  LetsGo(p, {}, {})
<1>1. claim' = [id \in Ids |-> IF id \in {} THEN NoToken ELSE claim[id]]
  BY DEF LogInv, LogTypes, Abandon, rowVars
<1> QED
  BY <1>1 DEF Abandon, Return, LetsGo, rowVars

\* The invariant does not see the fault budget, which is the model's own.
LEMMA LogKept ==
    ASSUME LogInv, UNCHANGED <<rowVars, stream, callVars, doubts>>
    PROVE  LogInv'
<1> USE DEF rowVars, callVars, LogInv
<1>1. LogTypes' /\ TriesLeft'
  BY SMTT(20) DEF LogTypes, TriesLeft
<1>2. CallShape' /\ HeldClaims'
  BY SMTT(20) DEF CallShape, HeldClaims, Held, Idle
<1>3. Shown'
  BY DEF Shown, InStream
<1>4. Balance'
  BY DEF Balance, Balanced, Waiters, Free, Unclaimed, Copies
<1> QED BY <1>1, <1>2, <1>3, <1>4

LEMMA LogStep == LogInv /\ [Next]_vars => LogInv'
<1> SUFFICES ASSUME LogInv, [Next]_vars PROVE LogInv'
  OBVIOUS
<1>1. CASE UNCHANGED vars
  BY <1>1, LogKept DEF vars
<1>2. ASSUME NEW i \in Ids, AppendEvent(i) PROVE LogInv'
  BY <1>2, AppendEventKeeps
<1>3. ASSUME NEW p \in Publishers, Claim(p) PROVE LogInv'
  BY <1>3, ClaimKeeps, SMTT(20)
<1>4. ASSUME NEW t \in Tokens, ExpireClaim(t) PROVE LogInv'
  BY <1>4, ExpireClaimKeeps
<1>5. ASSUME NEW p \in Publishers, CallStep(p) PROVE LogInv'
  <2>1. ASSUME NEW i \in Ids, XAdd(p, i) PROVE LogInv'
    BY <2>1, XAddKeeps
  <2>2. ASSUME NEW i \in Ids, NEW landed \in BOOLEAN, XAddFails(p, i, landed) PROVE LogInv'
    BY <2>2, XAddFailsKeeps
  <2>3. ASSUME NEW landed \in SUBSET toAdd[p], NEW ok \in SUBSET landed, XAddMany(p, landed, ok)
        PROVE  LogInv'
    BY <2>3, XAddManyKeeps
  <2>4. ASSUME NEW i \in Ids, NEW applied \in BOOLEAN, MarkPublishFailed(p, i, applied)
        PROVE  LogInv'
    BY <2>4, MarkPublishFailedKeeps
  <2>5. CASE MarkPublished(p)
    BY <2>5, MarkPublishedLetsGo, LetsGoKeeps
  <2>6. CASE MarkPublishedFails(p)
    BY <2>6, MarkPublishedFailsLetsGo, LetsGoKeeps
  <2>7. CASE Abandon(p)
    BY <2>7, AbandonLetsGo, LetsGoKeeps
  <2> QED BY <1>5, <2>1, <2>2, <2>3, <2>4, <2>5, <2>6, <2>7 DEF CallStep
<1> QED
  BY <1>1, <1>2, <1>3, <1>4, <1>5 DEF Next

-----------------------------------------------------------------------------
(* Theorems.                                                               *)

\* Whatever the number of drainers, rows, tokens and faults, the invariant holds in
\* every state of the event log.
THEOREM LogInvariance == Spec => []LogInv
  BY LogInit, LogStep, PTL DEF Spec

LEMMA HeldAlone == LogInv => ClaimExclusive
<1> SUFFICES ASSUME LogInv PROVE ClaimExclusive
  OBVIOUS
<1>1. ASSUME NEW p \in Publishers, NEW x \in Held(p), tok[p] \notin expired
      PROVE  /\ x \notin done /\ claim[x] = tok[p]
             /\ \A q \in Publishers \ {p} : x \in Held(q) => tok[q] \in expired
  <2>1. x \notin done /\ claim[x] = tok[p]
    BY <1>1 DEF LogInv, HeldClaims
  <2>2. ASSUME NEW q \in Publishers \ {p}, x \in Held(q), tok[q] \notin expired PROVE FALSE
    BY <2>1, <2>2, OneHolder DEF LogInv
  <2> QED BY <2>1, <2>2
<1> QED BY <1>1 DEF ClaimExclusive

\* Concurrent PublishPending calls exclude one another from a row for as long as their
\* claims last: claimPendingRows and the token in the claimed updates suffice.
THEOREM ClaimCorrect == Spec => []ClaimExclusive
  BY HeldAlone, LogInvariance, PTL

LEMMA CopiesCovered == LogInv => CopiesExplained
<1> SUFFICES ASSUME LogInv, NEW x \in Ids PROVE Copies(x) <= 1 + doubts[x]
  BY DEF CopiesExplained
<1>1. Copies(x) \in Nat /\ doubts[x] \in Nat
  <2>1. Len(stream) \in Nat /\ DOMAIN stream = 1..Len(stream)
    BY DEF LogInv, LogTypes
  <2>2. IsFiniteSet(1..Len(stream))
    BY <2>1, FS_Interval
  <2>3. IsFiniteSet({i \in DOMAIN stream : stream[i] = x})
    BY <2>1, <2>2, FS_Subset
  <2> QED BY <2>3, FS_CardinalityType DEF Copies, LogInv, LogTypes
<1>2. Cardinality(Waiters(x)) \in Nat
  BY CallsCount DEF Waiters
<1>3. Free(x) \in {0, 1}
  BY FreeCounts
<1> QED BY <1>1, <1>2, <1>3 DEF LogInv, Balance, Balanced

\* A fact is in the stream once, plus at most once for each claim on it that ran out and
\* each append whose success was reported as a failure.
THEOREM CopiesCorrect == Spec => []CopiesExplained
  BY CopiesCovered, LogInvariance, PTL

LEMMA TriesCounted == LogInv => AttemptsBounded
  BY DEF LogInv, TriesLeft, AttemptsBounded

\* Late failure marks do not drive publish_attempts past the limit the claim query
\* compares it with.
THEOREM AttemptsCorrect == Spec => []AttemptsBounded
  BY TriesCounted, LogInvariance, PTL

\* Every step of the log is a step of the outbox it promises or changes nothing there.
LEMMA OutboxStep ==
    ASSUME LogInv, LogInv', [Next]_vars
    PROVE  [OutboxOfLog!Next]_<<log, {id \in Ids : InStream(id)}, done>>
<1> DEFINE V == {id \in Ids : InStream(id)}
<1> USE DEF OutboxOfLog!Next, OutboxOfLog!Commit, OutboxOfLog!Show, OutboxOfLog!Settle
<1>0. stream \in Seq(Ids) /\ (stream' = stream => V' = V)
  BY DEF LogInv, LogTypes, InStream
<1>1. CASE UNCHANGED vars
  BY <1>0, <1>1 DEF vars, rowVars
<1>2. ASSUME NEW i \in Ids, AppendEvent(i) PROVE OutboxOfLog!Commit
  BY <1>0, <1>2 DEF AppendEvent
<1>3. ASSUME NEW p \in Publishers, Claim(p) PROVE UNCHANGED <<log, V, done>>
  BY <1>0, <1>3, SMTT(20) DEF Claim
<1>4. ASSUME NEW t \in Tokens, ExpireClaim(t) PROVE UNCHANGED <<log, V, done>>
  BY <1>0, <1>4, ZenonT(30) DEF ExpireClaim
<1>5. ASSUME NEW p \in Publishers, CallStep(p)
      PROVE  OutboxOfLog!Show \/ OutboxOfLog!Settle \/ UNCHANGED <<log, V, done>>
  <2>0. toAdd[p] \subseteq log /\ toAdd[p] \subseteq Ids /\ (\A id \in added[p] : id \in V)
    BY DEF LogInv, LogTypes, CallShape, Held, Shown
  <2>1. ASSUME NEW i \in Ids, XAdd(p, i) PROVE OutboxOfLog!Show
    <3>1. V' = V \cup {i} /\ {i} \in SUBSET log /\ log' = log /\ done' = done
      BY <1>0, <2>0, <2>1, OneAppended, Zenon DEF XAdd, rowVars
    <3> QED BY <3>1, Zenon
  <2>2. ASSUME NEW i \in Ids, NEW landed \in BOOLEAN, XAddFails(p, i, landed)
        PROVE  OutboxOfLog!Show \/ UNCHANGED <<log, V, done>>
    <3>1. i \in toAdd[p] /\ log' = log /\ done' = done
      BY <2>2, Zenon DEF XAddFails, rowVars
    <3>2. stream' = stream \/ stream' = Append(stream, i)
      BY <2>2, Zenon DEF XAddFails
    <3>3. CASE stream' = Append(stream, i)
      <4>1. V' = V \cup {i} /\ {i} \in SUBSET log
        BY <1>0, <2>0, <3>1, <3>3, OneAppended
      <4> QED BY <3>1, <4>1, Zenon
    <3> QED BY <1>0, <3>1, <3>2, <3>3, ZenonT(30)
  <2>3. ASSUME NEW landed \in SUBSET toAdd[p], NEW ok \in SUBSET landed, XAddMany(p, landed, ok)
        PROVE  OutboxOfLog!Show
    <3>1. PICK s \in Orders(landed) : stream' = stream \o s
      BY <2>3, SMTT(20) DEF XAddMany
    <3>2. PICK n \in Nat : /\ s \in [1..n -> Ids]
                           /\ \A i, j \in 1..n : s[i] = s[j] => i = j
                           /\ \A x : x \in landed <=> \E i \in 1..n : s[i] = x
      BY <2>0, OrderLists, SMTT(20)
    <3>3. \A x : InStream(x)' <=> InStream(x) \/ \E i \in 1..n : s[i] = x
      BY <1>0, <3>1, <3>2, StreamGrows, ZenonT(30)
    <3>4. V' = V \cup landed /\ landed \in SUBSET log
      BY <2>0, <3>2, <3>3
    <3>5. log' = log /\ done' = done
      BY <2>3 DEF XAddMany, rowVars
    <3> QED BY <3>4, <3>5
  <2>4. ASSUME NEW i \in Ids, NEW applied \in BOOLEAN, MarkPublishFailed(p, i, applied)
        PROVE  UNCHANGED <<log, V, done>>
    BY <1>0, <2>4 DEF MarkPublishFailed
  <2>5. ASSUME NEW R, NEW rest, LetsGo(p, R, rest) PROVE OutboxOfLog!Settle
    <3>1. R \in SUBSET V /\ done' = done \cup R /\ log' = log /\ V' = V
      BY <1>0, <2>0, <2>5 DEF LetsGo, Settles
    <3> QED BY <3>1
  <2>6. MarkPublished(p) \/ MarkPublishedFails(p) \/ Abandon(p) => OutboxOfLog!Settle
    BY <2>5, MarkPublishedLetsGo, MarkPublishedFailsLetsGo, AbandonLetsGo
  <2> QED BY <1>5, <2>1, <2>2, <2>3, <2>4, <2>6, ZenonT(30) DEF CallStep
<1> QED
  BY <1>1, <1>2, <1>3, <1>4, <1>5 DEF Next

LEMMA OutboxStart == Init => OutboxOfLog!Init
<1>1. Init => {id \in Ids : InStream(id)} = {}
  <2>1. Init => DOMAIN stream = {}
    BY DEF Init
  <2> QED BY <2>1, Zenon DEF InStream
<1> QED BY <1>1 DEF Init, OutboxOfLog!Init

\* The event log implements the outbox for every number of drainers: no fact reads as
\* published before its envelope is in the stream, none is in the stream before its
\* transaction committed, and nothing is taken back.
THEOREM OutboxImplemented == Spec => ImplementsOutbox
<1>1. LogInv /\ LogInv' /\ [Next]_vars
        => [OutboxOfLog!Next]_<<log, {id \in Ids : InStream(id)}, done>>
  BY OutboxStep
<1> QED
  BY OutboxStart, <1>1, LogInvariance, PTL DEF Spec, ImplementsOutbox, OutboxOfLog!Spec
=============================================================================
