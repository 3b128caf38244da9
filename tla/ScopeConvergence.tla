-------------------------- MODULE ScopeConvergence --------------------------
(***************************************************************************)
(* One process writes, another converges: command writes of the first      *)
(* commit and are announced on its lane (ScopeSignal), the bus delivers    *)
(* the announcements in order to the second, whose sweeper (MirrorSweep)   *)
(* reads the shared tables.  Other writers (migrations, admin SQL) commit  *)
(* without announcing.                                                     *)
(***************************************************************************)
EXTENDS ScopeSignal, MirrorSweep

CONSTANT MaxRare  \* model bound: failures, restarts, shutdowns, callers, other writers

ASSUME SourcesRegistered == Registered = Sources
ASSUME RareBound == MaxRare \in Nat

VARIABLE rare  \* such events so far

convVars == <<signalVars, sweepVars, rare>>

ConvInit == SignalInit /\ SweepInit /\ rare = 0

Rare == rare < MaxRare /\ rare' = rare + 1

\* A command write: announceCommand runs on the writer's goroutine once the write
\* has committed.
CommandWrite(w, s, r) ==
    /\ Commit(s, r)
    /\ OnCommandWrite(w, s)
    /\ UNCHANGED rare

\* receive: the announcement of another node flags the source.
Deliver ==
    /\ bus # <<>>
    /\ NotifyFlag(Head(bus))
    /\ bus' = Tail(bus)
    /\ UNCHANGED <<wrote, marked, pending, queue, holding, cleared, closed, owed, rare>>

LaneStep == (SignalStep \/ Publish(TRUE)) /\ UNCHANGED <<sweepVars, rare>>

IntakeStep == Deliver \/ (NotifyWake /\ UNCHANGED <<signalVars, rare>>)

CallerStep(w) == WorkStep(w) /\ UNCHANGED <<signalVars, rare>>

LoopStep == RunStep /\ UNCHANGED <<signalVars, rare>>

\* An announcement is given up, a process ends, a sweep fails or is asked for by a
\* caller, a row is written by somebody who does not announce it.
SweeperEvent ==
    \/ Restart
    \/ \E s \in Sources : \E r \in 1..MaxStamp[s] : Commit(s, r)
    \/ \E w \in Workers : EndSweep(w, FALSE)
    \/ \E w \in Callers, s \in Sources : SweepSource(w, s)

ConvNext ==
    \/ \E w \in Writers, s \in Sources : \E r \in 1..MaxStamp[s] : CommandWrite(w, s, r)
    \/ LaneStep \/ IntakeStep \/ LoopStep
    \/ \E w \in Callers : CallerStep(w)
    \/ Rare /\ \/ (Publish(FALSE) \/ Close) /\ UNCHANGED sweepVars
               \/ SweeperEvent /\ UNCHANGED signalVars

ConvSpec == ConvInit /\ [][ConvNext]_convVars

\* As long as Run or a caller can take a step, one of them does; the reconcile timer
\* fires.  The announcements need no fairness: they only make convergence faster.
\* Callers that never stop calling could keep Run from a mutex: MaxRare bounds them.
FairConvSpec == ConvSpec /\ WF_convVars(LoopStep \/ \E w \in Callers : CallerStep(w))

-----------------------------------------------------------------------------
(* Properties.                                                             *)

\* Announced or not, dropped, failed or folded, every row that is visible is pushed
\* in the end through the converging process's store, except the late ones: the
\* reconcile pass is enough.
Converges == <>[](\A s \in Sources : rows[s] \subseteq mirrored[s] \cup late[s])
=============================================================================
