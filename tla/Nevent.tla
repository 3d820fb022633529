------------------------------- MODULE Nevent -------------------------------
(***************************************************************************)
(* Nevent (src/src/nevent.cxx): an event built from a pthread mutex and a  *)
(* condition variable.  Every method holds m_accessMutex from its first    *)
(* access of the event to its last, and only pthread_cond_[timed]wait lets *)
(* go of it in between, so an action is one stretch of code between taking *)
(* and releasing the mutex.  Taking the mutex again after a wakeup or a    *)
(* timeout is such a stretch of its own: others run before it.             *)
(*                                                                         *)
(* m_eventUnion is `state': m_countingEvent, or 1 and 0 for a true and a   *)
(* false m_boolEvent.                                                      *)
(***************************************************************************)
EXTENDS Integers, FiniteSets

CONSTANTS
    Threads,        \* the threads that use the event
    MaxState        \* BOUND: no event is made with a higher count, or signalled to one

ASSUME ThreadsFinite == IsFiniteSet(Threads)
ASSUME StateAssumption == MaxState \in Nat

VARIABLES
    kind,    \* m_isCountingEvent and m_isManualReset, which the constructor sets
    state,   \* m_eventUnion
    pc,      \* where each thread is: see TypeOK
    timed,   \* timed[t]: timedWait of the wait() t is, or was last, in
    result   \* result[t]: what the last wait() of t returned

vars == <<kind, state, pc, timed, result>>

Kinds == [counting : BOOLEAN, manual : BOOLEAN]
Counting == kind.counting
Manual   == kind.manual

\* Threads in the condition's queue; woken from it; removed by a timeout.
Blocked == {t \in Threads : pc[t] = "blocked"}
Awake   == {t \in Threads : pc[t] = "awake"}
Expired == {t \in Threads : pc[t] = "expired"}

TypeOK ==
    /\ kind \in Kinds
    /\ state \in Nat
    /\ pc \in [Threads -> {"out", "blocked", "awake", "expired"}]
    /\ timed \in [Threads -> BOOLEAN]
    /\ result \in [Threads -> {"none", "TRUE", "FALSE"}]

Init ==
    /\ kind \in Kinds
    /\ \E theInitialState \in 0 .. MaxState :
           state = IF Counting THEN theInitialState ELSE IF theInitialState > 0 THEN 1 ELSE 0
    /\ pc = [t \in Threads |-> "out"]
    /\ timed = [t \in Threads |-> FALSE]
    /\ result = [t \in Threads |-> "none"]

-----------------------------------------------------------------------------
\* pthread_cond_signal: moves one thread out of the queue, if there is one.
\* `seats' is pc as the caller leaves it otherwise.
CondSignal(seats) ==
    IF \E w \in Threads : seats[w] = "blocked"
    THEN \E w \in Threads :
            /\ seats[w] = "blocked"
            /\ pc' = [seats EXCEPT ![w] = "awake"]
    ELSE pc' = seats

\* changeBoolEventState(): only a signalled event is worth a wakeup.
ChangeBoolEventState(newState) ==
    /\ state' = newState
    /\ IF newState = 1 THEN CondSignal(pc) ELSE pc' = pc

\* A counter that trusts its caller and is decremented below 0.
ChangeCountUnguarded(change) ==
    /\ state' = state + change
    /\ IF change > 0 THEN CondSignal(pc) ELSE pc' = pc

\* changeCountingEventState(): a count that is 0 is not decremented.
ChangeCountingEventState(change) ==
    IF change > 0 \/ state >= -change
    THEN /\ state' = state + change
         /\ IF change > 0 THEN CondSignal(pc) ELSE pc' = pc
    ELSE UNCHANGED <<state, pc>>

\* resetCountingEventState()
ResetCountingEventState == state' = 0 /\ pc' = pc

\* signal()
Signal(t) ==
    /\ pc[t] = "out"
    /\ IF Counting THEN state < MaxState /\ ChangeCountingEventState(1)
                   ELSE ChangeBoolEventState(1)
    /\ UNCHANGED <<kind, timed, result>>

\* unsignal()
Unsignal(t) ==
    /\ pc[t] = "out"
    /\ IF Counting THEN ChangeCountingEventState(-1) ELSE ChangeBoolEventState(0)
    /\ UNCHANGED <<kind, timed, result>>

\* reset()
Reset(t) ==
    /\ pc[t] = "out"
    /\ IF Counting THEN ResetCountingEventState ELSE ChangeBoolEventState(0)
    /\ UNCHANGED <<kind, timed, result>>

\* A manual-reset wait that leaves waking the others to signal().
PassWithoutChain(t) ==
    /\ result' = [result EXCEPT ![t] = "TRUE"]
    /\ state' = IF Manual THEN state ELSE IF Counting THEN state - 1 ELSE 0
    /\ pc' = [pc EXCEPT ![t] = "out"]

\* The end of wait() for a thread that found the event signalled: a manual
\* event lets the next waiter through, another one gives up one signal.
Pass(t) ==
    /\ result' = [result EXCEPT ![t] = "TRUE"]
    /\ IF Manual
       THEN /\ state' = state
            /\ CondSignal([pc EXCEPT ![t] = "out"])
       ELSE /\ state' = IF Counting THEN state - 1 ELSE 0
            /\ pc' = [pc EXCEPT ![t] = "out"]

\* wait() up to its return, or to its first block on the condition.
WaitCall(t) ==
    /\ pc[t] = "out"
    /\ \E b \in BOOLEAN : timed' = [timed EXCEPT ![t] = b]
    /\ UNCHANGED kind
    /\ IF state > 0
       THEN Pass(t)
       ELSE /\ pc' = [pc EXCEPT ![t] = "blocked"]
            /\ UNCHANGED <<state, result>>

\* The condition wait returned 0: the loop looks at the event again.
Resume(t) ==
    /\ pc[t] = "awake"
    /\ IF state > 0
       THEN Pass(t)
       ELSE /\ pc' = [pc EXCEPT ![t] = "blocked"]
            /\ UNCHANGED <<state, result>>
    /\ UNCHANGED <<kind, timed>>

\* POSIX lets a condition wait return although nobody signalled.
SpuriousWakeup(t) ==
    /\ pc[t] = "blocked"
    /\ pc' = [pc EXCEPT ![t] = "awake"]
    /\ UNCHANGED <<kind, state, timed, result>>

\* The deadline passes: pthread_cond_timedwait takes t out of the queue.
TimeOut(t) ==
    /\ pc[t] = "blocked"
    /\ timed[t]
    /\ pc' = [pc EXCEPT ![t] = "expired"]
    /\ UNCHANGED <<kind, state, timed, result>>

\* A timed-out waiter that takes the signal it finds and still returns false.
GiveUpTaking(t) ==
    /\ pc[t] = "expired"
    /\ pc' = [pc EXCEPT ![t] = "out"]
    /\ result' = [result EXCEPT ![t] = "FALSE"]
    /\ state' = IF state > 0 /\ ~Manual THEN state - 1 ELSE state
    /\ UNCHANGED <<kind, timed>>

\* wait() returns false and takes nothing, even if the event is set by now.
GiveUp(t) ==
    /\ pc[t] = "expired"
    /\ pc' = [pc EXCEPT ![t] = "out"]
    /\ result' = [result EXCEPT ![t] = "FALSE"]
    /\ UNCHANGED <<kind, state, timed>>

Next ==
    \E t \in Threads :
        \/ Signal(t)
        \/ Unsignal(t)
        \/ Reset(t)
        \/ WaitCall(t)
        \/ Resume(t)
        \/ SpuriousWakeup(t)
        \/ TimeOut(t)
        \/ GiveUp(t)

(***************************************************************************)
(* A thread that no longer blocks is scheduled until it has returned.  The *)
(* deadline is absolute (endTime, computed once), so a timed wait cannot   *)
(* be put off for ever by being woken and blocking again: strong fairness. *)
(***************************************************************************)
Fairness ==
    \A t \in Threads :
        /\ WF_vars(Resume(t))
        /\ WF_vars(GiveUp(t))
        /\ SF_vars(TimeOut(t))

SafeSpec == Init /\ [][Next]_vars

Spec == SafeSpec /\ Fairness

-----------------------------------------------------------------------------
(***************************************************************************)
(* No lost wakeup.  While threads sit in the condition's queue, an         *)
(* auto-reset event has at least one thread on its way out of the queue    *)
(* for every signal it holds, and a signalled manual-reset event at least  *)
(* one to hand the wakeup on (nevent.cxx:176, 212, 239).                   *)
(***************************************************************************)
NoLostWakeup ==
    Blocked # {} =>
        IF Manual THEN state > 0 => Awake # {}
                  ELSE Cardinality(Awake) >= state

\* What the mutex and the condition variable implement.
Contract == INSTANCE EventContract WITH waiting <- Blocked \cup Awake \cup Expired

(***************************************************************************)
(* Nevent implements EventContract (nevent.h:19-44): only a wait with a    *)
(* timeout returns false, and then it took no signal from the others; one  *)
(* that returns true found the event signalled and took its one signal; a  *)
(* signalled event lets waiters through; a wait with a timeout ends.       *)
(***************************************************************************)
ImplementsContract == Contract!Spec
=============================================================================
