---------------------------- MODULE NeventProofs ----------------------------
(***************************************************************************)
(* Proofs about Nevent for every finite set of threads and every bound;    *)
(* the kind of event and its first count are chosen in Init.               *)
(***************************************************************************)
EXTENDS Nevent, FiniteSetTheorems, TLAPS

(***************************************************************************)
(* The variables keep their types; m_countingEvent is never decremented    *)
(* below 0.                                                                *)
(***************************************************************************)
THEOREM TypeCorrect == SafeSpec => []TypeOK
<1>1. Init => TypeOK
  BY StateAssumption DEF Init, TypeOK
<1>2. TypeOK /\ [Next]_vars => TypeOK'
  <2> SUFFICES ASSUME TypeOK, [Next]_vars PROVE TypeOK'
    OBVIOUS
  <2> USE DEF TypeOK, Counting, Manual
  <2>1. CASE UNCHANGED vars
    BY <2>1 DEF vars
  <2>2. ASSUME NEW t \in Threads, Signal(t) \/ Unsignal(t) \/ Reset(t) PROVE TypeOK'
    BY <2>2 DEF Signal, Unsignal, Reset, ChangeCountingEventState, ChangeBoolEventState,
                ResetCountingEventState, CondSignal
  <2>3. ASSUME NEW t \in Threads, WaitCall(t) PROVE TypeOK'
    BY <2>3 DEF WaitCall, Pass, CondSignal
  <2>4. ASSUME NEW t \in Threads, Resume(t) PROVE TypeOK'
    BY <2>4 DEF Resume, Pass, CondSignal
  <2>5. ASSUME NEW t \in Threads, SpuriousWakeup(t) \/ TimeOut(t) \/ GiveUp(t)
        PROVE  TypeOK'
    BY <2>5 DEF SpuriousWakeup, TimeOut, GiveUp
  <2>6. QED
    BY <2>1, <2>2, <2>3, <2>4, <2>5 DEF Next
<1>3. QED
  BY <1>1, <1>2, PTL DEF SafeSpec

-----------------------------------------------------------------------------
(* No lost wakeup *)

\* Awake is finite, so its size can be compared.
LEMMA AwakeFinite == IsFiniteSet(Awake) /\ Cardinality(Awake) \in Nat
BY ThreadsFinite, FS_Subset, FS_CardinalityType DEF Awake

\* One more thread awake: whoever is woken was asleep before.
LEMMA OneMoreAwake ==
    ASSUME NEW w \in Threads, w \notin Awake, Awake' = Awake \cup {w}
    PROVE  Cardinality(Awake') = Cardinality(Awake) + 1 /\ Awake' # {}
BY AwakeFinite, FS_AddElement

\* pthread_cond_signal wakes a thread unless nobody waits.
LEMMA SignalWakes ==
    ASSUME TypeOK, CondSignal(pc)
    PROVE  \/ Blocked' = {} /\ Awake' = Awake
           \/ /\ Cardinality(Awake') = Cardinality(Awake) + 1
              /\ Awake' # {}
<1>1. CASE \E w \in Threads : pc[w] = "blocked"
  <2>1. PICK w \in Threads : pc[w] = "blocked" /\ pc' = [pc EXCEPT ![w] = "awake"]
    BY <1>1 DEF CondSignal
  <2>2. w \notin Awake /\ Awake' = Awake \cup {w}
    BY <2>1 DEF Awake, TypeOK
  <2>3. QED
    BY <2>2, OneMoreAwake
<1>2. CASE ~\E w \in Threads : pc[w] = "blocked"
  BY <1>2 DEF CondSignal, Blocked, Awake
<1>3. QED
  BY <1>1, <1>2

\* Nobody is woken, nobody blocks, and the event is not raised.
LEMMA WakeupKept ==
    ASSUME TypeOK, NoLostWakeup, kind' = kind, state' \in Nat, state' <= state,
           Blocked' \subseteq Blocked, Awake' = Awake
    PROVE  NoLostWakeup'
<1>1. CASE Manual
  BY <1>1 DEF NoLostWakeup, Manual, TypeOK
<1>2. CASE ~Manual
  BY <1>2, AwakeFinite DEF NoLostWakeup, Manual, TypeOK
<1>3. QED
  BY <1>1, <1>2

LEMMA WakeupSignal ==
    ASSUME TypeOK, NoLostWakeup, NEW t \in Threads, Signal(t)
    PROVE  NoLostWakeup'
<1>1. CondSignal(pc) /\ kind' = kind /\ (state' = state + 1 \/ state' = 1)
  BY DEF Signal, ChangeCountingEventState, ChangeBoolEventState
<1>2. CASE Blocked' = {}
  BY <1>2 DEF NoLostWakeup
<1>3. CASE Blocked' # {}
  <2>1. Cardinality(Awake') = Cardinality(Awake) + 1 /\ Awake' # {}
    BY <1>1, <1>3, SignalWakes
  <2>2. Blocked # {}
    BY <1>1, <1>3 DEF CondSignal, Blocked, TypeOK
  <2>3. ~Manual => Cardinality(Awake) >= state
    BY <2>2 DEF NoLostWakeup
  <2>4. ~Manual => Cardinality(Awake') >= state'
    BY <1>1, <2>1, <2>3, AwakeFinite DEF TypeOK
  <2>5. QED
    BY <1>1, <2>1, <2>4 DEF NoLostWakeup, Manual
<1>4. QED
  BY <1>2, <1>3

LEMMA WakeupLower ==
    ASSUME TypeOK, NoLostWakeup, NEW t \in Threads, Unsignal(t) \/ Reset(t)
    PROVE  NoLostWakeup'
<1>1. state' \in Nat /\ state' <= state /\ UNCHANGED <<kind, pc>>
  BY DEF Unsignal, Reset, ChangeCountingEventState, ChangeBoolEventState,
         ResetCountingEventState, TypeOK
<1>2. QED
  BY <1>1, WakeupKept DEF Blocked, Awake

\* A thread that blocks has seen the event unsignalled.
LEMMA WakeupBlock ==
    ASSUME state = 0, state' = state
    PROVE  NoLostWakeup'
<1>1. Cardinality(Awake)' \in Nat
  <2>1. Awake' \subseteq Threads
    BY DEF Awake
  <2>2. QED
    BY <2>1, ThreadsFinite, FS_Subset, FS_CardinalityType
<1>2. QED
  BY <1>1 DEF NoLostWakeup

\* A wait() that succeeds uses up one signal, or hands a manual one on; `seat'
\* is what the thread was: out, or awake.
LEMMA WakeupPass ==
    ASSUME TypeOK, NoLostWakeup, NEW t \in Threads, pc[t] \in {"out", "awake"},
           state > 0, Pass(t), kind' = kind
    PROVE  NoLostWakeup'
<1>1. CASE Manual
  <2>1. CondSignal([pc EXCEPT ![t] = "out"])
    BY <1>1 DEF Pass
  <2>2. Blocked' # {} => Awake' # {}
    BY <2>1 DEF CondSignal, Blocked, Awake, TypeOK
  <2>3. QED
    BY <1>1, <2>2 DEF NoLostWakeup, Manual
<1>2. CASE ~Manual
  <2>1. /\ state' = 0 \/ (state' \in Nat /\ state' <= state - 1)
        /\ pc' = [pc EXCEPT ![t] = "out"]
    BY <1>2 DEF Pass, TypeOK
  <2>2. Blocked' = Blocked /\ Awake' = Awake \ {t}
    BY <2>1 DEF Blocked, Awake, TypeOK
  <2>3. Cardinality(Awake') \in Nat /\ Cardinality(Awake') >= Cardinality(Awake) - 1
    <3>1. CASE t \in Awake
      <4>1. Cardinality(Awake \ {t}) = Cardinality(Awake) - 1
        BY <3>1, AwakeFinite, FS_RemoveElement
      <4>2. Cardinality(Awake \ {t}) \in Nat
        BY AwakeFinite, FS_RemoveElement, FS_CardinalityType, FS_Subset
      <4>3. QED
        BY <2>2, <4>1, <4>2, AwakeFinite
    <3>2. CASE t \notin Awake
      <4>1. Awake' = Awake
        BY <2>2, <3>2
      <4>2. QED
        BY <4>1, AwakeFinite
    <3>3. QED
      BY <3>1, <3>2
  <2>4. QED
    BY <1>2, <2>1, <2>2, <2>3, AwakeFinite DEF NoLostWakeup, Manual, TypeOK
<1>3. QED
  BY <1>1, <1>2

LEMMA WakeupWait ==
    ASSUME TypeOK, NoLostWakeup, NEW t \in Threads, WaitCall(t) \/ Resume(t)
    PROVE  NoLostWakeup'
<1>1. pc[t] \in {"out", "awake"} /\ kind' = kind
  BY DEF WaitCall, Resume
<1>2. CASE state > 0
  <2>1. Pass(t)
    BY <1>2 DEF WaitCall, Resume
  <2>2. QED
    BY <1>1, <1>2, <2>1, WakeupPass
<1>3. CASE ~(state > 0)
  <2>1. state = 0 /\ state' = state
    BY <1>3 DEF WaitCall, Resume, TypeOK
  <2>2. QED
    BY <2>1, WakeupBlock
<1>4. QED
  BY <1>2, <1>3

\* Leaving the condition's queue wakes nobody else up, or is itself a wakeup.
LEMMA WakeupLeave ==
    ASSUME TypeOK, NoLostWakeup, NEW t \in Threads,
           SpuriousWakeup(t) \/ TimeOut(t) \/ GiveUp(t)
    PROVE  NoLostWakeup'
<1>1. CASE SpuriousWakeup(t)
  <2>1. /\ state' = state /\ kind' = kind /\ pc[t] = "blocked"
        /\ pc' = [pc EXCEPT ![t] = "awake"]
    BY <1>1 DEF SpuriousWakeup
  <2>2. Blocked # {} /\ t \notin Awake /\ Awake' = Awake \cup {t}
    BY <2>1 DEF Blocked, Awake, TypeOK
  <2>3. Cardinality(Awake') = Cardinality(Awake) + 1 /\ Awake' # {}
    BY <2>2, OneMoreAwake
  <2>4. QED
    BY <2>1, <2>2, <2>3, AwakeFinite DEF NoLostWakeup, Manual, TypeOK
<1>2. CASE TimeOut(t) \/ GiveUp(t)
  <2>1. state' = state /\ kind' = kind /\ Blocked' \subseteq Blocked /\ Awake' = Awake
    BY <1>2 DEF TimeOut, GiveUp, Blocked, Awake, TypeOK
  <2>2. QED
    BY <2>1, WakeupKept DEF TypeOK
<1>3. QED
  BY <1>1, <1>2

(***************************************************************************)
(* A thread in the condition's queue is never forgotten: as many threads   *)
(* are on their way out of it as an auto-reset event holds signals, and a  *)
(* signalled manual-reset event has one to hand the wakeup on              *)
(* (nevent.cxx:176, 212, 239).                                             *)
(***************************************************************************)
THEOREM NoLostWakeupHolds == SafeSpec => []NoLostWakeup
<1>1. Init => NoLostWakeup
  BY DEF Init, NoLostWakeup, Blocked
<1>2. TypeOK /\ NoLostWakeup /\ [Next]_vars => NoLostWakeup'
  <2> SUFFICES ASSUME TypeOK, NoLostWakeup, [Next]_vars PROVE NoLostWakeup'
    OBVIOUS
  <2>1. CASE UNCHANGED vars
    BY <2>1 DEF vars, NoLostWakeup, Blocked, Awake, Manual
  <2>2. CASE Next
    BY <2>2, WakeupSignal, WakeupLower, WakeupWait, WakeupLeave DEF Next
  <2>3. QED
    BY <2>1, <2>2
<1>3. QED
  BY <1>1, <1>2, TypeCorrect, PTL DEF SafeSpec

-----------------------------------------------------------------------------
(* Nevent and what nevent.h promises *)

\* Only a wait with a timeout is ever given up.
ExpiredTimed == \A t \in Expired : timed[t]

LEMMA ExpiredTimedHolds == SafeSpec => []ExpiredTimed
<1>1. Init => ExpiredTimed
  BY DEF Init, ExpiredTimed, Expired
<1>2. TypeOK /\ ExpiredTimed /\ [Next]_vars => ExpiredTimed'
  <2> SUFFICES ASSUME TypeOK, ExpiredTimed, [Next]_vars PROVE ExpiredTimed'
    OBVIOUS
  <2> USE DEF TypeOK, ExpiredTimed, Expired
  <2>1. CASE UNCHANGED vars
    BY <2>1 DEF vars
  <2>2. ASSUME NEW t \in Threads, Signal(t) \/ Unsignal(t) \/ Reset(t)
        PROVE  ExpiredTimed'
    BY <2>2 DEF Signal, Unsignal, Reset, ChangeCountingEventState, ChangeBoolEventState,
                ResetCountingEventState, CondSignal
  <2>3. ASSUME NEW t \in Threads, WaitCall(t) \/ Resume(t) PROVE ExpiredTimed'
    BY <2>3 DEF WaitCall, Resume, Pass, CondSignal
  <2>4. ASSUME NEW t \in Threads, SpuriousWakeup(t) \/ TimeOut(t) \/ GiveUp(t)
        PROVE  ExpiredTimed'
    BY <2>4 DEF SpuriousWakeup, TimeOut, GiveUp
  <2>5. QED
    BY <2>1, <2>2, <2>3, <2>4 DEF Next
<1>3. QED
  BY <1>1, <1>2, TypeCorrect, PTL DEF SafeSpec

\* The threads inside wait(), to EventContract.
Waiting == Blocked \cup Awake \cup Expired

\* The end of a successful wait() is EventContract's Take.
LEMMA PassTakes ==
    ASSUME TypeOK, NEW t \in Threads, Pass(t)
    PROVE  /\ Contract!Take
           /\ result' = [result EXCEPT ![t] = "TRUE"]
           /\ Waiting' = Waiting \ {t}
<1>1. Contract!Take /\ result' = [result EXCEPT ![t] = "TRUE"]
  BY DEF Pass, Contract!Take, Contract!Counting, Contract!Manual, Counting, Manual
<1>2. CASE Manual
  <2>1. CondSignal([pc EXCEPT ![t] = "out"])
    BY <1>2 DEF Pass
  <2>2. QED
    BY <1>1, <2>1 DEF CondSignal, Waiting, Blocked, Awake, Expired, TypeOK
<1>3. CASE ~Manual
  BY <1>1, <1>3 DEF Pass, Waiting, Blocked, Awake, Expired, TypeOK
<1>4. QED
  BY <1>2, <1>3

\* Waking a thread moves it about inside wait().
LEMMA SignalStays ==
    ASSUME TypeOK, CondSignal(pc) \/ pc' = pc
    PROVE  Waiting' = Waiting
BY DEF CondSignal, Waiting, Blocked, Awake, Expired, TypeOK

LEMMA ContractStep ==
    ASSUME TypeOK, ExpiredTimed, NEW t \in Threads,
           \/ Signal(t)
           \/ Unsignal(t)
           \/ Reset(t)
           \/ WaitCall(t)
           \/ Resume(t)
           \/ SpuriousWakeup(t)
           \/ TimeOut(t)
           \/ GiveUp(t)
    PROVE  [Contract!Next]_(Contract!vars)
<1> USE DEF Contract!Next, Contract!vars
<1>1. CASE Signal(t)
  <2>1. Waiting' = Waiting /\ kind' = kind
    BY <1>1, SignalStays
       DEF Signal, ChangeCountingEventState, ChangeBoolEventState
  <2>2. Contract!Raise
    BY <1>1, <2>1 DEF Signal, ChangeCountingEventState, ChangeBoolEventState,
                      Contract!Raise, Contract!Counting, Counting, Waiting
  <2>3. QED
    BY <2>2
<1>2. CASE Unsignal(t) \/ Reset(t)
  <2>1. Waiting' = Waiting /\ UNCHANGED <<kind, timed, result>>
    BY <1>2, SignalStays
       DEF Unsignal, Reset, ChangeCountingEventState, ChangeBoolEventState,
           ResetCountingEventState
  <2>2. \/ state' = state
        \/ state' \in {0} \cup IF Counting THEN {state - 1} \cap Nat ELSE {}
    BY <1>2 DEF Unsignal, Reset, ChangeCountingEventState, ChangeBoolEventState,
                ResetCountingEventState, TypeOK
  <2>3. CASE state' = state
    BY <2>1, <2>3 DEF Waiting
  <2>4. CASE state' # state
    <3>1. Contract!Lower
      BY <2>1, <2>2, <2>4 DEF Contract!Lower, Contract!Counting, Counting, Waiting
    <3>2. QED
      BY <3>1
  <2>5. QED
    BY <2>3, <2>4
<1>3. CASE WaitCall(t)
  <2>1. /\ t \notin Waiting /\ kind' = kind
        /\ \E b \in BOOLEAN : timed' = [timed EXCEPT ![t] = b]
    BY <1>3 DEF WaitCall, Waiting, Blocked, Awake, Expired
  <2>2. CASE state > 0
    <3>1. Pass(t)
      BY <1>3, <2>2 DEF WaitCall
    <3>2. Contract!PassAtOnce(t)
      BY <2>1, <2>2, <3>1, PassTakes DEF Contract!PassAtOnce, Waiting
    <3>3. QED
      BY <3>2
  <2>3. CASE ~(state > 0)
    <3>1. pc' = [pc EXCEPT ![t] = "blocked"] /\ UNCHANGED <<state, result>>
      BY <1>3, <2>3 DEF WaitCall
    <3>2. Waiting' = Waiting \cup {t}
      BY <3>1 DEF Waiting, Blocked, Awake, Expired, TypeOK
    <3>3. Contract!Enter(t)
      BY <2>1, <3>1, <3>2 DEF Contract!Enter, Waiting
    <3>4. QED
      BY <3>3
  <2>4. QED
    BY <2>2, <2>3
<1>4. CASE Resume(t)
  <2>1. t \in Waiting /\ UNCHANGED <<kind, timed>>
    BY <1>4 DEF Resume, Waiting, Awake
  <2>2. CASE state > 0
    <3>1. Pass(t)
      BY <1>4, <2>2 DEF Resume
    <3>2. Contract!Succeed(t)
      BY <2>1, <2>2, <3>1, PassTakes DEF Contract!Succeed, Waiting
    <3>3. QED
      BY <3>2
  <2>3. CASE ~(state > 0)
    <3>1. pc' = [pc EXCEPT ![t] = "blocked"] /\ UNCHANGED <<state, result>>
      BY <1>4, <2>3 DEF Resume
    <3>2. Waiting' = Waiting
      BY <1>4, <3>1 DEF Resume, Waiting, Blocked, Awake, Expired, TypeOK
    <3>3. QED
      BY <2>1, <3>1, <3>2 DEF Waiting
  <2>4. QED
    BY <2>2, <2>3
<1>5. CASE SpuriousWakeup(t) \/ TimeOut(t)
  <2>1. Waiting' = Waiting
    BY <1>5 DEF SpuriousWakeup, TimeOut, Waiting, Blocked, Awake, Expired, TypeOK
  <2>2. QED
    BY <1>5, <2>1 DEF SpuriousWakeup, TimeOut, Waiting
<1>6. CASE GiveUp(t)
  <2>1. t \in Waiting /\ Waiting' = Waiting \ {t}
    BY <1>6 DEF GiveUp, Waiting, Blocked, Awake, Expired, TypeOK
  <2>2. Contract!GiveUp(t)
    BY <1>6, <2>1 DEF GiveUp, Contract!GiveUp, Waiting, ExpiredTimed, Expired
  <2>3. QED
    BY <2>2
<1>7. QED
  BY <1>1, <1>2, <1>3, <1>4, <1>5, <1>6

(***************************************************************************)
(* Nevent implements the steps of EventContract: the safety part of        *)
(* ImplementsContract, for any number of threads and any count.            *)
(***************************************************************************)
THEOREM ContractKept == SafeSpec => Contract!SafeSpec
<1>1. Init => Contract!Init
  <2> SUFFICES ASSUME Init PROVE Contract!Init
    OBVIOUS
  <2>1. state \in 0 .. MaxState /\ (~Counting => state \in {0, 1})
    <3>1. PICK n \in 0 .. MaxState :
            state = IF Counting THEN n ELSE IF n > 0 THEN 1 ELSE 0
      BY DEF Init
    <3>2. QED
      BY <3>1, StateAssumption
  <2>2. Blocked \cup Awake \cup Expired = {}
    BY DEF Init, Blocked, Awake, Expired
  <2>3. QED
    BY <2>1, <2>2 DEF Init, Contract!Init, Contract!Counting, Counting, Kinds
<1>2. TypeOK /\ ExpiredTimed /\ [Next]_vars => [Contract!Next]_(Contract!vars)
  <2>1. CASE UNCHANGED vars
    BY <2>1 DEF vars, Contract!vars, Blocked, Awake, Expired
  <2>2. CASE Next
    BY <2>2, ContractStep DEF Next
  <2>3. QED
    BY <2>1, <2>2
<1>3. QED
  BY <1>1, <1>2, TypeCorrect, ExpiredTimedHolds, PTL DEF SafeSpec, Contract!SafeSpec
=============================================================================
