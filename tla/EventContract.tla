--------------------------- MODULE EventContract ---------------------------
(***************************************************************************)
(* What nevent.h promises of an event, without mutex or condition          *)
(* variable: wait() returns TRUE in the step that finds the event          *)
(* signalled and, unless the event is manually reset, takes one signal     *)
(* away; it returns FALSE only to a caller that gave a timeout.            *)
(***************************************************************************)
EXTENDS Integers

CONSTANTS Threads, MaxState

VARIABLES
    kind,     \* whether the event counts, and whether it is reset by hand
    state,    \* what currentState() returns: > 0 is signalled
    waiting,  \* the threads inside wait()
    timed,    \* timed[t]: the wait t is in, or was last in, has a timeout
    result    \* result[t]: what the last wait() of t returned

vars == <<kind, state, waiting, timed, result>>

Counting == kind.counting
Manual   == kind.manual

Init ==
    /\ kind \in [counting : BOOLEAN, manual : BOOLEAN]
    /\ state \in 0 .. MaxState
    /\ ~Counting => state \in {0, 1}
    /\ waiting = {}
    /\ timed = [t \in Threads |-> FALSE]
    /\ result = [t \in Threads |-> "none"]

Raise ==
    /\ state' = IF Counting THEN state + 1 ELSE 1
    /\ UNCHANGED <<kind, waiting, timed, result>>

Lower ==
    /\ state' \in {0} \cup IF Counting THEN {state - 1} \cap Nat ELSE {}
    /\ UNCHANGED <<kind, waiting, timed, result>>

\* The effect of one successful wait on the event.
Take == state' = IF Manual THEN state ELSE IF Counting THEN state - 1 ELSE 0

Enter(t) ==
    /\ t \notin waiting
    /\ waiting' = waiting \cup {t}
    /\ timed' \in {[timed EXCEPT ![t] = b] : b \in BOOLEAN}
    /\ UNCHANGED <<kind, state, result>>

\* wait() of an event that is already signalled returns at once.
PassAtOnce(t) ==
    /\ t \notin waiting
    /\ state > 0
    /\ Take
    /\ timed' \in {[timed EXCEPT ![t] = b] : b \in BOOLEAN}
    /\ result' = [result EXCEPT ![t] = "TRUE"]
    /\ UNCHANGED <<kind, waiting>>

Succeed(t) ==
    /\ t \in waiting
    /\ state > 0
    /\ Take
    /\ waiting' = waiting \ {t}
    /\ result' = [result EXCEPT ![t] = "TRUE"]
    /\ UNCHANGED <<kind, timed>>

GiveUp(t) ==
    /\ t \in waiting
    /\ timed[t]
    /\ waiting' = waiting \ {t}
    /\ result' = [result EXCEPT ![t] = "FALSE"]
    /\ UNCHANGED <<kind, state, timed>>

Next ==
    \/ Raise
    \/ Lower
    \/ \E t \in Threads : Enter(t) \/ PassAtOnce(t) \/ Succeed(t) \/ GiveUp(t)

(***************************************************************************)
(* A manual-reset event that stays signalled lets every waiter through;    *)
(* an auto-reset one that stays signalled lets some waiter through, not a  *)
(* particular one.  A wait with a timeout ends.                            *)
(***************************************************************************)
Fairness ==
    /\ Manual => \A t \in Threads : WF_vars(Succeed(t))
    /\ ~Manual => WF_vars(\E t \in Threads : Succeed(t))
    /\ \A t \in Threads : WF_vars(timed[t] /\ (Succeed(t) \/ GiveUp(t)))

SafeSpec == Init /\ [][Next]_vars

Spec == SafeSpec /\ Fairness
=============================================================================
