----------------------------- MODULE NtimeSleep -----------------------------
(***************************************************************************)
(* Ntime::sleep() (src/src/ntime.cxx): nanosleep() in a loop, with signals *)
(* that interrupt it, called for the Ntime that the operations of module   *)
(* Ntime have made.  Delays are in nanoseconds, as `value' is.             *)
(***************************************************************************)
EXTENDS Ntime

CONSTANTS
    MaxSignals,     \* BOUND: signals that arrive during a call
    Asks            \* whether callers may pass theRemainingTime

ASSUME SleepAssumption == MaxSignals \in Nat /\ Asks \subseteq BOOLEAN

VARIABLES
    pc,
    call    \* the call's arguments (theDelay; asked: theRemainingTime # NULL),
            \* its locals, and how many signals have arrived and how long it
            \* has slept, which is counted no further than theDelay + 1
sleepVars == <<vars, pc, call>>

Arguments(d, ask) ==
    [theDelay |-> d, asked |-> ask, delay |-> d, remaining |-> 0, repeat |-> FALSE,
     status |-> TRUE, signals |-> 0, slept |-> 0]

NoCall == Arguments(0, FALSE)

SleepInit ==
    /\ Init
    /\ pc = "out"
    /\ call = NoCall

Move(from, to) == pc = from /\ pc' = to

\* A delay of 0 yields the processor and returns; a negative one is an error
\* that leaves everything as it is.
Call(ask) ==
    /\ value >= 0
    /\ Move("out", IF value = 0 THEN "returned" ELSE "nanosleep")
    /\ call' = Arguments(value, ask)
    /\ UNCHANGED vars

\* How long the call has slept when it sleeps for another n.
Slept(n) == IF call.slept + n > call.theDelay THEN call.theDelay + 1 ELSE call.slept + n

\* nanosleep() returns 0.
Elapse ==
    /\ Move("nanosleep", "again")
    /\ call' = [call EXCEPT !.status = TRUE, !.slept = Slept(call.delay)]
    /\ UNCHANGED vars

\* EINTR: nanosleep() says how much is left.
Interrupt ==
    /\ call.signals < MaxSignals
    /\ Move("nanosleep", "again")
    /\ \E left \in 1 .. call.delay :
           call' = [call EXCEPT !.signals = @ + 1, !.status = FALSE, !.repeat = ~call.asked,
                                !.remaining = left, !.delay = left,
                                !.slept = Slept(call.delay - left)]
    /\ UNCHANGED vars

\* A loop that is not one.
LoopNever ==
    /\ Move("again", "returned")
    /\ UNCHANGED <<vars, call>>

\* while ( repeat )
Loop ==
    /\ Move("again", IF call.repeat THEN "nanosleep" ELSE "returned")
    /\ UNCHANGED <<vars, call>>

\* The caller gets the result and theRemainingTime, and goes on.
Return ==
    /\ Move("returned", "out")
    /\ call' = NoCall
    /\ UNCHANGED vars

Step == Elapse \/ Interrupt \/ Loop \/ Return

Compute ==
    /\ pc = "out"
    /\ Next
    /\ UNCHANGED <<pc, call>>

SleepNext ==
    \/ Step
    \/ \E ask \in Asks : Call(ask)
    \/ Compute

\* A call that can go on does; nobody has to call.
SleepSpec == SleepInit /\ [][SleepNext]_sleepVars /\ WF_sleepVars(Step)

-----------------------------------------------------------------------------
(***************************************************************************)
(* A caller that asked is told what is left of the delay, and can go on    *)
(* with it; one that did not ask has slept all of it (ntime.h:22-31).      *)
(***************************************************************************)
NothingLost ==
    pc = "returned" =>
        /\ call.slept + call.remaining = call.theDelay
        /\ call.status <=> call.remaining = 0
        /\ ~call.asked => call.remaining = 0

(***************************************************************************)
(* A sleep that may be interrupted ends.                                   *)
(***************************************************************************)
AskedSleepEnds == pc = "nanosleep" /\ call.asked ~> pc = "out"

(***************************************************************************)
(* sleep() returns (ntime.h:28-29).                                        *)
(***************************************************************************)
SleepEnds == pc = "nanosleep" ~> pc = "out"
=============================================================================
