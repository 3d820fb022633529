------------------------------- MODULE Ntime -------------------------------
(***************************************************************************)
(* Ntime (src/src/ntime.cxx): a timespec, kept so that its nanoseconds are *)
(* less than a second and have the sign of its seconds, and the arithmetic *)
(* on it.  `value' is the time in nanoseconds that the operations should   *)
(* have led to; the program does not keep it.                              *)
(*                                                                         *)
(* The units are constants, so that TLC can use small ones; time_t does    *)
(* not overflow here.                                                      *)
(***************************************************************************)
EXTENDS Integers

CONSTANTS
    NS_IN_1_MSEC, MS_IN_1_SEC,
    MaxMs,      \* BOUND: arguments in milliseconds
    MaxSecs,    \* BOUND: arguments in seconds
    MaxNsec,    \* BOUND: tv_nsec of a timespec given to a constructor
    MaxValue    \* BOUND: the times that are reached

ASSUME UnitAssumption == NS_IN_1_MSEC \in Nat \ {0} /\ MS_IN_1_SEC \in Nat \ {0}
ASSUME BoundAssumption == {MaxMs, MaxSecs, MaxNsec, MaxValue} \subseteq Nat

NS_IN_1_SEC == NS_IN_1_MSEC * MS_IN_1_SEC

Timespec == [sec : Int, nsec : Int]
Around(n) == -n .. n

\* `/' and `%' of C, which round towards zero.
Quot(n, d) == IF n >= 0 THEN n \div d ELSE -((-n) \div d)
Rem(n, d)  == IF n >= 0 THEN n % d ELSE -((-n) % d)

\* The time a timespec stands for, in nanoseconds.
Value(t) == t.sec * NS_IN_1_SEC + t.nsec

Canonical(t) ==
    /\ -NS_IN_1_SEC < t.nsec /\ t.nsec < NS_IN_1_SEC
    /\ t.nsec < 0 => t.sec <= 0
    /\ t.nsec > 0 => t.sec >= 0

-----------------------------------------------------------------------------
Carry(t) == [sec  |-> t.sec + Quot(t.nsec, NS_IN_1_SEC),
             nsec |-> Rem(t.nsec, NS_IN_1_SEC)]

Borrow(t) ==
    CASE t.nsec < 0 /\ t.sec > 0 -> [sec |-> t.sec - 1, nsec |-> t.nsec + NS_IN_1_SEC]
      [] t.nsec > 0 /\ t.sec < 0 -> [sec |-> t.sec + 1, nsec |-> t.nsec - NS_IN_1_SEC]
      [] OTHER -> t

\* Borrows from positive seconds only.
BorrowOnce(t) ==
    LET c == Carry(t)
    IN IF c.nsec < 0 /\ c.sec > 0 THEN [sec |-> c.sec - 1, nsec |-> c.nsec + NS_IN_1_SEC]
                                  ELSE c

rationalise(t) == Borrow(Carry(t))

\* Milliseconds past the second count as nanoseconds.
setInMsUnscaled(ms) == [sec |-> Quot(ms, MS_IN_1_SEC), nsec |-> Rem(ms, MS_IN_1_SEC)]

setInMs(ms) == [sec |-> Quot(ms, MS_IN_1_SEC), nsec |-> Rem(ms, MS_IN_1_SEC) * NS_IN_1_MSEC]

setInSeconds(secs) == [sec |-> secs, nsec |-> 0]

plus(t, x)  == rationalise([sec |-> t.sec + x.sec, nsec |-> t.nsec + x.nsec])
minus(t, x) == rationalise([sec |-> t.sec - x.sec, nsec |-> t.nsec - x.nsec])

addMillisecs(t, ms) ==
    rationalise([sec  |-> t.sec + Quot(ms, MS_IN_1_SEC),
                 nsec |-> t.nsec + Rem(ms, MS_IN_1_SEC) * NS_IN_1_MSEC])

addSecs(t, secs) == rationalise([t EXCEPT !.sec = @ + secs])

less(t, x)    == t.sec < x.sec \/ (t.sec = x.sec /\ t.nsec < x.nsec)
greater(t, x) == t.sec > x.sec \/ (t.sec = x.sec /\ t.nsec > x.nsec)

getAsMs(t) == t.sec * MS_IN_1_SEC + Quot(t.nsec, NS_IN_1_MSEC)

getAsSeconds(t) == t.sec + Quot(t.nsec, NS_IN_1_SEC)

\* What Nsocket::waitForRawSocketEvent() gives poll(), where less than 0 means
\* to wait for ever; INT_MAX is out of reach here.
pollTimeout(t) == IF getAsMs(t) = 0 THEN -1 ELSE getAsMs(t)

-----------------------------------------------------------------------------
VARIABLES time, value
vars == <<time, value>>

Becomes(t, v) ==
    /\ v \in Around(MaxValue)
    /\ time' = t
    /\ value' = v

Init == \E ms \in Around(MaxMs) : time = setInMs(ms) /\ value = ms * NS_IN_1_MSEC

\* Ntime( theTimespec ), and the assignment of one.
FromTimespec ==
    \E s \in Around(MaxSecs), n \in Around(MaxNsec) :
        LET t == [sec |-> s, nsec |-> n] IN Becomes(rationalise(t), Value(t))

SetInMs == \E ms \in Around(MaxMs) : Becomes(setInMs(ms), ms * NS_IN_1_MSEC)

SetInSeconds == \E s \in Around(MaxSecs) : Becomes(setInSeconds(s), s * NS_IN_1_SEC)

\* The operand of an operator is an Ntime: that of a timespec that may be given.
Operands ==
    {rationalise([sec |-> s, nsec |-> n]) : s \in Around(MaxSecs), n \in Around(MaxNsec)}

Add == \E x \in Operands : Becomes(plus(time, x), value + Value(x))

Subtract == \E x \in Operands : Becomes(minus(time, x), value - Value(x))

\* getDifference(), and getElapsed() for the present time.
Difference == \E x \in Operands : Becomes(minus(x, time), Value(x) - value)

AddMillisecs ==
    \E ms \in Around(MaxMs) : Becomes(addMillisecs(time, ms), value + ms * NS_IN_1_MSEC)

AddSecs == \E s \in Around(MaxSecs) : Becomes(addSecs(time, s), value + s * NS_IN_1_SEC)

Next ==
    \/ FromTimespec
    \/ SetInMs
    \/ SetInSeconds
    \/ Add
    \/ Subtract
    \/ Difference
    \/ AddMillisecs
    \/ AddSecs

Spec == Init /\ [][Next]_vars

-----------------------------------------------------------------------------
(***************************************************************************)
(* Any sequence of operations leaves an Ntime in the form the comparisons  *)
(* and conversions count on: less than a second of nanoseconds, of the     *)
(* sign of the seconds (rationalise()).                                    *)
(***************************************************************************)
StaysCanonical == time \in Timespec /\ Canonical(time)

(***************************************************************************)
(* It also stands for the time that exact arithmetic gives: no carry or    *)
(* borrow is lost on the way.                                              *)
(***************************************************************************)
ValueKept == Value(time) = value

(***************************************************************************)
(* ==, < and > order times as their nanoseconds do, whatever operations    *)
(* made them.                                                              *)
(***************************************************************************)
OrderAgrees ==
    \A x \in Operands :
        /\ time = x <=> value = Value(x)
        /\ less(time, x) <=> value < Value(x)
        /\ greater(time, x) <=> value > Value(x)

(***************************************************************************)
(* getAsMs() and getAsSeconds() round towards zero, before and after the   *)
(* epoch alike.                                                            *)
(***************************************************************************)
ConversionsRound ==
    /\ getAsMs(time) = Quot(value, NS_IN_1_MSEC)
    /\ getAsSeconds(time) = Quot(value, NS_IN_1_SEC)

(***************************************************************************)
(* Whatever an Ntime is read by, a comparison or a conversion, it reads as *)
(* the exact time (ntime.cxx:188-210, 273-285).                            *)
(***************************************************************************)
ReadsExactly == OrderAgrees /\ ConversionsRound

-----------------------------------------------------------------------------
(* What the documentation says and the code does not do *)

(***************************************************************************)
(* Only the timeout 0 makes the calls of Nsocket wait for ever             *)
(* (nsocket.h:112, 181).                                                   *)
(***************************************************************************)
TimeoutsEnd == value # 0 => pollTimeout(time) >= 0
=============================================================================
