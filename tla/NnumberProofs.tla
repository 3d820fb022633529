---------------------------- MODULE NnumberProofs ----------------------------
(***************************************************************************)
(* Proofs about numbers: Ntime and its sleep(), for every size of the      *)
(* units, of the operands and of the times reached, and any number of      *)
(* signals; and Nbinary, for any bits and texts and integers of any width. *)
(* Its loops over a text are instances of module Folding.                  *)
(***************************************************************************)
EXTENDS NtimeSleep, Nbinary, SequenceTheorems, TLAPS

-----------------------------------------------------------------------------
(* Ntime *)

LEMMA UnitPositive == NS_IN_1_SEC \in Nat \ {0}
<1>1. \A a, b \in Nat : a > 0 /\ b > 0 => a * b \in Nat /\ a * b > 0
  OBVIOUS
<1>2. QED
  BY <1>1, UnitAssumption DEF NS_IN_1_SEC

\* Division that rounds towards zero, and its remainder.
LEMMA QuotRem ==
    ASSUME NEW n \in Int, NEW d \in Nat \ {0}
    PROVE  /\ Quot(n, d) \in Int /\ Rem(n, d) \in Int
           /\ n = Quot(n, d) * d + Rem(n, d)
           /\ -d < Rem(n, d) /\ Rem(n, d) < d
           /\ n >= 0 => Quot(n, d) >= 0 /\ Rem(n, d) >= 0
           /\ n <= 0 => Quot(n, d) <= 0 /\ Rem(n, d) <= 0
<1>1. \A m \in Nat : /\ m \div d \in Nat /\ m % d \in Nat /\ m % d < d
                     /\ m = d * (m \div d) + (m % d)
  OBVIOUS
<1>2. CASE n >= 0
  BY <1>1, <1>2 DEF Quot, Rem
<1>3. CASE n < 0
  <2>1. -n \in Nat
    BY <1>3
  <2> DEFINE q == (-n) \div d
  <2> DEFINE r == (-n) % d
  <2>2. q \in Nat /\ r \in Nat /\ r < d /\ -n = d * q + r
    BY <1>1, <2>1
  <2>3. Quot(n, d) = -q /\ Rem(n, d) = -r
    BY <1>3 DEF Quot, Rem
  <2> HIDE DEF q, r
  <2>4. (-q) * d = -(d * q)
    BY <2>2
  <2>5. QED
    BY <1>3, <2>2, <2>3, <2>4
<1>4. QED
  BY <1>2, <1>3

\* rationalise() keeps the time and makes it canonical, whatever it is given.
LEMMA Rationalised ==
    ASSUME NEW t \in Timespec
    PROVE  /\ rationalise(t) \in Timespec
           /\ Canonical(rationalise(t))
           /\ Value(rationalise(t)) = Value(t)
<1> DEFINE d == NS_IN_1_SEC
<1> DEFINE q == Quot(t.nsec, d)
<1> DEFINE r == Rem(t.nsec, d)
<1> DEFINE c == [sec |-> t.sec + q, nsec |-> r]
<1>1. d \in Nat \ {0} /\ t.sec \in Int /\ t.nsec \in Int
  BY UnitPositive DEF Timespec
<1>2. q \in Int /\ r \in Int /\ t.nsec = q * d + r /\ -d < r /\ r < d
  BY <1>1, QuotRem
<1>3. rationalise(t) = Borrow(c)
  BY DEF rationalise, Carry
<1> HIDE DEF d, q, r
<1>4. c \in Timespec /\ c.sec = t.sec + q /\ c.nsec = r
  BY <1>1, <1>2 DEF Timespec
<1>5. (t.sec + q) * d + r = t.sec * d + t.nsec
  BY <1>1, <1>2
<1>6. CASE r < 0 /\ t.sec + q > 0
  <2>1. Borrow(c) = [sec |-> t.sec + q - 1, nsec |-> r + d]
    BY <1>1, <1>2, <1>6 DEF Borrow, d
  <2>2. (t.sec + q - 1) * d + (r + d) = (t.sec + q) * d + r
    BY <1>1, <1>2
  <2>3. QED
    BY <1>1, <1>2, <1>3, <1>5, <1>6, <2>1, <2>2 DEF Timespec, Canonical, Value, d
<1>7. CASE r > 0 /\ t.sec + q < 0
  <2>1. Borrow(c) = [sec |-> t.sec + q + 1, nsec |-> r - d]
    BY <1>1, <1>2, <1>7 DEF Borrow, d
  <2>2. (t.sec + q + 1) * d + (r - d) = (t.sec + q) * d + r
    BY <1>1, <1>2
  <2>3. QED
    BY <1>1, <1>2, <1>3, <1>5, <1>7, <2>1, <2>2 DEF Timespec, Canonical, Value, d
<1>8. CASE ~(r < 0 /\ t.sec + q > 0) /\ ~(r > 0 /\ t.sec + q < 0)
  <2>1. Borrow(c) = c
    BY <1>4, <1>8 DEF Borrow
  <2>2. QED
    BY <1>1, <1>2, <1>3, <1>4, <1>5, <1>8, <2>1 DEF Timespec, Canonical, Value, d
<1>9. QED
  BY <1>1, <1>2, <1>6, <1>7, <1>8

\* setInMs() needs no rationalise().
LEMMA Milliseconds ==
    ASSUME NEW ms \in Int
    PROVE  /\ setInMs(ms) \in Timespec
           /\ Canonical(setInMs(ms))
           /\ Value(setInMs(ms)) = ms * NS_IN_1_MSEC
<1> DEFINE q == Quot(ms, MS_IN_1_SEC)
<1> DEFINE r == Rem(ms, MS_IN_1_SEC)
<1>1. /\ q \in Int /\ r \in Int /\ ms = q * MS_IN_1_SEC + r
      /\ -MS_IN_1_SEC < r /\ r < MS_IN_1_SEC
      /\ ms >= 0 => q >= 0 /\ r >= 0
      /\ ms <= 0 => q <= 0 /\ r <= 0
  BY UnitAssumption, QuotRem
<1>2. setInMs(ms) = [sec |-> q, nsec |-> r * NS_IN_1_MSEC]
  BY DEF setInMs
<1> HIDE DEF q, r
<1>3. ASSUME NEW a \in Int, NEW b \in Int, NEW n \in Nat \ {0}, a < b
      PROVE  a * n < b * n
  BY <1>3
<1>4. /\ (-MS_IN_1_SEC) * NS_IN_1_MSEC < r * NS_IN_1_MSEC
      /\ r * NS_IN_1_MSEC < MS_IN_1_SEC * NS_IN_1_MSEC
  BY <1>1, <1>3, UnitAssumption
<1>5. /\ r > 0 => r * NS_IN_1_MSEC > 0 /\ q >= 0
      /\ r < 0 => r * NS_IN_1_MSEC < 0 /\ q <= 0
      /\ r = 0 => r * NS_IN_1_MSEC = 0
  BY <1>1, UnitAssumption
<1>6. r * NS_IN_1_MSEC \in Int
  BY <1>1, UnitAssumption
<1>7. (q * MS_IN_1_SEC + r) * NS_IN_1_MSEC = q * (NS_IN_1_MSEC * MS_IN_1_SEC) + r * NS_IN_1_MSEC
  BY <1>1, UnitAssumption
<1>8. (-MS_IN_1_SEC) * NS_IN_1_MSEC = -(NS_IN_1_MSEC * MS_IN_1_SEC)
  BY UnitAssumption
<1>9. MS_IN_1_SEC * NS_IN_1_MSEC = NS_IN_1_MSEC * MS_IN_1_SEC
  BY UnitAssumption
<1>10. setInMs(ms) \in Timespec
  BY <1>1, <1>2, <1>6 DEF Timespec
<1>11. Canonical(setInMs(ms))
  <2>1. /\ -NS_IN_1_SEC < r * NS_IN_1_MSEC /\ r * NS_IN_1_MSEC < NS_IN_1_SEC
    BY <1>4, <1>8, <1>9 DEF NS_IN_1_SEC
  <2>2. /\ r * NS_IN_1_MSEC < 0 => q <= 0
        /\ r * NS_IN_1_MSEC > 0 => q >= 0
    BY <1>1, <1>5, <1>6
  <2>3. QED
    BY <1>2, <2>1, <2>2 DEF Canonical
<1>12. Value(setInMs(ms)) = ms * NS_IN_1_MSEC
  BY <1>1, <1>2, <1>7 DEF Value, NS_IN_1_SEC
<1>13. QED
  BY <1>10, <1>11, <1>12

\* The operators of two Ntimes, and those of an Ntime and a number.
LEMMA Arithmetic ==
    ASSUME NEW t \in Timespec, NEW x \in Timespec
    PROVE  /\ plus(t, x) \in Timespec /\ minus(t, x) \in Timespec
           /\ Canonical(plus(t, x)) /\ Canonical(minus(t, x))
           /\ Value(plus(t, x)) = Value(t) + Value(x)
           /\ Value(minus(t, x)) = Value(t) - Value(x)
<1> DEFINE s == [sec |-> t.sec + x.sec, nsec |-> t.nsec + x.nsec]
<1> DEFINE e == [sec |-> t.sec - x.sec, nsec |-> t.nsec - x.nsec]
<1>1. s \in Timespec /\ e \in Timespec
  BY DEF Timespec
<1>2. NS_IN_1_SEC \in Nat
  BY UnitPositive
<1>3. Value(s) = Value(t) + Value(x) /\ Value(e) = Value(t) - Value(x)
  BY <1>2 DEF Value, Timespec
<1> HIDE DEF s, e
<1>4. plus(t, x) = rationalise(s) /\ minus(t, x) = rationalise(e)
  BY DEF plus, minus, s, e
<1>5. QED
  BY <1>1, <1>3, <1>4, Rationalised

LEMMA Additions ==
    ASSUME NEW t \in Timespec, NEW n \in Int
    PROVE  /\ addMillisecs(t, n) \in Timespec /\ addSecs(t, n) \in Timespec
           /\ Canonical(addMillisecs(t, n)) /\ Canonical(addSecs(t, n))
           /\ Value(addMillisecs(t, n)) = Value(t) + n * NS_IN_1_MSEC
           /\ Value(addSecs(t, n)) = Value(t) + n * NS_IN_1_SEC
<1>1. setInMs(n) \in Timespec /\ Value(setInMs(n)) = n * NS_IN_1_MSEC
  BY Milliseconds
<1>2. addMillisecs(t, n) = plus(t, setInMs(n))
  BY DEF addMillisecs, plus, setInMs
<1>3. NS_IN_1_SEC \in Nat
  BY UnitPositive
<1>4. setInSeconds(n) \in Timespec /\ Value(setInSeconds(n)) = n * NS_IN_1_SEC
  BY <1>3 DEF setInSeconds, Timespec, Value
<1>5. addSecs(t, n) = plus(t, setInSeconds(n))
  BY DEF addSecs, plus, setInSeconds, Timespec
<1>6. QED
  BY <1>1, <1>2, <1>4, <1>5, Arithmetic

-----------------------------------------------------------------------------
(* The invariant *)

IInv == StaysCanonical /\ ValueKept

\* A step is to a canonical time, or nothing changes.
LEMMA BecomesKeeps ==
    ASSUME NEW t \in Timespec, Canonical(t), NEW v, Becomes(t, v), Value(t) = v
    PROVE  IInv'
BY DEF Becomes, IInv, StaysCanonical, ValueKept, Canonical, Value

\* The operands are times themselves.
LEMMA OperandTypes == \A x \in Operands : x \in Timespec /\ Canonical(x)
<1> SUFFICES ASSUME NEW x \in Operands PROVE x \in Timespec /\ Canonical(x)
  OBVIOUS
<1>1. PICK s \in Around(MaxSecs), n \in Around(MaxNsec) :
        x = rationalise([sec |-> s, nsec |-> n])
  BY DEF Operands
<1>2. [sec |-> s, nsec |-> n] \in Timespec
  BY BoundAssumption DEF Timespec, Around
<1>3. QED
  BY <1>1, <1>2, Rationalised

LEMMA Inductive == (Init => IInv) /\ (IInv /\ [Next]_vars => IInv')
<1>1. Init => IInv
  BY Milliseconds, BoundAssumption DEF Init, IInv, StaysCanonical, ValueKept, Around
<1>2. ASSUME IInv, [Next]_vars PROVE IInv'
  <2>1. time \in Timespec /\ Value(time) = value
    BY <1>2 DEF IInv, StaysCanonical, ValueKept
  <2>2. CASE UNCHANGED vars
    BY <1>2, <2>2 DEF vars, IInv, StaysCanonical, ValueKept, Canonical, Value
  <2>3. CASE FromTimespec
    <3>1. PICK s \in Around(MaxSecs), n \in Around(MaxNsec) :
            Becomes(rationalise([sec |-> s, nsec |-> n]), Value([sec |-> s, nsec |-> n]))
      BY <2>3 DEF FromTimespec
    <3>2. [sec |-> s, nsec |-> n] \in Timespec
      BY BoundAssumption DEF Timespec, Around
    <3>3. QED
      BY <3>1, <3>2, Rationalised, BecomesKeeps
  <2>4. CASE SetInMs
    BY <2>4, Milliseconds, BecomesKeeps, BoundAssumption DEF SetInMs, Around
  <2>5. CASE SetInSeconds
    <3>1. PICK s \in Int : Becomes(setInSeconds(s), s * NS_IN_1_SEC)
      BY <2>5, BoundAssumption DEF SetInSeconds, Around
    <3>2. setInSeconds(s) \in Timespec /\ Value(setInSeconds(s)) = s * NS_IN_1_SEC
      BY UnitPositive DEF setInSeconds, Timespec, Value
    <3>3. Canonical(setInSeconds(s))
      BY UnitPositive DEF setInSeconds, Canonical
    <3>4. QED
      BY <3>1, <3>2, <3>3, BecomesKeeps
  <2>6. CASE Add \/ Subtract
    BY <2>1, <2>6, OperandTypes, Arithmetic, BecomesKeeps DEF Add, Subtract
  <2>7. CASE Difference
    BY <2>1, <2>7, OperandTypes, Arithmetic, BecomesKeeps DEF Difference
  <2>8. CASE AddMillisecs \/ AddSecs
    <3>1. \/ \E n \in Int : Becomes(addMillisecs(time, n), value + n * NS_IN_1_MSEC)
          \/ \E n \in Int : Becomes(addSecs(time, n), value + n * NS_IN_1_SEC)
      BY <2>8, BoundAssumption DEF AddMillisecs, AddSecs, Around
    <3>2. QED
      BY <2>1, <3>1, Additions, BecomesKeeps
  <2>9. QED
    BY <1>2, <2>2, <2>3, <2>4, <2>5, <2>6, <2>7, <2>8 DEF Next
<1>3. QED
  BY <1>1, <1>2

\* More seconds are more time, whatever the nanoseconds.
LEMMA SecondsDecide ==
    ASSUME NEW t \in Timespec, NEW x \in Timespec, Canonical(t), Canonical(x), t.sec < x.sec
    PROVE  Value(t) < Value(x)
<1> DEFINE d == NS_IN_1_SEC
<1>1. d \in Nat \ {0}
  BY UnitPositive
<1>2. /\ t.sec \in Int /\ x.sec \in Int /\ t.nsec \in Int /\ x.nsec \in Int
      /\ -d < x.nsec /\ t.nsec < d /\ ~(t.nsec > 0 /\ x.nsec < 0)
  BY DEF Timespec, Canonical
<1> HIDE DEF d
<1>3. PICK k \in Nat : x.sec = t.sec + k + 1
  <2>1. x.sec - t.sec - 1 \in Nat
    BY <1>2
  <2>2. QED
    BY <1>2, <2>1
<1>4. k * d \in Nat /\ (t.sec + k + 1) * d = t.sec * d + k * d + d
  BY <1>1, <1>2, <1>3
<1>5. t.sec * d \in Int
  BY <1>1, <1>2
<1>6. t.sec * d + t.nsec < x.sec * d + x.nsec
  BY <1>1, <1>2, <1>3, <1>4, <1>5
<1>7. QED
  BY <1>6 DEF Value, d

\* The comparisons of two canonical times are those of their nanoseconds.
LEMMA Comparisons ==
    ASSUME NEW t \in Timespec, NEW x \in Timespec, Canonical(t), Canonical(x)
    PROVE  /\ t = x <=> Value(t) = Value(x)
           /\ less(t, x) <=> Value(t) < Value(x)
           /\ greater(t, x) <=> Value(t) > Value(x)
<1>1. /\ t.sec \in Int /\ x.sec \in Int /\ t.nsec \in Int /\ x.nsec \in Int
      /\ Value(t) \in Int /\ Value(x) \in Int
  BY UnitPositive DEF Timespec, Value
<1>2. CASE t.sec < x.sec
  BY <1>1, <1>2, SecondsDecide DEF less, greater
<1>3. CASE t.sec > x.sec
  BY <1>1, <1>3, SecondsDecide DEF less, greater
<1>4. CASE t.sec = x.sec
  <2>1. /\ Value(t) = Value(x) <=> t.nsec = x.nsec
        /\ Value(t) < Value(x) <=> t.nsec < x.nsec
        /\ Value(t) > Value(x) <=> t.nsec > x.nsec
    <3>1. t.sec * NS_IN_1_SEC \in Int
      BY <1>1, UnitPositive
    <3>2. QED
      BY <1>1, <1>4, <3>1 DEF Value
  <2>2. t = x <=> t.nsec = x.nsec
    BY <1>4 DEF Timespec
  <2>3. QED
    BY <1>1, <1>4, <2>1, <2>2 DEF less, greater
<1>5. QED
  BY <1>1, <1>2, <1>3, <1>4

\* A quotient is known by what it leaves: less than the divisor, of the sign of
\* the dividend.
LEMMA QuotientOf ==
    ASSUME NEW n \in Int, NEW d \in Nat \ {0}, NEW q \in Int, NEW r \in Int,
           n = q * d + r, -d < r, r < d, n >= 0 => r >= 0, n <= 0 => r <= 0
    PROVE  Quot(n, d) = q
<1> DEFINE p == Quot(n, d)
<1> DEFINE m == Rem(n, d)
<1>1. /\ p \in Int /\ m \in Int /\ n = p * d + m /\ -d < m /\ m < d
      /\ n >= 0 => m >= 0
      /\ n <= 0 => m <= 0
  BY QuotRem
<1> HIDE DEF p, m
<1>2. m - r < d /\ r - m < d
  BY <1>1
<1>3. (q - p) * d = m - r
  BY <1>1
<1>4. ASSUME NEW a \in Int, a > 0 PROVE a * d >= d
  <2>1. a - 1 \in Nat /\ (a - 1) * d \in Nat
    BY <1>4
  <2>2. a * d = (a - 1) * d + d
    BY <1>4
  <2>3. QED
    BY <2>1, <2>2
<1>5. ~(q - p > 0)
  BY <1>1, <1>2, <1>3, <1>4
<1>6. ~(p - q > 0)
  <2>1. (p - q) * d = r - m
    BY <1>1, <1>3
  <2>2. QED
    BY <1>1, <1>2, <1>4, <2>1
<1>7. QED
  BY <1>1, <1>5, <1>6 DEF p

\* The sign of a canonical time is that of each of its parts.
LEMMA SignsAgree ==
    ASSUME NEW t \in Timespec, Canonical(t)
    PROVE  /\ Value(t) >= 0 => t.nsec >= 0
           /\ Value(t) <= 0 => t.nsec <= 0
<1> DEFINE d == NS_IN_1_SEC
<1>1. d \in Nat \ {0} /\ t.sec \in Int /\ t.nsec \in Int
  BY UnitPositive DEF Timespec
<1>2. (t.nsec < 0 => t.sec <= 0) /\ (t.nsec > 0 => t.sec >= 0)
  BY DEF Canonical
<1>3. Value(t) = t.sec * d + t.nsec
  BY DEF Value
<1> HIDE DEF d
<1>4. /\ t.sec >= 0 => t.sec * d >= 0
      /\ t.sec <= 0 => t.sec * d <= 0
      /\ t.sec * d \in Int
  BY <1>1
<1>5. QED
  BY <1>1, <1>2, <1>3, <1>4

\* The conversions of a canonical time round its nanoseconds towards zero.
LEMMA Conversions ==
    ASSUME NEW t \in Timespec, Canonical(t)
    PROVE  /\ getAsMs(t) = Quot(Value(t), NS_IN_1_MSEC)
           /\ getAsSeconds(t) = Quot(Value(t), NS_IN_1_SEC)
<1> DEFINE n == NS_IN_1_MSEC
<1> DEFINE m == MS_IN_1_SEC
<1> DEFINE d == NS_IN_1_SEC
<1>1. /\ n \in Nat \ {0} /\ m \in Nat \ {0} /\ d \in Nat \ {0} /\ d = n * m
      /\ t.sec \in Int /\ t.nsec \in Int /\ -d < t.nsec /\ t.nsec < d
  BY UnitAssumption, UnitPositive DEF Timespec, Canonical, NS_IN_1_SEC
<1>2. Value(t) = t.sec * d + t.nsec /\ Value(t) \in Int
  BY <1>1 DEF Value
<1>3. (Value(t) >= 0 => t.nsec >= 0) /\ (Value(t) <= 0 => t.nsec <= 0)
  BY SignsAgree
<1>4. getAsMs(t) = Quot(Value(t), n)
  <2> DEFINE q == Quot(t.nsec, n)
  <2> DEFINE r == Rem(t.nsec, n)
  <2>1. /\ q \in Int /\ r \in Int /\ t.nsec = q * n + r /\ -n < r /\ r < n
        /\ t.nsec >= 0 => r >= 0
        /\ t.nsec <= 0 => r <= 0
    BY <1>1, QuotRem
  <2>2. getAsMs(t) = t.sec * m + q
    BY DEF getAsMs
  <2> HIDE DEF n, m, d, q, r
  <2>3. t.sec * d = (t.sec * m) * n
    BY <1>1
  <2>4. t.sec * m \in Int /\ (t.sec * m + q) * n = (t.sec * m) * n + q * n
    BY <1>1, <2>1
  <2>5. Value(t) = (t.sec * m + q) * n + r
    <3>1. (t.sec * m) * n \in Int /\ q * n \in Int
      BY <1>1, <2>1, <2>4
    <3>2. QED
      BY <1>2, <2>1, <2>3, <2>4, <3>1
  <2>6. t.sec * m + q \in Int
    BY <2>1, <2>4
  <2>7. (Value(t) >= 0 => r >= 0) /\ (Value(t) <= 0 => r <= 0)
    BY <1>3, <2>1
  <2>8. QED
    BY <1>1, <1>2, <2>1, <2>2, <2>5, <2>6, <2>7, QuotientOf
<1>5. getAsSeconds(t) = Quot(Value(t), d)
  <2>1. Quot(Value(t), d) = t.sec
    <3> HIDE DEF d
    <3>1. QED
      BY <1>1, <1>2, <1>3, QuotientOf
  <2>2. Quot(t.nsec, d) = 0
    <3> HIDE DEF d
    <3>1. t.nsec = 0 * d + t.nsec
      BY <1>1
    <3>2. QED
      BY <1>1, <3>1, QuotientOf
  <2>3. QED
    BY <1>1, <2>1, <2>2 DEF getAsSeconds
<1>6. QED
  BY <1>4, <1>5

(***************************************************************************)
(* Every operation leaves an Ntime canonical.                              *)
(***************************************************************************)
THEOREM StaysCanonicalHolds == Spec => []StaysCanonical
<1>1. IInv => StaysCanonical
  BY DEF IInv
<1>2. QED
  BY <1>1, Inductive, PTL DEF Spec

(***************************************************************************)
(* Every operation computes what exact arithmetic does.                    *)
(***************************************************************************)
THEOREM ValueKeptHolds == Spec => []ValueKept
<1>1. IInv => ValueKept
  BY DEF IInv
<1>2. QED
  BY <1>1, Inductive, PTL DEF Spec

(***************************************************************************)
(* Every comparison and every conversion of an Ntime gives what exact      *)
(* arithmetic does, because the Ntimes compared and converted are all      *)
(* canonical.                                                              *)
(***************************************************************************)
THEOREM ReadsExactlyHolds == Spec => []ReadsExactly
<1>1. IInv => OrderAgrees
  BY OperandTypes, Comparisons DEF IInv, StaysCanonical, ValueKept, OrderAgrees
<1>2. IInv => ConversionsRound
  BY Conversions DEF IInv, StaysCanonical, ValueKept, ConversionsRound
<1>3. IInv => ReadsExactly
  BY <1>1, <1>2 DEF ReadsExactly
<1>4. QED
  BY <1>3, Inductive, PTL DEF Spec

-----------------------------------------------------------------------------
(* sleep() *)

SleepCalls ==
    [theDelay : Nat, asked : BOOLEAN, delay : Nat, remaining : Nat, repeat : BOOLEAN,
     status : BOOLEAN, signals : Nat, slept : Nat]

(***************************************************************************)
(* A call that will not repeat is on its first nanosleep() or past it, and *)
(* what it has slept and has yet to sleep is the delay it was asked for.   *)
(* One that repeats was not asked for theRemainingTime, and never returns. *)
(***************************************************************************)
Sleeping ==
    /\ value \in Int
    /\ call \in SleepCalls
    /\ pc \in {"out", "nanosleep", "again", "returned"}
    /\ call.asked /\ pc = "nanosleep" => ~call.repeat
    /\ pc = "returned" => ~call.repeat
    /\ pc = "nanosleep" /\ ~call.repeat =>
          call.slept + call.delay = call.theDelay /\ call.remaining = 0
    /\ pc \in {"again", "returned"} /\ ~call.repeat =>
          /\ call.slept + call.remaining = call.theDelay
          /\ call.status <=> call.remaining = 0
          /\ ~call.asked => call.remaining = 0
    /\ call.asked => ~call.repeat

\* What has been slept is counted exactly up to the delay.
LEMMA SleptTyped ==
    ASSUME Sleeping, NEW n \in Nat
    PROVE  /\ Slept(n) \in Nat
           /\ call.slept + n <= call.theDelay => Slept(n) = call.slept + n
BY DEF Sleeping, SleepCalls, Slept

LEMMA ArgumentsTyped ==
    ASSUME NEW d \in Nat, NEW ask \in BOOLEAN
    PROVE  Arguments(d, ask) \in SleepCalls
BY DEF Arguments, SleepCalls

LEMMA SleepElapse ==
    ASSUME Sleeping, Elapse
    PROVE  Sleeping'
<1>1. /\ pc = "nanosleep" /\ pc' = "again" /\ value' = value
      /\ call' = [call EXCEPT !.status = TRUE, !.slept = Slept(call.delay)]
  BY DEF Elapse, Move, vars
<1>2. /\ call \in SleepCalls /\ call.delay \in Nat /\ call.slept \in Nat
      /\ call.theDelay \in Nat
  BY DEF Sleeping, SleepCalls
<1>3. Slept(call.delay) \in Nat
  BY <1>2, SleptTyped
<1>4. ~call.repeat => Slept(call.delay) = call.theDelay
  BY <1>1, <1>2, SleptTyped DEF Sleeping
<1>5. call' \in SleepCalls
  BY <1>1, <1>2, <1>3 DEF SleepCalls
<1>6. /\ call'.status = TRUE /\ call'.slept = Slept(call.delay)
      /\ call'.repeat = call.repeat /\ call'.asked = call.asked
      /\ call'.remaining = call.remaining /\ call'.theDelay = call.theDelay
  BY <1>1, <1>2 DEF SleepCalls
<1>7. QED
  BY <1>1, <1>2, <1>4, <1>5, <1>6 DEF Sleeping

LEMMA SleepInterrupt ==
    ASSUME Sleeping, Interrupt
    PROVE  Sleeping'
<1>1. PICK left \in 1 .. call.delay :
         call' = [call EXCEPT !.signals = @ + 1, !.status = FALSE, !.repeat = ~call.asked,
                              !.remaining = left, !.delay = left,
                              !.slept = Slept(call.delay - left)]
  BY DEF Interrupt
<1>2. pc = "nanosleep" /\ pc' = "again" /\ value' = value
  BY DEF Interrupt, Move, vars
<1>3. /\ call \in SleepCalls /\ call.delay \in Nat /\ call.slept \in Nat
      /\ call.theDelay \in Nat /\ call.signals \in Nat /\ call.asked \in BOOLEAN
  BY DEF Sleeping, SleepCalls
<1>4. left \in Nat /\ left > 0 /\ call.delay - left \in Nat
  BY <1>3
<1>5. Slept(call.delay - left) \in Nat
  BY <1>4, SleptTyped
<1>6. call.asked => Slept(call.delay - left) + left = call.theDelay
  <2> SUFFICES ASSUME call.asked PROVE Slept(call.delay - left) + left = call.theDelay
    OBVIOUS
  <2>1. call.slept + call.delay = call.theDelay
    BY <1>2 DEF Sleeping
  <2>2. call.slept + (call.delay - left) <= call.theDelay
    BY <1>3, <1>4, <2>1
  <2>3. Slept(call.delay - left) = call.slept + (call.delay - left)
    BY <1>4, <2>2, SleptTyped
  <2>4. QED
    BY <1>3, <1>4, <2>1, <2>3
<1>7. /\ ~call'.status /\ call'.slept = Slept(call.delay - left)
      /\ (call'.repeat <=> ~call.asked) /\ (call'.asked <=> call.asked)
      /\ call'.remaining = left /\ call'.theDelay = call.theDelay
  BY <1>1, <1>3 DEF SleepCalls
<1>8. call' \in SleepCalls
  <2>1. call.signals + 1 \in Nat /\ (~call.asked) \in BOOLEAN
    BY <1>3
  <2>2. QED
    BY <1>1, <1>3, <1>4, <1>5, <2>1 DEF SleepCalls
<1>9. CASE call.asked
  <2>1. /\ call'.asked /\ ~call'.repeat /\ ~call'.status
        /\ call'.slept + call'.remaining = call'.theDelay /\ call'.remaining # 0
    BY <1>4, <1>6, <1>7, <1>9
  <2>2. QED
    BY <1>2, <1>3, <1>8, <2>1 DEF Sleeping
<1>10. CASE ~call.asked
  BY <1>2, <1>3, <1>7, <1>8, <1>10 DEF Sleeping
<1>11. QED
  BY <1>9, <1>10

LEMMA SleepInductive == (SleepInit => Sleeping) /\ (Sleeping /\ [SleepNext]_sleepVars => Sleeping')
<1>1. SleepInit => Sleeping
  <2> SUFFICES ASSUME SleepInit PROVE Sleeping
    OBVIOUS
  <2>1. value \in Int
    BY Inductive, UnitPositive DEF SleepInit, IInv, ValueKept, StaysCanonical, Timespec, Value
  <2>2. call \in SleepCalls /\ ~call.asked /\ ~call.repeat /\ pc = "out"
    BY ArgumentsTyped DEF SleepInit, NoCall, Arguments
  <2>3. QED
    BY <2>1, <2>2 DEF Sleeping
<1>2. ASSUME Sleeping, [SleepNext]_sleepVars PROVE Sleeping'
  <2>1. CASE UNCHANGED sleepVars
    BY <1>2, <2>1 DEF sleepVars, vars, Sleeping
  <2>2. ASSUME NEW ask \in Asks, Call(ask) PROVE Sleeping'
    <3>1. /\ value \in Nat /\ value' = value /\ ask \in BOOLEAN
          /\ pc' = IF value = 0 THEN "returned" ELSE "nanosleep"
          /\ call' = Arguments(value, ask)
      BY <1>2, <2>2, SleepAssumption DEF Call, Move, vars, Sleeping
    <3>2. /\ call' \in SleepCalls /\ ~call'.repeat /\ call'.status
          /\ call'.slept = 0 /\ call'.remaining = 0
          /\ call'.delay = value /\ call'.theDelay = value
      BY <3>1, ArgumentsTyped DEF Arguments
    <3>3. QED
      BY <3>1, <3>2 DEF Sleeping
  <2>3. CASE Elapse
    BY <1>2, <2>3, SleepElapse
  <2>4. CASE Interrupt
    BY <1>2, <2>4, SleepInterrupt
  <2>5. CASE Loop
    <3>1. UNCHANGED <<value, call>> /\ pc = "again"
          /\ pc' = IF call.repeat THEN "nanosleep" ELSE "returned"
      BY <2>5 DEF Loop, Move, vars
    <3>2. QED
      BY <1>2, <3>1 DEF Sleeping
  <2>6. CASE Return
    <3>1. value' = value /\ pc' = "out" /\ call' = Arguments(0, FALSE)
      BY <2>6 DEF Return, Move, vars, NoCall
    <3>2. call' \in SleepCalls /\ ~call'.asked /\ ~call'.repeat
      BY <3>1, ArgumentsTyped DEF Arguments
    <3>3. QED
      BY <1>2, <3>1, <3>2 DEF Sleeping
  <2>7. CASE Compute
    <3>1. pc = "out" /\ pc' = pc /\ call' = call /\ Next
      BY <2>7 DEF Compute
    <3>2. \A t, v : Becomes(t, v) => value' \in Int
      BY BoundAssumption DEF Becomes, Around
    <3>3. value' \in Int
      BY <3>1, <3>2
         DEF Next, FromTimespec, SetInMs, SetInSeconds, Add, Subtract, Difference,
             AddMillisecs, AddSecs
    <3>4. QED
      BY <1>2, <3>1, <3>3 DEF Sleeping
  <2>8. QED
    BY <1>2, <2>1, <2>2, <2>3, <2>4, <2>5, <2>6, <2>7 DEF SleepNext, Step
<1>3. QED
  BY <1>1, <1>2

(***************************************************************************)
(* A sleep() that returns has slept the delay, or says exactly how much of *)
(* it is left, however many signals have interrupted it.                   *)
(***************************************************************************)
THEOREM NothingLostHolds == SleepSpec => []NothingLost
<1>1. Sleeping => NothingLost
  BY DEF Sleeping, NothingLost
<1>2. QED
  BY <1>1, SleepInductive, PTL DEF SleepSpec

(***************************************************************************)
(* A thread that sleeps between its operations on an Ntime, and gives one  *)
(* to sleep(), leaves the Ntime as the operations do (sleep() takes it by  *)
(* reference), so all that is proved of the operations holds for it.       *)
(***************************************************************************)
THEOREM SleepKeepsTimes == SleepSpec => Spec
<1>1. SleepInit => Init
  BY DEF SleepInit
<1>2. [SleepNext]_sleepVars => [Next]_vars
  BY DEF SleepNext, sleepVars, Step, Elapse, Interrupt, Loop, Return, Call, Compute
<1>3. QED
  BY <1>1, <1>2, PTL DEF SleepSpec, Spec

-----------------------------------------------------------------------------
(* Nbinary *)

Bit == {0, 1}
Binary == INSTANCE Folding WITH Op <- AddBit, States <- Nat, Letters <- Bit
Hex == INSTANCE Folding WITH Op <- AddNibble, States <- Seq(Bit), Letters <- 0 .. 17
Digit == INSTANCE Folding WITH Op <- AddDigit, States <- Seq(Bit), Letters <- {0, 1, Space}

\* What a division by d leaves no choice about.
LEMMA OneQuotient ==
    ASSUME NEW v \in Nat, NEW d \in Nat \ {0}, NEW q \in Nat, NEW r \in Nat, v = d * q + r, r < d
    PROVE  v \div d = q /\ v % d = r
<1> DEFINE a == v \div d
           c == v % d
<1>1. a \in Nat /\ c \in Nat /\ c < d /\ v = d * a + c OBVIOUS
<1> HIDE DEF a, c
<1>2. ASSUME NEW x \in Nat, NEW y \in Nat, x < y PROVE d * y >= d * x + d
  <2>1. PICK z \in Nat : y = x + 1 + z
    <3>1. y - x - 1 \in Nat /\ y = x + 1 + (y - x - 1) BY <1>2
    <3> QED BY <3>1
  <2>2. d * y = d * x + d + d * z BY <2>1
  <2>3. d * z \in Nat /\ d * x \in Nat OBVIOUS
  <2> QED BY <2>2, <2>3
<1>3. d * a \in Nat /\ d * q \in Nat BY <1>1
<1>4. ~ a < q BY <1>1, <1>2, <1>3
<1>5. ~ q < a BY <1>1, <1>2, <1>3
<1>6. a = q BY <1>1, <1>4, <1>5
<1>7. c = r BY <1>1, <1>3, <1>6
<1> QED BY <1>6, <1>7 DEF a, c

\* One by a product.
LEMMA ProductQuotient ==
    ASSUME NEW v \in Nat, NEW k \in Nat \ {0}, NEW m \in Nat \ {0},
           NEW q \in Nat, NEW r \in Nat, v = k * q + r, r < k,
           NEW s \in Nat, NEW t \in Nat, q = m * s + t, t < m
    PROVE  v \div (k * m) = s /\ v % (k * m) = k * t + r
<1>1. k * m \in Nat \ {0} /\ k * t + r \in Nat OBVIOUS
<1>2. v = (k * m) * s + (k * t + r) OBVIOUS
<1>3. k * t + r < k * m
  <2>1. PICK z \in Nat : m = t + 1 + z
    <3>1. m - t - 1 \in Nat /\ m = t + 1 + (m - t - 1) OBVIOUS
    <3> QED BY <3>1
  <2>2. k * m = k * t + k + k * z BY <2>1
  <2>3. k * z \in Nat /\ k * t \in Nat OBVIOUS
  <2> QED BY <2>2, <2>3
<1> DEFINE d == k * m
           e == k * t + r
<1>4. d \in Nat \ {0} /\ e \in Nat /\ v = d * s + e /\ e < d BY <1>1, <1>2, <1>3
<1> HIDE DEF d, e
<1>5. v \div d = s /\ v % d = e BY <1>4, OneQuotient
<1> QED BY <1>5 DEF d, e

\* A division by k and then by m, and what is left of the two.
LEMMA TwoQuotients ==
    ASSUME NEW v \in Nat, NEW k \in Nat \ {0}, NEW m \in Nat \ {0}
    PROVE  /\ (v \div k) \div m = v \div (k * m)
           /\ v % (k * m) = k * ((v \div k) % m) + (v % k)
<1>1. PICK q \in Nat, r \in Nat : q = v \div k /\ r = v % k /\ r < k /\ v = k * q + r OBVIOUS
<1>2. PICK s \in Nat, t \in Nat : s = q \div m /\ t = q % m /\ t < m /\ q = m * s + t OBVIOUS
<1>3. v \div (k * m) = s /\ v % (k * m) = k * t + r
  <2>1. v = k * q + r /\ r < k BY <1>1, Zenon
  <2>2. q = m * s + t /\ t < m BY <1>2, Zenon
  <2> QED BY <2>1, <2>2, ProductQuotient
<1>4. q = v \div k /\ r = v % k /\ s = q \div m /\ t = q % m BY <1>1, <1>2, Zenon
<1>5. (v \div k) \div m = v \div (k * m) BY <1>3, <1>4, Zenon
<1>6. (v \div k) % m = t /\ v % k = r BY <1>4, Zenon
<1> QED BY <1>3, <1>5, <1>6, Zenon

-----------------------------------------------------------------------------
(* What a string of bits stands for. *)

LEMMA ValueIs == ASSUME NEW b PROVE ValueOf(b) = Binary!Fold(0, b)
BY DEF ValueOf, Binary!Fold, FoldLeft, Binary!FoldLeft, MapThenFoldSet, Binary!MapThenFoldSet,
   Max, Binary!Max

LEMMA BinaryClosed == Binary!Closed
BY DEF Binary!Closed, AddBit, Bit

LEMMA ValueGrows ==
    /\ ValueOf(<<>>) = 0
    /\ \A b \in Seq(Bit) : ValueOf(b) \in Nat
    /\ \A b \in Seq(Bit), d \in Bit : ValueOf(Append(b, d)) = 2 * ValueOf(b) + d
<1>1. ValueOf(<<>>) = 0 BY ValueIs, BinaryClosed, Binary!FoldOfNothing
<1>2. \A b \in Seq(Bit) : ValueOf(b) \in Nat BY ValueIs, BinaryClosed, Binary!FoldType
<1>3. ASSUME NEW b \in Seq(Bit), NEW d \in Bit PROVE ValueOf(Append(b, d)) = 2 * ValueOf(b) + d
  <2>1. Binary!Fold(0, Append(b, d)) = AddBit(Binary!Fold(0, b), d)
        BY BinaryClosed, Binary!FoldOfAppend
  <2> QED BY <2>1, ValueIs DEF AddBit
<1> QED BY <1>1, <1>2, <1>3

LEMMA PowersOfTwo == /\ TwoTo(0) = 1
                     /\ \A n \in Nat : TwoTo(n) \in Nat \ {0} /\ TwoTo(n + 1) = 2 * TwoTo(n)
<1> DEFINE One(n) == [i \in 1 .. n + 1 |-> IF i = 1 THEN 1 ELSE 0]
<1>1. \A n \in Nat : One(n) \in Seq(Bit) /\ Len(One(n)) = n + 1
  <2> TAKE n \in Nat
  <2>1. \A i \in 1 .. n + 1 : One(n)[i] \in Bit BY DEF Bit
  <2> QED BY <2>1
<1>2. One(0) = Append(<<>>, 1)
  <2>1. <<>> \in Seq(Bit) /\ 1 \in Bit /\ One(0) \in Seq(Bit) /\ Len(One(0)) = Len(<<>>) + 1
        BY <1>1, EmptySeq DEF Bit
  <2>2. (\A i \in 1 .. Len(<<>>) : One(0)[i] = <<>>[i]) /\ One(0)[Len(<<>>) + 1] = 1 OBVIOUS
  <2> HIDE DEF One
  <2> QED BY <2>1, <2>2, Binary!AppendByElements
<1>3. ASSUME NEW n \in Nat PROVE One(n + 1) = Append(One(n), 0)
  <2>1. 0 \in Bit /\ One(n) \in Seq(Bit) /\ One(n + 1) \in Seq(Bit)
        /\ Len(One(n)) = n + 1 /\ Len(One(n + 1)) = (n + 1) + 1
        BY <1>1 DEF Bit
  <2>2. (\A i \in 1 .. n + 1 : One(n + 1)[i] = One(n)[i]) /\ One(n + 1)[(n + 1) + 1] = 0
        OBVIOUS
  <2> HIDE DEF One
  <2> QED BY <2>1, <2>2, Binary!AppendByElements
<1>4. \A n : TwoTo(n) = ValueOf(One(n)) BY DEF TwoTo
<1> HIDE DEF One
<1>5. TwoTo(0) = 1
  <2>1. ValueOf(Append(<<>>, 1)) = 2 * ValueOf(<<>>) + 1 BY ValueGrows, EmptySeq DEF Bit
  <2> QED BY <1>2, <1>4, <2>1, ValueGrows
<1>6. ASSUME NEW n \in Nat PROVE TwoTo(n) \in Nat /\ TwoTo(n + 1) = 2 * TwoTo(n)
  <2>1. One(n) \in Seq(Bit) /\ 0 \in Bit BY <1>1 DEF Bit
  <2>2. ValueOf(Append(One(n), 0)) = 2 * ValueOf(One(n)) + 0 /\ ValueOf(One(n)) \in Nat
        BY <2>1, ValueGrows
  <2>3. TwoTo(n) = ValueOf(One(n)) /\ TwoTo(n + 1) = ValueOf(Append(One(n), 0)) BY <1>3, <1>4, Zenon
  <2> QED BY <2>2, <2>3
<1> DEFINE T == {n \in Nat : TwoTo(n) # 0}
<1>7. 0 \in T BY <1>5
<1>8. \A n \in T \cap Nat : n + 1 \in T BY <1>6
<1> HIDE DEF T
<1>9. Nat \subseteq T BY <1>7, <1>8, Binary!Induction
<1> QED BY <1>5, <1>6, <1>9 DEF T

\* Two to the sum of two numbers is a product.
LEMMA PowersMultiply ==
    ASSUME NEW m \in Nat, NEW n \in Nat
    PROVE  TwoTo(m + n) = TwoTo(m) * TwoTo(n) /\ TwoTo(m) <= TwoTo(m + n)
<1> DEFINE T == {k \in Nat : TwoTo(m + k) = TwoTo(m) * TwoTo(k)}
<1>1. TwoTo(m) \in Nat /\ m + 0 = m BY PowersOfTwo
<1>2. 0 \in T BY <1>1, PowersOfTwo
<1>3. ASSUME NEW k \in T \cap Nat PROVE k + 1 \in T
  <2>1. TwoTo(m + k) = TwoTo(m) * TwoTo(k) BY <1>3
  <2>2. m + (k + 1) = (m + k) + 1 OBVIOUS
  <2>3. TwoTo((m + k) + 1) = 2 * TwoTo(m + k) BY PowersOfTwo
  <2>4. TwoTo(k + 1) = 2 * TwoTo(k) /\ TwoTo(k) \in Nat BY PowersOfTwo
  <2> DEFINE x == TwoTo(m)
             y == TwoTo(k)
  <2> HIDE DEF x, y
  <2>5. x \in Nat /\ y \in Nat BY <1>1, <2>4 DEF x, y
  <2>6. 2 * (x * y) = x * (2 * y) BY <2>5
  <2>7. TwoTo(m + (k + 1)) = TwoTo(m) * TwoTo(k + 1)
        BY <2>1, <2>2, <2>3, <2>4, <2>6 DEF x, y
  <2> QED BY <2>7
<1> HIDE DEF T
<1>4. n \in T BY <1>2, <1>3, Binary!Induction
<1>5. TwoTo(m + n) = TwoTo(m) * TwoTo(n) BY <1>4 DEF T
<1> DEFINE x == TwoTo(m)
           y == TwoTo(n)
<1>6. x \in Nat /\ y \in Nat \ {0} BY PowersOfTwo
<1> HIDE DEF x, y
<1>7. x <= x * y
  <2>1. y - 1 \in Nat /\ x * y = x + x * (y - 1) BY <1>6
  <2>2. x * (y - 1) \in Nat BY <1>6, <2>1
  <2> QED BY <1>6, <2>1, <2>2
<1> QED BY <1>5, <1>7 DEF x, y

\* More bits stand for more numbers.
LEMMA PowersGrow == ASSUME NEW m \in Nat, NEW n \in Nat, m <= n PROVE TwoTo(m) <= TwoTo(n)
<1>1. n - m \in Nat /\ m + (n - m) = n OBVIOUS
<1>2. TwoTo(m) <= TwoTo(m + (n - m)) BY <1>1, PowersMultiply
<1> QED BY <1>1, <1>2

LEMMA ValueFits == ASSUME NEW b \in Seq(Bit) PROVE ValueOf(b) < TwoTo(Len(b))
<1> DEFINE T == {s \in Seq(Bit) : ValueOf(s) < TwoTo(Len(s))}
<1>1. <<>> \in T
  <2>1. <<>> \in Seq(Bit) /\ Len(<<>>) = 0 BY EmptySeq
  <2> QED BY <2>1, ValueGrows, PowersOfTwo
<1>2. ASSUME NEW s \in T \cap Seq(Bit), NEW d \in Bit PROVE Append(s, d) \in T
  <2>1. Len(s) \in Nat /\ Append(s, d) \in Seq(Bit) /\ Len(Append(s, d)) = Len(s) + 1
        BY LenProperties, AppendProperties
  <2>2. ValueOf(s) < TwoTo(Len(s)) /\ ValueOf(s) \in Nat BY ValueGrows
  <2>3. TwoTo(Len(s) + 1) = 2 * TwoTo(Len(s)) /\ TwoTo(Len(s)) \in Nat BY <2>1, PowersOfTwo
  <2>4. ValueOf(Append(s, d)) = 2 * ValueOf(s) + d BY ValueGrows
  <2> QED BY <2>1, <2>2, <2>3, <2>4 DEF Bit
<1> HIDE DEF T
<1>3. Seq(Bit) \subseteq T BY <1>1, <1>2, Binary!SeqInduction
<1> QED BY <1>3 DEF T

-----------------------------------------------------------------------------
(* The low bits of a number. *)

LEMMA LowType == ASSUME NEW v \in Nat, NEW n \in Nat
                 PROVE Low(v, n) \in Seq(Bit) /\ Len(Low(v, n)) = n
<1>1. ASSUME NEW i \in 1 .. n PROVE (v \div TwoTo(n - i)) % 2 \in Bit
  <2>1. n - i \in Nat OBVIOUS
  <2>2. TwoTo(n - i) \in Nat \ {0} BY <2>1, PowersOfTwo
  <2>3. \A d \in Nat \ {0} : v \div d \in Nat OBVIOUS
  <2>4. \A q \in Nat : q % 2 \in Bit BY DEF Bit
  <2> QED BY <2>2, <2>3, <2>4
<1> QED BY <1>1 DEF Low

\* The same of a division by 2 and by a power of it.
LEMMA HalfQuotients ==
    ASSUME NEW v \in Nat, NEW n \in Nat
    PROVE  /\ (v \div 2) \div TwoTo(n) = v \div TwoTo(n + 1)
           /\ v % TwoTo(n + 1) = 2 * ((v \div 2) % TwoTo(n)) + (v % 2)
<1>1. TwoTo(n) \in Nat \ {0} /\ TwoTo(n + 1) = 2 * TwoTo(n) BY PowersOfTwo
<1>2. 2 \in Nat \ {0} OBVIOUS
<1>3. \A m \in Nat \ {0} : /\ (v \div 2) \div m = v \div (2 * m)
                          /\ v % (2 * m) = 2 * ((v \div 2) % m) + (v % 2)
      BY <1>2, TwoQuotients, Zenon
<1> QED BY <1>1, <1>3, Zenon

\* Its last bit is the number's parity, those before it are of half of it.
LEMMA LowGrows ==
    ASSUME NEW v \in Nat, NEW n \in Nat
    PROVE  Low(v, n + 1) = Append(Low(v \div 2, n), v % 2)
<1>1. v \div 2 \in Nat /\ v % 2 \in Bit BY DEF Bit
<1>2. Low(v, n + 1) \in Seq(Bit) /\ Len(Low(v, n + 1)) = n + 1
      /\ Low(v \div 2, n) \in Seq(Bit) /\ Len(Low(v \div 2, n)) = n
  <2>1. n + 1 \in Nat OBVIOUS
  <2> QED BY <1>1, <2>1, LowType, Zenon
<1>3. ASSUME NEW i \in 1 .. n PROVE Low(v, n + 1)[i] = Low(v \div 2, n)[i]
  <2>1. (n + 1) - i = (n - i) + 1 /\ n - i \in Nat /\ i \in 1 .. n + 1 OBVIOUS
  <2>2. (v \div 2) \div TwoTo(n - i) = v \div TwoTo((n - i) + 1) BY <2>1, HalfQuotients, Zenon
  <2>3. (v \div 2) \div TwoTo(n - i) = v \div TwoTo((n + 1) - i) BY <2>1, <2>2, Zenon
  <2>4. Low(v, n + 1)[i] = (v \div TwoTo((n + 1) - i)) % 2 BY <2>1 DEF Low
  <2>5. Low(v \div 2, n)[i] = ((v \div 2) \div TwoTo(n - i)) % 2 BY DEF Low
  <2> QED BY <2>3, <2>4, <2>5, Zenon
<1>4. Low(v, n + 1)[n + 1] = v % 2
  <2>1. n + 1 \in 1 .. n + 1 /\ (n + 1) - (n + 1) = 0 OBVIOUS
  <2>2. Low(v, n + 1)[n + 1] = (v \div TwoTo(0)) % 2 BY <2>1 DEF Low
  <2>3. v \div 1 = v OBVIOUS
  <2> QED BY <2>2, <2>3, PowersOfTwo
<1> DEFINE f == Low(v \div 2, n)
           g == Low(v, n + 1)
           e == v % 2
<1>5. /\ f \in Seq(Bit) /\ g \in Seq(Bit) /\ e \in Bit /\ Len(g) = Len(f) + 1
      /\ (\A i \in 1 .. Len(f) : g[i] = f[i]) /\ g[Len(f) + 1] = e
      BY <1>1, <1>2, <1>3, <1>4
<1> HIDE DEF f, g, e
<1>6. g = Append(f, e) BY <1>5, Binary!AppendByElements
<1> QED BY <1>6 DEF f, g, e

\* The low bits stand for what is left of the number.
LEMMA LowValue ==
    ASSUME NEW n \in Nat PROVE \A v \in Nat : ValueOf(Low(v, n)) = v % TwoTo(n)
<1> DEFINE T == {k \in Nat : \A v \in Nat : ValueOf(Low(v, k)) = v % TwoTo(k)}
<1>1. 0 \in T
  <2> SUFFICES ASSUME NEW v \in Nat PROVE ValueOf(Low(v, 0)) = v % TwoTo(0) OBVIOUS
  <2>1. Low(v, 0) = <<>> BY LowType, EmptySeq
  <2>2. v % 1 = 0 OBVIOUS
  <2> QED BY <2>1, <2>2, ValueGrows, PowersOfTwo
<1>2. ASSUME NEW k \in T \cap Nat PROVE k + 1 \in T
  <2> SUFFICES ASSUME NEW v \in Nat PROVE ValueOf(Low(v, k + 1)) = v % TwoTo(k + 1) OBVIOUS
  <2>1. v \div 2 \in Nat /\ v % 2 \in Bit BY DEF Bit
  <2>2. ValueOf(Low(v \div 2, k)) = (v \div 2) % TwoTo(k) BY <1>2, <2>1
  <2>3. ValueOf(Append(Low(v \div 2, k), v % 2)) = 2 * ValueOf(Low(v \div 2, k)) + (v % 2)
        BY <2>1, LowType, ValueGrows
  <2>4. v % TwoTo(k + 1) = 2 * ((v \div 2) % TwoTo(k)) + (v % 2) BY HalfQuotients, Zenon
  <2>5. Low(v, k + 1) = Append(Low(v \div 2, k), v % 2) BY LowGrows
  <2> QED BY <2>2, <2>3, <2>4, <2>5, Zenon
<1> HIDE DEF T
<1>3. n \in T BY <1>1, <1>2, Binary!Induction
<1> QED BY <1>3 DEF T

\* A number that fits is what is left of it.
LEMMA SmallRemainder == ASSUME NEW v \in Nat, NEW n \in Nat
                        PROVE /\ v % TwoTo(n) \in Nat
                              /\ v < TwoTo(n) <=> v % TwoTo(n) = v
<1>1. TwoTo(n) \in Nat \ {0} BY PowersOfTwo
<1>2. ASSUME NEW d \in Nat \ {0} PROVE v % d \in Nat /\ (v < d <=> v % d = v)
  <2>1. v % d \in Nat /\ v % d < d OBVIOUS
  <2>2. v < d => v % d = v
    <3> SUFFICES ASSUME v < d PROVE v % d = v OBVIOUS
    <3>1. v = d * 0 + v /\ 0 \in Nat OBVIOUS
    <3> QED BY <3>1, OneQuotient
  <2> QED BY <2>1, <2>2
<1> QED BY <1>1, <1>2

\* A string of bits is the low bits of what it stands for.
LEMMA LowOfValue == ASSUME NEW b \in Seq(Bit) PROVE Low(ValueOf(b), Len(b)) = b
<1> DEFINE T == {s \in Seq(Bit) : Low(ValueOf(s), Len(s)) = s}
<1>1. <<>> \in T
  <2>1. <<>> \in Seq(Bit) /\ Len(<<>>) = 0 BY EmptySeq
  <2>2. Low(0, 0) = <<>> BY LowType, EmptySeq
  <2> QED BY <2>1, <2>2, ValueGrows
<1>2. ASSUME NEW s \in T \cap Seq(Bit), NEW d \in Bit PROVE Append(s, d) \in T
  <2>1. Len(s) \in Nat /\ Append(s, d) \in Seq(Bit) /\ Len(Append(s, d)) = Len(s) + 1
        BY LenProperties, AppendProperties
  <2>2. Low(ValueOf(s), Len(s)) = s /\ ValueOf(s) \in Nat BY ValueGrows
  <2>3. ValueOf(Append(s, d)) = 2 * ValueOf(s) + d BY ValueGrows
  <2>4. \A x \in Nat : 2 * x + d \in Nat /\ (2 * x + d) \div 2 = x /\ (2 * x + d) % 2 = d
        BY DEF Bit
  <2>5. Low(2 * ValueOf(s) + d, Len(s) + 1) = Append(Low(ValueOf(s), Len(s)), d)
    <3>1. /\ 2 * ValueOf(s) + d \in Nat /\ (2 * ValueOf(s) + d) \div 2 = ValueOf(s)
          /\ (2 * ValueOf(s) + d) % 2 = d
          BY <2>2, <2>4
    <3>2. Low(2 * ValueOf(s) + d, Len(s) + 1)
            = Append(Low((2 * ValueOf(s) + d) \div 2, Len(s)), (2 * ValueOf(s) + d) % 2)
          BY <2>1, <3>1, LowGrows
    <3> QED BY <3>1, <3>2, Zenon
  <2>6. Low(ValueOf(Append(s, d)), Len(Append(s, d))) = Append(s, d)
        BY <2>1, <2>2, <2>3, <2>5, Zenon
  <2> QED BY <2>1, <2>6
<1> HIDE DEF T
<1>3. Seq(Bit) \subseteq T BY <1>1, <1>2, Binary!SeqInduction
<1> QED BY <1>3 DEF T

-----------------------------------------------------------------------------
(* Strings of bits put one after the other. *)

LEMMA AppendToConcat ==
    ASSUME NEW L, NEW a \in Seq(L), NEW b \in Seq(L), NEW d \in L
    PROVE  a \o Append(b, d) = Append(a \o b, d)
<1>1. <<d>> \in Seq(L) OBVIOUS
<1>2. a \o b \in Seq(L) BY ConcatProperties
<1>3. Append(b, d) = b \o <<d>> /\ Append(a \o b, d) = (a \o b) \o <<d>>
      BY <1>2, AppendIsConcat
<1> QED BY <1>1, <1>3, ConcatAssociative

LEMMA ValueOfConcat ==
    ASSUME NEW a \in Seq(Bit), NEW b \in Seq(Bit)
    PROVE  ValueOf(a \o b) = ValueOf(a) * TwoTo(Len(b)) + ValueOf(b)
<1> DEFINE T == {s \in Seq(Bit) : ValueOf(a \o s) = ValueOf(a) * TwoTo(Len(s)) + ValueOf(s)}
<1>0. ValueOf(a) \in Nat BY ValueGrows
<1>1. <<>> \in T
  <2>1. <<>> \in Seq(Bit) /\ Len(<<>>) = 0 /\ a \o <<>> = a BY EmptySeq, ConcatEmptySeq
  <2>2. TwoTo(0) = 1 /\ ValueOf(<<>>) = 0 BY ValueGrows, PowersOfTwo
  <2>3. ValueOf(a) * 1 + 0 = ValueOf(a) BY <1>0
  <2>4. ValueOf(a \o <<>>) = ValueOf(a) * TwoTo(Len(<<>>)) + ValueOf(<<>>)
        BY <2>1, <2>2, <2>3
  <2> QED BY <2>1, <2>4
<1>2. ASSUME NEW s \in T \cap Seq(Bit), NEW d \in Bit PROVE Append(s, d) \in T
  <2>1. Len(s) \in Nat /\ Append(s, d) \in Seq(Bit) /\ Len(Append(s, d)) = Len(s) + 1
        /\ a \o s \in Seq(Bit)
        BY LenProperties, AppendProperties, ConcatProperties
  <2> s \in Seq(Bit) OBVIOUS
  <2> HIDE DEF T
  <2>2. ValueOf(a \o Append(s, d)) = 2 * ValueOf(a \o s) + d
    <3>1. a \o Append(s, d) = Append(a \o s, d) BY AppendToConcat
    <3>2. ValueOf(Append(a \o s, d)) = 2 * ValueOf(a \o s) + d BY <2>1, ValueGrows, Zenon
    <3> QED BY <3>1, <3>2, Zenon
  <2>3. ValueOf(a \o s) = ValueOf(a) * TwoTo(Len(s)) + ValueOf(s) BY DEF T
  <2>4. ValueOf(Append(s, d)) = 2 * ValueOf(s) + d /\ ValueOf(s) \in Nat BY ValueGrows
  <2>5. TwoTo(Len(s) + 1) = 2 * TwoTo(Len(s)) /\ TwoTo(Len(s)) \in Nat BY <2>1, PowersOfTwo
  <2>6. d \in Nat BY DEF Bit
  <2>7. \A x, y, z \in Nat : 2 * (x * y + z) + d = x * (2 * y) + (2 * z + d) BY <2>6
  <2>8. 2 * (ValueOf(a) * TwoTo(Len(s)) + ValueOf(s)) + d
          = ValueOf(a) * (2 * TwoTo(Len(s))) + (2 * ValueOf(s) + d)
        BY <1>0, <2>4, <2>5, <2>7
  <2>9. ValueOf(a \o Append(s, d)) = ValueOf(a) * TwoTo(Len(Append(s, d))) + ValueOf(Append(s, d))
        BY <2>1, <2>2, <2>3, <2>4, <2>5, <2>8, Zenon
  <2> QED BY <2>1, <2>9 DEF T
<1> HIDE DEF T
<1>3. Seq(Bit) \subseteq T BY <1>1, <1>2, Binary!SeqInduction
<1> QED BY <1>3 DEF T

\* Only bits that are all 0 stand for nothing.
LEMMA NoValue == ASSUME NEW b \in Seq(Bit)
                 PROVE ValueOf(b) = 0 <=> \A i \in 1 .. Len(b) : b[i] = 0
<1> DEFINE Zeros(s) == \A i \in 1 .. Len(s) : s[i] = 0
           T == {s \in Seq(Bit) : ValueOf(s) = 0 <=> Zeros(s)}
<1>1. <<>> \in T
  <2>1. <<>> \in Seq(Bit) /\ Len(<<>>) = 0 BY EmptySeq
  <2> QED BY <2>1, ValueGrows
<1>2. ASSUME NEW s \in T \cap Seq(Bit), NEW d \in Bit PROVE Append(s, d) \in T
  <2>1. /\ Len(s) \in Nat /\ Append(s, d) \in Seq(Bit) /\ Len(Append(s, d)) = Len(s) + 1
        /\ (\A i \in 1 .. Len(s) : Append(s, d)[i] = s[i]) /\ Append(s, d)[Len(s) + 1] = d
        BY LenProperties, AppendProperties
  <2>2. ValueOf(Append(s, d)) = 2 * ValueOf(s) + d /\ ValueOf(s) \in Nat BY ValueGrows
  <2>3. ValueOf(Append(s, d)) = 0 <=> ValueOf(s) = 0 /\ d = 0 BY <2>2 DEF Bit
  <2>4. Zeros(Append(s, d)) <=> Zeros(s) /\ d = 0
    <3>1. Zeros(Append(s, d)) => Zeros(s) /\ d = 0
      <4> SUFFICES ASSUME Zeros(Append(s, d)) PROVE Zeros(s) /\ d = 0 OBVIOUS
      <4>1. \A i \in 1 .. Len(s) + 1 : Append(s, d)[i] = 0 BY <2>1
      <4>2. Len(s) + 1 \in 1 .. Len(s) + 1 /\ \A i \in 1 .. Len(s) : i \in 1 .. Len(s) + 1 BY <2>1
      <4> QED BY <2>1, <4>1, <4>2
    <3>2. Zeros(s) /\ d = 0 => Zeros(Append(s, d))
      <4> SUFFICES ASSUME Zeros(s), d = 0, NEW i \in 1 .. Len(s) + 1 PROVE Append(s, d)[i] = 0
          BY <2>1
      <4> QED BY <2>1
    <3> QED BY <3>1, <3>2
  <2>5. ValueOf(s) = 0 <=> Zeros(s) OBVIOUS
  <2> HIDE DEF Zeros
  <2> QED BY <2>1, <2>3, <2>4, <2>5
<1> HIDE DEF T
<1>3. Seq(Bit) \subseteq T BY <1>1, <1>2, Binary!SeqInduction
<1> QED BY <1>3 DEF T

-----------------------------------------------------------------------------
(* Texts. *)

LEMMA NibbleType == ASSUME NEW c \in 0 .. 17
                    PROVE /\ Nibble(c) \in Seq(Bit)
                          /\ c # Space => Len(Nibble(c)) = 4
<1>1. Low(c, 4) \in Seq(Bit) /\ Len(Low(c, 4)) = 4
  <2>1. c \in Nat /\ 4 \in Nat OBVIOUS
  <2> QED BY <2>1, LowType
<1> QED BY <1>1, EmptySeq DEF Nibble

LEMMA HexIs == ASSUME NEW text PROVE HexBits(text) = Hex!Fold(<<>>, text)
BY DEF HexBits, Hex!Fold, FoldLeft, Hex!FoldLeft, MapThenFoldSet, Hex!MapThenFoldSet, Max, Hex!Max

LEMMA HexClosed == Hex!Closed
BY NibbleType, ConcatProperties DEF Hex!Closed, AddNibble

LEMMA HexGrows ==
    /\ HexBits(<<>>) = <<>>
    /\ \A t \in Seq(0 .. 17) : HexBits(t) \in Seq(Bit)
    /\ \A t \in Seq(0 .. 17), c \in 0 .. 17 : HexBits(Append(t, c)) = HexBits(t) \o Nibble(c)
<1>0. <<>> \in Seq(Bit) BY EmptySeq
<1>1. HexBits(<<>>) = <<>> BY <1>0, HexIs, HexClosed, Hex!FoldOfNothing
<1>2. \A t \in Seq(0 .. 17) : HexBits(t) \in Seq(Bit) BY <1>0, HexIs, HexClosed, Hex!FoldType
<1>3. ASSUME NEW t \in Seq(0 .. 17), NEW c \in 0 .. 17
      PROVE  HexBits(Append(t, c)) = HexBits(t) \o Nibble(c)
  <2>1. Hex!Fold(<<>>, Append(t, c)) = AddNibble(Hex!Fold(<<>>, t), c)
        BY <1>0, HexClosed, Hex!FoldOfAppend
  <2> QED BY <2>1, HexIs DEF AddNibble
<1> QED BY <1>1, <1>2, <1>3

LEMMA DigitIs == ASSUME NEW text PROVE BinaryBits(text) = Digit!Fold(<<>>, text)
BY DEF BinaryBits, Digit!Fold, FoldLeft, Digit!FoldLeft, MapThenFoldSet, Digit!MapThenFoldSet,
   Max, Digit!Max

LEMMA DigitClosed == Digit!Closed
<1> SUFFICES ASSUME NEW b \in Seq(Bit), NEW c \in {0, 1, Space} PROVE AddDigit(b, c) \in Seq(Bit)
    BY DEF Digit!Closed
<1>1. c # Space => c \in Bit BY DEF Bit
<1> QED BY <1>1, AppendProperties DEF AddDigit

LEMMA BinaryBitsType == ASSUME NEW text \in Seq({0, 1, Space}) PROVE BinaryBits(text) \in Seq(Bit)
BY DigitIs, DigitClosed, EmptySeq, Digit!FoldType

LEMMA Sixteen == TwoTo(4) = 16
<1>1. TwoTo(0) = 1 /\ \A n \in Nat : TwoTo(n + 1) = 2 * TwoTo(n) BY PowersOfTwo
<1>2. 0 + 1 = 1 /\ 1 + 1 = 2 /\ 2 + 1 = 3 /\ 3 + 1 = 4 OBVIOUS
<1>3. TwoTo(1) = 2 /\ TwoTo(2) = 2 * TwoTo(1) /\ TwoTo(3) = 2 * TwoTo(2) /\ TwoTo(4) = 2 * TwoTo(3)
      BY <1>1, <1>2
<1> QED BY <1>3

LEMMA SixteenQuotients ==
    ASSUME NEW v \in Nat, NEW n \in Nat
    PROVE  /\ (v \div 16) \div TwoTo(n) = v \div TwoTo(n + 4)
           /\ v % TwoTo(n + 4) = 16 * ((v \div 16) % TwoTo(n)) + (v % 16)
<1>1. TwoTo(n) \in Nat \ {0} /\ TwoTo(n + 4) = 16 * TwoTo(n)
  <2>1. TwoTo(n) \in Nat \ {0} BY PowersOfTwo
  <2>2. 4 \in Nat OBVIOUS
  <2>3. TwoTo(n + 4) = TwoTo(n) * 16 BY <2>2, PowersMultiply, Sixteen
  <2> QED BY <2>1, <2>3
<1>2. 16 \in Nat \ {0} OBVIOUS
<1>3. \A m \in Nat \ {0} : /\ (v \div 16) \div m = v \div (16 * m)
                          /\ v % (16 * m) = 16 * ((v \div 16) % m) + (v % 16)
      BY <1>2, TwoQuotients, Zenon
<1> QED BY <1>1, <1>3, Zenon

\* n hex digits of v.
HexDigits(v, n) == [i \in 1 .. n |-> (v \div TwoTo(4 * (n - i))) % 16]

LEMMA DigitsType == ASSUME NEW v \in Nat, NEW n \in Nat
                    PROVE HexDigits(v, n) \in Seq(0 .. 17) /\ Len(HexDigits(v, n)) = n
<1>1. ASSUME NEW i \in 1 .. n PROVE (v \div TwoTo(4 * (n - i))) % 16 \in 0 .. 17
  <2>1. 4 * (n - i) \in Nat OBVIOUS
  <2>2. TwoTo(4 * (n - i)) \in Nat \ {0} BY <2>1, PowersOfTwo, Zenon
  <2>3. \A d \in Nat \ {0} : v \div d \in Nat OBVIOUS
  <2>4. \A q \in Nat : q % 16 \in 0 .. 17 OBVIOUS
  <2> QED BY <2>2, <2>3, <2>4, Zenon
<1> QED BY <1>1 DEF HexDigits

LEMMA DigitsGrow ==
    ASSUME NEW v \in Nat, NEW n \in Nat
    PROVE  HexDigits(v, n + 1) = Append(HexDigits(v \div 16, n), v % 16)
<1>1. v \div 16 \in Nat /\ v % 16 \in 0 .. 17 OBVIOUS
<1>2. HexDigits(v, n + 1) \in Seq(0 .. 17) /\ Len(HexDigits(v, n + 1)) = n + 1
      /\ HexDigits(v \div 16, n) \in Seq(0 .. 17) /\ Len(HexDigits(v \div 16, n)) = n
  <2>1. n + 1 \in Nat OBVIOUS
  <2> QED BY <1>1, <2>1, DigitsType, Zenon
<1>3. ASSUME NEW i \in 1 .. n PROVE HexDigits(v, n + 1)[i] = HexDigits(v \div 16, n)[i]
  <2>1. 4 * ((n + 1) - i) = 4 * (n - i) + 4 /\ 4 * (n - i) \in Nat /\ i \in 1 .. n + 1 OBVIOUS
  <2>2. (v \div 16) \div TwoTo(4 * (n - i)) = v \div TwoTo(4 * (n - i) + 4)
        BY <2>1, SixteenQuotients, Zenon
  <2>3. (v \div 16) \div TwoTo(4 * (n - i)) = v \div TwoTo(4 * ((n + 1) - i))
        BY <2>1, <2>2, Zenon
  <2>4. HexDigits(v, n + 1)[i] = (v \div TwoTo(4 * ((n + 1) - i))) % 16 BY <2>1 DEF HexDigits
  <2>5. HexDigits(v \div 16, n)[i] = ((v \div 16) \div TwoTo(4 * (n - i))) % 16 BY DEF HexDigits
  <2> QED BY <2>3, <2>4, <2>5, Zenon
<1>4. HexDigits(v, n + 1)[n + 1] = v % 16
  <2>1. n + 1 \in 1 .. n + 1 /\ 4 * ((n + 1) - (n + 1)) = 0 OBVIOUS
  <2>2. HexDigits(v, n + 1)[n + 1] = (v \div TwoTo(4 * ((n + 1) - (n + 1)))) % 16
        BY <2>1, Zenon DEF HexDigits
  <2>3. v \div 1 = v OBVIOUS
  <2> QED BY <2>1, <2>2, <2>3, PowersOfTwo
<1> DEFINE f == HexDigits(v \div 16, n)
           g == HexDigits(v, n + 1)
           e == v % 16
<1>5. /\ f \in Seq(0 .. 17) /\ g \in Seq(0 .. 17) /\ e \in 0 .. 17 /\ Len(g) = Len(f) + 1
      /\ (\A i \in 1 .. Len(f) : g[i] = f[i]) /\ g[Len(f) + 1] = e
      BY <1>1, <1>2, <1>3, <1>4
<1> HIDE DEF f, g, e
<1>6. g = Append(f, e) BY <1>5, Binary!AppendByElements
<1> QED BY <1>6 DEF f, g, e

\* A digit is read as its four bits.
LEMMA NibbleValue == ASSUME NEW c \in 0 .. 15
                     PROVE /\ Nibble(c) \in Seq(Bit) /\ Len(Nibble(c)) = 4
                           /\ ValueOf(Nibble(c)) = c
<1>1. c \in Nat /\ c \in 0 .. 17 /\ c # Space /\ 4 \in Nat BY DEF Space
<1>3. Nibble(c) = Low(c, 4) BY <1>1 DEF Nibble
<1>4. ValueOf(Low(c, 4)) = c % TwoTo(4) BY <1>1, LowValue
<1>5. c % 16 = c OBVIOUS
<1> QED BY <1>1, <1>3, <1>4, <1>5, Sixteen, NibbleType

LEMMA DigitsRead ==
    ASSUME NEW n \in Nat
    PROVE  \A v \in Nat : ValueOf(HexBits(HexDigits(v, n))) = v % TwoTo(4 * n)
<1> DEFINE T == {k \in Nat : \A v \in Nat : ValueOf(HexBits(HexDigits(v, k))) = v % TwoTo(4 * k)}
<1>1. 0 \in T
  <2> SUFFICES ASSUME NEW v \in Nat PROVE ValueOf(HexBits(HexDigits(v, 0))) = v % TwoTo(4 * 0)
      OBVIOUS
  <2>1. HexDigits(v, 0) = <<>> BY DigitsType, EmptySeq
  <2>2. v % 1 = 0 /\ 4 * 0 = 0 OBVIOUS
  <2> QED BY <2>1, <2>2, HexGrows, ValueGrows, PowersOfTwo
<1>2. ASSUME NEW k \in T \cap Nat PROVE k + 1 \in T
  <2> SUFFICES ASSUME NEW v \in Nat
               PROVE  ValueOf(HexBits(HexDigits(v, k + 1))) = v % TwoTo(4 * (k + 1)) OBVIOUS
  <2> DEFINE u == v \div 16
             c == v % 16
  <2>1. u \in Nat /\ c \in 0 .. 15 /\ c \in 0 .. 17 OBVIOUS
  <2>2. HexDigits(v, k + 1) = Append(HexDigits(u, k), c) BY DigitsGrow, Zenon
  <2>3. v % TwoTo(4 * k + 4) = 16 * (u % TwoTo(4 * k)) + c
    <3>1. 4 * k \in Nat OBVIOUS
    <3> QED BY <3>1, SixteenQuotients, Zenon
  <2> HIDE DEF u, c
  <2>4. ValueOf(HexBits(HexDigits(u, k))) = u % TwoTo(4 * k) BY <1>2, <2>1
  <2> HIDE DEF T
  <2>5. HexDigits(u, k) \in Seq(0 .. 17) BY <2>1, DigitsType
  <2>6. HexBits(Append(HexDigits(u, k), c)) = HexBits(HexDigits(u, k)) \o Nibble(c)
        /\ HexBits(HexDigits(u, k)) \in Seq(Bit)
        BY <2>1, <2>5, HexGrows, Zenon
  <2>7. Nibble(c) \in Seq(Bit) /\ Len(Nibble(c)) = 4 /\ ValueOf(Nibble(c)) = c
        BY <2>1, NibbleValue, Zenon
  <2>8. ValueOf(HexBits(HexDigits(u, k)) \o Nibble(c))
           = ValueOf(HexBits(HexDigits(u, k))) * TwoTo(4) + c
        BY <2>6, <2>7, ValueOfConcat, Zenon
  <2>9. u % TwoTo(4 * k) \in Nat
    <3>1. 4 * k \in Nat OBVIOUS
    <3> QED BY <2>1, <3>1, SmallRemainder, Zenon
  <2>10. \A x \in Nat : x * 16 + c = 16 * x + c BY <2>1
  <2>11. (u % TwoTo(4 * k)) * 16 + c = 16 * (u % TwoTo(4 * k)) + c BY <2>9, <2>10, Zenon
  <2>12. 4 * (k + 1) = 4 * k + 4 OBVIOUS
  <2>13. ValueOf(HexBits(HexDigits(v, k + 1))) = v % TwoTo(4 * (k + 1))
         BY <2>2, <2>3, <2>4, <2>6, <2>8, <2>11, <2>12, Sixteen, Zenon
  <2> QED BY <2>13
<1> HIDE DEF T
<1>3. n \in T BY <1>1, <1>2, Binary!Induction
<1> QED BY <1>3 DEF T

\* The shortest hex text of a number that fits an unsigned long long.
LEMMA HexReadsBack == ASSUME NEW v \in LongWords PROVE ValueOf(HexBits(HexText(v))) = v
<1> DEFINE Long(n) == v < TwoTo(4 * n)
           Short(n) == n = 1 \/ v >= TwoTo(4 * (n - 1))
           n == CHOOSE m \in 1 .. Width : Long(m) /\ Short(m)
<1>1. v \in Nat /\ v < TwoTo(Width) /\ Width \in Nat /\ Width >= 1
      BY PowersOfTwo, BinaryAssumption DEF LongWords
<1>2. Long(Width)
  <2>1. 4 * Width \in Nat /\ Width <= 4 * Width BY <1>1
  <2>2. TwoTo(Width) <= TwoTo(4 * Width) /\ TwoTo(Width) \in Nat /\ TwoTo(4 * Width) \in Nat
        BY <1>1, <2>1, PowersGrow, PowersOfTwo
  <2> QED BY <1>1, <2>2
<1>3. \E m \in 1 .. Width : Long(m) /\ Short(m)
  <2> DEFINE T == {m \in 1 .. Width : Long(m)}
  <2>1. Width \in T /\ T \in SUBSET Nat /\ T # {} BY <1>1, <1>2
  <2> HIDE DEF T
  <2>2. PICK m \in T : \A k \in T : m <= k BY <2>1, Binary!LeastNumber
  <2>3. m \in 1 .. Width /\ Long(m) BY <2>2 DEF T
  <2>4. Short(m)
    <3> SUFFICES ASSUME m # 1 PROVE v >= TwoTo(4 * (m - 1)) OBVIOUS
    <3>1. m - 1 \in 1 .. Width /\ 4 * (m - 1) \in Nat /\ m - 1 < m BY <1>1, <2>3
    <3>2. m - 1 \notin T BY <1>1, <2>2, <2>3, <3>1
    <3>3. ~ v < TwoTo(4 * (m - 1)) BY <3>1, <3>2, Zenon DEF T
    <3>4. TwoTo(4 * (m - 1)) \in Nat BY <3>1, PowersOfTwo, Zenon
    <3> QED BY <1>1, <3>3, <3>4
  <2> HIDE DEF Long, Short
  <2> QED BY <2>3, <2>4
<1>4. HexText(v) = HexDigits(v, n) BY Zenon DEF HexText, HexDigits
<1> HIDE DEF Short
<1>5. n \in 1 .. Width /\ Long(n)
  <2> HIDE DEF Long
  <2> QED BY <1>3, Zenon
<1> HIDE DEF n
<1>6. n \in Nat /\ 4 * n \in Nat BY <1>1, <1>5
<1>7. ValueOf(HexBits(HexDigits(v, n))) = v % TwoTo(4 * n) BY <1>1, <1>6, DigitsRead
<1>8. v % TwoTo(4 * n) = v BY <1>1, <1>5, <1>6, SmallRemainder
<1> QED BY <1>4, <1>7, <1>8, Zenon

LEMMA TextsReadBackWhenBits == ASSUME bits \in Seq(Bit) PROVE TextsReadBack
<1> DEFINE v == ValueOf(bits) % TwoTo(Width)
<1>1. Width \in Nat /\ Len(bits) \in Nat /\ ValueOf(bits) \in Nat
      BY BinaryAssumption, LenProperties, ValueGrows
<1>2. v \in LongWords
  <2>1. TwoTo(Width) \in Nat \ {0} BY <1>1, PowersOfTwo
  <2>2. \A d \in Nat \ {0} : ValueOf(bits) % d \in 0 .. d - 1 BY <1>1
  <2> QED BY <2>1, <2>2, Zenon DEF LongWords
<1>3. ASSUME Len(bits) <= Width PROVE Low(v, Len(bits)) = bits /\ v = ValueOf(bits)
  <2>1. ValueOf(bits) < TwoTo(Len(bits)) BY ValueFits
  <2>2. TwoTo(Len(bits)) <= TwoTo(Width) BY <1>1, <1>3, PowersGrow
  <2>3. TwoTo(Len(bits)) \in Nat /\ TwoTo(Width) \in Nat BY <1>1, PowersOfTwo
  <2>4. ValueOf(bits) < TwoTo(Width) BY <1>1, <2>1, <2>2, <2>3
  <2>5. v = ValueOf(bits) BY <1>1, <2>4, SmallRemainder, Zenon
  <2> HIDE DEF v
  <2> QED BY <2>5, LowOfValue
<1> HIDE DEF v
<1>4. ValueOf(HexBits(HexText(v))) = v BY <1>2, HexReadsBack
<1> QED BY <1>3, <1>4, Zenon DEF TextsReadBack, getAsInt, v

-----------------------------------------------------------------------------
(* The setters. *)

\* What SettersAreHonest says of a step.
Honest == IF lastSet' = None \/ lastSet'.threw
          THEN ~lastSet'.retained => bits' = bits
          ELSE /\ Len(bits') = lastSet'.length
               /\ ValueOf(bits') = lastSet'.given % TwoTo(lastSet'.length)
               /\ lastSet'.retained <=> ValueOf(bits') = lastSet'.given

\* To store the low bits of a number, and to know whether they are all of it.
LEMMA StoreIsHonest ==
    ASSUME bits \in Seq(Bit), NEW b \in Seq(Bit), NEW given \in Nat, NEW length \in Nat,
           NEW retained \in BOOLEAN, NEW allowTruncate \in BOOLEAN,
           Len(b) = length, ValueOf(b) = given % TwoTo(length), retained <=> ValueOf(b) = given,
           Store(b, given, length, retained, allowTruncate)
    PROVE  bits' \in Seq(Bit) /\ Honest
<1>1. /\ lastSet'.given = given /\ lastSet'.length = length /\ lastSet'.retained = retained
      /\ lastSet'.threw = (~retained /\ ~allowTruncate)
      BY DEF Store, Outcome
<1>2. bits' = IF retained \/ allowTruncate THEN b ELSE bits BY DEF Store
<1>3. lastSet' # None
  <2>1. None.length = -1 BY DEF None, Outcome
  <2>2. length # -1 OBVIOUS
  <2> QED BY <1>1, <2>1, <2>2
<1>4. CASE retained \/ allowTruncate
  <2>1. bits' = b /\ ~lastSet'.threw BY <1>1, <1>2, <1>4
  <2> QED BY <1>1, <1>3, <2>1, Zenon DEF Honest
<1>5. CASE ~(retained \/ allowTruncate)
  <2>1. bits' = bits /\ lastSet'.threw BY <1>1, <1>2, <1>5
  <2> QED BY <2>1, Zenon DEF Honest
<1> QED BY <1>4, <1>5

LEMMA MinBitLengthsType == ASSUME NEW v \in LongWords PROVE MinBitLengths(v) \subseteq Nat
<1> DEFINE Fits(n) == v < TwoTo(n) /\ (n = 0 \/ v >= TwoTo(n - 1))
           exact == CHOOSE n \in 0 .. Width : Fits(n)
<1>1. v \in Nat /\ v < TwoTo(Width) /\ Width \in Nat
      BY PowersOfTwo, BinaryAssumption DEF LongWords
<1>2. \E n \in 0 .. Width : Fits(n)
  <2> DEFINE T == {m \in 0 .. Width : v < TwoTo(m)}
  <2>1. Width \in T /\ T \in SUBSET Nat /\ T # {} BY <1>1
  <2> HIDE DEF T
  <2>2. PICK m \in T : \A k \in T : m <= k BY <2>1, Binary!LeastNumber
  <2>3. m \in 0 .. Width /\ v < TwoTo(m) BY <2>2 DEF T
  <2>4. m = 0 \/ v >= TwoTo(m - 1)
    <3> SUFFICES ASSUME m # 0 PROVE v >= TwoTo(m - 1) OBVIOUS
    <3>1. m - 1 \in 0 .. Width /\ m - 1 \in Nat /\ m - 1 < m BY <1>1, <2>3
    <3>2. m - 1 \notin T BY <1>1, <2>2, <2>3, <3>1
    <3>3. ~ v < TwoTo(m - 1) BY <3>1, <3>2, Zenon DEF T
    <3>4. TwoTo(m - 1) \in Nat BY <3>1, PowersOfTwo
    <3> QED BY <1>1, <3>3, <3>4
  <2> QED BY <2>3, <2>4
<1>3. MinBitLengths(v) \subseteq {exact, exact + 1} BY Zenon DEF MinBitLengths
<1> HIDE DEF Fits
<1>4. exact \in 0 .. Width BY <1>2, Zenon
<1> HIDE DEF exact
<1> QED BY <1>1, <1>3, <1>4

LEMMA SetByIntIsHonest ==
    ASSUME bits \in Seq(Bit), NEW v \in LongWords, NEW length \in Nat, NEW allowTruncate \in BOOLEAN,
           setByInt(v, length, allowTruncate)
    PROVE  bits' \in Seq(Bit) /\ Honest
<1>1. v \in Nat BY PowersOfTwo, BinaryAssumption DEF LongWords
<1>2. PICK n \in IF length > 0 THEN {length} ELSE MinBitLengths(v) :
          Store(Low(v, n), v, n, v < TwoTo(n), allowTruncate)
      BY Zenon DEF setByInt
<1>3. n \in Nat BY MinBitLengthsType
<1>4. Low(v, n) \in Seq(Bit) /\ Len(Low(v, n)) = n BY <1>1, <1>3, LowType
<1>5. ValueOf(Low(v, n)) = v % TwoTo(n) BY <1>1, <1>3, LowValue
<1>6. v < TwoTo(n) <=> ValueOf(Low(v, n)) = v BY <1>1, <1>3, <1>5, SmallRemainder
<1>7. (v < TwoTo(n)) \in BOOLEAN OBVIOUS
<1> QED BY <1>1, <1>2, <1>3, <1>4, <1>5, <1>6, <1>7, StoreIsHonest

LEMMA CutIsHonest ==
    ASSUME bits \in Seq(Bit), NEW length \in Nat, NEW allowTruncate \in BOOLEAN,
           length < Len(bits), setBitLength(length, allowTruncate)
    PROVE  bits' \in Seq(Bit) /\ Honest
<1> DEFINE n == Len(bits)
           a == SubSeq(bits, 1, n - length)
           b == SubSeq(bits, n - length + 1, n)
<1>1. n \in Nat /\ n - length \in 1 .. n /\ n - length \in Nat
      /\ \A i \in 1 .. n : bits[i] \in Bit
      BY LenProperties, ElementOfSeq
<1>2. Store(b, ValueOf(bits), length, Cut(bits, n - length), allowTruncate)
      BY DEF setBitLength
<1>3. /\ a \in Seq(Bit) /\ Len(a) = n - length
      /\ \A i \in 1 .. n - length : a[i] = bits[i]
  <2>1. 1 \in Int /\ n - length \in Int /\ \A i \in 1 .. n - length : bits[i] \in Bit BY <1>1
  <2>2. /\ a \in Seq(Bit) /\ Len(a) = IF 1 <= n - length THEN (n - length) - 1 + 1 ELSE 0
        /\ \A i \in 1 .. (n - length) - 1 + 1 : a[i] = bits[1 + i - 1]
        BY <2>1, SubSeqProperties
  <2>3. (n - length) - 1 + 1 = n - length /\ 1 <= n - length
        /\ \A i \in 1 .. n - length : 1 + i - 1 = i BY <1>1
  <2> HIDE DEF a, n
  <2> QED BY <2>2, <2>3
<1>4. b \in Seq(Bit) /\ Len(b) = length
  <2>1. n - length + 1 \in Int /\ n \in Int /\ \A i \in n - length + 1 .. n : bits[i] \in Bit BY <1>1
  <2>2. b \in Seq(Bit) /\ Len(b) = IF n - length + 1 <= n THEN n - (n - length + 1) + 1 ELSE 0
        BY <2>1, SubSeqProperties
  <2> HIDE DEF b, n
  <2> QED BY <1>1, <2>2
<1>5. bits = a \o b
  <2>1. 1 \in 1 .. n + 1 /\ n - length \in 1 - 1 .. n /\ n \in n - length .. n BY <1>1
  <2>2. SubSeq(bits, 1, n - length) \o SubSeq(bits, (n - length) + 1, n) = SubSeq(bits, 1, n)
        BY <2>1, ConcatAdjacentSubSeq
  <2>3. SubSeq(bits, 1, n) = bits BY SubSeqFull
  <2> QED BY <2>2, <2>3
<1> HIDE DEF a, b
<1> DEFINE x == ValueOf(a)
           y == ValueOf(b)
           d == TwoTo(length)
<1>6. ValueOf(bits) = x * d + y BY <1>3, <1>4, <1>5, ValueOfConcat
<1>7. x \in Nat /\ y \in Nat /\ d \in Nat \ {0} /\ y < d
      BY <1>3, <1>4, ValueGrows, PowersOfTwo, ValueFits
<1>8. Cut(bits, n - length) <=> x = 0
  <2>1. x = 0 <=> \A i \in 1 .. n - length : a[i] = 0 BY <1>3, NoValue
  <2> HIDE DEF n, x
  <2> QED BY <1>3, <2>1 DEF Cut
<1> HIDE DEF x, y, d, n
<1>9. ValueOf(bits) = d * x + y BY <1>6, <1>7
<1>10. ValueOf(bits) \in Nat BY ValueGrows
<1>11. ValueOf(bits) % d = y BY <1>7, <1>9, <1>10, OneQuotient
<1>12. x = 0 <=> y = ValueOf(bits)
  <2>1. x # 0 => d * x # 0 BY <1>7
  <2>2. d * x \in Nat BY <1>7
  <2> QED BY <1>7, <1>9, <2>1, <2>2
<1>13. Cut(bits, n - length) \in BOOLEAN BY DEF Cut
<1> QED BY <1>2, <1>4, <1>8, <1>10, <1>11, <1>12, <1>13, StoreIsHonest DEF x, y, d

LEMMA PadIsHonest ==
    ASSUME bits \in Seq(Bit), NEW length \in Nat, NEW allowTruncate \in BOOLEAN,
           ~ length < Len(bits), setBitLength(length, allowTruncate)
    PROVE  bits' \in Seq(Bit) /\ Honest
<1> DEFINE n == Len(bits)
           a == [i \in 1 .. length - n |-> 0]
<1>1. n \in Nat /\ length - n \in Nat /\ n <= length BY LenProperties
<1>2. Store(a \o bits, ValueOf(bits), length, TRUE, allowTruncate) BY DEF setBitLength
<1>3. a \in Seq(Bit) /\ Len(a) = length - n /\ \A i \in 1 .. Len(a) : a[i] = 0
      BY <1>1 DEF Bit
<1> HIDE DEF a
<1>4. a \o bits \in Seq(Bit) /\ Len(a \o bits) = length
  <2>1. Len(a \o bits) = Len(a) + Len(bits) /\ a \o bits \in Seq(Bit) BY <1>3, ConcatProperties
  <2> QED BY <1>1, <1>3, <2>1
<1>5. ValueOf(a) = 0 BY <1>3, NoValue
<1>6. ValueOf(a \o bits) = ValueOf(a) * TwoTo(n) + ValueOf(bits) BY <1>3, ValueOfConcat
<1>7. ValueOf(bits) \in Nat /\ TwoTo(n) \in Nat /\ TwoTo(length) \in Nat
      /\ ValueOf(bits) < TwoTo(n) /\ TwoTo(n) <= TwoTo(length)
      BY <1>1, ValueGrows, PowersOfTwo, ValueFits, PowersGrow
<1> HIDE DEF n
<1>8. ValueOf(a \o bits) = ValueOf(bits) BY <1>5, <1>6, <1>7
<1>9. ValueOf(bits) % TwoTo(length) = ValueOf(bits)
  <2>1. ValueOf(bits) < TwoTo(length) BY <1>7
  <2> QED BY <1>7, <2>1, SmallRemainder, Zenon
<1> QED BY <1>2, <1>4, <1>7, <1>8, <1>9, StoreIsHonest

\* The first of some places in a text.
LEMMA BeforeType == ASSUME NEW L, NEW text \in Seq(L), NEW c PROVE Before(text, c) \in Seq(L)
<1> DEFINE I == {i \in 1 .. Len(text) : text[i] = c}
           n == SelectInSeq(text, LAMBDA d : d = c)
<1>1. n = IF I # {} THEN Min(I) ELSE 0 BY DEF SelectInSeq
<1>2. Before(text, c) = IF n = 0 THEN text ELSE SubSeq(text, 1, n - 1) BY DEF Before
<1>3. I # {} => Min(I) \in I
  <2>1. I \in SUBSET Nat BY LenProperties
  <2> HIDE DEF I
  <2>2. I # {} => \E x \in I : \A y \in I : x <= y BY <2>1, Binary!LeastNumber
  <2> QED BY <2>2, Zenon DEF Min
<1>4. n # 0 => n \in 1 .. Len(text)
  <2> HIDE DEF n
  <2> QED BY <1>1, <1>3
<1> HIDE DEF n, I
<1>5. CASE n # 0
  <2>1. n - 1 \in Int /\ 1 \in Int /\ \A i \in 1 .. n - 1 : text[i] \in L
    <3>1. Len(text) \in Nat /\ \A i \in 1 .. Len(text) : text[i] \in L BY LenProperties, ElementOfSeq
    <3> QED BY <1>4, <1>5, <3>1
  <2>2. SubSeq(text, 1, n - 1) \in Seq(L) BY <2>1, SubSeqProperties
  <2> QED BY <1>2, <1>5, <2>2
<1> QED BY <1>2, <1>5

LEMMA TextsType == Texts \subseteq Seq(0 .. 17)
<1> SUFFICES ASSUME NEW n \in 0 .. MaxText, NEW text \in [1 .. n -> Characters]
             PROVE  text \in Seq(0 .. 17)
    BY DEF Texts
<1>1. n \in Nat /\ Characters \subseteq 0 .. 17 BY BinaryAssumption
<1>2. text \in [1 .. n -> 0 .. 17] BY <1>1
<1> QED BY <1>1, <1>2

\* What has been read stands for what it stands for.
LEMMA ReadIsHonest ==
    ASSUME bits' \in Seq(Bit), NEW threw \in BOOLEAN, NEW retained \in BOOLEAN,
           lastSet' = Outcome(ValueOf(bits'), Len(bits'), threw, retained),
           threw \/ retained, ~retained => bits' = bits
    PROVE  Honest
<1>1. /\ lastSet'.given = ValueOf(bits') /\ lastSet'.length = Len(bits')
      /\ lastSet'.retained = retained /\ lastSet'.threw = threw
      BY DEF Outcome
<1>2. CASE lastSet' = None \/ lastSet'.threw
  <2>1. ~lastSet'.retained => bits' = bits BY <1>1
  <2> QED BY <1>2, <2>1, Zenon DEF Honest
<1>3. CASE ~(lastSet' = None \/ lastSet'.threw)
  <2>1. Len(bits') \in Nat /\ ValueOf(bits') \in Nat BY LenProperties, ValueGrows
  <2>2. ValueOf(bits') % TwoTo(Len(bits')) = ValueOf(bits') BY <2>1, ValueFits, SmallRemainder
  <2>3. retained BY <1>1, <1>3
  <2>4. /\ Len(bits') = lastSet'.length
        /\ ValueOf(bits') = lastSet'.given % TwoTo(lastSet'.length)
        /\ lastSet'.retained <=> ValueOf(bits') = lastSet'.given
        BY <1>1, <2>2, <2>3, Zenon
  <2> QED BY <1>3, <2>4, Zenon DEF Honest
<1> QED BY <1>2, <1>3

LEMMA SetByHexIsHonest ==
    ASSUME bits \in Seq(Bit), NEW text \in Texts, setByHex(text) PROVE bits' \in Seq(Bit) /\ Honest
<1>1. Before(text, Other) \in Seq(0 .. 17) BY TextsType, BeforeType
<1>2. bits' \in Seq(Bit) BY <1>1, HexGrows DEF setByHex
<1>3. lastSet' = Outcome(ValueOf(bits'), Len(bits'), Contains(text, Other), TRUE) BY DEF setByHex
<1>4. Contains(text, Other) \in BOOLEAN BY DEF Contains
<1> QED BY <1>2, <1>3, <1>4, ReadIsHonest

LEMMA SetByBinaryIsHonest ==
    ASSUME bits \in Seq(Bit), NEW text \in Texts, setByBinary(text)
    PROVE  bits' \in Seq(Bit) /\ Honest
<1>1. text \in Seq(0 .. 17) BY TextsType
<1>2. CASE Contains(text, Other)
  <2>1. bits' = bits BY <1>2 DEF setByBinary
  <2>2. lastSet' = Outcome(ValueOf(bits'), Len(bits'), TRUE, FALSE) BY <1>2 DEF setByBinary
  <2> QED BY <2>1, <2>2, ReadIsHonest
<1>3. CASE ~Contains(text, Other)
  <2>1. \A i \in 1 .. Len(text) : text[i] \in {0, 1, Space}
    <3> TAKE i \in 1 .. Len(text)
    <3>1. DOMAIN text = 1 .. Len(text) BY <1>1, LenProperties
    <3>2. text[i] \in ToSet(text) BY <3>1 DEF ToSet
    <3>3. text[i] \in {0, 1, Space, Other} BY <3>2 DEF setByBinary
    <3> QED BY <1>3, <3>3 DEF Contains
  <2>2. text \in Seq({0, 1, Space})
    <3>1. text \in [1 .. Len(text) -> 0 .. 17] /\ Len(text) \in Nat BY <1>1, LenProperties
    <3>2. text \in [1 .. Len(text) -> {0, 1, Space}] BY <2>1, <3>1
    <3> QED BY <3>1, <3>2
  <2>3. bits' = BinaryBits(text) BY <1>3 DEF setByBinary
  <2>4. bits' \in Seq(Bit) BY <2>2, <2>3, BinaryBitsType
  <2>5. lastSet' = Outcome(ValueOf(bits'), Len(bits'), FALSE, TRUE)
    <3>1. Contains(text, Other) = FALSE
      <4>1. Contains(text, Other) \in BOOLEAN BY DEF Contains
      <4> QED BY <1>3, <4>1
    <3>2. lastSet' = Outcome(ValueOf(bits'), Len(bits'), Contains(text, Other),
                             ~Contains(text, Other)) BY DEF setByBinary
    <3>3. (~FALSE) = TRUE OBVIOUS
    <3> QED BY <3>1, <3>2, <3>3, Zenon
  <2> QED BY <2>4, <2>5, ReadIsHonest
<1> QED BY <1>2, <1>3

LEMMA BinaryStep ==
    ASSUME bits \in Seq(Bit), [BinaryNext]_binaryvars
    PROVE  bits' \in Seq(Bit) /\ (binaryvars' = binaryvars \/ Honest)
<1>1. ASSUME BinaryCall PROVE bits' \in Seq(Bit) /\ Honest
  <2>1. CASE \E allowTruncate \in BOOLEAN, length \in 0 .. MaxLength :
                \E v \in LongWords : setByInt(v, length, allowTruncate)
        BY <2>1, SetByIntIsHonest
  <2>2. CASE \E allowTruncate \in BOOLEAN, length \in 0 .. MaxLength :
                setBitLength(length, allowTruncate)
    <3>1. PICK allowTruncate \in BOOLEAN, length \in 0 .. MaxLength :
              setBitLength(length, allowTruncate) BY <2>2
    <3>2. length \in Nat BY BinaryAssumption
    <3> QED BY <3>1, <3>2, CutIsHonest, PadIsHonest
  <2>3. CASE \E text \in Texts : setByHex(text) BY <2>3, SetByHexIsHonest
  <2>4. CASE \E text \in Texts : setByBinary(text) BY <2>4, SetByBinaryIsHonest
  <2>5. CASE \E v \in LongWords : setByInt(v, 0, FALSE)
    <3>1. 0 \in Nat /\ FALSE \in BOOLEAN OBVIOUS
    <3> QED BY <2>5, <3>1, SetByIntIsHonest
  <2> QED BY <1>1, <2>1, <2>2, <2>3, <2>4, <2>5, Zenon DEF BinaryCall, setByString
<1>2. ASSUME BinaryReturn PROVE bits' \in Seq(Bit) /\ Honest
  <2>1. lastSet' = None /\ bits' = bits BY <1>2 DEF BinaryReturn
  <2>2. lastSet'.retained = TRUE BY <2>1 DEF None, Outcome
  <2> QED BY <2>1, <2>2, Zenon DEF Honest
<1>3. CASE UNCHANGED binaryvars BY <1>3 DEF binaryvars
<1> QED BY <1>1, <1>2, <1>3 DEF BinaryNext

(***************************************************************************)
(* A number of any length survives its way in, by any setter, and its way  *)
(* out as text or as an integer, whatever the width of unsigned long long  *)
(* (nbinary.cxx:17-190).                                                   *)
(***************************************************************************)
THEOREM NumbersSurviveHolds == BinarySpec => NumbersSurvive
<1> DEFINE BitsType == bits \in Seq(Bit)
<1>1. BinaryInit => BitsType BY EmptySeq DEF BinaryInit
<1>2. BitsType /\ [BinaryNext]_binaryvars => BitsType' BY BinaryStep
<1>3. BitsType /\ [BinaryNext]_binaryvars => [Honest]_binaryvars BY BinaryStep
<1>4. BitsType => TextsReadBack BY TextsReadBackWhenBits
<1>5. [][Honest]_binaryvars => SettersAreHonest BY PTL DEF SettersAreHonest, Honest
<1> HIDE DEF BitsType
<1> QED BY <1>1, <1>2, <1>3, <1>4, <1>5, PTL DEF BinarySpec, NumbersSurvive
=============================================================================
