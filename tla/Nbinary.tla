------------------------------ MODULE Nbinary ------------------------------
(***************************************************************************)
(* Nbinary (src/src/nbinary.cxx): a number kept as a string of '0' and '1' *)
(* of any length, most significant first, set from integers and from text. *)
(* Bits are 0 and 1.  A character of a text is the value of the hex digit  *)
(* it is, or Space, or Other.  unsigned long long has Width bits.          *)
(***************************************************************************)
EXTENDS Integers, Sequences, SequencesExt

CONSTANTS
    Width,      \* of unsigned long long (64 in the code)
    Mantissa,   \* the most bits of an integer that log2() is exact for (48)
    Characters, \* BOUND: the characters in a text
    MaxText,    \* BOUND: how many of them
    MaxLength   \* BOUND: bits asked for

ASSUME BinaryAssumption ==
    /\ Width \in Nat \ {0} /\ Mantissa \in Nat /\ MaxText \in Nat /\ MaxLength \in Nat
    /\ Characters \subseteq 0 .. 17

VARIABLES
    bits,   \* m_value
    lastSet \* until the caller goes on: the number the last call was given, the
            \* length it was asked for, whether it threw and what it returned
binaryvars == <<bits, lastSet>>

Space == 16
Other == 17
AddBit(r, d) == 2 * r + d
ValueOf(b) == FoldLeft(AddBit, 0, b)

\* 2^n, as the value of a one and n zeros.
TwoTo(n) == ValueOf([i \in 1 .. n + 1 |-> IF i = 1 THEN 1 ELSE 0])
LongWords == 0 .. TwoTo(Width) - 1

\* getAsInt(): b and r lose what does not fit.
getAsInt(b) == ValueOf(b) % TwoTo(Width)

\* The n low bits of v.
Low(v, n) == [i \in 1 .. n |-> (v \div TwoTo(n - i)) % 2]

\* getMinBitLength(): log2() of a double rounds up just below a power of two.
MinBitLengths(v) ==
    LET exact == CHOOSE n \in 0 .. Width : v < TwoTo(n) /\ (n = 0 \/ v >= TwoTo(n - 1))
    IN  {exact} \cup IF exact > Mantissa /\ v >= TwoTo(exact) - TwoTo(exact - Mantissa - 1)
                    THEN {exact + 1} ELSE {}

\* getAsHex() gives the shortest text of the integer.
HexText(v) ==
    LET n == CHOOSE n \in 1 .. Width : v < TwoTo(4 * n) /\ (n = 1 \/ v >= TwoTo(4 * (n - 1)))
    IN  [i \in 1 .. n |-> (v \div TwoTo(4 * (n - i))) % 16]

\* setByHex() of a text without Other.
Nibble(c) == IF c = Space THEN <<>> ELSE Low(c, 4)
AddNibble(b, c) == b \o Nibble(c)
HexBits(text) == FoldLeft(AddNibble, <<>>, text)

\* setByBinary() of one.
AddDigit(b, c) == IF c = Space THEN b ELSE Append(b, c)
BinaryBits(text) == FoldLeft(AddDigit, <<>>, text)

Texts == UNION {[1 .. n -> Characters] : n \in 0 .. MaxText}
Before(text, c) == LET n == SelectInSeq(text, LAMBDA d : d = c)
                   IN  IF n = 0 THEN text ELSE SubSeq(text, 1, n - 1)

Outcome(given, length, threw, retained) ==
    [given |-> given, length |-> length, threw |-> threw, retained |-> retained]

None == Outcome(0, -1, FALSE, TRUE)

BinaryInit ==
    /\ bits = <<>>
    /\ lastSet = None

\* The end of the two setters that may truncate: the value is stored, or the
\* call throws and stores nothing.
Store(b, given, length, retained, allowTruncate) ==
    /\ bits' = IF retained \/ allowTruncate THEN b ELSE bits
    /\ lastSet' = Outcome(given, length, ~retained /\ ~allowTruncate, retained)

setByInt(v, length, allowTruncate) ==
    \E n \in IF length > 0 THEN {length} ELSE MinBitLengths(v) :
        Store(Low(v, n), v, n, v < TwoTo(n), allowTruncate)

\* Only the last of the bits cut off decides what is returned.
CutLast(b, n) == n = 0 \/ b[n] = 0
Cut(b, n) == \A i \in 1 .. n : b[i] = 0

setBitLength(length, allowTruncate) ==
    LET n == Len(bits)
    IN  IF length < n
        THEN Store(SubSeq(bits, n - length + 1, n), ValueOf(bits), length,
                   Cut(bits, n - length), allowTruncate)
        ELSE Store([i \in 1 .. length - n |-> 0] \o bits, ValueOf(bits), length, TRUE,
                   allowTruncate)

\* A character that is no digit throws: setByHex() has stored the digits
\* before it by then, setByBinary() nothing.
setByHex(text) ==
    /\ bits' = HexBits(Before(text, Other))
    /\ lastSet' = Outcome(ValueOf(bits'), Len(bits'), Contains(text, Other), TRUE)

setByBinary(text) ==
    /\ ToSet(text) \subseteq {0, 1, Space, Other}
    /\ bits' = IF Contains(text, Other) THEN bits
               ELSE BinaryBits(text)
    /\ lastSet' = Outcome(ValueOf(bits'), Len(bits'), Contains(text, Other), ~Contains(text, Other))

\* setByString(): the prefix chooses; a number without one is an integer.
setByString ==
    \/ \E text \in Texts : setByHex(text) \/ setByBinary(text)
    \/ \E v \in LongWords : setByInt(v, 0, FALSE)

BinaryCall ==
    /\ lastSet = None
    /\ \/ \E allowTruncate \in BOOLEAN, length \in 0 .. MaxLength :
              \/ \E v \in LongWords : setByInt(v, length, allowTruncate)
              \/ setBitLength(length, allowTruncate)
       \/ setByString

BinaryReturn ==
    /\ lastSet # None
    /\ lastSet' = None
    /\ UNCHANGED bits

BinaryNext == BinaryCall \/ BinaryReturn

BinarySpec == BinaryInit /\ [][BinaryNext]_binaryvars

-----------------------------------------------------------------------------
(***************************************************************************)
(* A setter never lies: what is stored is the number given, as many low    *)
(* bits of it as were asked for; it returns true exactly if that is all of *)
(* the number; and one that throws has stored nothing, setByHex() apart    *)
(* (nbinary.h:24-47).                                                      *)
(***************************************************************************)
SettersAreHonest ==
    [][ IF lastSet' = None \/ lastSet'.threw
        THEN ~lastSet'.retained => bits' = bits
        ELSE /\ Len(bits') = lastSet'.length
             /\ ValueOf(bits') = lastSet'.given % TwoTo(lastSet'.length)
             /\ lastSet'.retained <=> ValueOf(bits') = lastSet'.given ]_binaryvars

(***************************************************************************)
(* A number that fits an integer can be written down, as hex, as binary or *)
(* as an integer with its length, and read back.                           *)
(***************************************************************************)
TextsReadBack ==
    LET v == getAsInt(bits)
    IN  /\ ValueOf(HexBits(HexText(v))) = v
        /\ Len(bits) <= Width => Low(v, Len(bits)) = bits /\ v = ValueOf(bits)

(***************************************************************************)
(* A number survives its way in, by any setter, and its way out.           *)
(***************************************************************************)
NumbersSurvive == SettersAreHonest /\ []TextsReadBack
=============================================================================
