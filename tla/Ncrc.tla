-------------------------------- MODULE Ncrc --------------------------------
(***************************************************************************)
(* The CRC-32 of src/src/ncrc.cxx.  A byte, and an unsigned long, is the   *)
(* set of the positions of its 1 bits, so ^ is the symmetric difference    *)
(* and >> 1 takes 1 from each position.  computeFileCrc32() is a state     *)
(* machine, as fread() may return less than was asked for, or fail.        *)
(* computeCrc() is not modelled: it writes beyond the end of its result    *)
(* (ncrc.cxx:66, 87-88).                                                   *)
(***************************************************************************)
EXTENDS Integers, Sequences, SequencesExt, FiniteSetsExt

CONSTANTS
    Bytes,      \* the bytes a file may hold
    MaxFile,    \* BOUND: how many it holds
    MaxChunk    \* BOUND: theChunkSize

ASSUME CrcAssumption ==
    /\ Bytes \subseteq SUBSET (0 .. 7)
    /\ MaxFile \in Nat /\ MaxChunk \in Nat

VARIABLES
    crcStage,           \* "out", "read" or "done"
    file, chunkSize,    \* what theFile holds, and the argument
    position, ferror,   \* how far it has been read, and ferror()
    runningTotal,
    crcResult           \* *theCrc32, and what the call returned
crcvars == <<crcStage, file, chunkSize, position, ferror, runningTotal, crcResult>>

Xor(a, b) == (a \ b) \cup (b \ a)
Shift(a) == {k - 1 : k \in a \ {0}}
AllOnes == 0 .. 31

Terms == {0, 1, 2, 4, 5, 7, 8, 10, 11, 12, 16, 22, 23, 26}
Pattern == {31 - p : p \in Terms}

\* Multiplies a polynomial by x, which is a shift to the right.
Times(c) == IF 0 \in c THEN Xor(Pattern, Shift(c)) ELSE Shift(c)

\* makeCrcTable()
Turn(c, k) == Times(c)
crcTable == [n \in SUBSET (0 .. 7) |-> FoldLeft(Turn, n, [k \in 1 .. 8 |-> k])]

TakeByte(c, b) == Xor({k - 8 : k \in c \ (0 .. 7)}, crcTable[Xor(c, b) \cap (0 .. 7)])

computeMemoryCrc32(buffer, previous) ==
    Xor(FoldLeft(TakeByte, Xor(previous, AllOnes), buffer), AllOnes)

CrcInit ==
    /\ crcStage = "out" /\ file = <<>> /\ chunkSize = 1
    /\ position = 0 /\ ferror = FALSE /\ runningTotal = {}
    /\ crcResult = [crc |-> {}, status |-> FALSE]

\* computeFileCrc32(); what *theCrc32 holds before it is {32}, which no CRC is.
Open ==
    /\ crcStage \in {"out", "done"}
    /\ crcStage' = "read"
    /\ file' \in UNION {[1 .. n -> Bytes] : n \in 0 .. MaxFile}
    /\ chunkSize' \in 1 .. MaxChunk
    /\ position' = 0 /\ ferror' = FALSE /\ runningTotal' = {}
    /\ crcResult' = [crc |-> {32}, status |-> FALSE]

\* A loop that takes any end of the data for the end of the file.
DataEndUnchecked ==
    /\ crcStage' = "done"
    /\ crcResult' = [crc |-> runningTotal, status |-> TRUE]

\* fread() has returned 0.
DataEnd ==
    /\ crcStage' = "done"
    /\ crcResult' = IF ferror' THEN crcResult ELSE [crc |-> runningTotal, status |-> TRUE]

\* fread() reads a full chunk, or up to the end of the file, or up to an error.
Fread ==
    /\ crcStage = "read"
    /\ LET most == Min({chunkSize, Len(file) - position})
       IN  \E n \in 0 .. most :
              /\ ferror' \in IF n < most THEN {TRUE} ELSE {ferror}
              /\ position' = position + n
              /\ IF n > 0
                 THEN /\ runningTotal' =
                             computeMemoryCrc32(SubSeq(file, position + 1, position'), runningTotal)
                      /\ UNCHANGED <<crcStage, crcResult>>
                 ELSE DataEnd /\ UNCHANGED runningTotal
    /\ UNCHANGED <<file, chunkSize>>

CrcNext == Open \/ Fread

CrcSpec == CrcInit /\ [][CrcNext]_crcvars

-----------------------------------------------------------------------------
\* The CRC-32 of a text, a bit at a time: what the loops are to compute.
BitsOf(b) == [k \in 1 .. 8 |-> k - 1 \in b]
TakeBit(c, bit) == IF (0 \in c) # bit THEN Xor(Pattern, Shift(c)) ELSE Shift(c)
Crc32(text) ==
    Xor(FoldLeft(TakeBit, AllOnes, FlattenSeq([i \in DOMAIN text |-> BitsOf(text[i])])), AllOnes)

(***************************************************************************)
(* A file's CRC is that of its bytes, whatever the chunks; after an error, *)
(* even one that let more data through, the call fails and leaves          *)
(* *theCrc32 as it was (ncrc.h:25-34).                                     *)
(***************************************************************************)
FileCrcIsCrc ==
    crcStage = "done" =>
        /\ crcResult.status => ~ferror /\ crcResult.crc = Crc32(file)
        /\ ~crcResult.status => ferror /\ crcResult.crc = {32}
=============================================================================
