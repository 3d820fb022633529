------------------------------ MODULE Folding ------------------------------
(***************************************************************************)
(* What FoldLeft and FlattenSeq of the community modules compute, for a    *)
(* text of any length: the loops over texts of nconfig.cxx and ncrc.cxx    *)
(* are written with them.  What is folded is a parameter of the module, so *)
(* that a proof takes these facts for a loop by INSTANCE.  Induction is    *)
(* here as a fact about sets of numbers, or of sequences: one that holds   *)
(* 0 and, with each of its numbers, the next, holds them all, for among    *)
(* those it does not hold one would be the least.                          *)
(***************************************************************************)
EXTENDS Integers, SequencesExt, SequenceTheorems, WellFoundedInduction, TLAPS

CONSTANTS
    Op(_, _),   \* what the loop does with a letter, in a state
    States,     \* those it passes through
    Letters     \* those of the texts

Closed == \A t \in States, e \in Letters : Op(t, e) \in States
Fold(b, s) == FoldLeft(Op, b, s)

\* Among numbers there is a least one.
LEMMA LeastNumber ==
    ASSUME NEW T \in SUBSET Nat, T # {} PROVE \E x \in T : \A y \in T : x <= y
<1> DEFINE R == OpToRel(<, Nat)
<1>1. R = {p \in Nat \X Nat : p[1] < p[2]} BY Zenon DEF OpToRel
<1>2. IsWellFoundedOn(R, Nat) BY NatLessThanWellFounded
<1> HIDE DEF R
<1>3. \E x \in T : \A y \in T : <<y, x>> \notin R BY <1>2, WFMin
<1>4. \A x, y \in T : <<y, x>> \notin R => x <= y BY <1>1
<1> QED BY <1>3, <1>4

\* Induction, in terms of the set of the numbers it holds of.
LEMMA Induction ==
    ASSUME NEW T, 0 \in T, \A n \in T \cap Nat : n + 1 \in T PROVE Nat \subseteq T
<1> SUFFICES ASSUME Nat \ T # {} PROVE FALSE OBVIOUS
<1>1. PICK x \in Nat \ T : \A y \in Nat \ T : x <= y
  <2> DEFINE U == Nat \ T
  <2>1. U \in SUBSET Nat OBVIOUS
  <2> HIDE DEF U
  <2>2. \E x \in U : \A y \in U : x <= y BY <2>1, LeastNumber DEF U
  <2> QED BY <2>2 DEF U
<1>2. x - 1 \in Nat /\ x - 1 \notin Nat \ T BY <1>1
<1>3. x - 1 \in T /\ x - 1 + 1 = x BY <1>2
<1> QED BY <1>1, <1>2, <1>3

Following(it, b, s, n) ==
    \A S \in SUBSET (1 .. n) :
        it[S] = IF S = {} THEN b ELSE Op(it[S \ {Max(S)}], s[Max(S)])

\* The greatest of some numbers of 1 .. n + 1 that n + 1 is among.
LEMMA MaxWithin == ASSUME NEW n \in Nat, NEW S \in SUBSET (1 .. n + 1), n + 1 \in S
                   PROVE Max(S) = n + 1
<1>1. \A y \in S : n + 1 >= y OBVIOUS
<1>2. \A x \in S : (\A y \in S : x >= y) => x = n + 1
  <2> SUFFICES ASSUME NEW x \in S, \A y \in S : x >= y PROVE x = n + 1 OBVIOUS
  <2> x >= n + 1 /\ n + 1 >= x /\ x \in Nat BY <1>1
  <2> QED OBVIOUS
<1> QED BY <1>1, <1>2 DEF Max

\* There is such a function for as much of a text as one likes.
LEMMA FollowingExists ==
    ASSUME Closed, NEW b \in States, NEW s \in Seq(Letters)
    PROVE  \A n \in 0 .. Len(s) : \E it \in [SUBSET (1 .. n) -> States] : Following(it, b, s, n)
<1> DEFINE Can(n) == \E it \in [SUBSET (1 .. n) -> States] : Following(it, b, s, n)
           T == {n \in Nat : n <= Len(s) => Can(n)}
<1>1. 0 \in T
  <2> DEFINE it == [S \in SUBSET (1 .. 0) |-> b]
  <2>1. it \in [SUBSET (1 .. 0) -> States] /\ Following(it, b, s, 0)
     BY DEF Following
  <2> QED BY <2>1
<1>2. ASSUME NEW n \in T \cap Nat PROVE n + 1 \in T
  <2> HIDE DEF Can
  <2> SUFFICES ASSUME n + 1 <= Len(s) PROVE Can(n + 1) OBVIOUS
  <2>0. Len(s) \in Nat BY LenProperties
  <2>a. Can(n) BY <2>0
  <2>1. PICK it \in [SUBSET (1 .. n) -> States] : Following(it, b, s, n) BY <2>a DEF Can
  <2> DEFINE it1 == [S \in SUBSET (1 .. n + 1) |->
                       IF n + 1 \in S THEN Op(it[S \ {n + 1}], s[n + 1]) ELSE it[S]]
  <2>2. s[n + 1] \in Letters BY <2>0, ElementOfSeq
  <2>3. \A S \in SUBSET (1 .. n + 1) : S \ {n + 1} \in SUBSET (1 .. n)
             /\ (n + 1 \notin S => S \in SUBSET (1 .. n) /\ S \ {n + 1} = S) OBVIOUS
  <2>4. it1 \in [SUBSET (1 .. n + 1) -> States] BY <2>2, <2>3 DEF Closed
  <2>5. ASSUME NEW S \in SUBSET (1 .. n + 1)
        PROVE  it1[S] = IF S = {} THEN b ELSE Op(it1[S \ {Max(S)}], s[Max(S)])
    <3>1. CASE n + 1 \in S
      <4>1. Max(S) = n + 1 BY <3>1, MaxWithin
      <4>2. it1[S \ {n + 1}] = it[S \ {n + 1}] BY <2>3
      <4> QED BY <3>1, <4>1, <4>2
    <3>2. CASE n + 1 \notin S
      <4>1. S \in SUBSET (1 .. n) BY <3>2, <2>3
      <4>2. it1[S] = it[S] BY <3>2
      <4>3. \A U \in SUBSET (1 .. n) : it1[U] = it[U] BY <2>3
      <4>4. S \ {Max(S)} \in SUBSET (1 .. n) BY <4>1
      <4> QED BY <4>1, <4>2, <4>3, <4>4, <2>1 DEF Following
    <3> QED BY <3>1, <3>2
  <2> HIDE DEF it1
  <2>6. Following(it1, b, s, n + 1) BY <2>5 DEF Following
  <2> QED BY <2>4, <2>6 DEF Can
<1> HIDE DEF Can
<1>3. Nat \subseteq T
  <2> HIDE DEF T
  <2> QED BY <1>1, <1>2, Induction
<1>4. \A n \in 0 .. Len(s) : Can(n) BY <1>3, LenProperties
<1> QED BY <1>4 DEF Can

\* What FoldLeft computes by CHOOSE, such a function computes.
LEMMA FoldFollows ==
    ASSUME Closed, NEW b \in States, NEW s \in Seq(Letters)
    PROVE  \E it : /\ Following(it, b, s, Len(s))
                   /\ Fold(b, s) = it[1 .. Len(s)]
<1> DEFINE Eq(it) == it = [S \in SUBSET DOMAIN s |->
                        IF S = {} THEN b ELSE LET x == Max(S) IN Op(it[S \ {x}], s[x])]
           it == CHOOSE i : Eq(i)
<1>1. DOMAIN s = 1 .. Len(s) BY LenProperties
<1>2. PICK it0 \in [SUBSET (1 .. Len(s)) -> States] : Following(it0, b, s, Len(s))
  <2>1. Len(s) \in 0 .. Len(s) BY LenProperties
  <2> HIDE DEF it
  <2> QED BY <2>1, FollowingExists
<1>3. Eq(it0) BY <1>1, <1>2 DEF Following
<1>4. Fold(b, s) = it[DOMAIN s] BY DEF Fold, FoldLeft, MapThenFoldSet
<1> HIDE DEF it
<1>5. Eq(it) BY <1>3 DEF it
<1>6. Following(it, b, s, Len(s)) BY <1>1, <1>5 DEF Following
<1> QED BY <1>1, <1>4, <1>6

\* What such a function makes of the first k letters.
LEMMA FollowingPath ==
    ASSUME Closed, NEW b, NEW s, NEW n \in Nat, NEW it, Following(it, b, s, n)
    PROVE  /\ it[{}] = b
           /\ \A k \in 1 .. n : it[1 .. k] = Op(it[1 .. k - 1], s[k])
<1>1. it[{}] = b BY DEF Following
<1>2. ASSUME NEW k \in 1 .. n PROVE it[1 .. k] = Op(it[1 .. k - 1], s[k])
  <2>1. 1 .. k \in SUBSET (1 .. n) /\ 1 .. k # {} /\ k - 1 \in Nat
        /\ (1 .. k) \ {k} = 1 .. k - 1 OBVIOUS
  <2>2. Max(1 .. k) = k
    <3>1. 1 .. k \in SUBSET (1 .. (k - 1) + 1) /\ (k - 1) + 1 \in 1 .. k OBVIOUS
    <3>2. Max(1 .. k) = (k - 1) + 1 BY <2>1, <3>1, MaxWithin
    <3> QED BY <3>2
  <2>3. it[1 .. k] = IF 1 .. k = {} THEN b ELSE Op(it[(1 .. k) \ {Max(1 .. k)}], s[Max(1 .. k)])
        BY <2>1 DEF Following
  <2> QED BY <2>1, <2>2, <2>3
<1> QED BY <1>1, <1>2

(***************************************************************************)
(* A loop over an empty text leaves the state as it is.                    *)
(***************************************************************************)
THEOREM FoldOfNothing ==
    ASSUME Closed, NEW b \in States PROVE Fold(b, <<>>) = b
<1>1. <<>> \in Seq(Letters) /\ Len(<<>>) = 0 BY EmptySeq
<1>2. PICK it : Following(it, b, <<>>, 0) /\ Fold(b, <<>>) = it[1 .. 0] BY <1>1, FoldFollows
<1>3. it[{}] = b BY <1>2 DEF Following
<1>4. 1 .. 0 = {} OBVIOUS
<1> QED BY <1>2, <1>3, <1>4

(***************************************************************************)
(* A loop over a text that is one letter longer does one step more: what   *)
(* each loop over the characters of a line, the bytes of a file or the     *)
(* bits of a byte does next (nconfig.cxx:87, ncrc.cxx:21, 75, 132).        *)
(***************************************************************************)
THEOREM FoldOfAppend ==
    ASSUME Closed, NEW b \in States, NEW s \in Seq(Letters), NEW e \in Letters
    PROVE  Fold(b, Append(s, e)) = Op(Fold(b, s), e)
<1> DEFINE n == Len(s)
           s1 == Append(s, e)
<1>1. n \in Nat /\ s1 \in Seq(Letters) /\ Len(s1) = n + 1 /\ s1[n + 1] = e
      /\ \A i \in 1 .. n : s1[i] = s[i]
      BY LenProperties, AppendProperties
<1>2. PICK it : Following(it, b, s, n) /\ Fold(b, s) = it[1 .. n] BY FoldFollows
<1> HIDE DEF s1
<1>3. PICK it1 : Following(it1, b, s1, n + 1) /\ Fold(b, s1) = it1[1 .. n + 1]
      BY <1>1, FoldFollows
<1> HIDE DEF n
<1>4. it[{}] = b /\ \A k \in 1 .. n : it[1 .. k] = Op(it[1 .. k - 1], s[k])
      BY <1>1, <1>2, FollowingPath
<1>5. it1[{}] = b /\ \A k \in 1 .. n + 1 : it1[1 .. k] = Op(it1[1 .. k - 1], s1[k])
  <2>1. n + 1 \in Nat BY <1>1
  <2> QED BY <2>1, <1>3, FollowingPath
<1> DEFINE T == {k \in Nat : k <= n => it1[1 .. k] = it[1 .. k]}
<1>6. 0 \in T
  <2>1. 1 .. 0 = {} OBVIOUS
  <2> QED BY <2>1, <1>4, <1>5
<1>7. ASSUME NEW k \in T \cap Nat PROVE k + 1 \in T
  <2> SUFFICES ASSUME k + 1 <= n PROVE it1[1 .. k + 1] = it[1 .. k + 1] OBVIOUS
  <2>1. it1[1 .. k] = it[1 .. k] BY <1>1
  <2>2. k + 1 \in 1 .. n /\ k + 1 \in 1 .. n + 1 /\ (k + 1) - 1 = k BY <1>1
  <2>3. it1[1 .. k + 1] = Op(it1[1 .. k], s1[k + 1]) BY <2>2, <1>5
  <2>4. it[1 .. k + 1] = Op(it[1 .. k], s[k + 1]) BY <2>2, <1>4
  <2> QED BY <2>1, <2>2, <2>3, <2>4, <1>1
<1>8. n \in T
  <2> HIDE DEF T
  <2> QED BY <1>1, <1>6, <1>7, Induction
<1>9. it1[1 .. n] = it[1 .. n] BY <1>1, <1>8
<1>10. it1[1 .. n + 1] = Op(it1[1 .. n], e)
  <2>1. n + 1 \in 1 .. n + 1 /\ (n + 1) - 1 = n BY <1>1
  <2> QED BY <2>1, <1>1, <1>5
<1> QED BY <1>2, <1>3, <1>9, <1>10 DEF s1

\* The texts of one and of two letters.
LEMMA ConcatOfTwo ==
    ASSUME NEW L, NEW c \in L, NEW d \in L
    PROVE  /\ <<c>> \in Seq(L) /\ <<d>> \in Seq(L) /\ <<c, d>> \in Seq(L)
           /\ <<c>> \o <<d>> = <<c, d>>
<1>1. <<c>> \in Seq(L) /\ <<d>> \in Seq(L) /\ <<c, d>> \in Seq(L) OBVIOUS
<1>2. Len(<<c>>) = 1 /\ Len(<<d>>) = 1 /\ Len(<<c, d>>) = 2 OBVIOUS
<1>3. <<c>> \o <<d>> \in Seq(L) /\ Len(<<c>> \o <<d>>) = 2 BY <1>1, <1>2, ConcatProperties
<1>4. (<<c>> \o <<d>>)[1] = c /\ (<<c>> \o <<d>>)[2] = d BY <1>1, <1>2, ConcatProperties
<1>5. \A i \in 1 .. 2 : (<<c>> \o <<d>>)[i] = <<c, d>>[i] BY <1>4
<1> QED BY <1>1, <1>2, <1>3, <1>5, SeqEqual

\* The texts of three letters.
LEMMA ThreeLetters ==
    ASSUME NEW L, NEW c \in L, NEW d \in L, NEW e \in L
    PROVE  <<c, d, e>> \in Seq(L) /\ <<c, d>> \o <<e>> = <<c, d, e>>
<1>1. <<c, d>> \in Seq(L) /\ <<e>> \in Seq(L) /\ <<c, d, e>> \in Seq(L) OBVIOUS
<1>2. Len(<<c, d>>) = 2 /\ Len(<<e>>) = 1 /\ Len(<<c, d, e>>) = 3 OBVIOUS
<1>3. <<c, d>> \o <<e>> \in Seq(L) /\ Len(<<c, d>> \o <<e>>) = 3 BY <1>1, <1>2, ConcatProperties
<1>4. /\ (<<c, d>> \o <<e>>)[1] = c /\ (<<c, d>> \o <<e>>)[2] = d
      /\ (<<c, d>> \o <<e>>)[3] = e
      BY <1>1, <1>2, ConcatProperties
<1>5. \A i \in 1 .. 3 : (<<c, d>> \o <<e>>)[i] = <<c, d, e>>[i] BY <1>4
<1> QED BY <1>1, <1>2, <1>3, <1>5, SeqEqual

\* What is longer by one letter, and otherwise the same, was appended to.
LEMMA AppendByElements ==
    ASSUME NEW L, NEW f \in Seq(L), NEW e \in L, NEW g \in Seq(L), Len(g) = Len(f) + 1,
           \A i \in 1 .. Len(f) : g[i] = f[i], g[Len(f) + 1] = e
    PROVE  g = Append(f, e)
<1>1. Len(f) \in Nat BY LenProperties
<1>2. Append(f, e) \in Seq(L) /\ Len(Append(f, e)) = Len(f) + 1
      /\ (\A i \in 1 .. Len(f) : Append(f, e)[i] = f[i]) /\ Append(f, e)[Len(f) + 1] = e
      BY AppendProperties
<1>3. \A i \in 1 .. Len(g) : g[i] = Append(f, e)[i] BY <1>1, <1>2
<1> QED BY <1>2, <1>3, SeqEqual

\* A sequence with each letter mapped by a function.
Mapped(F, s) == [i \in DOMAIN s |-> F[s[i]]]

\* To map a text that is one letter longer maps one letter more.
LEMMA MapOfAppend ==
    ASSUME NEW M, NEW F, \A d \in Letters : F[d] \in M, NEW s \in Seq(Letters), NEW e \in Letters
    PROVE  /\ Mapped(F, s) \in Seq(M) /\ Len(Mapped(F, s)) = Len(s)
           /\ Mapped(F, Append(s, e)) = Append(Mapped(F, s), F[e])
<1>1. \A r \in Seq(Letters) : Mapped(F, r) \in Seq(M) /\ Len(Mapped(F, r)) = Len(r)
  <2> SUFFICES ASSUME NEW r \in Seq(Letters)
               PROVE  Mapped(F, r) \in Seq(M) /\ Len(Mapped(F, r)) = Len(r) OBVIOUS
  <2>1. DOMAIN r = 1 .. Len(r) /\ Len(r) \in Nat BY LenProperties
  <2>2. \A i \in 1 .. Len(r) : F[r[i]] \in M BY ElementOfSeq
  <2> QED BY <2>1, <2>2 DEF Mapped
<1>2. /\ Append(s, e) \in Seq(Letters) /\ Len(Append(s, e)) = Len(s) + 1
      /\ Append(s, e)[Len(s) + 1] = e /\ \A i \in 1 .. Len(s) : Append(s, e)[i] = s[i]
      BY AppendProperties
<1>3. DOMAIN s = 1 .. Len(s) /\ Len(s) \in Nat /\ DOMAIN Append(s, e) = 1 .. Len(s) + 1
      BY <1>2, LenProperties
<1>4. \A i \in 1 .. Len(s) : Mapped(F, Append(s, e))[i] = Mapped(F, s)[i] BY <1>2, <1>3 DEF Mapped
<1>5. Mapped(F, Append(s, e))[Len(s) + 1] = F[e] BY <1>2, <1>3 DEF Mapped
<1> DEFINE f == Mapped(F, s)
           g == Mapped(F, Append(s, e))
<1>6. /\ f \in Seq(M) /\ g \in Seq(M) /\ F[e] \in M
      /\ Len(g) = Len(f) + 1 /\ (\A i \in 1 .. Len(f) : g[i] = f[i]) /\ g[Len(f) + 1] = F[e]
      BY <1>1, <1>2, <1>4, <1>5
<1> HIDE DEF f, g
<1>7. g = Append(f, F[e]) BY <1>6, AppendByElements
<1> QED BY <1>1, <1>7 DEF f, g

\* What holds of the empty sequence and of each that is one letter longer.
LEMMA SeqInduction ==
    ASSUME NEW L, NEW T, <<>> \in T, \A s \in T \cap Seq(L), e \in L : Append(s, e) \in T
    PROVE  Seq(L) \subseteq T
<1> DEFINE Upto(n) == \A s \in Seq(L) : Len(s) = n => s \in T
           N == {n \in Nat : Upto(n)}
<1>1. 0 \in N BY EmptySeq
<1>2. ASSUME NEW n \in N \cap Nat PROVE n + 1 \in N
  <2>1. SUFFICES ASSUME NEW s \in Seq(L), Len(s) = n + 1 PROVE s \in T OBVIOUS
  <2>2. s # <<>> BY <2>1, EmptySeq
  <2>3. PICK r \in Seq(L), e \in L : s = Append(r, e) BY <2>2, SequenceEmptyOrAppend
  <2>4. Len(r) = n BY <2>1, <2>3, AppendProperties, LenProperties
  <2> QED BY <2>3, <2>4
<1>3. Nat \subseteq N
  <2> HIDE DEF N
  <2> QED BY <1>1, <1>2, Induction
<1> QED BY <1>3, LenProperties

(***************************************************************************)
(* A loop stays in its states, however long the text is.                   *)
(***************************************************************************)
THEOREM FoldType ==
    ASSUME Closed, NEW b \in States, NEW s \in Seq(Letters) PROVE Fold(b, s) \in States
<1> DEFINE T == {r \in Seq(Letters) : Fold(b, r) \in States}
<1>1. <<>> \in T BY FoldOfNothing, EmptySeq
<1>2. ASSUME NEW r \in T \cap Seq(Letters), NEW e \in Letters PROVE Append(r, e) \in T
      BY FoldOfAppend, AppendProperties DEF Closed
<1> HIDE DEF T
<1>3. Seq(Letters) \subseteq T BY <1>1, <1>2, SeqInduction
<1> QED BY <1>3 DEF T

(***************************************************************************)
(* A loop over two texts, one after the other, is one over the first and   *)
(* then one over the second: the bytes of a file may come in any pieces,   *)
(* the characters of a line be read field by field (ncrc.cxx:21-27,        *)
(* nconfig.cxx:87-158).                                                    *)
(***************************************************************************)
LEMMA FoldOfConcat ==
    ASSUME Closed, NEW b \in States, NEW s \in Seq(Letters), NEW r \in Seq(Letters)
    PROVE  Fold(b, s \o r) = Fold(Fold(b, s), r)
<1> DEFINE T == {x \in Seq(Letters) : Fold(b, s \o x) = Fold(Fold(b, s), x)}
<1>1. Fold(b, s) \in States BY FoldType
<1>2. <<>> \in T BY <1>1, FoldOfNothing, EmptySeq, ConcatEmptySeq
<1>3. ASSUME NEW x \in T \cap Seq(Letters), NEW e \in Letters PROVE Append(x, e) \in T
  <2>1. s \o x \in Seq(Letters) BY ConcatProperties
  <2>2. s \o Append(x, e) = Append(s \o x, e)
    <3>1. <<e>> \in Seq(Letters) OBVIOUS
    <3>2. s \o (x \o <<e>>) = (s \o x) \o <<e>> BY <3>1, ConcatAssociative
    <3> QED BY <2>1, <3>2, AppendIsConcat
  <2>3. Fold(b, Append(s \o x, e)) = Op(Fold(b, s \o x), e) BY <2>1, FoldOfAppend
  <2>4. Fold(Fold(b, s), Append(x, e)) = Op(Fold(Fold(b, s), x), e) BY <1>1, FoldOfAppend
  <2> QED BY <2>2, <2>3, <2>4, AppendProperties
<1> HIDE DEF T
<1>4. Seq(Letters) \subseteq T BY <1>2, <1>3, SeqInduction
<1> QED BY <1>4 DEF T

(***************************************************************************)
(* A loop over a single letter is one step.                                *)
(***************************************************************************)
THEOREM FoldOfOne ==
    ASSUME Closed, NEW b \in States, NEW e \in Letters PROVE Fold(b, <<e>>) = Op(b, e)
<1>1. <<>> \in Seq(Letters) /\ Append(<<>>, e) = <<e>> BY EmptySeq
<1> QED BY <1>1, FoldOfNothing, FoldOfAppend

-----------------------------------------------------------------------------
(* FlattenSeq *)

Flattens(f, ss, n) == 
    \A i \in 1 .. n : f[i] = IF i = 1 THEN ss[i] ELSE f[i - 1] \o ss[i]

\* There is such a function for as many of the texts as one likes.
LEMMA FlattensExists ==
    ASSUME NEW L, NEW ss \in Seq(Seq(L))
    PROVE  \A n \in 0 .. Len(ss) : \E f \in [1 .. n -> Seq(L)] : Flattens(f, ss, n)
<1> DEFINE Can(n) == \E f \in [1 .. n -> Seq(L)] : Flattens(f, ss, n)
           T == {n \in Nat : n <= Len(ss) => Can(n)}
<1>0. Len(ss) \in Nat BY LenProperties
<1>1. 0 \in T
  <2>1. [i \in 1 .. 0 |-> <<>>] \in [1 .. 0 -> Seq(L)] OBVIOUS
  <2>2. Flattens([i \in 1 .. 0 |-> <<>>], ss, 0) BY DEF Flattens
  <2>3. Can(0) BY <2>1, <2>2
  <2> QED BY <2>3
<1>2. ASSUME NEW n \in T \cap Nat PROVE n + 1 \in T
  <2> HIDE DEF Can
  <2> SUFFICES ASSUME n + 1 <= Len(ss) PROVE Can(n + 1) OBVIOUS
  <2>1. Can(n) BY <1>0
  <2>2. PICK f \in [1 .. n -> Seq(L)] : Flattens(f, ss, n)
        BY <2>1 DEF Can
  <2> DEFINE g == [i \in 1 .. n + 1 |-> IF i <= n THEN f[i]
                                        ELSE IF i = 1 THEN ss[i] ELSE f[i - 1] \o ss[i]]
  <2>3. ss[n + 1] \in Seq(L) BY <1>0, ElementOfSeq
  <2>4. ASSUME NEW i \in 1 .. n + 1 PROVE g[i] \in Seq(L)
    <3>1. CASE i <= n BY <3>1
    <3>2. CASE i = n + 1 /\ i # 1
      <4>1. f[i - 1] \in Seq(L) BY <3>2
      <4>2. f[i - 1] \o ss[i] \in Seq(L) BY <4>1, <3>2, <2>3, ConcatProperties
      <4> QED BY <3>2, <4>2
    <3>3. CASE i = n + 1 /\ i = 1 BY <3>3, <2>3
    <3> QED BY <3>1, <3>2, <3>3
  <2>5. ASSUME NEW i \in 1 .. n + 1
        PROVE  g[i] = IF i = 1 THEN ss[i] ELSE g[i - 1] \o ss[i]
    <3>1. \A j \in 1 .. n : j \in 1 .. n + 1 /\ g[j] = f[j] OBVIOUS
    <3>2. CASE i <= n
      <4>1. i \in 1 .. n /\ (i # 1 => i - 1 \in 1 .. n) BY <3>2
      <4> HIDE DEF g
      <4> QED BY <2>2, <3>1, <4>1 DEF Flattens
    <3>3. CASE i = n + 1
      <4>1. i # 1 => i - 1 \in 1 .. n BY <3>3
      <4>2. g[i] = IF i = 1 THEN ss[i] ELSE f[i - 1] \o ss[i] BY <3>3
      <4> HIDE DEF g
      <4> QED BY <4>1, <4>2, <3>1
    <3> QED BY <3>2, <3>3
  <2>6. g \in [1 .. n + 1 -> Seq(L)]
    <3>1. g = [i \in 1 .. n + 1 |-> g[i]] OBVIOUS
    <3> HIDE DEF g
    <3> QED BY <2>4, <3>1
  <2> HIDE DEF g
  <2>7. Flattens(g, ss, n + 1) BY <2>5 DEF Flattens
  <2> QED BY <2>6, <2>7 DEF Can
<1> HIDE DEF Can
<1>3. Nat \subseteq T
  <2> HIDE DEF T
  <2> QED BY <1>1, <1>2, Induction
<1>4. \A n \in 0 .. Len(ss) : Can(n) BY <1>3, <1>0
<1> QED BY <1>4 DEF Can

\* What FlattenSeq computes by CHOOSE, such a function computes.
LEMMA FlattenFlattens ==
    ASSUME NEW L, NEW ss \in Seq(Seq(L)), Len(ss) # 0
    PROVE  \E f : Flattens(f, ss, Len(ss)) /\ FlattenSeq(ss) = f[Len(ss)]
<1> DEFINE Eq(f) == f = [i \in 1 .. Len(ss) |-> IF i = 1 THEN ss[i] ELSE f[i - 1] \o ss[i]]
           g == CHOOSE f : Eq(f)
<1>1. Len(ss) \in Nat BY LenProperties
<1>2. PICK f \in [1 .. Len(ss) -> Seq(L)] : Flattens(f, ss, Len(ss))
  <2>1. Len(ss) \in 0 .. Len(ss) BY <1>1
  <2> HIDE DEF g
  <2> QED BY <2>1, FlattensExists
<1>3. Eq(f) BY <1>2 DEF Flattens
<1>4. FlattenSeq(ss) = g[Len(ss)] BY DEF FlattenSeq
<1> HIDE DEF g
<1>5. Eq(g) BY <1>3 DEF g
<1>6. Flattens(g, ss, Len(ss)) BY <1>5 DEF Flattens
<1> QED BY <1>4, <1>6

(***************************************************************************)
(* No texts at all, one after the other, are the empty text.               *)
(***************************************************************************)
THEOREM FlattenOfNothing == FlattenSeq(<<>>) = <<>>
BY EmptySeq DEF FlattenSeq

(***************************************************************************)
(* Texts put one after the other, and one more: the bits of a byte after   *)
(* those of the bytes before it (ncrc.cxx:21-27), what a file holds for a  *)
(* character of a value after what it holds for those before it.           *)
(***************************************************************************)
THEOREM FlattenOfAppend ==
    ASSUME NEW L, NEW ss \in Seq(Seq(L)), NEW s \in Seq(L)
    PROVE  FlattenSeq(Append(ss, s)) = FlattenSeq(ss) \o s
<1> DEFINE n == Len(ss)
           s1 == Append(ss, s)
<1>1. n \in Nat /\ s1 \in Seq(Seq(L)) /\ Len(s1) = n + 1 /\ s1[n + 1] = s
      /\ \A i \in 1 .. n : s1[i] = ss[i]
      BY LenProperties, AppendProperties
<1>2. PICK g : Flattens(g, s1, n + 1) /\ FlattenSeq(s1) = g[n + 1]
  <2>1. Len(s1) # 0 BY <1>1
  <2> HIDE DEF s1
  <2> QED BY <1>1, <2>1, FlattenFlattens
<1> HIDE DEF s1
<1>3. CASE n = 0
  <2>1. FlattenSeq(s1) = s BY <1>1, <1>2, <1>3 DEF Flattens
  <2>2. ss = <<>> BY <1>3, EmptySeq
  <2> QED BY <2>1, <2>2, FlattenOfNothing, ConcatEmptySeq DEF s1
<1>4. CASE n # 0
  <2>1. PICK f : Flattens(f, ss, n) /\ FlattenSeq(ss) = f[n] BY <1>4, FlattenFlattens
  <2> HIDE DEF n
  <2> DEFINE T == {k \in Nat : k + 1 <= n => g[k + 1] = f[k + 1]}
  <2>a. n = Len(ss) BY DEF n
  <2>2. 0 \in T
    <3>1. 1 \in 1 .. n /\ 1 \in 1 .. n + 1 BY <1>1, <1>4
    <3>2. f[1] = ss[1] BY <3>1, <2>1 DEF Flattens
    <3>3. g[1] = s1[1] BY <3>1, <1>2 DEF Flattens
    <3>4. g[0 + 1] = f[0 + 1] BY <3>1, <3>2, <3>3, <1>1
    <3> QED BY <3>4
  <2>3. ASSUME NEW k \in T \cap Nat PROVE k + 1 \in T
    <3> SUFFICES ASSUME (k + 1) + 1 <= n PROVE g[(k + 1) + 1] = f[(k + 1) + 1] OBVIOUS
    <3>1. g[k + 1] = f[k + 1] BY <1>1
    <3>2. (k + 1) + 1 \in 1 .. n /\ (k + 1) + 1 \in 1 .. n + 1 /\ ((k + 1) + 1) - 1 = k + 1
          /\ (k + 1) + 1 # 1
          BY <1>1
    <3>3. g[(k + 1) + 1] = g[k + 1] \o s1[(k + 1) + 1] BY <3>2, <1>1, <1>2 DEF Flattens
    <3>4. f[(k + 1) + 1] = f[k + 1] \o ss[(k + 1) + 1] BY <3>2, <2>1, <2>a DEF Flattens
    <3> QED BY <3>1, <3>2, <3>3, <3>4, <1>1
  <2>4. Nat \subseteq T
    <3> HIDE DEF T
    <3> QED BY <2>2, <2>3, Induction
  <2>5. g[n] = f[n]
    <3>1. n - 1 \in Nat /\ (n - 1) + 1 = n BY <1>1, <1>4
    <3> QED BY <3>1, <2>4
  <2>6. g[n + 1] = g[n] \o s
    <3>1. n + 1 \in 1 .. n + 1 /\ n + 1 # 1 /\ (n + 1) - 1 = n BY <1>1, <1>4
    <3> QED BY <3>1, <1>1, <1>2 DEF Flattens
  <2> QED BY <1>2, <2>1, <2>5, <2>6 DEF s1
<1> QED BY <1>3, <1>4

(***************************************************************************)
(* Texts put one after the other are a text of the same letters.           *)
(***************************************************************************)
THEOREM FlattenType ==
    ASSUME NEW L, NEW ss \in Seq(Seq(L)) PROVE FlattenSeq(ss) \in Seq(L)
<1> DEFINE T == {r \in Seq(Seq(L)) : FlattenSeq(r) \in Seq(L)}
<1>1. <<>> \in T BY FlattenOfNothing, EmptySeq
<1>2. ASSUME NEW r \in T \cap Seq(Seq(L)), NEW e \in Seq(L) PROVE Append(r, e) \in T
      BY FlattenOfAppend, AppendProperties, ConcatProperties
<1> HIDE DEF T
<1>3. Seq(Seq(L)) \subseteq T BY <1>1, <1>2, SeqInduction
<1> QED BY <1>3 DEF T
=============================================================================
