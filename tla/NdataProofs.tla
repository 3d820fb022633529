----------------------------- MODULE NdataProofs -----------------------------
(***************************************************************************)
(* Proofs about data of any length: Nconfig, for any characters, texts and *)
(* lines of a file; Ncrc, for any bytes, files and chunks they are read    *)
(* in; and Nargs, for any options that a program allows and any command    *)
(* line.  What a loop over a text computes is an instance of module        *)
(* Folding, one for each loop.                                             *)
(***************************************************************************)
EXTENDS Nconfig, Ncrc, Nargs, SequenceTheorems, FiniteSetTheorems, TLAPS

-----------------------------------------------------------------------------
(* Nconfig *)

ParseStates ==
    [quoted : BOOLEAN, slashed : BOOLEAN, comment : BOOLEAN, tagParsed : BOOLEAN,
     valueParsed : BOOLEAN, ok : BOOLEAN, tag : Seq(FileCharacters), value : Seq(FileCharacters)]

Line == INSTANCE Folding WITH Op <- ParseChar, States <- ParseStates, Letters <- FileCharacters

\* What parseLine() has in hand within a line.
At(p, line) == Line!Fold(p, line)

LEMMA ParsedIsAt == ASSUME NEW line PROVE Parsed(line) = At(Start, line)
BY DEF Parsed, At, Line!Fold, FoldLeft, Line!FoldLeft, MapThenFoldSet, Line!MapThenFoldSet, Max, Line!Max

LEMMA ParseCharType == ASSUME NEW p \in ParseStates, NEW c \in FileCharacters
                       PROVE ParseChar(p, c) \in ParseStates
<1>1. Append(p.tag, c) \in Seq(FileCharacters) /\ Append(p.value, c) \in Seq(FileCharacters)
      BY AppendProperties DEF ParseStates
<1>2. [p EXCEPT !.slashed = FALSE] \in ParseStates BY DEF ParseStates
<1> DEFINE q == [p EXCEPT !.slashed = FALSE]
<1>3. Keep(q, c) \in ParseStates BY <1>1 DEF Keep, ParseStates
<1>4. EndField(q) \in ParseStates BY DEF EndField, ParseStates
<1>5. /\ [q EXCEPT !.quoted = ~@] \in ParseStates
      /\ [q EXCEPT !.comment = TRUE] \in ParseStates
      /\ [q EXCEPT !.ok = FALSE] \in ParseStates
      /\ [q EXCEPT !.slashed = TRUE] \in ParseStates
      BY DEF ParseStates
<1> HIDE DEF q
<1> QED BY <1>2, <1>3, <1>4, <1>5 DEF ParseChar, q

LEMMA LineClosed == Line!Closed
BY ParseCharType DEF Line!Closed

LEMMA StartType == Start \in ParseStates
BY EmptySeq DEF Start, ParseStates

LEMMA AtNothing == ASSUME NEW p \in ParseStates PROVE At(p, <<>>) = p
BY LineClosed, Line!FoldOfNothing DEF At

LEMMA AtOne == ASSUME NEW p \in ParseStates, NEW c \in FileCharacters PROVE At(p, <<c>>) = ParseChar(p, c)
BY LineClosed, Line!FoldOfOne DEF At

LEMMA AtType == ASSUME NEW p \in ParseStates, NEW x \in Seq(FileCharacters) PROVE At(p, x) \in ParseStates
BY LineClosed, Line!FoldType DEF At

LEMMA AtConcat == ASSUME NEW p \in ParseStates, NEW x \in Seq(FileCharacters), NEW y \in Seq(FileCharacters)
                  PROVE At(p, x \o y) = At(At(p, x), y)
BY LineClosed, Line!FoldOfConcat DEF At

LEMMA AtTwo == ASSUME NEW p \in ParseStates, NEW c \in FileCharacters, NEW d \in FileCharacters
               PROVE At(p, <<c, d>>) = ParseChar(ParseChar(p, c), d)
<1>1. <<c>> \in Seq(FileCharacters) /\ <<d>> \in Seq(FileCharacters) /\ <<c, d>> = <<c>> \o <<d>>
      BY Line!ConcatOfTwo
<1>2. At(p, <<c>> \o <<d>>) = At(At(p, <<c>>), <<d>>) BY <1>1, AtConcat
<1>3. At(p, <<c>>) = ParseChar(p, c) BY AtOne
<1>4. At(ParseChar(p, c), <<d>>) = ParseChar(ParseChar(p, c), d) BY AtOne, ParseCharType
<1> QED BY <1>1, <1>2, <1>3, <1>4, Zenon

-----------------------------------------------------------------------------
(* A field: the tag or the value, whichever is being read. *)

With(p, x) == IF p.tagParsed THEN [p EXCEPT !.value = x] ELSE [p EXCEPT !.tag = x]

\* Within a line nothing is wrong with, and not in the middle of an escape.
Ready(p, quoted) == /\ p \in ParseStates /\ p.quoted = quoted
                    /\ ~p.slashed /\ ~p.comment /\ ~p.valueParsed /\ p.ok

LEMMA WithType == ASSUME NEW quoted \in BOOLEAN, NEW p, Ready(p, quoted), NEW x \in Seq(FileCharacters)
                  PROVE With(p, x) \in ParseStates
BY DEF With, Ready, ParseStates

LEMMA SlashedOne ==
    ASSUME NEW quoted \in BOOLEAN, NEW p, Ready(p, quoted), NEW x \in Seq(FileCharacters), NEW c \in FileCharacters
    PROVE  At(With(p, x), <<Slash, c>>) = With(p, Append(x, c))
<1> DEFINE q == With(p, x)
           r == [q EXCEPT !.slashed = TRUE]
<1>1. q \in ParseStates BY WithType
<1>2. ParseChar(q, Slash) = r
      BY DEF With, Ready, ParseStates, ParseChar, Bare, IsLead, Slash, Quote, Whitespace,
         terminators, commentors
<1>3. ParseChar(r, c) = With(p, Append(x, c))
      BY DEF With, Ready, ParseStates, ParseChar, Bare, Keep
<1>4. Slash \in FileCharacters BY CharactersAssumption DEF Special
<1> HIDE DEF q
<1> HIDE DEF r
<1>5. At(q, <<Slash, c>>) = ParseChar(ParseChar(q, Slash), c) BY <1>1, <1>4, AtTwo
<1> QED BY <1>2, <1>3, <1>5, Zenon DEF q

\* A character that needs no slash within quotes.
LEMMA QuotedOne ==
    ASSUME NEW p, Ready(p, TRUE), NEW x \in Seq(FileCharacters), NEW c \in FileCharacters \ {Quote, Slash}
    PROVE  At(With(p, x), <<c>>) = With(p, Append(x, c))
<1>1. ParseChar(With(p, x), c) = With(p, Append(x, c))
      BY DEF With, Ready, ParseStates, ParseChar, Bare, Keep
<1> QED BY <1>1, WithType, AtOne

\* One that needs neither slashes nor quotes.
LEMMA PlainOne ==
    ASSUME NEW p, Ready(p, FALSE), NEW x \in Seq(FileCharacters), NEW c \in FileCharacters \ Special
    PROVE  At(With(p, x), <<c>>) = With(p, Append(x, c))
<1>1. ParseChar(With(p, x), c) = With(p, Append(x, c))
      BY DEF With, Ready, ParseStates, ParseChar, Bare, Keep, IsLead, Special, Whitespace,
         terminators, commentors
<1> QED BY <1>1, WithType, AtOne

-----------------------------------------------------------------------------
(* The ways to write a text, one character after the other. *)

SlashedEach(x) == [i \in DOMAIN x |-> <<Slash, x[i]>>]
QuotedEach(x) == [i \in DOMAIN x |->
                     IF x[i] \in {Quote, Slash} THEN <<Slash, x[i]>> ELSE <<x[i]>>]

LEMMA SlashedIs == ASSUME NEW x PROVE Slashed(x) = Line!FlattenSeq(SlashedEach(x))
BY DEF Slashed, SlashedEach, FlattenSeq, Line!FlattenSeq

LEMMA QuotedIs ==
    ASSUME NEW x PROVE Quoted(x) = <<Quote>> \o Line!FlattenSeq(QuotedEach(x)) \o <<Quote>>
BY DEF Quoted, QuotedEach, FlattenSeq, Line!FlattenSeq

LEMMA Signs == {Quote, Slash, ",", " ", "#", "x"} \subseteq FileCharacters
BY CharactersAssumption DEF Special, terminators, commentors

LEMMA SlashedEachGrows ==
    ASSUME NEW x \in Seq(FileCharacters), NEW c \in FileCharacters
    PROVE  /\ SlashedEach(x) \in Seq(Seq(FileCharacters))
           /\ SlashedEach(Append(x, c)) = Append(SlashedEach(x), <<Slash, c>>)
<1> DEFINE F == [d \in FileCharacters |-> <<Slash, d>>]
           M == Seq(FileCharacters)
<1>1. \A d \in FileCharacters : F[d] \in M BY Signs, Line!ConcatOfTwo
<1>a. F[c] = <<Slash, c>> OBVIOUS
<1>2. \A y \in Seq(FileCharacters) : SlashedEach(y) = Line!Mapped(F, y)
  <2> TAKE y \in Seq(FileCharacters)
  <2>1. \A i \in DOMAIN y : y[i] \in FileCharacters BY ElementOfSeq, LenProperties
  <2> QED BY <2>1 DEF SlashedEach, Line!Mapped
<1> HIDE DEF F, M
<1>3. /\ Line!Mapped(F, x) \in Seq(M)
      /\ Line!Mapped(F, Append(x, c)) = Append(Line!Mapped(F, x), F[c])
      BY <1>1, Line!MapOfAppend
<1>4. Append(x, c) \in Seq(FileCharacters) BY AppendProperties
<1> QED BY <1>a, <1>2, <1>3, <1>4 DEF M

LEMMA QuotedEachGrows ==
    ASSUME NEW x \in Seq(FileCharacters), NEW c \in FileCharacters
    PROVE  /\ QuotedEach(x) \in Seq(Seq(FileCharacters))
           /\ QuotedEach(Append(x, c)) =
                 Append(QuotedEach(x), IF c \in {Quote, Slash} THEN <<Slash, c>> ELSE <<c>>)
<1> DEFINE Each(d) == IF d \in {Quote, Slash} THEN <<Slash, d>> ELSE <<d>>
           F == [d \in FileCharacters |-> Each(d)]
           M == Seq(FileCharacters)
<1>1. \A d \in FileCharacters : F[d] \in M BY Signs, Line!ConcatOfTwo
<1>a. F[c] = Each(c) OBVIOUS
<1>2. \A y \in Seq(FileCharacters) : QuotedEach(y) = Line!Mapped(F, y)
  <2> TAKE y \in Seq(FileCharacters)
  <2>1. \A i \in DOMAIN y : y[i] \in FileCharacters BY ElementOfSeq, LenProperties
  <2>2. QuotedEach(y) = [i \in DOMAIN y |-> Each(y[i])] BY DEF QuotedEach
  <2> HIDE DEF Each
  <2> QED BY <2>1, <2>2 DEF Line!Mapped
<1> HIDE DEF F, M, Each
<1>3. /\ Line!Mapped(F, x) \in Seq(M)
      /\ Line!Mapped(F, Append(x, c)) = Append(Line!Mapped(F, x), F[c])
      BY <1>1, Line!MapOfAppend
<1>4. Append(x, c) \in Seq(FileCharacters) BY AppendProperties
<1> QED BY <1>a, <1>2, <1>3, <1>4 DEF Each, M

\* What a style makes of a text is read back, in the field that was being read.
LEMMA SlashedReads ==
    ASSUME NEW p, Ready(p, FALSE), With(p, <<>>) = p, NEW x \in Seq(FileCharacters)
    PROVE  Slashed(x) \in Seq(FileCharacters) /\ At(p, Slashed(x)) = With(p, x)
<1> DEFINE F(y) == Line!FlattenSeq(SlashedEach(y))
           T == {y \in Seq(FileCharacters) : At(p, F(y)) = With(p, y)}
<1>1. p \in ParseStates BY DEF Ready
<1>2. <<>> \in T
  <2>1. SlashedEach(<<>>) = <<>> BY EmptySeq DEF SlashedEach
  <2>2. F(<<>>) = <<>> BY <2>1, Line!FlattenOfNothing
  <2> QED BY <1>1, <2>2, AtNothing, EmptySeq
<1>3. \A y \in Seq(FileCharacters) : F(y) \in Seq(FileCharacters)
      BY SlashedEachGrows, Line!FlattenType, Signs
<1>4. ASSUME NEW y \in T \cap Seq(FileCharacters), NEW c \in FileCharacters PROVE Append(y, c) \in T
  <2>1. <<Slash, c>> \in Seq(FileCharacters) BY Signs, Line!ConcatOfTwo
  <2>2. F(Append(y, c)) = F(y) \o <<Slash, c>>
        BY <2>1, SlashedEachGrows, Line!FlattenOfAppend
  <2> HIDE DEF F
  <2>3. At(p, F(y) \o <<Slash, c>>) = At(At(p, F(y)), <<Slash, c>>)
        BY <1>1, <1>3, <2>1, AtConcat
  <2>4. At(p, F(y)) = With(p, y) OBVIOUS
  <2>5. At(With(p, y), <<Slash, c>>) = With(p, Append(y, c)) BY SlashedOne
  <2>6. At(p, F(Append(y, c))) = With(p, Append(y, c)) BY <2>2, <2>3, <2>4, <2>5, Zenon
  <2> QED BY <2>6, AppendProperties
<1>5. Seq(FileCharacters) \subseteq T
  <2> HIDE DEF T
  <2> QED BY <1>2, <1>4, Line!SeqInduction
<1> QED BY <1>3, <1>5, SlashedIs

LEMMA QuotedReads ==
    ASSUME NEW p, Ready(p, FALSE), With(p, <<>>) = p, NEW x \in Seq(FileCharacters)
    PROVE  Quoted(x) \in Seq(FileCharacters) /\ At(p, Quoted(x)) = With(p, x)
<1> DEFINE q == [p EXCEPT !.quoted = TRUE]
           F(y) == Line!FlattenSeq(QuotedEach(y))
           T == {y \in Seq(FileCharacters) : At(q, F(y)) = With(q, y)}
<1>1. q \in ParseStates /\ Ready(q, TRUE) /\ p \in ParseStates BY DEF Ready, ParseStates
<1>2. With(q, <<>>) = q
  <2>1. (IF p.tagParsed THEN p.value ELSE p.tag) = <<>> BY DEF With, Ready, ParseStates
  <2> QED BY <2>1 DEF With, Ready, ParseStates
<1>3. <<>> \in T
  <2>1. QuotedEach(<<>>) = <<>> BY EmptySeq DEF QuotedEach
  <2>2. F(<<>>) = <<>> BY <2>1, Line!FlattenOfNothing
  <2> HIDE DEF q, F
  <2>3. At(q, F(<<>>)) = With(q, <<>>) BY <1>1, <1>2, <2>2, AtNothing
  <2> QED BY <2>3, EmptySeq
<1>4. \A y \in Seq(FileCharacters) : F(y) \in Seq(FileCharacters)
      BY QuotedEachGrows, Line!FlattenType, Signs
<1>5. ASSUME NEW y \in T \cap Seq(FileCharacters), NEW c \in FileCharacters PROVE Append(y, c) \in T
  <2> DEFINE e == IF c \in {Quote, Slash} THEN <<Slash, c>> ELSE <<c>>
  <2>1. e \in Seq(FileCharacters) BY Signs, Line!ConcatOfTwo
  <2>2. F(Append(y, c)) = F(y) \o e BY <2>1, QuotedEachGrows, Line!FlattenOfAppend
  <2>4. At(q, F(y)) = With(q, y) OBVIOUS
  <2> HIDE DEF F, q
  <2>5. At(With(q, y), e) = With(q, Append(y, c))
    <3>1. CASE c \in {Quote, Slash} BY <1>1, <3>1, SlashedOne
    <3>2. CASE c \notin {Quote, Slash} BY <1>1, <3>2, QuotedOne
    <3> QED BY <3>1, <3>2
  <2> HIDE DEF e
  <2>3. At(q, F(y) \o e) = At(At(q, F(y)), e) BY <1>1, <1>4, <2>1, AtConcat
  <2>6. At(q, F(Append(y, c))) = With(q, Append(y, c)) BY <2>2, <2>3, <2>4, <2>5, Zenon
  <2> QED BY <2>6, AppendProperties
<1>6. Seq(FileCharacters) \subseteq T
  <2> HIDE DEF T
  <2> QED BY <1>3, <1>5, Line!SeqInduction
<1>7. <<Quote>> \in Seq(FileCharacters) /\ F(x) \in Seq(FileCharacters) BY <1>4, Signs, Line!ConcatOfTwo
<1>8. At(p, <<Quote>>) = q
  <2>1. ParseChar(p, Quote) = q BY DEF Ready, ParseStates, ParseChar
  <2> QED BY <1>1, <2>1, AtOne, Signs
<1>9. At(q, F(x)) = With(q, x) BY <1>6
<1>10. At(With(q, x), <<Quote>>) = With(p, x)
  <2>1. ParseChar(With(q, x), Quote) = With(p, x) BY DEF Ready, ParseStates, ParseChar, With
  <2>2. With(q, x) \in ParseStates BY <1>1, WithType
  <2> HIDE DEF q
  <2> QED BY <2>1, <2>2, AtOne, Signs
<1> HIDE DEF q, F
<1>11. <<Quote>> \o F(x) \in Seq(FileCharacters) BY <1>7, ConcatProperties
<1>12. At(p, <<Quote>> \o F(x)) = With(q, x) BY <1>1, <1>7, <1>8, <1>9, AtConcat
<1>13. At(p, (<<Quote>> \o F(x)) \o <<Quote>>) = With(p, x)
  <2>1. At(p, (<<Quote>> \o F(x)) \o <<Quote>>) = At(At(p, <<Quote>> \o F(x)), <<Quote>>)
        BY <1>1, <1>7, <1>11, AtConcat
  <2> QED BY <2>1, <1>10, <1>12, Zenon
<1>14. (<<Quote>> \o F(x)) \o <<Quote>> \in Seq(FileCharacters) BY <1>7, <1>11, ConcatProperties
<1> QED BY <1>13, <1>14, QuotedIs DEF F

LEMMA UnadornedReads ==
    ASSUME NEW p, Ready(p, FALSE), With(p, <<>>) = p, NEW x \in Seq(FileCharacters \ Special)
    PROVE  At(p, x) = With(p, x)
<1> DEFINE L == FileCharacters \ Special
           T == {y \in Seq(L) : At(p, y) = With(p, y)}
<1>1. p \in ParseStates BY DEF Ready
<1>2. <<>> \in T BY <1>1, AtNothing, EmptySeq
<1>3. \A y \in Seq(L) : y \in Seq(FileCharacters) BY SeqMonotonic
<1>4. ASSUME NEW y \in T \cap Seq(L), NEW c \in L PROVE Append(y, c) \in T
  <2>1. Append(y, c) = y \o <<c>> /\ Append(y, c) \in Seq(L) /\ <<c>> \in Seq(FileCharacters)
        BY AppendIsConcat, AppendProperties, Line!ConcatOfTwo
  <2>2. At(p, y \o <<c>>) = At(At(p, y), <<c>>) BY <1>1, <1>3, <2>1, AtConcat
  <2>3. At(With(p, y), <<c>>) = With(p, Append(y, c)) BY <1>3, PlainOne
  <2> QED BY <2>1, <2>2, <2>3
<1>5. Seq(L) \subseteq T
  <2> HIDE DEF T, L
  <2> QED BY <1>2, <1>4, Line!SeqInduction
<1> QED BY <1>5

LEMMA StyleReads ==
    ASSUME NEW p, Ready(p, FALSE), With(p, <<>>) = p, NEW x \in Seq(FileCharacters), NEW y \in Styles(x)
    PROVE  y \in Seq(FileCharacters) /\ At(p, y) = With(p, x)
<1>1. CASE y = Slashed(x) BY <1>1, SlashedReads
<1>2. CASE y = Quoted(x) BY <1>2, QuotedReads
<1>3. CASE y = x /\ ToSet(x) \cap Special = {}
  <2>1. \A i \in 1 .. Len(x) : x[i] \in FileCharacters \ Special
        BY <1>3, ElementOfSeq, LenProperties DEF ToSet
  <2>2. x \in Seq(FileCharacters \ Special)
    <3>1. x \in [1 .. Len(x) -> FileCharacters] /\ Len(x) \in Nat BY LenProperties
    <3>2. x \in [1 .. Len(x) -> FileCharacters \ Special] BY <2>1, <3>1
    <3> QED BY <3>1, <3>2, SeqDef
  <2> QED BY <1>3, <2>2, UnadornedReads
<1> QED BY <1>1, <1>2, <1>3 DEF Styles, Plain

-----------------------------------------------------------------------------
(* A line, and the file *)

Got(tagParsed, valueParsed, comment, t, v) ==
    [quoted |-> FALSE, slashed |-> FALSE, comment |-> comment, tagParsed |-> tagParsed,
     valueParsed |-> valueParsed, ok |-> TRUE, tag |-> t, value |-> v]

LEMMA PairReads ==
    ASSUME NEW t \in FileTexts, NEW v \in FileTexts, NEW tt \in Styles(t), NEW vv \in Styles(v),
           NEW end \in Endings
    PROVE  LET q == Parsed(Writing(tt, vv, end))
           IN  ParsedOk(q) /\ ~IsBlank(q) /\ q.tag = t /\ q.value = v
<1> DEFINE p1 == Got(FALSE, FALSE, FALSE, t, <<>>)
           p2 == Got(TRUE, FALSE, FALSE, t, <<>>)
           p3 == Got(TRUE, FALSE, FALSE, t, v)
           p4 == Got(TRUE, TRUE, FALSE, t, v)
           p5 == Got(TRUE, TRUE, TRUE, t, v)
<1>1. t \in Seq(FileCharacters) /\ v \in Seq(FileCharacters) /\ t # <<>> /\ v # <<>>
      BY FileTextsAssumption
<1>2. p1 \in ParseStates /\ p2 \in ParseStates /\ p3 \in ParseStates /\ p4 \in ParseStates
      /\ p5 \in ParseStates
      BY <1>1, EmptySeq DEF Got, ParseStates
<1>3. /\ Ready(Start, FALSE) /\ With(Start, <<>>) = Start /\ With(Start, t) = p1
      /\ Ready(p2, FALSE) /\ With(p2, <<>>) = p2 /\ With(p2, v) = p3
  <2>1. Ready(Start, FALSE) /\ Ready(p2, FALSE) BY <1>2, StartType DEF Ready, Start, Got
  <2>2. With(Start, <<>>) = Start BY DEF With, Start
  <2>3. With(Start, t) = p1 BY DEF With, Start, Got
  <2>4. With(p2, <<>>) = p2 BY DEF With, Got
  <2>5. With(p2, v) = p3 BY DEF With, Got
  <2> QED BY <2>1, <2>2, <2>3, <2>4, <2>5
<1>4. tt \in Seq(FileCharacters) /\ At(Start, tt) = p1 BY <1>1, <1>3, StyleReads
<1>5. vv \in Seq(FileCharacters) /\ At(p2, vv) = p3 BY <1>1, <1>3, StyleReads
<1>6. At(Start, <<" ">>) = Start
  <2>1. ParseChar(Start, " ") = Start
        BY DEF ParseChar, Start, Bare, IsLead, Whitespace, Quote
  <2> QED BY <2>1, StartType, Signs, AtOne
<1>7. At(p1, <<",">>) = p2
  <2>1. ParseChar(p1, ",") = EndField([p1 EXCEPT !.slashed = FALSE])
        BY DEF ParseChar, Got, Bare, IsLead, Whitespace, Quote, commentors, terminators
  <2>2. EndField([p1 EXCEPT !.slashed = FALSE]) = p2 BY DEF EndField, Got
  <2> HIDE DEF p1, p2
  <2> QED BY <2>1, <2>2, <1>2, Signs, AtOne
<1>8. ParseChar(p3, " ") = p4
  <2>1. ~IsLead(p3, " ") BY <1>1 DEF IsLead, Got
  <2>2. ParseChar(p3, " ") = EndField([p3 EXCEPT !.slashed = FALSE])
        BY <2>1 DEF ParseChar, Got, Bare, Whitespace, Quote, commentors, terminators
  <2>3. EndField([p3 EXCEPT !.slashed = FALSE]) = p4 BY DEF EndField, Got
  <2> QED BY <2>2, <2>3
<1>9. ParseChar(p4, "#") = p5
  <2>1. ~IsLead(p4, "#") BY DEF IsLead, Whitespace
  <2>2. ParseChar(p4, "#") = [[p4 EXCEPT !.slashed = FALSE] EXCEPT !.comment = TRUE]
        BY <2>1 DEF ParseChar, Got, Bare, Whitespace, Quote, commentors
  <2> QED BY <2>2 DEF Got
<1>10. ParseChar(p5, "x") = p5
      BY DEF ParseChar, Got
<1>11. /\ ParsedOk(p3) /\ ~IsBlank(p3) /\ p3.tag = t /\ p3.value = v
       /\ ParsedOk(p5) /\ ~IsBlank(p5) /\ p5.tag = t /\ p5.value = v
       BY <1>1 DEF ParsedOk, IsBlank, Got
<1> HIDE DEF p1, p2, p3, p4, p5
<1>12. <<" ">> \in Seq(FileCharacters) /\ <<",">> \in Seq(FileCharacters) /\ end \in Seq(FileCharacters)
  <2>1. " " \in FileCharacters /\ "," \in FileCharacters /\ "#" \in FileCharacters /\ "x" \in FileCharacters
        BY Signs
  <2>2. <<" ", "#">> \in Seq(FileCharacters) /\ <<"x">> \in Seq(FileCharacters) BY <2>1, Line!ConcatOfTwo
  <2>3. <<" ", "#", "x">> \in Seq(FileCharacters) BY <2>1, Line!ThreeLetters
  <2> QED BY <2>1, <2>3, EmptySeq, Line!ConcatOfTwo DEF Endings
<1> DEFINE l1 == <<" ">> \o tt
           l2 == l1 \o <<",">>
           l3 == l2 \o vv
<1>13. l1 \in Seq(FileCharacters) /\ At(Start, l1) = p1
  <2>1. l1 \in Seq(FileCharacters) BY <1>4, <1>12, ConcatProperties
  <2>2. At(Start, l1) = At(At(Start, <<" ">>), tt) BY <1>4, <1>12, StartType, AtConcat
  <2> QED BY <2>1, <2>2, <1>4, <1>6
<1> HIDE DEF l1
<1>14. l2 \in Seq(FileCharacters) /\ At(Start, l2) = p2
       BY <1>7, <1>12, <1>13, StartType, AtConcat, ConcatProperties
<1> HIDE DEF l2
<1>15. l3 \in Seq(FileCharacters) /\ At(Start, l3) = p3
       BY <1>5, <1>14, StartType, AtConcat, ConcatProperties
<1> HIDE DEF l3
<1>16. At(Start, l3 \o end) = At(p3, end) BY <1>12, <1>15, StartType, AtConcat
<1>17. At(p3, end) \in {p3, p5}
  <2>1. CASE end = <<>> BY <2>1, <1>2, AtNothing
  <2>2. CASE end = <<" ", "#", "x">>
    <3>1. <<" ", "#">> \in Seq(FileCharacters) /\ <<"x">> \in Seq(FileCharacters) BY Signs, Line!ConcatOfTwo
    <3>2. end = <<" ", "#">> \o <<"x">> BY <2>2, Signs, Line!ThreeLetters
    <3>3. At(p3, <<" ", "#">>) = p5 BY <1>2, <1>8, <1>9, Signs, AtTwo
    <3>4. At(p5, <<"x">>) = p5 BY <1>2, <1>10, Signs, AtOne
    <3>5. At(p3, <<" ", "#">> \o <<"x">>) = p5 BY <1>2, <3>1, <3>3, <3>4, AtConcat
    <3> QED BY <3>2, <3>5
  <2> QED BY <2>1, <2>2 DEF Endings
<1>18. Parsed(l3 \o end) \in {p3, p5} BY <1>16, <1>17, ParsedIsAt
<1>19. l3 \o end = Writing(tt, vv, end) BY Zenon DEF Writing, l3, l2, l1
<1> QED BY <1>11, <1>18, <1>19

ConfigInv ==
    /\ config = meant
    /\ fileStage \in {"read", "done", "thrown"}
    /\ fileStage = "thrown" <=> why # ""

LEMMA ReadPairInv == ASSUME ConfigInv, NEW t \in FileTexts, NEW v \in FileTexts, ReadPair(t, v)
                     PROVE ConfigInv'
<1>1. PICK tt \in Styles(t), vv \in Styles(v), end \in Endings : parseLine(Writing(tt, vv, end))
      BY DEF ReadPair
<1> DEFINE q == Parsed(Writing(tt, vv, end))
<1>2. ParsedOk(q) /\ ~IsBlank(q) /\ q.tag = t /\ q.value = v BY PairReads
<1>3. /\ fileStage = "read"
      /\ fileStage' = IF unique /\ getValue(t) THEN "thrown" ELSE fileStage
      /\ config' = IF unique /\ getValue(t) THEN config ELSE (t :> v) @@ config
      BY <1>1, <1>2 DEF parseLine
<1>4. /\ meant' = IF unique /\ t \in DOMAIN meant THEN meant ELSE (t :> v) @@ meant
      /\ why' = IF unique /\ t \in DOMAIN meant THEN "duplicate" ELSE ""
      BY DEF ReadPair
<1> HIDE DEF q
<1>5. CASE unique /\ t \in DOMAIN meant BY <1>3, <1>4, <1>5 DEF ConfigInv, getValue
<1>6. CASE ~(unique /\ t \in DOMAIN meant) BY <1>3, <1>4, <1>6 DEF ConfigInv, getValue
<1> QED BY <1>5, <1>6

LEMMA ReadNoiseInv == ASSUME ConfigInv, NEW line \in Noise, ReadNoise(line) PROVE ConfigInv'
<1>1. CASE ParsedOk(Parsed(line))
  <2>1. IsBlank(Parsed(line)) BY <1>1, NoiseAssumption
  <2> QED BY <1>1, <2>1 DEF ReadNoise, parseLine, ConfigInv
<1>2. CASE ~ParsedOk(Parsed(line)) BY <1>2 DEF ReadNoise, parseLine, ConfigInv
<1> QED BY <1>1, <1>2

(***************************************************************************)
(* Whatever tags and values are written to a file, with slashes, in quotes *)
(* or as they are, and whatever lines that mean nothing come between, the  *)
(* file is read as it was meant, or refused for a line that is broken or a *)
(* tag that comes twice (nconfig.cxx:67-180): FileSaysWhatWasMeant.        *)
(***************************************************************************)
THEOREM FileSaysWhatWasMeantHolds == ConfigSpec => []FileSaysWhatWasMeant
<1>1. ConfigInit => ConfigInv BY DEF ConfigInit, ConfigInv
<1>2. ConfigInv /\ [ConfigNext]_configvars => ConfigInv'
  <2> SUFFICES ASSUME ConfigInv, [ConfigNext]_configvars PROVE ConfigInv' OBVIOUS
  <2>1. CASE \E t, v \in FileTexts : ReadPair(t, v) BY <2>1, ReadPairInv
  <2>2. CASE \E line \in Noise : ReadNoise(line) BY <2>2, ReadNoiseInv
  <2>3. CASE EndOfFile BY <2>3 DEF EndOfFile, ConfigInv
  <2>4. CASE \E t \in FileTexts : eraseValue(t) BY <2>4 DEF eraseValue, ConfigInv
  <2>5. CASE UNCHANGED configvars BY <2>5 DEF configvars, ConfigInv
  <2> QED BY <2>1, <2>2, <2>3, <2>4, <2>5 DEF ConfigNext
<1>3. ConfigInv => FileSaysWhatWasMeant BY DEF ConfigInv, FileSaysWhatWasMeant
<1> QED BY <1>1, <1>2, <1>3, PTL DEF ConfigSpec

-----------------------------------------------------------------------------
(* Ncrc *)

Longs == SUBSET (0 .. 31)
Octets == SUBSET (0 .. 7)

Table == INSTANCE Folding WITH Op <- Turn, States <- Longs, Letters <- Nat
Bits == INSTANCE Folding WITH Op <- TakeBit, States <- Longs, Letters <- BOOLEAN
Memory == INSTANCE Folding WITH Op <- TakeByte, States <- Longs, Letters <- Octets

LEMMA XorHas == ASSUME NEW a, NEW b, NEW j PROVE j \in Xor(a, b) <=> ((j \in a) # (j \in b))
<1>1. j \in Xor(a, b) <=> (j \in a /\ j \notin b) \/ (j \in b /\ j \notin a) BY DEF Xor
<1>2. CASE j \in a BY <1>1, <1>2
<1>3. CASE j \notin a BY <1>1, <1>3
<1> QED BY <1>2, <1>3

LEMMA XorType == ASSUME NEW S, NEW a \in SUBSET S, NEW b \in SUBSET S PROVE Xor(a, b) \in SUBSET S
BY DEF Xor

LEMMA XorTwice == ASSUME NEW a, NEW b PROVE Xor(Xor(a, b), b) = a
BY DEF Xor

LEMMA ShiftHas == ASSUME NEW a \in Longs, NEW j PROVE j \in Shift(a) <=> j \in 0 .. 31 /\ j + 1 \in a
BY DEF Shift, Longs

LEMMA ShiftType == ASSUME NEW a \in Longs PROVE Shift(a) \in Longs
BY DEF Shift, Longs

LEMMA PatternType == Pattern \in Longs
BY DEF Pattern, Longs, Terms

LEMMA TimesType == ASSUME NEW a \in Longs PROVE Times(a) \in Longs
<1>1. Shift(a) \in Longs /\ Pattern \in Longs BY ShiftType, PatternType
<1>2. Xor(Pattern, Shift(a)) \in Longs BY <1>1 DEF Xor, Longs
<1> QED BY <1>1, <1>2 DEF Times

LEMMA ShiftLinear == ASSUME NEW a \in Longs, NEW b \in Longs
                     PROVE Shift(Xor(a, b)) = Xor(Shift(a), Shift(b))
<1>1. Xor(a, b) \in Longs BY XorType DEF Longs
<1>2. \A j : j \in Shift(Xor(a, b)) <=> j \in Xor(Shift(a), Shift(b))
  <2> TAKE j
  <2>1. j \in Shift(Xor(a, b)) <=> j \in 0 .. 31 /\ ((j + 1 \in a) # (j + 1 \in b))
        BY <1>1, ShiftHas, XorHas
  <2>2. j \in Xor(Shift(a), Shift(b)) <=> ((j \in Shift(a)) # (j \in Shift(b))) BY XorHas
  <2>3. (j \in Shift(a) <=> j \in 0 .. 31 /\ j + 1 \in a)
        /\ (j \in Shift(b) <=> j \in 0 .. 31 /\ j + 1 \in b) BY ShiftHas
  <2> QED BY <2>1, <2>2, <2>3
<1> QED BY <1>2

\* Multiplication is linear: the CRC of a sum is the sum of the CRCs.
LEMMA TimesLinear == ASSUME NEW a \in Longs, NEW b \in Longs
                     PROVE Times(Xor(a, b)) = Xor(Times(a), Times(b))
<1>1. Shift(Xor(a, b)) = Xor(Shift(a), Shift(b)) BY ShiftLinear
<1>2. 0 \in Xor(a, b) <=> ((0 \in a) # (0 \in b)) BY XorHas
<1> DEFINE x == Shift(a)
           y == Shift(b)
<1>3. /\ Xor(Pattern, Xor(x, y)) = Xor(Xor(Pattern, x), y)
      /\ Xor(Pattern, Xor(x, y)) = Xor(x, Xor(Pattern, y))
      /\ Xor(Xor(Pattern, x), Xor(Pattern, y)) = Xor(x, y)
      BY DEF Xor
<1>4. CASE 0 \in a /\ 0 \in b BY <1>1, <1>2, <1>3, <1>4 DEF Times
<1>5. CASE 0 \in a /\ 0 \notin b BY <1>1, <1>2, <1>3, <1>5 DEF Times
<1>6. CASE 0 \notin a /\ 0 \in b BY <1>1, <1>2, <1>3, <1>6 DEF Times
<1>7. CASE 0 \notin a /\ 0 \notin b BY <1>1, <1>2, <1>3, <1>7 DEF Times
<1> QED BY <1>4, <1>5, <1>6, <1>7

-----------------------------------------------------------------------------
(* Several turns: what the table is made with. *)

Power(k, a) == Table!Fold(a, [i \in 1 .. k |-> i])

LEMMA TableClosed == Table!Closed
BY TimesType DEF Table!Closed, Turn

LEMMA PowerOne ==
    ASSUME NEW a \in Longs
    PROVE  /\ Power(0, a) = a
           /\ \A k \in Nat : Power(k, a) \in Longs /\ Power(k + 1, a) = Times(Power(k, a))
<1> DEFINE s(k) == [i \in 1 .. k |-> i]
<1>1. \A k \in Nat : s(k) \in Seq(Nat) /\ Len(s(k)) = k OBVIOUS
<1>2. s(0) = <<>> OBVIOUS
<1>3. Power(0, a) = a BY <1>2, TableClosed, Table!FoldOfNothing DEF Power
<1>4. ASSUME NEW k \in Nat PROVE Power(k, a) \in Longs /\ Power(k + 1, a) = Times(Power(k, a))
  <2>1. s(k + 1) = Append(s(k), k + 1)
    <3>1. k + 1 \in Nat /\ s(k) \in Seq(Nat) /\ s(k + 1) \in Seq(Nat) /\ Len(s(k)) = k
          /\ Len(s(k + 1)) = k + 1 BY <1>1
    <3>2. (\A i \in 1 .. k : s(k + 1)[i] = s(k)[i]) /\ s(k + 1)[k + 1] = k + 1 OBVIOUS
    <3> HIDE DEF s
    <3> QED BY <3>1, <3>2, Table!AppendByElements
  <2>2. s(k) \in Seq(Nat) /\ k + 1 \in Nat BY <1>1
  <2>3. Power(k, a) = Table!Fold(a, s(k)) /\ Power(k + 1, a) = Table!Fold(a, s(k + 1)) BY DEF Power
  <2> HIDE DEF s
  <2>4. Table!Fold(a, Append(s(k), k + 1)) = Turn(Table!Fold(a, s(k)), k + 1)
        BY <2>2, TableClosed, Table!FoldOfAppend
  <2>5. Table!Fold(a, s(k)) \in Longs BY <2>2, TableClosed, Table!FoldType
  <2> QED BY <2>1, <2>3, <2>4, <2>5 DEF Turn
<1> QED BY <1>3, <1>4

LEMMA PowerLinear ==
    ASSUME NEW a \in Longs, NEW b \in Longs, NEW k \in Nat
    PROVE  Power(k, Xor(a, b)) = Xor(Power(k, a), Power(k, b))
<1> DEFINE T == {n \in Nat : Power(n, Xor(a, b)) = Xor(Power(n, a), Power(n, b))}
<1>0. Xor(a, b) \in Longs BY XorType DEF Longs
<1>1. 0 \in T BY <1>0, PowerOne
<1>2. ASSUME NEW n \in T \cap Nat PROVE n + 1 \in T
  <2>1. Power(n + 1, Xor(a, b)) = Times(Power(n, Xor(a, b))) BY <1>0, PowerOne
  <2>2. /\ Power(n + 1, a) = Times(Power(n, a)) /\ Power(n, a) \in Longs
        /\ Power(n + 1, b) = Times(Power(n, b)) /\ Power(n, b) \in Longs BY PowerOne
  <2>3. Times(Xor(Power(n, a), Power(n, b))) = Xor(Times(Power(n, a)), Times(Power(n, b)))
        BY <2>2, TimesLinear
  <2> QED BY <2>1, <2>2, <2>3
<1> HIDE DEF T
<1>3. Nat \subseteq T BY <1>1, <1>2, Table!Induction
<1> QED BY <1>3 DEF T

\* Bits that are not shifted out are only shifted.
LEMMA PowerShifts ==
    ASSUME NEW k \in Nat, NEW a \in Longs, \A j \in a : j >= k
    PROVE  Power(k, a) = {j - k : j \in a}
<1> DEFINE Can(n) == \A x \in Longs : (\A j \in x : j >= n) => Power(n, x) = {j - n : j \in x}
           T == {n \in Nat : Can(n)}
<1>1. 0 \in T
  <2>1. ASSUME NEW x \in Longs PROVE x = {j - 0 : j \in x}
    <3>1. \A j \in x : j \in Int /\ j - 0 = j BY DEF Longs
    <3> QED BY <3>1
  <2>2. \A x \in Longs : Power(0, x) = x BY PowerOne
  <2>3. Can(0) BY <2>1, <2>2
  <2> QED BY <2>3
<1>2. ASSUME NEW n \in T \cap Nat PROVE n + 1 \in T
  <2>1. ASSUME NEW x \in Longs, \A j \in x : j >= n + 1
        PROVE  Power(n + 1, x) = {j - (n + 1) : j \in x}
    <3>a. x \in SUBSET (0 .. 31) BY DEF Longs
    <3>0. \A j \in x : j \in 0 .. 31 /\ j >= n BY <2>1, <3>a
    <3>1. Power(n, x) = {j - n : j \in x} BY <3>0
    <3>2. 0 \notin {j - n : j \in x} BY <2>1, <3>0
    <3>3. Power(n + 1, x) = Shift(Power(n, x)) BY <3>1, <3>2, PowerOne DEF Times
    <3>4. Shift({j - n : j \in x}) = {j - (n + 1) : j \in x} BY <2>1, <3>0 DEF Shift
    <3> QED BY <3>1, <3>3, <3>4
  <2>2. Can(n + 1) BY <2>1
  <2> QED BY <2>2
<1>3. Nat \subseteq T
  <2> HIDE DEF T
  <2> QED BY <1>1, <1>2, Table!Induction
<1> QED BY <1>3
-----------------------------------------------------------------------------
(* A byte, and a text *)

LEMMA TakeBitIsTimes ==
    ASSUME NEW c \in Longs, NEW bit \in BOOLEAN
    PROVE  /\ TakeBit(c, bit) = IF bit THEN Times(Xor(c, {0})) ELSE Times(c)
           /\ TakeBit(c, bit) \in Longs
<1>1. {0} \in Longs BY DEF Longs
<1>2. Xor(c, {0}) \in Longs BY <1>1 DEF Xor, Longs
<1>3. Shift(Xor(c, {0})) = Shift(c)
  <2>1. Xor(c, {0}) \ {0} = c \ {0} BY DEF Xor
  <2> QED BY <2>1 DEF Shift
<1>4. 0 \in Xor(c, {0}) <=> 0 \notin c BY XorHas
<1>5. TakeBit(c, bit) = IF bit THEN Times(Xor(c, {0})) ELSE Times(c)
  <2>1. CASE bit
    <3>1. ((0 \in c) # bit) <=> 0 \notin c BY <2>1
    <3> QED BY <1>3, <1>4, <2>1, <3>1 DEF TakeBit, Times
  <2>2. CASE ~bit
    <3>1. ((0 \in c) # bit) <=> 0 \in c BY <2>2
    <3> QED BY <2>2, <3>1 DEF TakeBit, Times
  <2> QED BY <2>1, <2>2
<1> QED BY <1>2, <1>5, TimesType

LEMMA BitsClosed == Bits!Closed
BY TakeBitIsTimes DEF Bits!Closed

LEMMA BitsOfType == ASSUME NEW b PROVE BitsOf(b) \in Seq(BOOLEAN) /\ Len(BitsOf(b)) = 8
BY DEF BitsOf

\* Eight bits one after the other are eight turns with all of them.
LEMMA BitsArePower ==
    ASSUME NEW c \in Longs, NEW b \in Octets
    PROVE  Bits!Fold(c, BitsOf(b)) = Power(8, Xor(c, b))
<1>1. PICK it : Bits!Following(it, c, BitsOf(b), 8) /\ Bits!Fold(c, BitsOf(b)) = it[1 .. 8]
  <2>1. BitsOf(b) \in Seq(BOOLEAN) /\ Len(BitsOf(b)) = 8 BY BitsOfType
  <2> QED BY <2>1, BitsClosed, Bits!FoldFollows
<1> DEFINE s == BitsOf(b)
           n == 8
<1>2. it[{}] = c /\ \A k \in 1 .. n : it[1 .. k] = TakeBit(it[1 .. k - 1], s[k])
  <2>1. Bits!Following(it, c, s, n) /\ n \in Nat BY <1>1
  <2> HIDE DEF s, n
  <2> QED BY <2>1, BitsClosed, Bits!FollowingPath
<1>a. \A j \in b : j \in 0 .. 7 BY DEF Octets
<1> DEFINE U(k) == Xor(c, {j \in b : j < k})
           T == {k \in Nat : k <= 8 => it[1 .. k] = Power(k, U(k))}
<1>3. 0 \in T
  <2>1. 1 .. 0 = {} OBVIOUS
  <2>2. {j \in b : j < 0} = {} BY <1>a
  <2>3. U(0) = c BY <2>2 DEF Xor
  <2> HIDE DEF U
  <2>4. Power(0, U(0)) = c BY <2>3, PowerOne
  <2>5. it[1 .. 0] = Power(0, U(0)) BY <1>2, <2>1, <2>4
  <2> QED BY <2>5
<1>4. ASSUME NEW k \in T \cap Nat PROVE k + 1 \in T
  <2> SUFFICES ASSUME k + 1 <= 8 PROVE it[1 .. k + 1] = Power(k + 1, U(k + 1)) OBVIOUS
  <2>1. it[1 .. k] = Power(k, U(k)) OBVIOUS
  <2> HIDE DEF T
  <2>2. k + 1 \in 1 .. 8 /\ (k + 1) - 1 = k /\ k \in Nat /\ k \in 0 .. 31 OBVIOUS
  <2>3. BitsOf(b)[k + 1] = (k \in b) BY <2>2 DEF BitsOf
  <2>4. it[1 .. k + 1] = TakeBit(Power(k, U(k)), k \in b) BY <1>2, <2>1, <2>2, <2>3
  <2>5. U(k) \in Longs /\ {k} \in Longs
    <3>1. {j \in b : j < k} \subseteq 0 .. 31 BY <1>a
    <3>2. c \subseteq 0 .. 31 BY DEF Longs
    <3>3. U(k) \subseteq 0 .. 31 BY <3>1, <3>2 DEF Xor
    <3> QED BY <3>3, <2>2 DEF Longs
  <2>6. Power(k, U(k)) \in Longs BY <2>5, PowerOne
  <2>7. CASE k \in b
    <3>1. U(k + 1) = Xor(U(k), {k})
      <4>1. {j \in b : j < k + 1} = {j \in b : j < k} \cup {k} BY <2>7, <1>a
      <4>2. k \notin {j \in b : j < k} OBVIOUS
      <4> QED BY <4>1, <4>2 DEF Xor
    <3>2. Power(k, {k}) = {0}
      <4>a. k \in Nat /\ (\A j \in {k} : j >= k) /\ {j - k : j \in {k}} = {0} OBVIOUS
      <4>1. Power(k, {k}) = {j - k : j \in {k}} BY <4>a, <2>5, PowerShifts
      <4> QED BY <4>1, <4>a
    <3> HIDE DEF U
    <3>3. TakeBit(Power(k, U(k)), TRUE) = Times(Xor(Power(k, U(k)), {0})) BY <2>6, TakeBitIsTimes
    <3>4. Power(k, Xor(U(k), {k})) = Xor(Power(k, U(k)), {0}) BY <2>2, <2>5, <3>2, PowerLinear
    <3>5. U(k + 1) \in Longs BY <3>1, <2>5, XorType DEF Longs
    <3>6. Power(k + 1, U(k + 1)) = Times(Power(k, U(k + 1))) BY <2>2, <3>5, PowerOne
    <3> QED BY <2>4, <2>7, <3>1, <3>3, <3>4, <3>6
  <2>8. CASE k \notin b
    <3>1. U(k + 1) = U(k)
      <4>1. {j \in b : j < k + 1} = {j \in b : j < k} BY <2>8, <1>a
      <4> QED BY <4>1
    <3> HIDE DEF U
    <3>2. TakeBit(Power(k, U(k)), FALSE) = Times(Power(k, U(k))) BY <2>6, TakeBitIsTimes
    <3>3. Power(k + 1, U(k)) = Times(Power(k, U(k))) BY <2>2, <2>5, PowerOne
    <3>4. (k \in b) = FALSE BY <2>8
    <3>5. it[1 .. k + 1] = TakeBit(Power(k, U(k)), FALSE) BY <2>4, <3>4, Zenon
    <3> QED BY <3>1, <3>2, <3>3, <3>5, Zenon
  <2> QED BY <2>7, <2>8
<1>5. 8 \in T
  <2> HIDE DEF T
  <2> QED BY <1>3, <1>4, Table!Induction
<1>6. {j \in b : j < 8} = b BY <1>a
<1> QED BY <1>1, <1>5, <1>6

\* The table has what eight turns make of its index.
LEMMA TableIsPower == ASSUME NEW n \in Octets PROVE crcTable[n] = Power(8, n)
<1>1. crcTable[n] = FoldLeft(Turn, n, [k \in 1 .. 8 |-> k]) BY DEF crcTable, Octets
<1>2. FoldLeft(Turn, n, [k \in 1 .. 8 |-> k]) = Table!Fold(n, [k \in 1 .. 8 |-> k])
      BY DEF Table!Fold, FoldLeft, Table!FoldLeft, MapThenFoldSet, Table!MapThenFoldSet,
             Max, Table!Max
<1> QED BY <1>1, <1>2 DEF Power

LEMMA TakeByteIsBits ==
    ASSUME NEW c \in Longs, NEW b \in Octets
    PROVE  TakeByte(c, b) = Bits!Fold(c, BitsOf(b)) /\ TakeByte(c, b) \in Longs
<1> DEFINE high == c \ (0 .. 7)
           low == Xor(c, b) \cap (0 .. 7)
<1>1. low \in Octets /\ low \in Longs /\ high \in Longs BY DEF Octets, Longs
<1>2. Xor(high, low) = Xor(c, b) BY DEF Xor, Octets
<1>3. crcTable[low] = Power(8, low) BY <1>1, TableIsPower
<1>4. Power(8, high) = {k - 8 : k \in high}
  <2>1. \A j \in high : j >= 8 BY DEF Longs
  <2> HIDE DEF high
  <2> QED BY <1>1, <2>1, PowerShifts
<1>5. TakeByte(c, b) = Xor(Power(8, high), Power(8, low)) BY <1>3, <1>4 DEF TakeByte
<1> HIDE DEF high, low
<1>6. Xor(Power(8, high), Power(8, low)) = Power(8, Xor(c, b)) BY <1>1, <1>2, PowerLinear
<1>7. Xor(c, b) \in Longs BY <1>1, <1>2 DEF Xor, Longs
<1> QED BY <1>5, <1>6, <1>7, BitsArePower, PowerOne

LEMMA MemoryClosed == Memory!Closed
BY TakeByteIsBits DEF Memory!Closed

TextBits(text) == [i \in DOMAIN text |-> BitsOf(text[i])]

LEMMA TextBitsGrow ==
    ASSUME NEW text \in Seq(Octets), NEW b \in Octets
    PROVE  /\ TextBits(text) \in Seq(Seq(BOOLEAN))
           /\ TextBits(Append(text, b)) = Append(TextBits(text), BitsOf(b))
<1> DEFINE F == [c \in Octets |-> BitsOf(c)]
           M == Seq(BOOLEAN)
<1>1. (\A c \in Octets : F[c] \in M) /\ F[b] = BitsOf(b) BY BitsOfType
<1>2. \A x \in Seq(Octets) : TextBits(x) = Memory!Mapped(F, x)
  <2> TAKE x \in Seq(Octets)
  <2>1. \A i \in DOMAIN x : x[i] \in Octets BY ElementOfSeq, LenProperties
  <2> QED BY <2>1 DEF TextBits, Memory!Mapped
<1> HIDE DEF F, M
<1>3. /\ Memory!Mapped(F, text) \in Seq(M)
      /\ Memory!Mapped(F, Append(text, b)) = Append(Memory!Mapped(F, text), F[b])
      BY <1>1, Memory!MapOfAppend
<1>4. Append(text, b) \in Seq(Octets) BY AppendProperties
<1> QED BY <1>1, <1>2, <1>3, <1>4 DEF M

\* A text byte by byte is its bits one by one.
LEMMA BytesAreBits ==
    ASSUME NEW c \in Longs, NEW text \in Seq(Octets)
    PROVE  Memory!Fold(c, text) = Bits!Fold(c, FlattenSeq(TextBits(text)))
<1> DEFINE B(x) == FlattenSeq(TextBits(x))
           T == {x \in Seq(Octets) : Memory!Fold(c, x) = Bits!Fold(c, B(x))}
<1>1. <<>> \in T
  <2>1. TextBits(<<>>) = <<>> BY EmptySeq DEF TextBits
  <2>2. B(<<>>) = <<>>
    <3>1. Bits!FlattenSeq(<<>>) = <<>> BY Bits!FlattenOfNothing
    <3> QED BY <2>1, <3>1 DEF FlattenSeq, Bits!FlattenSeq
  <2> HIDE DEF B
  <2>3. Memory!Fold(c, <<>>) = c BY MemoryClosed, Memory!FoldOfNothing
  <2>4. Bits!Fold(c, <<>>) = c BY BitsClosed, Bits!FoldOfNothing
  <2> QED BY <2>2, <2>3, <2>4, EmptySeq
<1>2. ASSUME NEW x \in T \cap Seq(Octets), NEW b \in Octets PROVE Append(x, b) \in T
  <2>1. TextBits(x) \in Seq(Seq(BOOLEAN)) /\ TextBits(Append(x, b)) = Append(TextBits(x), BitsOf(b))
        /\ BitsOf(b) \in Seq(BOOLEAN)
        BY TextBitsGrow, BitsOfType
  <2>2. B(x) \in Seq(BOOLEAN) /\ B(Append(x, b)) = B(x) \o BitsOf(b)
    <3>1. Bits!FlattenSeq(TextBits(x)) \in Seq(BOOLEAN) BY <2>1, Bits!FlattenType
    <3>2. Bits!FlattenSeq(Append(TextBits(x), BitsOf(b)))
             = Bits!FlattenSeq(TextBits(x)) \o BitsOf(b)
          BY <2>1, Bits!FlattenOfAppend
    <3> QED BY <2>1, <3>1, <3>2 DEF FlattenSeq, Bits!FlattenSeq
  <2>3. Memory!Fold(c, x) = Bits!Fold(c, B(x)) OBVIOUS
  <2> HIDE DEF B
  <2>4. Memory!Fold(c, Append(x, b)) = TakeByte(Memory!Fold(c, x), b)
        BY MemoryClosed, Memory!FoldOfAppend
  <2>5. Memory!Fold(c, x) \in Longs BY MemoryClosed, Memory!FoldType
  <2>6. TakeByte(Memory!Fold(c, x), b) = Bits!Fold(Memory!Fold(c, x), BitsOf(b)) BY <2>5, TakeByteIsBits
  <2>7. Bits!Fold(c, B(x) \o BitsOf(b)) = Bits!Fold(Bits!Fold(c, B(x)), BitsOf(b))
        BY <2>1, <2>2, BitsClosed, Bits!FoldOfConcat
  <2>8. Memory!Fold(c, Append(x, b)) = Bits!Fold(c, B(Append(x, b)))
        BY <2>2, <2>3, <2>4, <2>6, <2>7, Zenon
  <2> QED BY <2>8, AppendProperties
<1>3. Seq(Octets) \subseteq T
  <2> HIDE DEF T
  <2> QED BY <1>1, <1>2, Bits!SeqInduction
<1> QED BY <1>3

LEMMA CrcIsMemory ==
    ASSUME NEW text \in Seq(Octets)
    PROVE  /\ Crc32(text) = Xor(Memory!Fold(AllOnes, text), AllOnes)
           /\ Memory!Fold(AllOnes, text) \in Longs
<1>1. AllOnes \in Longs BY DEF AllOnes, Longs
<1>2. Crc32(text) = Xor(FoldLeft(TakeBit, AllOnes, FlattenSeq(TextBits(text))), AllOnes)
      BY DEF Crc32, TextBits
<1>3. FoldLeft(TakeBit, AllOnes, FlattenSeq(TextBits(text)))
         = Bits!Fold(AllOnes, FlattenSeq(TextBits(text)))
      BY DEF Bits!Fold, FoldLeft, Bits!FoldLeft, MapThenFoldSet, Bits!MapThenFoldSet, Max, Bits!Max
<1>4. Bits!Fold(AllOnes, FlattenSeq(TextBits(text))) = Memory!Fold(AllOnes, text)
      BY <1>1, BytesAreBits
<1> QED BY <1>1, <1>2, <1>3, <1>4, MemoryClosed, Memory!FoldType

(***************************************************************************)
(* The CRC of what has been read goes on with what is read next: the call  *)
(* undoes the ^ 0xFFFFFFFF that the one before it has ended with           *)
(* (ncrc.cxx:16-27).                                                       *)
(***************************************************************************)
THEOREM CrcGoesOn ==
    ASSUME NEW text \in Seq(Octets), NEW next \in Seq(Octets)
    PROVE  computeMemoryCrc32(next, Crc32(text)) = Crc32(text \o next)
<1> DEFINE c == Memory!Fold(AllOnes, text)
<1>1. Crc32(text) = Xor(c, AllOnes) /\ c \in Longs BY CrcIsMemory
<1>2. Xor(Crc32(text), AllOnes) = c BY <1>1, XorTwice
<1>3. computeMemoryCrc32(next, Crc32(text)) = Xor(Memory!Fold(c, next), AllOnes)
  <2>1. FoldLeft(TakeByte, c, next) = Memory!Fold(c, next)
        BY DEF Memory!Fold, FoldLeft, Memory!FoldLeft, MapThenFoldSet, Memory!MapThenFoldSet,
               Max, Memory!Max
  <2> HIDE DEF c
  <2> QED BY <1>2, <2>1 DEF computeMemoryCrc32
<1>4. text \o next \in Seq(Octets) BY ConcatProperties
<1>5. Memory!Fold(AllOnes, text \o next) = Memory!Fold(c, next)
  <2>1. AllOnes \in Longs BY DEF AllOnes, Longs
  <2> QED BY <2>1, MemoryClosed, Memory!FoldOfConcat
<1> HIDE DEF c
<1>6. Crc32(text \o next) = Xor(Memory!Fold(AllOnes, text \o next), AllOnes) BY <1>4, CrcIsMemory
<1> QED BY <1>3, <1>5, <1>6

LEMMA CrcOfNothing == Crc32(<<>>) = {}
<1>1. AllOnes \in Longs /\ <<>> \in Seq(Octets) BY EmptySeq DEF AllOnes, Longs
<1>2. Memory!Fold(AllOnes, <<>>) = AllOnes BY <1>1, MemoryClosed, Memory!FoldOfNothing
<1>3. Xor(AllOnes, AllOnes) = {} BY DEF Xor
<1> QED BY <1>1, <1>2, <1>3, CrcIsMemory

-----------------------------------------------------------------------------
(* The file *)

CrcInv ==
    /\ crcStage \in {"out", "read", "done"}
    /\ file \in Seq(Octets) /\ chunkSize \in Nat \ {0} /\ position \in 0 .. Len(file)
    /\ ferror \in BOOLEAN
    /\ crcStage = "read" => /\ runningTotal = Crc32(SubSeq(file, 1, position))
                            /\ crcResult = [crc |-> {32}, status |-> FALSE]
    /\ FileCrcIsCrc

LEMMA OpenInv == ASSUME CrcInv, Open PROVE CrcInv'
<1>1. PICK n \in 0 .. MaxFile : file' \in [1 .. n -> Bytes] BY DEF Open
<1>2. Bytes \subseteq Octets /\ n \in Nat BY CrcAssumption DEF Octets
<1>3. file' \in Seq(Octets) BY <1>1, <1>2
<1>4. chunkSize' \in Nat \ {0} BY CrcAssumption DEF Open
<1>5. 0 \in 0 .. Len(file') BY <1>3, LenProperties
<1>6. SubSeq(file', 1, 0) = <<>> BY <1>3, SubSeqEmpty
<1>7. runningTotal' = Crc32(SubSeq(file', 1, position')) BY <1>6, CrcOfNothing DEF Open
<1>8. /\ crcStage' = "read" /\ position' = 0 /\ ferror' = FALSE
      /\ crcResult' = [crc |-> {32}, status |-> FALSE] BY DEF Open
<1> QED BY <1>3, <1>4, <1>5, <1>7, <1>8 DEF CrcInv, FileCrcIsCrc

LEMMA FreadInv == ASSUME CrcInv, Fread PROVE CrcInv'
<1> DEFINE most == Min({chunkSize, Len(file) - position})
<1>1. /\ file \in Seq(Octets) /\ Len(file) \in Nat /\ chunkSize \in Nat \ {0}
      /\ position \in 0 .. Len(file) /\ crcStage = "read"
      /\ runningTotal = Crc32(SubSeq(file, 1, position))
      /\ crcResult = [crc |-> {32}, status |-> FALSE]
      /\ file' = file /\ chunkSize' = chunkSize
      BY LenProperties DEF CrcInv, Fread
<1>2. most = IF chunkSize <= Len(file) - position THEN chunkSize ELSE Len(file) - position
  <2> DEFINE m == IF chunkSize <= Len(file) - position THEN chunkSize ELSE Len(file) - position
             S == {chunkSize, Len(file) - position}
  <2>1. m \in S /\ (\A y \in S : m <= y) /\ (\A x \in S : (\A y \in S : x <= y) => x = m)
        BY <1>1
  <2> HIDE DEF m, S
  <2>2. Min(S) = m BY <2>1 DEF Min
  <2> QED BY <2>2 DEF m, S
<1>3. PICK n \in 0 .. most :
        /\ ferror' \in IF n < most THEN {TRUE} ELSE {ferror}
        /\ position' = position + n
        /\ IF n > 0
           THEN /\ runningTotal' =
                       computeMemoryCrc32(SubSeq(file, position + 1, position'), runningTotal)
                /\ UNCHANGED <<crcStage, crcResult>>
           ELSE DataEnd /\ UNCHANGED runningTotal
      BY DEF Fread
<1> HIDE DEF most
<1>a. most \in Nat /\ position + most <= Len(file) /\ (most = 0 => position = Len(file))
      BY <1>1, <1>2
<1>4. n \in Nat /\ n <= most /\ position' \in 0 .. Len(file) /\ position' = position + n
      BY <1>1, <1>3, <1>a
<1>b. ferror' \in BOOLEAN /\ (n < most => ferror' = TRUE)
  <2>1. ferror \in BOOLEAN BY DEF CrcInv
  <2>2. CASE n < most BY <1>3, <2>2
  <2>3. CASE ~(n < most) BY <1>3, <2>1, <2>3
  <2> QED BY <2>2, <2>3
<1>5. CASE n > 0
  <2> DEFINE x == SubSeq(file, 1, position)
             y == SubSeq(file, position + 1, position')
  <2>1. x \in Seq(Octets) /\ y \in Seq(Octets) BY <1>1, <1>4, SubSeqProperties
  <2>2. x \o y = SubSeq(file, 1, position')
    <3>1. /\ 1 \in 1 .. Len(file) + 1 /\ position \in 1 - 1 .. Len(file)
          /\ position' \in position .. Len(file)
          BY <1>1, <1>4
    <3> QED BY <1>1, <3>1, ConcatAdjacentSubSeq
  <2>3. runningTotal' = computeMemoryCrc32(y, Crc32(x)) BY <1>1, <1>3, <1>5
  <2> HIDE DEF x, y
  <2>4. runningTotal' = Crc32(SubSeq(file, 1, position')) BY <2>1, <2>2, <2>3, CrcGoesOn
  <2>5. crcStage' = "read" /\ crcResult' = crcResult BY <1>1, <1>3, <1>5
  <2> QED BY <1>1, <1>4, <1>b, <2>4, <2>5 DEF CrcInv, FileCrcIsCrc
<1>6. CASE n = 0
  <2>1. DataEnd BY <1>3, <1>6
  <2>2. crcStage' = "done"
        /\ crcResult' = IF ferror' THEN crcResult ELSE [crc |-> runningTotal, status |-> TRUE]
        BY <2>1 DEF DataEnd
  <2>3. CASE ferror'
    <3>1. FileCrcIsCrc' BY <1>1, <2>2, <2>3 DEF FileCrcIsCrc
    <3> QED BY <1>1, <1>4, <1>b, <2>2, <3>1 DEF CrcInv
  <2>4. CASE ~ferror'
    <3>1. most = 0 BY <1>4, <1>6, <1>a, <1>b, <2>4
    <3>2. SubSeq(file, 1, position) = file BY <1>1, <1>a, <3>1, SubSeqFull
    <3>3. FileCrcIsCrc' BY <1>1, <2>2, <2>4, <3>2 DEF FileCrcIsCrc
    <3> QED BY <1>1, <1>4, <1>b, <2>2, <3>3 DEF CrcInv
  <2> QED BY <2>3, <2>4
<1> QED BY <1>4, <1>5, <1>6

LEMMA CrcInvHolds == CrcSpec => []CrcInv
<1>1. CrcInit => CrcInv
  <2> SUFFICES ASSUME CrcInit PROVE CrcInv OBVIOUS
  <2>1. file \in Seq(Octets) /\ 0 \in 0 .. Len(file) BY EmptySeq DEF CrcInit
  <2>2. FileCrcIsCrc BY DEF CrcInit, FileCrcIsCrc
  <2>3. position = 0 /\ crcStage = "out" /\ chunkSize = 1 BY DEF CrcInit
  <2>4. ferror \in BOOLEAN BY Zenon DEF CrcInit
  <2>5. position \in 0 .. Len(file) BY <2>1, <2>3
  <2>6. crcStage \in {"out", "read", "done"} /\ crcStage # "read" BY <2>3
  <2>7. chunkSize \in Nat \ {0} BY <2>3
  <2> QED BY <2>1, <2>2, <2>4, <2>5, <2>6, <2>7, Zenon DEF CrcInv
<1>2. CrcInv /\ [CrcNext]_crcvars => CrcInv'
  <2> SUFFICES ASSUME CrcInv, [CrcNext]_crcvars PROVE CrcInv' OBVIOUS
  <2>1. CASE Open BY <2>1, OpenInv
  <2>2. CASE Fread BY <2>2, FreadInv
  <2>3. CASE UNCHANGED crcvars BY <2>3 DEF crcvars, CrcInv, FileCrcIsCrc
  <2> QED BY <2>1, <2>2, <2>3 DEF CrcNext
<1> QED BY <1>1, <1>2, PTL DEF CrcSpec

(***************************************************************************)
(* computeFileCrc32() gives the CRC-32 of a file of any bytes and any      *)
(* length, in whatever chunks fread() hands it over, and nothing for a file*)
(* that it could not read to its end (ncrc.cxx:9-56, 117-138): FileCrcIsCrc. *)
(***************************************************************************)
THEOREM FileCrcIsCrcHolds == CrcSpec => []FileCrcIsCrc
<1>1. CrcInv => FileCrcIsCrc BY DEF CrcInv
<1> QED BY <1>1, CrcInvHolds, PTL

-----------------------------------------------------------------------------
(* Nargs: texts *)

Chars == Seq(ArgCharacters)
Names == Chars \ {<<>>}
Maps(V) == UNION {[D -> V] : D \in SUBSET Names}
Allowances == [last : Chars, allowed : Maps(Nat), whole : BOOLEAN]
Params == Seq(Chars)
Reads == [options : Maps(Params), left : Nat, error : BOOLEAN, consumed : BOOLEAN]

Numbers == INSTANCE Folding WITH Op <- TakeDigit, States <- Nat, Letters <- Digits
Loading == INSTANCE Folding WITH Op <- AddAllowable, States <- Allowances, Letters <- Names
Adding == INSTANCE Folding WITH Op <- addOption, States <- Reads, Letters <- Names
Typed == INSTANCE Folding WITH Op <- TakeDigit, States <- Nat, Letters <- Words

\* The first of some places in a text, as SelectInSeq has it.
LEMMA FirstIn ==
    ASSUME NEW n \in Nat, NEW I \in SUBSET (1 .. n), NEW m, m = IF I # {} THEN Min(I) ELSE 0
    PROVE  /\ m \in 0 .. n /\ (m = 0 <=> I = {})
           /\ m # 0 => m \in I /\ \A i \in I : m <= i
<1>1. CASE I = {} BY <1>1
<1>2. CASE I # {}
  <2>1. I \in SUBSET Nat OBVIOUS
  <2>2. \E x \in I : \A y \in I : x <= y BY <1>2, <2>1, Numbers!LeastNumber
  <2>3. m \in I /\ \A i \in I : m <= i BY <1>2, <2>2 DEF Min
  <2> QED BY <1>2, <2>3
<1> QED BY <1>1, <1>2

LEMMA PutIs ==
    ASSUME NEW V, NEW m \in Maps(V), NEW name \in Names, NEW v \in V
    PROVE  /\ Put(name, v, m) \in Maps(V) /\ DOMAIN Put(name, v, m) = DOMAIN m \cup {name}
           /\ Put(name, v, m)[name] = v
           /\ \A o \in DOMAIN m \ {name} : Put(name, v, m)[o] = m[o]
<1>1. PICK D \in SUBSET Names : m \in [D -> V] BY DEF Maps
<1>2. D \cup {name} \in SUBSET Names OBVIOUS
<1>3. Put(name, v, m) \in [D \cup {name} -> V] BY <1>1 DEF Put
<1>4. \A p, E : E \in SUBSET Names /\ p \in [E -> V] => p \in Maps(V) BY DEF Maps
<1>5. Put(name, v, m) \in Maps(V) BY <1>2, <1>3, <1>4
<1> QED BY <1>1, <1>5 DEF Put

LEMMA PutParams ==
    ASSUME NEW m \in Maps(Params), NEW name \in Names, NEW v \in Params
    PROVE  Put(name, v, m) \in Maps(Params) /\ DOMAIN Put(name, v, m) = DOMAIN m \cup {name}
<1>1. /\ Put(name, v, m) \in Maps(Params) BY PutIs
<1> QED BY <1>1 DEF Put

LEMMA MapsHas ==
    ASSUME NEW V, NEW m \in Maps(V)
    PROVE  DOMAIN m \subseteq Names /\ \A o \in DOMAIN m : m[o] \in V
BY DEF Maps

LEMMA EmptyMap == ASSUME NEW V, NEW e PROVE [o \in {} |-> e] \in Maps(V)
<1>1. {} \in SUBSET Names /\ [o \in {} |-> e] \in [{} -> V] OBVIOUS
<1> QED BY <1>1 DEF Maps

LEMMA TextFacts ==
    ASSUME NEW text \in Chars
    PROVE  /\ Len(text) \in Nat /\ DOMAIN text = 1 .. Len(text)
           /\ \A i \in 1 .. Len(text) : text[i] \in ArgCharacters /\ <<text[i]>> \in Names
           /\ (text = <<>>) <=> (Len(text) = 0)
           /\ text # <<>> => /\ Tail(text) \in Chars /\ Len(Tail(text)) = Len(text) - 1
                             /\ 1 \in 1 .. Len(text)
                             /\ \A i \in 1 .. Len(text) - 1 : Tail(text)[i] = text[i + 1]
<1>1. Len(text) \in Nat /\ DOMAIN text = 1 .. Len(text) BY LenProperties DEF Chars
<1>2. \A i \in 1 .. Len(text) : text[i] \in ArgCharacters BY ElementOfSeq DEF Chars
<1>3. \A c \in ArgCharacters : <<c>> \in Names BY DEF Names, Chars
<1>4. (text = <<>>) <=> (Len(text) = 0) BY <1>1, EmptySeq DEF Chars
<1>5. text # <<>> => /\ Tail(text) \in Chars /\ Len(Tail(text)) = Len(text) - 1
                     /\ \A i \in 1 .. Len(Tail(text)) : Tail(text)[i] = text[i + 1]
      BY HeadTailProperties DEF Chars
<1> QED BY <1>1, <1>2, <1>3, <1>4, <1>5

LEMMA PartOfText ==
    ASSUME NEW text \in Chars, NEW i \in 1 .. Len(text) + 1, NEW j \in 0 .. Len(text)
    PROVE  SubSeq(text, i, j) \in Chars
<1>0. Len(text) \in Nat /\ \A k \in 1 .. Len(text) : text[k] \in ArgCharacters BY TextFacts
<1>1. \A k \in i .. j : text[k] \in ArgCharacters BY <1>0
<1>2. i \in Int /\ j \in Int BY <1>0
<1> QED BY <1>1, <1>2, SubSeqProperties DEF Chars

-----------------------------------------------------------------------------
(* Numbers and tokens *)

LEMMA LeadingIs ==
    ASSUME NEW text \in Chars
    PROVE  /\ Leading(text) \in 0 .. Len(text)
           /\ \A i \in 1 .. Len(text) : Leading(text) = 0 \/ i < Leading(text) => text[i] \in Digits
<1> DEFINE I == {i \in 1 .. Len(text) : text[i] \notin Digits}
           m == Leading(text)
<1>1. Len(text) \in Nat BY TextFacts
<1>2. m = IF I # {} THEN Min(I) ELSE 0 BY DEF Leading, SelectInSeq
<1>3. I \in SUBSET (1 .. Len(text)) OBVIOUS
<1>4. \A i \in 1 .. Len(text) : i \notin I => text[i] \in Digits OBVIOUS
<1> HIDE DEF I, m
<1>5. /\ m \in 0 .. Len(text) /\ (m = 0 <=> I = {})
      /\ m # 0 => \A i \in I : m <= i BY <1>1, <1>2, <1>3, FirstIn
<1>6. \A i \in 1 .. Len(text) : m = 0 \/ i < m => i \notin I BY <1>1, <1>3, <1>5
<1> QED BY <1>4, <1>5, <1>6 DEF m

LEMMA AfterNumberType ==
    ASSUME NEW text \in Chars
    PROVE  AfterNumber(text) \in Chars
<1>1. Len(text) \in Nat /\ Leading(text) \in 0 .. Len(text) BY TextFacts, LeadingIs
<1>2. <<>> \in Chars BY EmptySeq DEF Chars
<1>3. Leading(text) # 0 => SubSeq(text, Leading(text), Len(text)) \in Chars BY <1>1, PartOfText
<1> QED BY <1>2, <1>3 DEF AfterNumber

LEMMA NumeralIs == ASSUME NEW c \in Digits PROVE (CHOOSE d \in 0 .. 9 : Numerals[d + 1] = c) \in Nat
<1>1. DOMAIN Numerals = 1 .. 10 BY DEF Numerals
<1>2. PICK i \in 1 .. 10 : Numerals[i] = c BY <1>1 DEF Digits, ToSet
<1> DEFINE P(d) == Numerals[d + 1] = c
<1>3. (i - 1) \in 0 .. 9 /\ P(i - 1) BY <1>2
<1> HIDE DEF P
<1> DEFINE n == CHOOSE d \in 0 .. 9 : P(d)
<1>4. n \in 0 .. 9 BY <1>3
<1>5. n = CHOOSE d \in 0 .. 9 : Numerals[d + 1] = c BY DEF P
<1> HIDE DEF n
<1>6. n \in Nat BY <1>4
<1> QED BY <1>5, <1>6

LEMMA NumberType == ASSUME NEW text \in Chars PROVE Number(text) \in Nat
<1> DEFINE n == Len(text) - Len(AfterNumber(text))
           number == SubSeq(text, 1, n)
<1>1. Len(text) \in Nat /\ Leading(text) \in 0 .. Len(text) BY TextFacts, LeadingIs
<1>2. n = IF Leading(text) = 0 THEN Len(text) ELSE Leading(text) - 1
  <2>1. CASE Leading(text) = 0
    <3>1. Len(AfterNumber(text)) = 0 BY <2>1 DEF AfterNumber
    <3> QED BY <1>1, <2>1, <3>1
  <2>2. CASE Leading(text) # 0
    <3> DEFINE l == Leading(text)
    <3>a. \A k \in 1 .. Len(text) : text[k] \in ArgCharacters BY TextFacts
    <3>1. \A k \in l .. Len(text) : text[k] \in ArgCharacters BY <1>1, <2>2, <3>a
    <3> HIDE DEF l
    <3>2. l \in Int /\ Len(text) \in Int /\ l <= Len(text) BY <1>1 DEF l
    <3>3. Len(SubSeq(text, l, Len(text))) = Len(text) - l + 1 BY <3>1, <3>2, SubSeqProperties
    <3> QED BY <1>1, <2>2, <3>3 DEF l, AfterNumber
  <2> QED BY <2>1, <2>2
<1>3. \A i \in 1 .. n : text[i] \in Digits BY <1>1, <1>2, LeadingIs
<1>4. n \in Int BY <1>1, <1>2
<1> HIDE DEF n
<1>5. number \in Seq(Digits) BY <1>3, <1>4, SubSeqProperties
<1>6. Numbers!Closed BY NumeralIs DEF Numbers!Closed, TakeDigit
<1> HIDE DEF number
<1>7. Numbers!Fold(0, number) \in Nat BY <1>5, <1>6, Numbers!FoldType
<1>8. Number(text) = Numbers!Fold(0, number)
      BY DEF Number, n, number, Numbers!Fold, FoldLeft, Numbers!FoldLeft, MapThenFoldSet,
             Numbers!MapThenFoldSet, Max, Numbers!Max
<1> QED BY <1>7, <1>8

LEMMA TokenOfType == ASSUME NEW text \in Chars PROVE TokenOf(text).token \in Chars /\ TokenOf(text).rest \in Chars
<1> DEFINE start == SelectInSeq(text, LAMBDA c : c # " ")
           rest == SubSeq(text, start, Len(text))
           end == SelectInSeq(rest, LAMBDA c : c = " ")
           I == {i \in 1 .. Len(text) : text[i] # " "}
           J == {i \in 1 .. Len(rest) : rest[i] = " "}
<1>1. start = IF I # {} THEN Min(I) ELSE 0 BY DEF SelectInSeq
<1>2. end = IF J # {} THEN Min(J) ELSE 0 BY DEF SelectInSeq
<1>3. TokenOf(text) = IF start = 0 THEN [token |-> <<>>, rest |-> <<>>]
        ELSE IF end = 0 THEN [token |-> rest, rest |-> <<>>]
        ELSE [token |-> SubSeq(rest, 1, end - 1), rest |-> SubSeq(rest, end + 1, Len(rest))]
      BY DEF TokenOf
<1>4. I \in SUBSET (1 .. Len(text)) /\ J \in SUBSET (1 .. Len(rest)) OBVIOUS
<1> HIDE DEF I, J, start, end
<1>5. Len(text) \in Nat /\ start \in 0 .. Len(text)
  <2>1. Len(text) \in Nat BY TextFacts
  <2> QED BY <1>1, <1>4, <2>1, FirstIn
<1>6. <<>> \in Chars BY EmptySeq DEF Chars
<1>7. CASE start = 0 BY <1>3, <1>6, <1>7
<1>8. CASE start # 0
  <2>1. rest \in Chars BY <1>5, <1>8, PartOfText
  <2> HIDE DEF rest
  <2>2. Len(rest) \in Nat BY <2>1, TextFacts
  <2>3. end \in 0 .. Len(rest) BY <1>2, <1>4, <2>2, FirstIn
  <2>4. end # 0 => SubSeq(rest, 1, end - 1) \in Chars /\ SubSeq(rest, end + 1, Len(rest)) \in Chars
        BY <2>1, <2>2, <2>3, PartOfText
  <2> QED BY <1>3, <1>6, <1>8, <2>1, <2>4
<1> QED BY <1>7, <1>8

-----------------------------------------------------------------------------
(* The options allowed *)

LEMMA LoadingClosed == Loading!Closed
<1> SUFFICES ASSUME NEW read \in Allowances, NEW text \in Names PROVE AddAllowable(read, text) \in Allowances
    BY DEF Loading!Closed
<1> DEFINE n == IF stringToInt(Tail(text)) THEN Number(Tail(text)) ELSE 0
<1>1. text \in Chars /\ text # <<>> BY DEF Names
<1>2. <<text[1]>> \in Names /\ <<text[1]>> \in Chars /\ Tail(text) \in Chars BY <1>1, TextFacts DEF Names
<1>3. n \in Nat BY <1>2, NumberType
<1>4. read.allowed \in Maps(Nat) BY DEF Allowances
<1> HIDE DEF n
<1>5. Put(<<text[1]>>, n, read.allowed) \in Maps(Nat) BY <1>2, <1>3, <1>4, PutIs
<1> DEFINE M == Maps(Nat)
           p == Put(<<text[1]>>, n, read.allowed)
<1>6. /\ [read EXCEPT !.last = Tail(text), !.whole = TRUE] \in Allowances
      /\ [read EXCEPT !.last = <<text[1]>>] \in Allowances
      /\ [read EXCEPT !.allowed = p] \in Allowances
  <2> HIDE DEF p
  <2>1. p \in Maps(Nat) BY <1>5 DEF p
  <2> QED BY <1>2, <2>1 DEF Allowances
<1>7. AddAllowable(read, text) \in {read, [read EXCEPT !.last = Tail(text), !.whole = TRUE],
                                   [read EXCEPT !.last = <<text[1]>>], [read EXCEPT !.allowed = p]}
      BY DEF AddAllowable, n
<1> HIDE DEF p
<1> QED BY <1>6, <1>7

LEMMA RestsType ==
    ASSUME NEW text \in Chars
    PROVE  /\ Rests(text) \in Seq(Names) /\ Len(Rests(text)) = Len(text)
           /\ \A i \in 1 .. Len(text) :
                  LET rest == Rests(text)[i]
                  IN  /\ rest \in Names /\ rest[1] = text[i] /\ Len(rest) = Len(text) - i + 1
                      /\ Tail(rest) \in Chars /\ (Tail(rest) = <<>> <=> i = Len(text))
<1>1. Len(text) \in Nat BY TextFacts
<1>2. ASSUME NEW i \in 1 .. Len(text)
      PROVE  LET rest == SubSeq(text, i, Len(text))
             IN  /\ rest \in Names /\ rest[1] = text[i] /\ Len(rest) = Len(text) - i + 1
                 /\ Tail(rest) \in Chars /\ (Tail(rest) = <<>> <=> i = Len(text))
  <2> DEFINE rest == SubSeq(text, i, Len(text))
             n == Len(text)
  <2>1. \A k \in i .. n : text[k] \in ArgCharacters
    <3>1. \A k \in 1 .. n : text[k] \in ArgCharacters BY TextFacts
    <3> QED BY <1>1, <3>1
  <2>2. i \in Int /\ n \in Int /\ i <= n BY <1>1
  <2> HIDE DEF n
  <2>3. /\ SubSeq(text, i, n) \in Chars /\ Len(SubSeq(text, i, n)) = n - i + 1
        /\ \A k \in 1 .. n - i + 1 : SubSeq(text, i, n)[k] = text[i + k - 1]
        BY <2>1, <2>2, SubSeqProperties DEF Chars
  <2>4. 1 \in 1 .. n - i + 1 /\ i + 1 - 1 = i BY <2>2
  <2>5. rest \in Chars /\ Len(rest) = n - i + 1 /\ rest[1] = text[i] BY <2>3, <2>4 DEF n
  <2> HIDE DEF rest
  <2>6. rest # <<>> /\ Len(rest) # 0 BY <2>2, <2>5, TextFacts
  <2>7. Tail(rest) \in Chars /\ Len(Tail(rest)) = n - i BY <2>2, <2>5, <2>6, TextFacts
  <2>8. Tail(rest) = <<>> <=> n - i = 0 BY <2>7, TextFacts
  <2>9. rest \in Names BY <2>5, <2>6 DEF Names
  <2>10. Tail(rest) = <<>> <=> i = n BY <2>2, <2>8
  <2> QED BY <2>5, <2>7, <2>9, <2>10 DEF rest, n
<1>3. DOMAIN Rests(text) = 1 .. Len(text) /\ \A i \in 1 .. Len(text) : Rests(text)[i] = SubSeq(text, i, Len(text))
      BY DEF Rests
<1>4. Rests(text) \in [1 .. Len(text) -> Names] BY <1>2 DEF Rests
<1>5. Rests(text) \in Seq(Names) /\ Len(Rests(text)) = Len(text)
  <2> DEFINE r == Rests(text)
             n == Len(text)
  <2>1. r \in [1 .. n -> Names] /\ n \in Nat BY <1>1, <1>4
  <2> HIDE DEF r, n
  <2>2. r \in Seq(Names) /\ Len(r) = n BY <2>1
  <2> QED BY <2>2 DEF r, n
<1> QED BY <1>2, <1>3, <1>5

LEMMA parseAllowableStringType ==
    ASSUME NEW text \in Chars, NEW map \in Maps(Nat)
    PROVE  /\ parseAllowableString(text, map).last \in Chars
           /\ parseAllowableString(text, map).allowed \in Maps(Nat)
<1> DEFINE read == [last |-> <<>>, allowed |-> map, whole |-> FALSE]
<1>1. read \in Allowances
  <2>1. <<>> \in Chars BY EmptySeq DEF Chars
  <2> QED BY <2>1 DEF Allowances
<1> HIDE DEF read
<1>2. Loading!Fold(read, Rests(text)) \in Allowances
      BY <1>1, LoadingClosed, RestsType, Loading!FoldType
<1>3. parseAllowableString(text, map) = Loading!Fold(read, Rests(text))
      BY DEF parseAllowableString, read, Loading!Fold, FoldLeft, Loading!FoldLeft, MapThenFoldSet,
             Loading!MapThenFoldSet, Max, Loading!Max
<1> QED BY <1>2, <1>3 DEF Allowances

AllowedOk ==
    /\ stream \in Chars /\ token \in Chars /\ lastOpt \in Chars
    /\ allowed \in Maps(Nat)

LEMMA AllowedOkInit == ArgsInit => AllowedOk
<1> SUFFICES ASSUME ArgsInit PROVE AllowedOk OBVIOUS
<1>1. PICK text \in Allowables : token = TokenOf(text).token /\ stream = TokenOf(text).rest BY DEF ArgsInit
<1>2. text \in Chars BY AllowablesAssumption DEF Chars
<1>3. token \in Chars /\ stream \in Chars BY <1>1, <1>2, TokenOfType
<1>4. lastOpt \in Chars BY EmptySeq DEF ArgsInit, Chars
<1>5. allowed \in Maps(Nat) BY EmptyMap DEF ArgsInit
<1> QED BY <1>3, <1>4, <1>5 DEF AllowedOk

LEMMA AllowedOkStep == AllowedOk /\ [ArgsNext]_argsvars => AllowedOk'
<1> SUFFICES ASSUME AllowedOk, [ArgsNext]_argsvars PROVE AllowedOk' OBVIOUS
<1> DEFINE map == IF lastOpt = <<>> THEN allowed ELSE Put(lastOpt, 0, allowed)
<1>1. map \in Maps(Nat)
  <2>1. lastOpt # <<>> => Put(lastOpt, 0, allowed) \in Maps(Nat) BY PutIs DEF AllowedOk, Names
  <2> QED BY <2>1 DEF AllowedOk
<1>2. TokenOf(stream).token \in Chars /\ TokenOf(stream).rest \in Chars BY TokenOfType DEF AllowedOk
<1>3. <<>> \in Chars BY EmptySeq DEF Chars
<1>4. ASSUME LoadCount PROVE AllowedOk'
  <2>1. lastOpt \in Names /\ Number(token) \in Nat /\ AfterNumber(token) \in Chars
        BY <1>4, NumberType, AfterNumberType DEF AllowedOk, LoadCount, Names
  <2>2. Put(lastOpt, Number(token), allowed) \in Maps(Nat) BY <2>1, PutIs DEF AllowedOk
  <2> QED BY <1>2, <1>3, <1>4, <2>1, <2>2 DEF AllowedOk, LoadCount, consumeToken
<1>5. ASSUME LoadOption PROVE AllowedOk'
  <2>1. /\ parseAllowableString(token, map).last \in Chars
        /\ parseAllowableString(token, map).allowed \in Maps(Nat)
    <3> HIDE DEF map
    <3> QED BY <1>1, parseAllowableStringType DEF AllowedOk
  <2> DEFINE parsed == IF Len(token) = 1 THEN [last |-> token, allowed |-> map]
                       ELSE parseAllowableString(token, map)
  <2>2. /\ allowed' = parsed.allowed /\ lastOpt' = parsed.last
        /\ stream' = TokenOf(stream).rest /\ token' = TokenOf(stream).token
        BY <1>5 DEF LoadOption, consumeToken
  <2>3. parsed.allowed \in Maps(Nat) /\ parsed.last \in Chars
    <3> HIDE DEF map
    <3> QED BY <1>1, <2>1 DEF AllowedOk
  <2> HIDE DEF parsed
  <2> QED BY <1>2, <2>2, <2>3 DEF AllowedOk
<1>6. ASSUME LoadError PROVE AllowedOk' BY <1>6 DEF AllowedOk, LoadError
<1>7. ASSUME LoadEnd PROVE AllowedOk' BY <1>1, <1>7 DEF AllowedOk, LoadEnd
<1>8. CASE Load BY <1>4, <1>5, <1>6, <1>7, <1>8 DEF Load
<1>9. CASE End BY <1>9 DEF AllowedOk, End
<1>10. ASSUME NEW w \in Words, Parse(w) PROVE AllowedOk' BY <1>10 DEF AllowedOk, Parse
<1>11. CASE UNCHANGED argsvars BY <1>11 DEF AllowedOk, argsvars
<1> QED BY <1>8, <1>9, <1>10, <1>11 DEF ArgsNext

-----------------------------------------------------------------------------
(* The options a word gives *)

LEMMA AddingClosed == AllowedOk => Adding!Closed
<1> SUFFICES ASSUME AllowedOk, NEW read \in Reads, NEW text \in Names PROVE addOption(read, text) \in Reads
    BY DEF Adding!Closed
<1> DEFINE name == <<text[1]>>
           rest == Tail(text)
           takesRest == allowed[name] > 0 /\ rest # <<>>
           params == IF takesRest THEN <<rest>> ELSE <<>>
           left == Left(name, takesRest)
           read1 == [read EXCEPT !.left = left, !.consumed = takesRest]
<1>1. text \in Chars /\ text # <<>> BY DEF Names
<1>2. name \in Names /\ rest \in Chars BY <1>1, TextFacts
<1>3. params \in Params BY <1>2 DEF Params
<1>4. CASE name \notin DOMAIN allowed \/ read.consumed
  <2>1. addOption(read, text) \in {read, [read EXCEPT !.error = TRUE]} BY <1>4 DEF addOption
  <2> QED BY <2>1 DEF Reads
<1>5. CASE name \in DOMAIN allowed /\ ~read.consumed
  <2>1. allowed[name] \in Nat BY <1>5, MapsHas DEF AllowedOk
  <2>2. left \in Nat BY <2>1 DEF Left
  <2>3. takesRest \in BOOLEAN OBVIOUS
  <2>4. addOption(read, text) = IF name \in DOMAIN read1.options THEN [read1 EXCEPT !.error = TRUE]
                                ELSE [read1 EXCEPT !.options = Put(name, params, @)]
        BY <1>5 DEF addOption, addOptionIfNotDuplicate
  <2> HIDE DEF name, rest, takesRest, params, left
  <2>5. read.options \in Maps(Params) BY DEF Reads
  <2>6. Put(name, params, read.options) \in Maps(Params) BY <1>2, <1>3, <2>5, PutIs
  <2>7. read1 \in Reads /\ read1.options = read.options BY <2>2, <2>3 DEF Reads
  <2> HIDE DEF read1
  <2>8. [read1 EXCEPT !.error = TRUE] \in Reads BY <2>7 DEF Reads
  <2>9. [read1 EXCEPT !.options = Put(name, params, @)] \in Reads BY <2>6, <2>7 DEF Reads
  <2> QED BY <2>4, <2>8, <2>9
<1> QED BY <1>4, <1>5

\* The letters of a word, the first that takes parameters, how many are options
\* after k turns, and those there is something wrong with.
Letter(text, i) == <<text[i]>>
Takers(text) == {i \in 1 .. Len(text) : Letter(text, i) \in DOMAIN allowed /\ allowed[Letter(text, i)] > 0}
Taker(text) == IF Takers(text) # {} THEN Min(Takers(text)) ELSE 0
Upto(text, k) == IF Taker(text) # 0 /\ Taker(text) <= k THEN Taker(text) ELSE k
Wrong(text, opts, i) == \/ Letter(text, i) \notin DOMAIN allowed \/ Letter(text, i) \in DOMAIN opts
                        \/ \E j \in 1 .. i - 1 : Letter(text, j) = Letter(text, i)
\* What has been read after k turns.
After(q, text, opts, k) ==
    LET n == Upto(text, k)
    IN  /\ q \in Reads
        /\ q.consumed <=> (Taker(text) # 0 /\ Taker(text) <= k /\ Taker(text) < Len(text))
        /\ \A o : o \in DOMAIN q.options <=>
                     \/ o \in DOMAIN opts
                     \/ o \in DOMAIN allowed /\ \E i \in 1 .. n : o = Letter(text, i)
        /\ q.error <=> \E i \in 1 .. n : Wrong(text, opts, i)
        /\ k > 0 /\ ~q.error =>
             q.left = IF q.consumed THEN allowed[Letter(text, n)] - 1 ELSE allowed[Letter(text, n)]

LEMMA TakerIs ==
    ASSUME NEW text \in Chars
    PROVE  /\ Taker(text) \in 0 .. Len(text)
           /\ Taker(text) # 0 => Taker(text) \in Takers(text)
           /\ \A i \in Takers(text) : Taker(text) # 0 /\ Taker(text) <= i
<1>1. Len(text) \in Nat BY TextFacts
<1>2. Takers(text) \in SUBSET (1 .. Len(text)) BY DEF Takers
<1> DEFINE T == Takers(text)
           m == Taker(text)
<1>3. m = IF T # {} THEN Min(T) ELSE 0 BY DEF Taker
<1> HIDE DEF T, m
<1>4. m \in 0 .. Len(text) /\ (m = 0 <=> T = {}) /\ (m # 0 => m \in T /\ \A i \in T : m <= i)
      BY <1>1, <1>2, <1>3, FirstIn DEF T
<1> QED BY <1>4 DEF T, m

LEMMA AddStep ==
    ASSUME AllowedOk, NEW text \in Chars, NEW opts \in Maps(Params), NEW k \in 0 .. Len(text) - 1,
           NEW q, After(q, text, opts, k), NEW rest \in Names,
           rest[1] = text[k + 1], Tail(rest) = <<>> <=> k + 1 = Len(text)
    PROVE  After(addOption(q, rest), text, opts, k + 1)
<1> DEFINE L(i) == Letter(text, i)
           name == L(k + 1)
           n == Len(text)
           t == Taker(text)
           r == addOption(q, rest)
<1>1. n \in Nat /\ k \in Nat /\ k + 1 \in 1 .. n BY TextFacts
<1>2. /\ t \in 0 .. n /\ (t # 0 => t \in Takers(text))
      /\ \A i \in Takers(text) : t # 0 /\ t <= i BY TakerIs
<1>3. name = <<rest[1]>> BY DEF Letter
<1>4. r \in Reads
  <2>1. q \in Reads BY DEF After
  <2> QED BY <2>1, AddingClosed DEF Adding!Closed
<1>5. CASE q.consumed
  <2>1. r = q BY <1>5 DEF addOption
  <2>2. t # 0 /\ t <= k /\ t < n BY <1>5 DEF After
  <2>3. Upto(text, k) = t /\ Upto(text, k + 1) = t /\ t > 0 BY <1>1, <1>2, <2>2 DEF Upto
  <2> HIDE DEF r, t, n
  <2> QED BY <1>1, <1>2, <1>5, <2>1, <2>2, <2>3 DEF After, r, t, n
<1>6. CASE ~q.consumed
  <2>1. t = 0 \/ t > k BY <1>1, <1>2, <1>6 DEF After
  <2>2. Upto(text, k) = k /\ Upto(text, k + 1) = k + 1 BY <1>1, <1>2, <2>1 DEF Upto
  <2>3. t = k + 1 <=> name \in DOMAIN allowed /\ allowed[name] > 0
    <3>1. k + 1 \in Takers(text) <=> name \in DOMAIN allowed /\ allowed[name] > 0 BY <1>1 DEF Takers
    <3> QED BY <1>1, <1>2, <2>1, <3>1
  <2> DEFINE takesRest == allowed[name] > 0 /\ Tail(rest) # <<>>
             q1 == [q EXCEPT !.left = Left(name, takesRest), !.consumed = takesRest]
             params == IF takesRest THEN <<Tail(rest)>> ELSE <<>>
  <2>4. r = IF name \notin DOMAIN allowed THEN [q EXCEPT !.error = TRUE]
            ELSE IF name \in DOMAIN q1.options THEN [q1 EXCEPT !.error = TRUE]
            ELSE [q1 EXCEPT !.options = Put(name, params, @)]
        BY <1>3, <1>6 DEF addOption, addOptionIfNotDuplicate
  <2>5. takesRest <=> allowed[name] > 0 /\ k + 1 # n OBVIOUS
  <2>6. /\ \A o : o \in DOMAIN q.options <=>
                     o \in DOMAIN opts \/ (o \in DOMAIN allowed /\ \E i \in 1 .. k : o = L(i))
        /\ q.error <=> \E i \in 1 .. k : Wrong(text, opts, i)
        /\ q \in Reads
        BY <2>2 DEF After
  <2>7. \A i \in 1 .. k + 1 : i \in 1 .. k \/ i = k + 1 BY <1>1
  <2>8. \A i \in 1 .. k : i \in 1 .. k + 1 BY <1>1
  <2>9. Wrong(text, opts, k + 1) <=> name \notin DOMAIN allowed \/ name \in DOMAIN q.options
    <3>1. (k + 1) - 1 = k BY <1>1
    <3> HIDE DEF n, t, r, takesRest, q1, params
    <3>2. Wrong(text, opts, k + 1) <=> name \notin DOMAIN allowed \/ name \in DOMAIN opts \/ \E j \in 1 .. k : L(j) = name
          BY <3>1 DEF Wrong
    <3> HIDE DEF L
    <3> QED BY <2>6, <3>2
  <2> HIDE DEF n, t, r, takesRest, L
  <2>10. /\ r.consumed <=> name \in DOMAIN allowed /\ takesRest
         /\ r.error <=> q.error \/ name \notin DOMAIN allowed \/ name \in DOMAIN q.options
         /\ r.options = IF name \in DOMAIN allowed /\ name \notin DOMAIN q.options
                        THEN Put(name, params, q.options) ELSE q.options
         /\ name \in DOMAIN allowed => r.left = Left(name, takesRest)
         BY <1>6, <2>4, <2>6, <1>4 DEF Reads
  <2>11. r.consumed <=> t # 0 /\ t <= k + 1 /\ t < n
         BY <1>1, <1>2, <2>1, <2>3, <2>5, <2>10 DEF n
  <2>12. \A o : o \in DOMAIN r.options <=>
                   o \in DOMAIN opts \/ (o \in DOMAIN allowed /\ \E i \in 1 .. k + 1 : o = L(i))
    <3>1. DOMAIN Put(name, params, q.options) = DOMAIN q.options \cup {name} BY DEF Put
    <3> HIDE DEF name, params
    <3>2. \A o : (\E i \in 1 .. k + 1 : o = L(i)) <=> (\E i \in 1 .. k : o = L(i)) \/ o = name
          BY <1>1, <2>7, <2>8 DEF name
    <3> QED BY <2>6, <2>10, <3>1, <3>2
  <2>13. r.error <=> \E i \in 1 .. k + 1 : Wrong(text, opts, i)
    <3>1. (\E i \in 1 .. k + 1 : Wrong(text, opts, i)) <=>
             (\E i \in 1 .. k : Wrong(text, opts, i)) \/ Wrong(text, opts, k + 1)
          BY <1>1, <2>7, <2>8
    <3> QED BY <2>6, <2>9, <2>10, <3>1
  <2>14. ~r.error => r.left = IF r.consumed THEN allowed[L(k + 1)] - 1 ELSE allowed[L(k + 1)]
         BY <2>10 DEF Left
  <2> HIDE DEF name
  <2> QED BY <1>4, <2>2, <2>11, <2>12, <2>13, <2>14 DEF After, L, n, t, r
<1> QED BY <1>5, <1>6

Unread(opts) == [options |-> opts, left |-> 0, error |-> FALSE, consumed |-> FALSE]

LEMMA AddingPath ==
    ASSUME Adding!Closed, NEW b, NEW s, NEW n \in Nat, NEW it, Adding!Following(it, b, s, n)
    PROVE  it[{}] = b /\ \A k \in 1 .. n : it[1 .. k] = addOption(it[1 .. k - 1], s[k])
BY Adding!FollowingPath

LEMMA AfterAll ==
    ASSUME AllowedOk, NEW text \in Chars, NEW opts \in Maps(Params)
    PROVE  After(addOptions(text, Unread(opts)), text, opts, Len(text))
<1> DEFINE s == Rests(text)
           b == Unread(opts)
           n == Len(text)
<1>1. n \in Nat /\ s \in Seq(Names) /\ Len(s) = n BY TextFacts, RestsType
<1>2. /\ b \in Reads /\ b.options = opts /\ b.left = 0 /\ b.error = FALSE /\ b.consumed = FALSE
      BY DEF Reads, Unread
<1>3. addOptions(text, b) = Adding!Fold(b, s)
      BY DEF addOptions, Adding!Fold, FoldLeft, Adding!FoldLeft, MapThenFoldSet,
             Adding!MapThenFoldSet, Max, Adding!Max
<1>4. Adding!Closed BY AddingClosed
<1>5. \A i \in 1 .. n : /\ s[i] \in Names /\ s[i][1] = text[i]
                         /\ (Tail(s[i]) = <<>> <=> i = n) BY RestsType
<1> HIDE DEF s, b
<1>6. PICK it : Adding!Following(it, b, s, n) /\ Adding!Fold(b, s) = it[1 .. n]
      BY <1>1, <1>2, <1>4, Adding!FoldFollows
<1>7. it[{}] = b /\ \A k \in 1 .. n : it[1 .. k] = addOption(it[1 .. k - 1], s[k])
      BY <1>1, <1>4, <1>6, AddingPath
<1> DEFINE T == {k \in Nat : k <= n => After(it[1 .. k], text, opts, k)}
<1>8. 0 \in T
  <2>1. 1 .. 0 = {} OBVIOUS
  <2>2. Upto(text, 0) = 0 BY TakerIs, <1>1 DEF Upto
  <2>3. ~(Taker(text) # 0 /\ Taker(text) <= 0) BY TakerIs, <1>1
  <2>4. After(b, text, opts, 0) BY <1>1, <1>2, <2>1, <2>2, <2>3 DEF After
  <2> QED BY <1>7, <2>1, <2>4
<1>9. ASSUME NEW k \in T \cap Nat PROVE k + 1 \in T
  <2> SUFFICES ASSUME k + 1 <= n PROVE After(it[1 .. k + 1], text, opts, k + 1) OBVIOUS
  <2>1. k \in 0 .. n - 1 /\ k + 1 \in 1 .. n /\ (k + 1) - 1 = k /\ k <= n BY <1>1
  <2>2. After(it[1 .. k], text, opts, k) BY <2>1
  <2>3. it[1 .. k + 1] = addOption(it[1 .. k], s[k + 1]) BY <1>7, <2>1
  <2>4. s[k + 1] \in Names /\ s[k + 1][1] = text[k + 1] /\ (Tail(s[k + 1]) = <<>> <=> k + 1 = n)
        BY <1>5, <2>1
  <2>5. After(addOption(it[1 .. k], s[k + 1]), text, opts, k + 1)
    <3> DEFINE q == it[1 .. k]
               rest == s[k + 1]
    <3>1. /\ After(q, text, opts, k) /\ rest \in Names /\ rest[1] = text[k + 1]
          /\ (Tail(rest) = <<>> <=> k + 1 = Len(text)) /\ k \in 0 .. Len(text) - 1
          BY <2>1, <2>2, <2>4
    <3> HIDE DEF q, rest, T, n
    <3> QED BY <3>1, AddStep DEF q, rest
  <2> QED BY <2>3, <2>5
<1>10. Nat \subseteq T
  <2> HIDE DEF T
  <2> QED BY <1>8, <1>9, Numbers!Induction
<1>11. After(it[1 .. n], text, opts, n) BY <1>1, <1>10
<1> QED BY <1>3, <1>6, <1>11 DEF b

LEMMA NamedIs ==
    ASSUME NEW w \in Chars, ~IsFull(w), Tail(w) \in Chars
    PROVE  Named(w) = [i \in 1 .. Upto(Tail(w), Len(Tail(w))) |-> Letter(Tail(w), i)]
<1> DEFINE text == Tail(w)
           taker == SelectInSeq(text, LAMBDA c : <<c>> \in DOMAIN allowed /\ allowed[<<c>>] > 0)
<1>1. taker = Taker(text) BY DEF SelectInSeq, Taker, Takers, Letter
<1>2. Named(w) = [i \in 1 .. (IF taker = 0 THEN Len(text) ELSE taker) |-> Letter(text, i)]
      BY DEF Named, Letter
<1> HIDE DEF text, taker
<1>3. Len(text) \in Nat /\ Taker(text) \in 0 .. Len(text) BY TextFacts, TakerIs DEF text
<1>4. Upto(text, Len(text)) = IF taker = 0 THEN Len(text) ELSE taker BY <1>1, <1>3 DEF Upto
<1> QED BY <1>2, <1>4 DEF text

\* What a word of letters does is what it says, or an error.
LEMMA OptionsAdded ==
    ASSUME AllowedOk, NEW w \in Chars, IsOption(w), ~IsFull(w), Tail(w) # <<>>, NEW opts \in Maps(Params),
           NEW read, read = addOptions(Tail(w), Unread(opts))
    PROVE  /\ read \in Reads
           /\ Named(w) \in Seq(Names) /\ Named(w) # <<>>
           /\ read.error <=> ~(/\ ToSet(Named(w)) \subseteq DOMAIN allowed /\ IsInjective(Named(w))
                               /\ ToSet(Named(w)) \cap DOMAIN opts = {})
           /\ ~read.error => /\ read.left = AsksFor(w)
                             /\ DOMAIN read.options = DOMAIN opts \cup ToSet(Named(w))
<1> DEFINE text == Tail(w)
           n == Len(text)
           p == Upto(text, n)
           L(i) == Letter(text, i)
           names == Named(w)
<1>1. text \in Chars /\ n \in Nat /\ n # 0 /\ Len(w) = n + 1
  <2>1. w # <<>> /\ Len(w) \in Nat /\ Len(w) # 0 BY TextFacts DEF IsOption
  <2>2. text \in Chars /\ n = Len(w) - 1 BY <2>1, TextFacts
  <2>3. n # 0 BY <2>2, TextFacts
  <2> QED BY <2>1, <2>2, <2>3
<1>2. After(read, text, opts, n) BY <1>1, AfterAll
<1>3. names = [i \in 1 .. p |-> L(i)] BY <1>1, NamedIs
<1>4. /\ Taker(text) \in 0 .. n /\ (Taker(text) # 0 => Taker(text) \in Takers(text))
      /\ \A i \in Takers(text) : Taker(text) # 0 /\ Taker(text) <= i BY <1>1, TakerIs
<1>5. p \in 1 .. n /\ p = (IF Taker(text) = 0 THEN n ELSE Taker(text)) BY <1>1, <1>4 DEF Upto
<1>6. \A i \in 1 .. p : L(i) \in Names BY <1>1, <1>5, TextFacts DEF Letter
<1>7. /\ \A o : o \in DOMAIN read.options <=>
                   o \in DOMAIN opts \/ (o \in DOMAIN allowed /\ \E i \in 1 .. p : o = L(i))
      /\ read.error <=> \E i \in 1 .. p : Wrong(text, opts, i)
      /\ read \in Reads
      /\ ~read.error => read.left = IF read.consumed THEN allowed[L(p)] - 1 ELSE allowed[L(p)]
      /\ read.consumed <=> (Taker(text) # 0 /\ Taker(text) <= n /\ Taker(text) < n)
      BY <1>1, <1>2 DEF After
<1> HIDE DEF text, n, p, names
<1>8. DOMAIN names = 1 .. p /\ \A i \in 1 .. p : names[i] = L(i) BY <1>3
<1>9. names \in Seq(Names) /\ Len(names) = p BY <1>3, <1>5, <1>6
<1>10. names # <<>> BY <1>5, <1>9, EmptySeq
<1>11. (\A i \in 1 .. p : ~Wrong(text, opts, i)) <=>
          /\ \A i \in 1 .. p : L(i) \in DOMAIN allowed
          /\ \A i, j \in 1 .. p : L(i) = L(j) => i = j
          /\ \A i \in 1 .. p : L(i) \notin DOMAIN opts
  <2>1. \A i, j \in 1 .. p : i < j => i \in 1 .. j - 1 BY <1>5
  <2>2. \A i \in 1 .. p : \A j \in 1 .. i - 1 : j \in 1 .. p /\ j # i BY <1>1, <1>5
  <2>3. \A i, j \in 1 .. p : i = j \/ i < j \/ j < i BY <1>5
  <2>4. \A i \in 1 .. p : Wrong(text, opts, i) <=>
            L(i) \notin DOMAIN allowed \/ L(i) \in DOMAIN opts \/ \E j \in 1 .. i - 1 : L(j) = L(i)
        BY DEF Wrong
  <2> HIDE DEF L
  <2> QED BY <2>1, <2>2, <2>3, <2>4
<1> HIDE DEF L
<1>12. ToSet(names) = {L(i) : i \in 1 .. p} BY <1>8 DEF ToSet
<1>13. IsInjective(names) <=> \A i, j \in 1 .. p : L(i) = L(j) => i = j BY <1>8 DEF IsInjective
<1>14. read.error <=> ~(/\ ToSet(names) \subseteq DOMAIN allowed /\ IsInjective(names)
                       /\ ToSet(names) \cap DOMAIN opts = {})
       BY <1>7, <1>11, <1>12, <1>13
<1>15. ASSUME ~read.error PROVE /\ read.left = AsksFor(w)
                               /\ DOMAIN read.options = DOMAIN opts \cup ToSet(names)
  <2>1. \A i \in 1 .. p : L(i) \in DOMAIN allowed BY <1>12, <1>14, <1>15
  <2>2. DOMAIN read.options = DOMAIN opts \cup ToSet(names) BY <1>7, <1>12, <2>1
  <2>3. L(p) \in DOMAIN allowed /\ names[p] = L(p) BY <1>5, <1>8, <2>1
  <2>4. allowed[L(p)] \in Nat BY <2>3, MapsHas DEF AllowedOk
  <2>5. p \in Takers(text) <=> allowed[L(p)] > 0 BY <1>5, <2>3 DEF Takers, L, n
  <2>6. allowed[L(p)] > 0 <=> Taker(text) # 0
    <3>1. Taker(text) # 0 => p \in Takers(text) BY <1>4, <1>5
    <3> QED BY <1>4, <2>5, <3>1
  <2>7. AsksFor(w) = IF allowed[L(p)] = 0 \/ n + 1 = p + 1 THEN allowed[L(p)] ELSE allowed[L(p)] - 1
        BY <1>1, <1>9, <2>3 DEF AsksFor, names
  <2>8. read.consumed <=> ~(allowed[L(p)] = 0 \/ n + 1 = p + 1)
        BY <1>1, <1>4, <1>5, <1>7, <2>4, <2>6
  <2> QED BY <1>7, <1>15, <2>2, <2>7, <2>8
<1> QED BY <1>7, <1>9, <1>10, <1>14, <1>15 DEF names

TextOf(w) == IF IsFull(w) THEN SubSeq(w, 3, Len(w)) ELSE Tail(w)
\* That a word's options are allowed and new.
NamesOk(w, opts) ==
    /\ ToSet(Named(w)) \subseteq DOMAIN allowed /\ IsInjective(Named(w))
    /\ ToSet(Named(w)) \cap opts = {}

LEMMA OneName ==
    ASSUME NEW text
    PROVE  ToSet(<<text>>) = {text} /\ IsInjective(<<text>>) /\ <<text>> # <<>>
           /\ Len(<<text>>) = 1 /\ <<text>>[1] = text
<1>1. DOMAIN <<text>> = {1} /\ <<text>>[1] = text /\ Len(<<text>>) = 1 OBVIOUS
<1> QED BY <1>1, EmptySeq DEF ToSet, IsInjective

LEMMA TextOfType == ASSUME NEW w \in Chars, IsOption(w) PROVE TextOf(w) \in Chars
<1>1. w # <<>> /\ Len(w) \in Nat /\ Tail(w) \in Chars BY TextFacts DEF IsOption
<1>2. IsFull(w) => SubSeq(w, 3, Len(w)) \in Chars
  <2>1. IsFull(w) => 3 \in 1 .. Len(w) + 1 /\ Len(w) \in 0 .. Len(w) BY <1>1 DEF IsFull
  <2> QED BY <2>1, PartOfText
<1> QED BY <1>1, <1>2 DEF TextOf

\* A word with nothing after its dashes gives no option that is allowed.
LEMMA NothingNamed ==
    ASSUME AllowedOk, NEW w \in Chars, IsOption(w), TextOf(w) = <<>>
    PROVE  /\ Named(w) \in Seq(Chars)
           /\ ~(Named(w) # <<>> /\ ToSet(Named(w)) \subseteq DOMAIN allowed)
<1>1. CASE IsFull(w)
  <2>1. Named(w) = << <<>> >> BY <1>1 DEF Named, TextOf
  <2>2. <<>> \notin DOMAIN allowed BY MapsHas DEF AllowedOk, Names
  <2>3. <<>> \in Chars BY EmptySeq DEF Chars
  <2>4. << <<>> >> \in Seq(Chars) BY <2>3, Numbers!ConcatOfTwo
  <2> QED BY <2>1, <2>2, <2>4, OneName
<1>2. CASE ~IsFull(w)
  <2>1. Tail(w) = <<>> /\ Tail(w) \in Chars BY <1>2, EmptySeq DEF TextOf, Chars
  <2>2. Len(Tail(w)) = 0 BY <2>1, EmptySeq
  <2>3. Upto(Tail(w), 0) = 0 BY <2>1, <2>2, TakerIs DEF Upto
  <2>4. Named(w) = [i \in 1 .. 0 |-> Letter(Tail(w), i)] BY <1>2, <2>1, <2>2, <2>3, NamedIs
  <2>5. Named(w) = <<>> BY <2>4
  <2> QED BY <2>5, EmptySeq
<1> QED BY <1>1, <1>2

LEMMA OptionRead ==
    ASSUME AllowedOk, NEW w \in Chars, IsOption(w), TextOf(w) # <<>>, options \in Maps(Params), parseError = FALSE,
           NEW read, read = addOptionsIfValid(TextOf(w), IsFull(w))
    PROVE  /\ read.options \in Maps(Params) /\ read.left \in Nat /\ read.error \in BOOLEAN
           /\ Named(w) \in Seq(Chars) /\ Named(w) # <<>>
           /\ read.error <=> ~NamesOk(w, DOMAIN options)
           /\ ~read.error => /\ read.left = AsksFor(w)
                             /\ DOMAIN read.options = DOMAIN options \cup ToSet(Named(w))
<1> DEFINE text == TextOf(w)
<1>1. text \in Chars /\ text \in Names BY TextOfType DEF Names
<1>2. CASE ~IsFull(w)
  <2>1. text = Tail(w) BY <1>2 DEF TextOf
  <2>2. read = addOptions(text, Unread(options)) BY <1>2 DEF addOptionsIfValid, Unread
  <2> HIDE DEF text
  <2>3. /\ read \in Reads
        /\ Named(w) \in Seq(Names) /\ Named(w) # <<>>
        /\ read.error <=> ~(/\ ToSet(Named(w)) \subseteq DOMAIN allowed /\ IsInjective(Named(w))
                            /\ ToSet(Named(w)) \cap DOMAIN options = {})
        /\ ~read.error => /\ read.left = AsksFor(w)
                          /\ DOMAIN read.options = DOMAIN options \cup ToSet(Named(w))
        BY <1>2, <2>1, <2>2, OptionsAdded DEF text
  <2>4. Named(w) \in Seq(Chars)
    <3>1. Names \subseteq Chars BY DEF Names
    <3> HIDE DEF Names, Chars
    <3> QED BY <2>3, <3>1, SeqMonotonic
  <2>5. read.options \in Maps(Params) /\ read.left \in Nat /\ read.error \in BOOLEAN
        BY <2>3 DEF Reads
  <2> QED BY <2>3, <2>4, <2>5 DEF NamesOk
<1>3. CASE IsFull(w)
  <2>1. Named(w) = <<text>> BY <1>3 DEF Named, TextOf
  <2>2. read = IF text \notin DOMAIN allowed THEN [Unread(options) EXCEPT !.error = TRUE]
               ELSE addOptionIfNotDuplicate([Unread(options) EXCEPT !.left = allowed[text]], text, <<>>)
        BY <1>3 DEF addOptionsIfValid, Unread
  <2>3. AsksFor(w) = allowed[text] BY <1>3, <2>1, OneName DEF AsksFor
  <2> HIDE DEF text
  <2>4. ToSet(Named(w)) = {text} /\ IsInjective(Named(w)) /\ Named(w) # <<>> BY <2>1, OneName
  <2>5. Named(w) \in Seq(Chars) BY <1>1, <2>1, Numbers!ConcatOfTwo
  <2>6. <<>> \in Params BY EmptySeq DEF Params
  <2>7. text \in DOMAIN allowed => allowed[text] \in Nat BY MapsHas DEF AllowedOk
  <2>8. /\ Put(text, <<>>, options) \in Maps(Params)
        /\ DOMAIN Put(text, <<>>, options) = DOMAIN options \cup {text}
    <3> DEFINE none == <<>>
    <3>1. none \in Params BY <2>6
    <3> HIDE DEF none
    <3>2. Put(text, none, options) \in Maps(Params)
          /\ DOMAIN Put(text, none, options) = DOMAIN options \cup {text}
          BY <1>1, <3>1, PutParams
    <3> QED BY <3>2 DEF none
  <2>9. read = IF text \notin DOMAIN allowed
               THEN [options |-> options, left |-> 0, error |-> TRUE, consumed |-> FALSE]
               ELSE IF text \in DOMAIN options
               THEN [options |-> options, left |-> allowed[text], error |-> TRUE, consumed |-> FALSE]
               ELSE [options |-> Put(text, <<>>, options), left |-> allowed[text], error |-> FALSE,
                     consumed |-> FALSE]
        BY <2>2 DEF addOptionIfNotDuplicate, Unread
  <2> QED BY <2>3, <2>4, <2>5, <2>7, <2>8, <2>9 DEF NamesOk
<1> QED BY <1>2, <1>3

-----------------------------------------------------------------------------
(* Command lines that are one word longer *)

LEMMA NamedType == ASSUME AllowedOk, NEW w \in Chars, IsOption(w) PROVE Named(w) \in Seq(Chars)
<1>1. CASE IsFull(w)
  <2>1. Named(w) = <<TextOf(w)>> BY <1>1 DEF Named, TextOf
  <2> QED BY <2>1, TextOfType, Numbers!ConcatOfTwo
<1>2. CASE ~IsFull(w)
  <2> DEFINE text == Tail(w)
             p == Upto(text, Len(text))
  <2>1. text \in Chars BY <1>2, TextOfType DEF TextOf
  <2>2. Named(w) = [i \in 1 .. p |-> Letter(text, i)] BY <1>2, <2>1, NamedIs
  <2>3. Len(text) \in Nat /\ p \in 0 .. Len(text)
    <3>1. Len(text) \in Nat /\ Taker(text) \in 0 .. Len(text) BY <2>1, TextFacts, TakerIs
    <3> QED BY <3>1 DEF Upto
  <2>4. \A i \in 1 .. p : Letter(text, i) \in Chars
    <3>1. \A i \in 1 .. Len(text) : Letter(text, i) \in Names BY <2>1, TextFacts DEF Letter
    <3>2. Names \subseteq Chars BY DEF Names
    <3>3. \A i \in 1 .. p : i \in 1 .. Len(text) BY <2>3
    <3> HIDE DEF text, p
    <3> QED BY <3>1, <3>2, <3>3
  <2> HIDE DEF text, p
  <2> QED BY <2>2, <2>3, <2>4
<1> QED BY <1>1, <1>2

LEMMA WordIsText == ASSUME NEW w \in Words PROVE w \in Chars
BY WordsAssumption DEF Chars

LEMMA GivenGrows ==
    ASSUME AllowedOk, NEW ws \in Seq(Words), NEW w \in Words
    PROVE  /\ Given(ws) \in Seq(Chars)
           /\ Given(Append(ws, w)) = Given(ws) \o (IF IsOption(w) THEN Named(w) ELSE <<>>)
<1> DEFINE F == [v \in Words |-> IF IsOption(v) THEN Named(v) ELSE <<>>]
           M == Seq(Chars)
<1>1. \A v \in Words : F[v] \in M BY WordIsText, NamedType, EmptySeq
<1>2. F[w] = IF IsOption(w) THEN Named(w) ELSE <<>> OBVIOUS
<1>3. \A x \in Seq(Words) : Given(x) = Typed!FlattenSeq(Typed!Mapped(F, x))
  <2> TAKE x \in Seq(Words)
  <2>1. \A i \in DOMAIN x : x[i] \in Words BY ElementOfSeq, LenProperties
  <2>2. [i \in DOMAIN x |-> IF IsOption(x[i]) THEN Named(x[i]) ELSE <<>>] = Typed!Mapped(F, x)
        BY <2>1 DEF Typed!Mapped
  <2>3. \A y : FlattenSeq(y) = Typed!FlattenSeq(y) BY DEF FlattenSeq, Typed!FlattenSeq
  <2> QED BY <2>2, <2>3 DEF Given
<1> HIDE DEF F, M
<1>4. /\ Typed!Mapped(F, ws) \in Seq(M)
      /\ Typed!Mapped(F, Append(ws, w)) = Append(Typed!Mapped(F, ws), F[w])
      BY <1>1, Typed!MapOfAppend
<1>5. Append(ws, w) \in Seq(Words) BY AppendProperties
<1>6. F[w] \in M BY <1>1
<1> DEFINE a == Typed!Mapped(F, ws)
<1>7. Typed!FlattenSeq(a) \in Seq(Chars) /\ Typed!FlattenSeq(Append(a, F[w])) = Typed!FlattenSeq(a) \o F[w]
  <2>1. a \in Seq(Seq(Chars)) /\ F[w] \in Seq(Chars) BY <1>4, <1>6 DEF M
  <2> HIDE DEF a
  <2> QED BY <2>1, Typed!FlattenType, Typed!FlattenOfAppend
<1> QED BY <1>2, <1>3, <1>4, <1>5, <1>7

LEMMA NothingGiven == Given(<<>>) = <<>>
<1>1. [i \in DOMAIN <<>> |-> IF IsOption(<<>>[i]) THEN Named(<<>>[i]) ELSE <<>>] = <<>> OBVIOUS
<1>2. Given(<<>>) = Typed!FlattenSeq(<<>>) BY <1>1 DEF Given, FlattenSeq, Typed!FlattenSeq
<1> QED BY <1>2, Typed!FlattenOfNothing

LEMMA ConcatElements ==
    ASSUME NEW S, NEW s \in Seq(S), NEW r \in Seq(S)
    PROVE  /\ ToSet(s \o r) = ToSet(s) \cup ToSet(r)
           /\ IsInjective(s \o r) <=> IsInjective(s) /\ IsInjective(r) /\ ToSet(s) \cap ToSet(r) = {}
<1> DEFINE m == Len(s)
           n == Len(r)
           t == s \o r
<1>1. m \in Nat /\ n \in Nat /\ DOMAIN s = 1 .. m /\ DOMAIN r = 1 .. n BY LenProperties
<1>2. t \in Seq(S) /\ Len(t) = m + n /\ \A i \in 1 .. m + n : t[i] = IF i <= m THEN s[i] ELSE r[i - m]
      BY ConcatProperties
<1>3. DOMAIN t = 1 .. m + n BY <1>2, LenProperties
<1> HIDE DEF m, n, t
<1>4. \A i \in 1 .. m : i \in 1 .. m + n /\ t[i] = s[i] BY <1>1, <1>2
<1>5. \A i \in 1 .. n : m + i \in 1 .. m + n /\ t[m + i] = r[i]
  <2> TAKE i \in 1 .. n
  <2>1. m + i \in 1 .. m + n /\ ~(m + i <= m) /\ (m + i) - m = i BY <1>1
  <2> QED BY <1>2, <2>1
<1>6. \A k \in 1 .. m + n : k \in 1 .. m \/ \E i \in 1 .. n : k = m + i
  <2> TAKE k \in 1 .. m + n
  <2>1. CASE k <= m BY <1>1, <2>1
  <2>2. CASE ~(k <= m)
    <3>1. k - m \in 1 .. n /\ k = m + (k - m) BY <1>1, <2>2
    <3> QED BY <3>1
  <2> QED BY <2>1, <2>2
<1>7. ToSet(t) = ToSet(s) \cup ToSet(r)
  <2>1. \A i \in 1 .. m + n : t[i] \in ToSet(s) \cup ToSet(r)
    <3> TAKE i \in 1 .. m + n
    <3>1. CASE i \in 1 .. m BY <1>1, <1>4, <3>1 DEF ToSet
    <3>2. CASE i \notin 1 .. m
      <4>1. PICK j \in 1 .. n : i = m + j BY <1>6, <3>2
      <4> QED BY <1>1, <1>5, <4>1 DEF ToSet
    <3> QED BY <3>1, <3>2
  <2>2. \A i \in 1 .. m : s[i] \in ToSet(t) BY <1>3, <1>4 DEF ToSet
  <2>3. \A i \in 1 .. n : r[i] \in ToSet(t) BY <1>3, <1>5 DEF ToSet
  <2> QED BY <1>1, <1>3, <2>1, <2>2, <2>3 DEF ToSet
<1>8. ASSUME IsInjective(t) PROVE IsInjective(s) /\ IsInjective(r) /\ ToSet(s) \cap ToSet(r) = {}
  <2>1. \A i, j \in 1 .. m + n : t[i] = t[j] => i = j BY <1>3, <1>8 DEF IsInjective
  <2>2. IsInjective(s) BY <1>1, <1>4, <2>1 DEF IsInjective
  <2>3. \A i, j \in 1 .. n : r[i] = r[j] => i = j
    <3> TAKE i, j \in 1 .. n
    <3>1. r[i] = r[j] => m + i = m + j BY <1>5, <2>1
    <3> QED BY <1>1, <3>1
  <2>4. \A i \in 1 .. m, j \in 1 .. n : s[i] # r[j]
    <3> TAKE i \in 1 .. m, j \in 1 .. n
    <3>1. s[i] = r[j] => i = m + j BY <1>4, <1>5, <2>1
    <3> QED BY <1>1, <3>1
  <2> QED BY <1>1, <2>2, <2>3, <2>4 DEF IsInjective, ToSet
<1>9. ASSUME IsInjective(s), IsInjective(r), ToSet(s) \cap ToSet(r) = {} PROVE IsInjective(t)
  <2> SUFFICES ASSUME NEW k \in 1 .. m + n, NEW l \in 1 .. m + n, t[k] = t[l] PROVE k = l
      BY <1>3 DEF IsInjective
  <2>1. \A i \in 1 .. m, j \in 1 .. n : s[i] # r[j] BY <1>1, <1>9 DEF ToSet
  <2>2. \A i, j \in 1 .. m : s[i] = s[j] => i = j BY <1>1, <1>9 DEF IsInjective
  <2>3. \A i, j \in 1 .. n : r[i] = r[j] => i = j BY <1>1, <1>9 DEF IsInjective
  <2>4. CASE k \in 1 .. m /\ l \in 1 .. m BY <1>4, <2>2, <2>4
  <2>5. CASE k \notin 1 .. m
    <3>1. PICK i \in 1 .. n : k = m + i BY <1>6, <2>5
    <3>2. l \notin 1 .. m BY <1>4, <1>5, <2>1, <3>1
    <3>3. PICK j \in 1 .. n : l = m + j BY <1>6, <3>2
    <3> QED BY <1>5, <2>3, <3>1, <3>3
  <2>6. CASE k \in 1 .. m /\ l \notin 1 .. m
    <3>1. PICK j \in 1 .. n : l = m + j BY <1>6, <2>6
    <3> QED BY <1>4, <1>5, <2>1, <2>6, <3>1
  <2> QED BY <2>4, <2>5, <2>6
<1> QED BY <1>7, <1>8, <1>9 DEF t

LEMMA Longer ==
    ASSUME NEW ws \in Seq(Words), NEW w \in Words
    PROVE  /\ Len(ws) \in Nat /\ DOMAIN ws = 1 .. Len(ws)
           /\ Append(ws, w) \in Seq(Words) /\ Len(Append(ws, w)) = Len(ws) + 1
           /\ DOMAIN Append(ws, w) = DOMAIN ws \cup {Len(ws) + 1}
           /\ \A i \in DOMAIN ws : Append(ws, w)[i] = ws[i] /\ i \in Nat /\ i <= Len(ws)
           /\ Append(ws, w)[Len(ws) + 1] = w
<1> DEFINE n == Len(ws)
           ws1 == Append(ws, w)
<1>1. n \in Nat /\ DOMAIN ws = 1 .. n BY LenProperties
<1>2. /\ ws1 \in Seq(Words) /\ Len(ws1) = n + 1 /\ ws1[n + 1] = w
      /\ \A i \in 1 .. n : ws1[i] = ws[i]
      BY AppendProperties
<1>3. DOMAIN ws1 = 1 .. n + 1 BY <1>2, LenProperties
<1> HIDE DEF n, ws1
<1>4. 1 .. n + 1 = (1 .. n) \cup {n + 1} BY <1>1
<1>5. \A i \in DOMAIN ws : ws1[i] = ws[i] /\ i \in Nat /\ i <= n BY <1>1, <1>2
<1> QED BY <1>1, <1>2, <1>3, <1>4, <1>5 DEF n, ws1

LEMMA ParameterGrows ==
    ASSUME NEW ws \in Seq(Words), NEW w \in Words
    PROVE  /\ \A j \in Nat : j <= Len(ws) + 1 => (IsParameter(Append(ws, w), j) <=> IsParameter(ws, j))
           /\ \A j \in Nat : j > Len(ws) + 1 =>
                (IsParameter(Append(ws, w), j) <=>
                    IsParameter(ws, j) \/ (IsOption(w) /\ j - (Len(ws) + 1) <= AsksFor(w)))
<1> DEFINE n == Len(ws)
           ws1 == Append(ws, w)
           Asks(v, d) == IsOption(v) /\ d <= AsksFor(v)
<1>1. /\ n \in Nat /\ DOMAIN ws = 1 .. n
      /\ ws1 \in Seq(Words) /\ Len(ws1) = n + 1 /\ DOMAIN ws1 = DOMAIN ws \cup {n + 1}
      /\ \A i \in DOMAIN ws : ws1[i] = ws[i] /\ i \in Nat /\ i <= n
      /\ ws1[n + 1] = w
      BY Longer
<1>2. \A x, j : IsParameter(x, j) <=> \E i \in DOMAIN x : i < j /\ Asks(x[i], j - i) BY DEF IsParameter
<1> HIDE DEF n, ws1, Asks
<1>3. \A j \in Nat : IsParameter(ws1, j) <=>
          (\E i \in DOMAIN ws : i < j /\ Asks(ws[i], j - i)) \/ (n + 1 < j /\ Asks(w, j - (n + 1)))
      BY <1>1, <1>2
<1>4. \A j \in Nat : IsParameter(ws1, j) <=> IsParameter(ws, j) \/ (n + 1 < j /\ Asks(w, j - (n + 1)))
      BY <1>2, <1>3
<1> QED BY <1>1, <1>4 DEF n, ws1, Asks

LEMMA ArgumentsGrow ==
    ASSUME NEW ws \in Seq(Words), NEW w \in Words
    PROVE  /\ ArgumentsAt(ws) \in SUBSET (1 .. Len(ws))
           /\ ArgumentsAt(Append(ws, w)) = IF ~IsOption(w) /\ ~IsParameter(ws, Len(ws) + 1)
                                         THEN ArgumentsAt(ws) \cup {Len(ws) + 1} ELSE ArgumentsAt(ws)
<1> DEFINE n == Len(ws)
           ws1 == Append(ws, w)
           A(x, j) == ~IsOption(x[j]) /\ ~IsParameter(x, j)
<1>1. /\ n \in Nat /\ DOMAIN ws = 1 .. n
      /\ DOMAIN ws1 = DOMAIN ws \cup {n + 1}
      /\ \A i \in DOMAIN ws : ws1[i] = ws[i] /\ i \in Nat /\ i <= n
      /\ ws1[n + 1] = w
      BY Longer
<1>2. \A j \in Nat : j <= n + 1 => (IsParameter(ws1, j) <=> IsParameter(ws, j)) BY ParameterGrows
<1>3. \A x : ArgumentsAt(x) = {i \in DOMAIN x : A(x, i)} BY DEF ArgumentsAt
<1> HIDE DEF n, ws1
<1>4. \A i \in DOMAIN ws : A(ws1, i) <=> A(ws, i)
  <2> TAKE i \in DOMAIN ws
  <2>1. i \in Nat /\ i <= n + 1 /\ ws1[i] = ws[i] BY <1>1
  <2> QED BY <1>2, <2>1
<1>5. A(ws1, n + 1) <=> ~IsOption(w) /\ ~IsParameter(ws, n + 1)
  <2>1. n + 1 \in Nat /\ n + 1 <= n + 1 BY <1>1
  <2> QED BY <1>1, <1>2, <2>1
<1> HIDE DEF A
<1>6. ArgumentsAt(ws1) = {i \in DOMAIN ws \cup {n + 1} : A(ws1, i)} BY <1>1, <1>3
<1>7. ArgumentsAt(ws) = {i \in DOMAIN ws : A(ws, i)} BY <1>3
<1>8. ArgumentsAt(ws) \in SUBSET (1 .. n) BY <1>1, <1>7
<1>9. ArgumentsAt(ws1) = IF A(ws1, n + 1) THEN ArgumentsAt(ws) \cup {n + 1} ELSE ArgumentsAt(ws)
      BY <1>4, <1>6, <1>7
<1> QED BY <1>5, <1>8, <1>9 DEF n, ws1

LEMMA OptionsGrow ==
    ASSUME AllowedOk, NEW ws \in Seq(Words), NEW w \in Words
    PROVE  OptionsOk(Append(ws, w)) <=>
               /\ OptionsOk(ws)
               /\ IsOption(w) => /\ Named(w) # <<>> /\ NamesOk(w, ToSet(Given(ws)))
                                 /\ ~IsParameter(ws, Len(ws) + 1)
<1> DEFINE n == Len(ws)
           ws1 == Append(ws, w)
           Fine(v) == IsOption(v) => Named(v) # <<>> /\ ToSet(Named(v)) \subseteq DOMAIN allowed
           Free(x, j) == IsOption(x[j]) => ~IsParameter(x, j)
<1>1. /\ n \in Nat /\ DOMAIN ws = 1 .. n
      /\ DOMAIN ws1 = DOMAIN ws \cup {n + 1}
      /\ \A i \in DOMAIN ws : ws1[i] = ws[i] /\ i \in Nat /\ i <= n
      /\ ws1[n + 1] = w
      BY Longer
<1>2. \A j \in Nat : j <= n + 1 => (IsParameter(ws1, j) <=> IsParameter(ws, j)) BY ParameterGrows
<1>3. \A x : OptionsOk(x) <=> /\ \A i \in DOMAIN x : Fine(x[i])
                              /\ IsInjective(Given(x))
                              /\ \A i \in DOMAIN x : Free(x, i)
      BY DEF OptionsOk, WordsOk
<1>4. /\ Given(ws) \in Seq(Chars)
      /\ Given(ws1) = Given(ws) \o (IF IsOption(w) THEN Named(w) ELSE <<>>)
      BY GivenGrows
<1>5. IsOption(w) => Named(w) \in Seq(Chars) BY WordIsText, NamedType
<1> HIDE DEF n, ws1
<1>6. (\A i \in DOMAIN ws1 : Fine(ws1[i])) <=> (\A i \in DOMAIN ws : Fine(ws[i])) /\ Fine(w)
  <2> HIDE DEF Fine
  <2> QED BY <1>1
<1>7. (\A i \in DOMAIN ws1 : Free(ws1, i)) <=>
         (\A i \in DOMAIN ws : Free(ws, i)) /\ (IsOption(w) => ~IsParameter(ws, n + 1))
  <2>1. \A i \in DOMAIN ws : Free(ws1, i) <=> Free(ws, i)
    <3> TAKE i \in DOMAIN ws
    <3>1. i \in Nat /\ i <= n + 1 /\ ws1[i] = ws[i] BY <1>1
    <3> QED BY <1>2, <3>1
  <2>2. Free(ws1, n + 1) <=> (IsOption(w) => ~IsParameter(ws, n + 1))
    <3>1. n + 1 \in Nat /\ n + 1 <= n + 1 BY <1>1
    <3> QED BY <1>1, <1>2, <3>1
  <2> HIDE DEF Free
  <2> QED BY <1>1, <2>1, <2>2
<1>8. IsInjective(Given(ws1)) <=>
         /\ IsInjective(Given(ws))
         /\ IsOption(w) => IsInjective(Named(w)) /\ ToSet(Given(ws)) \cap ToSet(Named(w)) = {}
  <2>1. CASE IsOption(w)
    <3>1. Given(ws1) = Given(ws) \o Named(w) BY <1>4, <2>1
    <3> QED BY <1>4, <1>5, <2>1, <3>1, ConcatElements
  <2>2. CASE ~IsOption(w)
    <3>1. Given(ws1) = Given(ws) BY <1>4, <2>2, ConcatEmptySeq
    <3> QED BY <2>2, <3>1
  <2> QED BY <2>1, <2>2
<1> HIDE DEF Free
<1> QED BY <1>3, <1>6, <1>7, <1>8 DEF NamesOk, n, ws1

LEMMA MistakenGrows ==
    ASSUME NEW ws \in Seq(Words), NEW w \in Words
    PROVE  IsMistaken(Append(ws, w)) <=>
               IsMistaken(ws) \/ (IsOption(w) /\ ~IsFull(w) /\ Len(w) > 2 /\ Tail(w) \in DOMAIN allowed)
<1> DEFINE M(v) == IsOption(v) /\ ~IsFull(v) /\ Len(v) > 2 /\ Tail(v) \in DOMAIN allowed
<1>1. \A x : IsMistaken(x) <=> \E i \in DOMAIN x : M(x[i]) BY DEF IsMistaken
<1> HIDE DEF M
<1>2. /\ DOMAIN Append(ws, w) = DOMAIN ws \cup {Len(ws) + 1}
      /\ \A i \in DOMAIN ws : Append(ws, w)[i] = ws[i]
      /\ Append(ws, w)[Len(ws) + 1] = w
      BY Longer
<1>3. IsMistaken(Append(ws, w)) <=> IsMistaken(ws) \/ M(w) BY <1>1, <1>2
<1> QED BY <1>3 DEF M

-----------------------------------------------------------------------------
(* What has been read *)

\* Its place among the arguments is where an argument is filed.
Rank(A, i) == Cardinality({j \in A : j <= i})
Filed(as, A, ws) == Len(as) = Cardinality(A) /\ \A i \in A : as[Rank(A, i)] = ws[i]

LEMMA FiledGrows ==
    ASSUME NEW ws \in Seq(Words), NEW w \in Words, NEW as \in Seq(Words),
           NEW A \in SUBSET (1 .. Len(ws)), Filed(as, A, ws)
    PROVE  /\ Filed(as, A, Append(ws, w))
           /\ Filed(Append(as, w), A \cup {Len(ws) + 1}, Append(ws, w))
<1> DEFINE n == Len(ws)
           A1 == A \cup {n + 1}
           ws1 == Append(ws, w)
           as1 == Append(as, w)
<1>1. /\ n \in Nat /\ DOMAIN ws = 1 .. n
      /\ \A i \in DOMAIN ws : ws1[i] = ws[i] /\ i \in Nat /\ i <= n
      /\ ws1[n + 1] = w
      BY Longer
<1>2. /\ Len(as) \in Nat /\ DOMAIN as = 1 .. Len(as) /\ Len(as1) = Len(as) + 1
      /\ \A k \in DOMAIN as : as1[k] = as[k]
      /\ as1[Len(as) + 1] = w
      BY Longer
<1>3. A \in SUBSET (1 .. n) OBVIOUS
<1> HIDE DEF n, ws1, as1
<1>4. IsFiniteSet(A) /\ Cardinality(A) \in Nat /\ n + 1 \notin A
  <2>1. IsFiniteSet(1 .. n) BY <1>1, FS_Interval
  <2>2. IsFiniteSet(A) BY <1>3, <2>1, FS_Subset
  <2> QED BY <1>1, <1>3, <2>2, FS_CardinalityType
<1>5. IsFiniteSet(A1) /\ Cardinality(A1) = Cardinality(A) + 1 BY <1>4, FS_AddElement
<1>6. Len(as) = Cardinality(A) /\ \A i \in A : as[Rank(A, i)] = ws[i] BY DEF Filed
<1>7. \A i \in A : ws1[i] = ws[i] /\ i <= n BY <1>1, <1>3
<1>8. ASSUME NEW i \in A PROVE Rank(A1, i) = Rank(A, i) /\ Rank(A, i) \in 1 .. Cardinality(A)
  <2> DEFINE B == {j \in A : j <= i}
  <2>1. {j \in A1 : j <= i} = B BY <1>1, <1>3, <1>7
  <2>2. i \in B BY <1>1, <1>3
  <2>3. B \in SUBSET A OBVIOUS
  <2> HIDE DEF B
  <2>4. IsFiniteSet(B) /\ Cardinality(B) <= Cardinality(A) BY <1>4, <2>3, FS_Subset
  <2>5. Cardinality(B) \in Nat /\ Cardinality(B) # 0 BY <2>2, <2>4, FS_CardinalityType, FS_EmptySet
  <2>6. Rank(A1, i) = Cardinality(B) BY <2>1 DEF Rank
  <2>7. Rank(A, i) = Cardinality(B) BY DEF Rank, B
  <2> QED BY <1>4, <2>4, <2>5, <2>6, <2>7
<1>9. Rank(A1, n + 1) = Cardinality(A) + 1
  <2>1. \A j \in A1 : j <= n + 1
    <3>1. \A j \in A : j \in Nat /\ j <= n BY <1>1, <1>3
    <3>2. n + 1 <= n + 1 BY <1>1
    <3> QED BY <1>1, <3>1, <3>2
  <2>2. {j \in A1 : j <= n + 1} = A1
    <3> HIDE DEF A1
    <3> QED BY <2>1
  <2> QED BY <1>5, <2>2 DEF Rank
<1>10. Filed(as, A, ws1) BY <1>6, <1>7 DEF Filed
<1>11. \A i \in A : as1[Rank(A1, i)] = ws1[i] BY <1>2, <1>6, <1>7, <1>8
<1>12. as1[Rank(A1, n + 1)] = ws1[n + 1] BY <1>1, <1>2, <1>6, <1>9
<1> HIDE DEF A1
<1>13. \A i \in A1 : i \in A \/ i = n + 1 BY DEF A1
<1>14. Filed(as1, A1, ws1) BY <1>2, <1>5, <1>6, <1>11, <1>12, <1>13 DEF Filed
<1> QED BY <1>10, <1>14 DEF A1, n, ws1, as1

Reading(ws, opts, left, opt, as) ==
    /\ opts \in Maps(Params) /\ left \in Nat /\ (left > 0 => opt \in Names) /\ as \in Seq(Words)
    /\ OptionsOk(ws)
    /\ \A j \in Nat : j > Len(ws) => (IsParameter(ws, j) <=> j <= Len(ws) + left)
    /\ ToSet(Given(ws)) \subseteq DOMAIN opts
    /\ ~IsMistaken(ws) => \A o \in DOMAIN allowed :
           o \in DOMAIN opts \/ (left > 0 /\ o = opt) => o \in ToSet(Given(ws))
    /\ Filed(as, ArgumentsAt(ws), ws)

\* A word that is not an option.
LEMMA ArgumentRead ==
    ASSUME AllowedOk, NEW ws \in Seq(Words), NEW w \in Words, ~IsOption(w),
           NEW opts, NEW left, NEW opt, NEW as, Reading(ws, opts, left, opt, as),
           NEW opts1, NEW left1, NEW as1,
           IF left > 0
           THEN /\ opts1 = Put(opt, Append(IF opt \in DOMAIN opts THEN opts[opt] ELSE <<>>, w), opts)
                /\ left1 = left - 1 /\ as1 = as
           ELSE as1 = Append(as, w) /\ opts1 = opts /\ left1 = left
    PROVE  Reading(Append(ws, w), opts1, left1, opt, as1)
<1> DEFINE n == Len(ws)
           ws1 == Append(ws, w)
<1>1. n \in Nat /\ ws1 \in Seq(Words) /\ Len(ws1) = n + 1 BY Longer
<1>2. OptionsOk(ws1) BY OptionsGrow DEF Reading
<1>3. ToSet(Given(ws1)) = ToSet(Given(ws))
  <2>1. Given(ws) \in Seq(Chars) /\ Given(ws1) = Given(ws) \o <<>> BY GivenGrows
  <2> QED BY <2>1, ConcatEmptySeq
<1>4. IsMistaken(ws1) <=> IsMistaken(ws) BY MistakenGrows
<1>5. \A j \in Nat : j > n + 1 => (IsParameter(ws1, j) <=> IsParameter(ws, j)) BY ParameterGrows
<1>6. /\ ArgumentsAt(ws) \in SUBSET (1 .. n)
      /\ ArgumentsAt(ws1) = IF ~IsParameter(ws, n + 1) THEN ArgumentsAt(ws) \cup {n + 1} ELSE ArgumentsAt(ws)
      BY ArgumentsGrow
<1>7. \A j \in Nat : j > n => (IsParameter(ws, j) <=> j <= n + left) BY DEF Reading
<1>8. IsParameter(ws, n + 1) <=> left > 0
  <2>1. n + 1 \in Nat /\ n + 1 > n /\ left \in Nat BY <1>1 DEF Reading
  <2>2. IsParameter(ws, n + 1) <=> n + 1 <= n + left BY <1>7, <2>1
  <2> QED BY <1>1, <2>1, <2>2
<1>9. Filed(as, ArgumentsAt(ws), ws1) /\ Filed(Append(as, w), ArgumentsAt(ws) \cup {n + 1}, ws1)
      BY <1>6, FiledGrows DEF Reading
<1>10. /\ opts \in Maps(Params) /\ left \in Nat /\ (left > 0 => opt \in Names) /\ as \in Seq(Words)
       /\ ToSet(Given(ws)) \subseteq DOMAIN opts
       /\ ~IsMistaken(ws) => \A o \in DOMAIN allowed :
              o \in DOMAIN opts \/ (left > 0 /\ o = opt) => o \in ToSet(Given(ws))
       BY DEF Reading
<1> HIDE DEF n, ws1
<1>11. CASE left > 0
  <2> DEFINE params == Append(IF opt \in DOMAIN opts THEN opts[opt] ELSE <<>>, w)
  <2>1. opts1 = Put(opt, params, opts) /\ left1 = left - 1 /\ as1 = as BY <1>11
  <2>2. opt \in Names BY <1>10, <1>11
  <2>3. params \in Params
    <3> DEFINE given == IF opt \in DOMAIN opts THEN opts[opt] ELSE <<>>
    <3>1. given \in Params
      <4>1. <<>> \in Params BY EmptySeq DEF Params
      <4>2. opt \in DOMAIN opts => opts[opt] \in Params BY <1>10, MapsHas
      <4> QED BY <4>1, <4>2
    <3>2. w \in Chars BY WordIsText
    <3> HIDE DEF given, Chars
    <3>3. Append(given, w) \in Params BY <3>1, <3>2, AppendProperties DEF Params
    <3> QED BY <3>3 DEF given
  <2> HIDE DEF params
  <2>4. opts1 \in Maps(Params) /\ DOMAIN opts1 = DOMAIN opts \cup {opt}
        BY <1>10, <2>1, <2>2, <2>3, PutParams
  <2>5. left1 \in Nat /\ n + left = (n + 1) + left1 BY <1>1, <1>10, <1>11, <2>1
  <2>6. \A j \in Nat : j > n + 1 => (IsParameter(ws1, j) <=> j <= (n + 1) + left1)
    <3> TAKE j \in Nat
    <3> HAVE j > n + 1
    <3>1. j > n BY <1>1
    <3> QED BY <1>5, <1>7, <2>5, <3>1
  <2>7. Filed(as1, ArgumentsAt(ws1), ws1) BY <1>6, <1>8, <1>9, <1>11, <2>1
  <2>8. ~IsMistaken(ws1) => \A o \in DOMAIN allowed :
            o \in DOMAIN opts1 \/ (left1 > 0 /\ o = opt) => o \in ToSet(Given(ws1))
        BY <1>3, <1>4, <1>10, <1>11, <2>4
  <2>9. ToSet(Given(ws1)) \subseteq DOMAIN opts1 BY <1>3, <1>10, <2>4
  <2> QED BY <1>1, <1>2, <1>10, <2>1, <2>2, <2>4, <2>5, <2>6, <2>7, <2>8, <2>9 DEF Reading, ws1
<1>12. CASE ~(left > 0)
  <2>0. left = 0 BY <1>10, <1>12
  <2>1. opts1 = opts /\ left1 = 0 /\ left = 0 /\ as1 = Append(as, w)
    <3>1. as1 = Append(as, w) /\ opts1 = opts /\ left1 = left BY Zenon, <1>12
    <3> QED BY <2>0, <3>1
  <2>2. \A j \in Nat : j > n + 1 => (IsParameter(ws1, j) <=> j <= (n + 1) + 0)
    <3> TAKE j \in Nat
    <3> HAVE j > n + 1
    <3>1. j > n /\ ~(j <= n + left) /\ ~(j <= (n + 1) + 0) BY <1>1, <2>1
    <3> QED BY <1>5, <1>7, <3>1
  <2>3. as1 \in Seq(Words) BY <1>10, <2>1, AppendProperties
  <2>4. Filed(as1, ArgumentsAt(ws1), ws1) BY <1>6, <1>8, <1>9, <1>12, <2>1
  <2> QED BY <1>1, <1>2, <1>3, <1>4, <1>10, <2>1, <2>2, <2>3, <2>4 DEF Reading, ws1
<1> QED BY <1>11, <1>12

\* Where --vf is not allowed, -vf has one option named vf at most if it has one letter.
LEMMA NameOfLetter ==
    ASSUME NEW w \in Chars, IsOption(w), ~IsFull(w), Tail(w) # <<>>, ~(Len(w) > 2), AllowedOk
    PROVE  Tail(w) \in ToSet(Named(w))
<1> DEFINE text == Tail(w)
           p == Upto(text, Len(text))
<1>1. w # <<>> /\ Len(w) \in Nat BY TextFacts DEF IsOption
<1>2. text \in Chars /\ Len(text) = Len(w) - 1 BY <1>1, TextFacts
<1>3. Len(text) = 1
  <2>1. Len(text) # 0 BY <1>2, TextFacts
  <2> QED BY <1>1, <1>2, <2>1
<1>4. text = <<text[1]>>
  <2> DEFINE x == text
             y == <<x[1]>>
  <2>1. x \in Chars /\ Len(x) = 1 /\ y \in Chars BY <1>2, <1>3, TextFacts DEF Names
  <2>2. Len(y) = 1 /\ y[1] = x[1] OBVIOUS
  <2> HIDE DEF x, y
  <2>3. x = y BY <2>1, <2>2, SeqEqual DEF Chars
  <2> QED BY <2>3 DEF x, y
<1>5. Named(w) = [i \in 1 .. p |-> Letter(text, i)] BY <1>2, NamedIs
<1>6. p = 1
  <2>1. Taker(text) \in 0 .. 1 BY <1>2, <1>3, TakerIs
  <2> QED BY <1>3, <2>1 DEF Upto
<1>7. DOMAIN Named(w) = 1 .. 1 /\ Named(w)[1] = text
  <2> HIDE DEF p
  <2>1. Named(w) = [i \in 1 .. 1 |-> Letter(text, i)] BY <1>5, <1>6
  <2>2. Letter(text, 1) = text BY <1>4 DEF Letter
  <2> HIDE DEF text
  <2> QED BY <2>1, <2>2
<1> QED BY <1>7 DEF ToSet

LEMMA OptionTaken ==
    ASSUME AllowedOk, NEW ws \in Seq(Words), NEW w \in Words, IsOption(w), TextOf(w) # <<>>,
           NEW opt, NEW as, Reading(ws, options, 0, opt, as), parseError = FALSE,
           NEW read, read = addOptionsIfValid(TextOf(w), IsFull(w))
    PROVE  /\ read.error \in BOOLEAN
           /\ read.error => (~IsMistaken(Append(ws, w)) => ~OptionsOk(Append(ws, w)))
           /\ ~read.error => Reading(Append(ws, w), read.options, read.left, TextOf(w), as)
<1> DEFINE n == Len(ws)
           ws1 == Append(ws, w)
           given == ToSet(Given(ws))
           named == ToSet(Named(w))
<1>0. w \in Chars BY WordIsText
<1>1. /\ options \in Maps(Params) /\ as \in Seq(Words) /\ OptionsOk(ws) /\ given \subseteq DOMAIN options
      /\ ~IsMistaken(ws) => \A o \in DOMAIN allowed : o \in DOMAIN options => o \in given
      /\ \A j \in Nat : j > n => (IsParameter(ws, j) <=> j <= n + 0)
      /\ Filed(as, ArgumentsAt(ws), ws)
      BY DEF Reading
<1>2. /\ read.options \in Maps(Params) /\ read.left \in Nat /\ read.error \in BOOLEAN
      /\ Named(w) \in Seq(Chars) /\ Named(w) # <<>>
      /\ read.error <=> ~NamesOk(w, DOMAIN options)
      /\ ~read.error => /\ read.left = AsksFor(w)
                        /\ DOMAIN read.options = DOMAIN options \cup named
      BY <1>0, <1>1, OptionRead
<1>3. n \in Nat /\ ws1 \in Seq(Words) /\ Len(ws1) = n + 1 BY Longer
<1>4. \A j \in Nat : j > n => ~IsParameter(ws, j)
  <2> TAKE j \in Nat
  <2> HAVE j > n
  <2>1. ~(j <= n + 0) BY <1>3
  <2> QED BY <1>1, <2>1
<1>5. ~IsParameter(ws, n + 1)
  <2>1. n + 1 \in Nat /\ n + 1 > n BY <1>3
  <2> QED BY <1>4, <2>1
<1>6. OptionsOk(ws1) <=> NamesOk(w, given) BY <1>1, <1>2, <1>5, OptionsGrow
<1>7. IsMistaken(ws1) <=> IsMistaken(ws) \/ (~IsFull(w) /\ Len(w) > 2 /\ Tail(w) \in DOMAIN allowed)
      BY MistakenGrows
<1>8. ToSet(Given(ws1)) = given \cup named
  <2>1. Given(ws) \in Seq(Chars) /\ Given(ws1) = Given(ws) \o Named(w) BY GivenGrows
  <2> QED BY <1>2, <2>1, ConcatElements
<1>9. \A j \in Nat : j > n + 1 => (IsParameter(ws1, j) <=> IsParameter(ws, j) \/ j - (n + 1) <= AsksFor(w))
      BY ParameterGrows
<1>10. ArgumentsAt(ws) \in SUBSET (1 .. n) /\ ArgumentsAt(ws1) = ArgumentsAt(ws) BY ArgumentsGrow
<1>11. Filed(as, ArgumentsAt(ws1), ws1)
  <2>1. Filed(as, ArgumentsAt(ws), ws1) BY <1>1, <1>10, FiledGrows
  <2> QED BY <1>10, <2>1
<1> HIDE DEF n, ws1, given, named
<1>12. ASSUME read.error, ~IsMistaken(ws1) PROVE ~OptionsOk(ws1)
  <2>1. \A o \in DOMAIN allowed : o \in DOMAIN options => o \in given BY <1>1, <1>7, <1>12
  <2>2. NamesOk(w, given) => NamesOk(w, DOMAIN options) BY <2>1 DEF NamesOk
  <2> QED BY <1>2, <1>6, <1>12, <2>2
<1>13. ASSUME ~read.error PROVE Reading(ws1, read.options, read.left, TextOf(w), as)
  <2>1. NamesOk(w, DOMAIN options) /\ read.left = AsksFor(w) BY <1>2, <1>13
  <2>2. OptionsOk(ws1) BY <1>1, <1>6, <2>1 DEF NamesOk
  <2>3. \A j \in Nat : j > n + 1 => (IsParameter(ws1, j) <=> j <= (n + 1) + read.left)
    <3> TAKE j \in Nat
    <3> HAVE j > n + 1
    <3>1. j > n BY <1>3
    <3>2. ~IsParameter(ws, j) BY <1>4, <3>1
    <3>3. IsParameter(ws1, j) <=> j - (n + 1) <= read.left BY <1>9, <2>1, <3>2
    <3>4. j - (n + 1) <= read.left <=> j <= (n + 1) + read.left BY <1>2, <1>3
    <3> QED BY <3>3, <3>4
  <2>4. DOMAIN read.options = DOMAIN options \cup named BY <1>2, <1>13
  <2>5. TextOf(w) \in Names BY <1>0, TextOfType DEF Names
  <2>6. ASSUME ~IsMistaken(ws1), NEW o \in DOMAIN allowed, o \in DOMAIN read.options
        PROVE  o \in ToSet(Given(ws1)) BY <1>1, <1>7, <1>8, <2>4, <2>6
  <2>7. ASSUME ~IsMistaken(ws1), TextOf(w) \in DOMAIN allowed PROVE TextOf(w) \in ToSet(Given(ws1))
    <3>1. CASE IsFull(w)
      <4>1. Named(w) = <<TextOf(w)>> BY <3>1 DEF Named, TextOf
      <4> QED BY <1>8, <4>1, OneName DEF named
    <3>2. CASE ~IsFull(w)
      <4>1. TextOf(w) = Tail(w) BY <3>2 DEF TextOf
      <4>2. ~(Len(w) > 2) BY <1>7, <2>7, <3>2, <4>1
      <4>3. Tail(w) \in named BY <1>0, <3>2, <4>1, <4>2, NameOfLetter DEF named
      <4> QED BY <1>8, <4>1, <4>3
    <3> QED BY <3>1, <3>2
  <2>8. ToSet(Given(ws1)) \subseteq DOMAIN read.options BY <1>1, <1>8, <2>4
  <2> QED BY <1>1, <1>2, <1>3, <1>11, <2>2, <2>3, <2>5, <2>6, <2>7, <2>8 DEF Reading
<1> QED BY <1>2, <1>12, <1>13 DEF ws1

-----------------------------------------------------------------------------
(* The invariant *)

\* The options allowed are settled before the first word is read.
LEMMA Settled ==
    ASSUME allowed' = allowed, NEW ws, argv' = ws
    PROVE  /\ OptionsOk(argv)' <=> OptionsOk(ws)
           /\ Given(argv)' = Given(ws)
           /\ ArgumentsAt(argv)' = ArgumentsAt(ws)
           /\ \A j : IsParameter(argv, j)' <=> IsParameter(ws, j)
           /\ IsMistaken(argv)' <=> IsMistaken(ws)
<1>1. Given(argv)' = Given(ws) BY Zenon DEF Given, Named, IsFull, IsOption, SelectInSeq
<1>a. \A w : Named(w)' = Named(w) BY Zenon DEF Named, IsFull, SelectInSeq
<1>b. \A w : AsksFor(w)' = AsksFor(w) BY <1>a DEF AsksFor, IsFull
<1>2. \A j : IsParameter(argv, j)' <=> IsParameter(ws, j) BY <1>b DEF IsParameter, IsOption
<1>3. ArgumentsAt(argv)' = ArgumentsAt(ws) BY <1>2 DEF ArgumentsAt, IsOption
<1>c. WordsOk(argv)' <=> WordsOk(ws) BY <1>a DEF WordsOk, IsOption
<1>4. OptionsOk(argv)' <=> OptionsOk(ws) BY <1>1, <1>2, <1>c DEF OptionsOk, IsOption
<1>5. IsMistaken(argv)' <=> IsMistaken(ws) BY Zenon DEF IsMistaken, IsFull, IsOption
<1> QED BY <1>1, <1>2, <1>3, <1>4, <1>5

ArgsRead == Reading(argv, options, outstanding, option, args)

LEMMA ReadingSettled ==
    ASSUME allowed' = allowed, NEW ws, argv' = ws
    PROVE  ArgsRead' <=> Reading(ws, options', outstanding', option', args')
<1>1. /\ OptionsOk(argv)' <=> OptionsOk(ws)
      /\ Given(argv)' = Given(ws)
      /\ ArgumentsAt(argv)' = ArgumentsAt(ws)
      /\ \A j : IsParameter(argv, j)' <=> IsParameter(ws, j)
      /\ IsMistaken(argv)' <=> IsMistaken(ws)
      BY Settled
<1> QED BY <1>1 DEF ArgsRead, Reading, Filed, Rank, Maps, Params, Chars, Names

Nothing ==
    argv = <<>> /\ option = <<>> /\ outstanding = 0 /\ args = <<>> /\ options = [o \in {} |-> <<>>]
    /\ parseError = FALSE

ArgsInv ==
    /\ AllowedOk
    /\ argStage \in {"load", "parse", "done", "thrown"}
    /\ argv \in Seq(Words) /\ limits \in Nat \X Int /\ parseError \in BOOLEAN
    /\ argStage = "load" => Nothing
    /\ argStage = "parse" => IF parseError THEN ~IsMistaken(argv) => ~OptionsOk(argv) ELSE ArgsRead
    /\ ArgsFollowTheRules

LEMMA NothingRead == Nothing => ArgsRead
<1> SUFFICES ASSUME Nothing PROVE ArgsRead OBVIOUS
<1>1. argv = <<>> /\ outstanding = 0 /\ args = <<>> /\ options = [o \in {} |-> <<>>] BY DEF Nothing
<1>2. DOMAIN argv = {} /\ Len(argv) = 0 /\ Len(args) = 0 /\ DOMAIN options = {} BY <1>1
<1>3. options \in Maps(Params) BY <1>1, EmptyMap
<1>4. args \in Seq(Words) BY <1>1, EmptySeq
<1>5. Given(argv) = <<>> BY <1>1, NothingGiven
<1>6. DOMAIN Given(argv) = {} BY <1>5
<1>7. ToSet(Given(argv)) = {} /\ IsInjective(Given(argv)) BY <1>6 DEF ToSet, IsInjective
<1>8. OptionsOk(argv) BY <1>2, <1>7 DEF OptionsOk, WordsOk
<1>9. \A j : ~IsParameter(argv, j) BY <1>2 DEF IsParameter
<1>10. ArgumentsAt(argv) = {} BY <1>2 DEF ArgumentsAt
<1>11. Filed(args, ArgumentsAt(argv), argv) BY <1>2, <1>10, FS_EmptySet DEF Filed
<1>12. \A j \in Nat : j > Len(argv) => (IsParameter(argv, j) <=> j <= Len(argv) + outstanding)
       BY <1>1, <1>2, <1>9
<1> QED BY <1>1, <1>2, <1>3, <1>4, <1>7, <1>8, <1>11, <1>12 DEF ArgsRead, Reading

LEMMA CountRule ==
    ASSUME limits \in Nat \X Int, NEW count \in Nat, Len(args) = count
    PROVE  CountIsWrong <=> ~(count >= limits[1] /\ (limits[2] < 0 \/ count \in {limits[1]} \cup 0 .. limits[2]))
<1>1. limits[1] \in Nat /\ limits[2] \in Int OBVIOUS
<1> DEFINE least == limits[1]
           most == limits[2]
<1>2. least \in Nat /\ most \in Int BY <1>1
<1>3. CountIsWrong <=> \/ count < least
                       \/ LET m == IF most >= 0 /\ most < least THEN least ELSE most IN m >= 0 /\ count > m
      BY DEF CountIsWrong, maxArgs
<1> HIDE DEF least, most
<1> QED BY <1>2, <1>3 DEF least, most

LEMMA ArgsInvInit == ArgsInit => ArgsInv
<1> SUFFICES ASSUME ArgsInit PROVE ArgsInv OBVIOUS
<1>1. Nothing /\ argStage = "load" BY DEF ArgsInit, Nothing
<1>2. limits \in Nat \X Int BY WordsAssumption DEF ArgsInit
<1>3. argv \in Seq(Words) BY <1>1, EmptySeq DEF Nothing
<1> QED BY <1>1, <1>2, <1>3, AllowedOkInit DEF ArgsInv, Nothing, ArgsFollowTheRules

LEMMA LoadKeeps == ArgsInv /\ AllowedOk' /\ Load => ArgsInv'
<1> SUFFICES ASSUME ArgsInv, AllowedOk', Load PROVE ArgsInv' OBVIOUS
<1>1. argStage = "load" /\ Nothing BY DEF Load, ArgsInv
<1>2. UNCHANGED <<limits, argv, option, outstanding, args, options, parseError>> BY DEF Load, parsing
<1>3. Nothing' BY <1>1, <1>2 DEF Nothing
<1>4. argStage' \in {"load", "parse", "thrown"} BY <1>1 DEF Load, LoadEnd, LoadCount, LoadOption, LoadError
<1>5. ArgsRead'
  <2>1. (Nothing => ArgsRead)' BY NothingRead, PTL
  <2> QED BY <1>3, <2>1
<1>6. ArgsFollowTheRules' BY <1>4 DEF ArgsFollowTheRules
<1> QED BY <1>2, <1>3, <1>4, <1>5, <1>6 DEF ArgsInv, Nothing

LEMMA ParseKeeps == ASSUME ArgsInv, AllowedOk', NEW w \in Words, Parse(w) PROVE ArgsInv'
<1> DEFINE ws1 == Append(argv, w)
<1>1. /\ argStage = "parse" /\ parseError = FALSE /\ argStage' = "parse" /\ argv' = ws1
      /\ allowed' = allowed /\ limits' = limits /\ argv \in Seq(Words) /\ limits \in Nat \X Int
      /\ AllowedOk
      BY DEF Parse, ArgsInv
<1>2. Reading(argv, options, outstanding, option, args) BY <1>1 DEF ArgsInv, ArgsRead
<1>3. ws1 \in Seq(Words) BY <1>1, AppendProperties
<1> HIDE DEF ws1
<1>4. /\ OptionsOk(argv)' <=> OptionsOk(ws1)
      /\ IsMistaken(argv)' <=> IsMistaken(ws1) BY <1>1, Settled
<1>5. ArgsRead' <=> Reading(ws1, options', outstanding', option', args') BY <1>1, ReadingSettled
<1>6. parseError' \in BOOLEAN /\ IF parseError' THEN ~IsMistaken(ws1) => ~OptionsOk(ws1)
                                 ELSE Reading(ws1, options', outstanding', option', args')
  <2>1. CASE ParseArgument(w)
    <3>1. /\ ~IsOption(w) /\ option' = option /\ parseError' = FALSE
          /\ IF outstanding > 0
             THEN /\ options' = Put(option, Append(IF option \in DOMAIN options THEN options[option] ELSE <<>>, w), options)
                  /\ outstanding' = outstanding - 1 /\ args' = args
             ELSE args' = Append(args, w) /\ options' = options /\ outstanding' = outstanding
          BY <1>1, <2>1 DEF ParseArgument
    <3>2. Reading(ws1, options', outstanding', option, args')
          BY <1>1, <1>2, <3>1, ArgumentRead DEF ws1
    <3> QED BY <3>1, <3>2
  <2>2. CASE ParseOption(w)
    <3> DEFINE read == addOptionsIfValid(TextOf(w), IsFull(w))
    <3>1. /\ IsOption(w) /\ option' = TextOf(w) /\ args' = args
          /\ IF outstanding > 0 \/ TextOf(w) = <<>>
             THEN parseError' = TRUE /\ UNCHANGED <<options, outstanding>>
             ELSE options' = read.options /\ outstanding' = read.left /\ parseError' = read.error
          BY <2>2 DEF ParseOption, TextOf, IsFull
    <3> HIDE DEF read
    <3>2. OptionsOk(ws1) => /\ Named(w) # <<>> /\ ToSet(Named(w)) \subseteq DOMAIN allowed
                            /\ ~IsParameter(argv, Len(argv) + 1)
          BY <1>1, <3>1, OptionsGrow DEF ws1, NamesOk
    <3>3. CASE outstanding > 0
      <4>1. outstanding \in Nat /\ Len(argv) \in Nat
            /\ \A j \in Nat : j > Len(argv) => (IsParameter(argv, j) <=> j <= Len(argv) + outstanding)
            BY <1>1, <1>2, LenProperties DEF Reading
      <4>2. Len(argv) + 1 \in Nat /\ Len(argv) + 1 > Len(argv) /\ Len(argv) + 1 <= Len(argv) + outstanding
            BY <3>3, <4>1
      <4>3. IsParameter(argv, Len(argv) + 1) BY <4>1, <4>2
      <4> QED BY <3>1, <3>2, <3>3, <4>3
    <3>4. CASE TextOf(w) = <<>>
      <4>1. ~(Named(w) # <<>> /\ ToSet(Named(w)) \subseteq DOMAIN allowed)
            BY <1>1, <3>1, <3>4, WordIsText, NothingNamed
      <4> QED BY <3>1, <3>2, <3>4, <4>1
    <3>5. CASE ~(outstanding > 0) /\ TextOf(w) # <<>>
      <4>1. outstanding = 0
        <5>1. outstanding \in Nat BY <1>2 DEF Reading
        <5> QED BY <3>5, <5>1
      <4>2. Reading(argv, options, 0, option, args) BY <1>2, <4>1
      <4>3. /\ read.error \in BOOLEAN
            /\ read.error => (~IsMistaken(ws1) => ~OptionsOk(ws1))
            /\ ~read.error => Reading(ws1, read.options, read.left, TextOf(w), args)
            BY <1>1, <3>1, <3>5, <4>2, OptionTaken DEF ws1, read
      <4>4. options' = read.options /\ outstanding' = read.left /\ parseError' = read.error
            BY Zenon, <3>1, <3>5
      <4> QED BY <3>1, <4>3, <4>4
    <3> QED BY <3>3, <3>4, <3>5
  <2> QED BY <2>1, <2>2 DEF Parse
<1>7. ArgsFollowTheRules' BY <1>1 DEF ArgsFollowTheRules
<1> QED BY <1>1, <1>3, <1>4, <1>5, <1>6, <1>7 DEF ArgsInv

LEMMA EndKeeps == ArgsInv /\ AllowedOk' /\ End => ArgsInv'
<1> SUFFICES ASSUME ArgsInv, AllowedOk', End PROVE ArgsInv' OBVIOUS
<1> DEFINE n == Len(argv)
           count == Cardinality(ArgumentsAt(argv))
           Right == count >= limits[1] /\ (limits[2] < 0 \/ count \in {limits[1]} \cup 0 .. limits[2])
<1>1. /\ argStage = "parse" /\ argStage' = "done" /\ UNCHANGED <<allowed, limits, argv, args, options>>
      /\ parseError' = (parseError \/ outstanding > 0 \/ CountIsWrong)
      /\ argv \in Seq(Words) /\ limits \in Nat \X Int /\ parseError \in BOOLEAN
      BY DEF End, ArgsInv
<1>2. /\ OptionsOk(argv)' <=> OptionsOk(argv)
      /\ Given(argv)' = Given(argv)
      /\ ArgumentsAt(argv)' = ArgumentsAt(argv)
      /\ \A j : IsParameter(argv, j)' <=> IsParameter(argv, j)
      /\ IsMistaken(argv)' <=> IsMistaken(argv)
      BY <1>1, Settled
<1>3. WellFormed <=> OptionsOk(argv) /\ ~IsParameter(argv, n + 1) /\ Right BY DEF WellFormed
<1>4. WellFormed' <=> OptionsOk(argv) /\ ~IsParameter(argv, n + 1) /\ Right
      BY <1>1, <1>2 DEF WellFormed
<1>5. CASE IsMistaken(argv)
  <2>1. ArgsFollowTheRules' BY <1>2, <1>5 DEF ArgsFollowTheRules
  <2> QED BY <1>1, <2>1 DEF ArgsInv, CountIsWrong
<1>6. CASE ~IsMistaken(argv) /\ parseError
  <2>1. ~OptionsOk(argv) /\ parseError' BY <1>1, <1>6 DEF ArgsInv
  <2>2. ArgsFollowTheRules' BY <1>4, <2>1 DEF ArgsFollowTheRules
  <2> QED BY <1>1, <2>2 DEF ArgsInv, CountIsWrong
<1>7. CASE ~IsMistaken(argv) /\ ~parseError
  <2>1. Reading(argv, options, outstanding, option, args) BY <1>1, <1>7 DEF ArgsInv, ArgsRead
  <2>2. /\ OptionsOk(argv) /\ outstanding \in Nat /\ ToSet(Given(argv)) \subseteq DOMAIN options
        /\ \A j \in Nat : j > n => (IsParameter(argv, j) <=> j <= n + outstanding)
        /\ Filed(args, ArgumentsAt(argv), argv)
        BY <2>1 DEF Reading
  <2>3. n \in Nat BY <1>1, LenProperties
  <2>4. Len(args) = count /\ count \in Nat
    <3>1. args \in Seq(Words) BY <2>1 DEF Reading
    <3> QED BY <2>2, <3>1, LenProperties DEF Filed
  <2>5. IsParameter(argv, n + 1) <=> outstanding > 0
    <3> HIDE DEF n
    <3>1. n + 1 \in Nat /\ n + 1 > n /\ (n + 1 <= n + outstanding <=> outstanding > 0) BY <2>2, <2>3
    <3> QED BY <2>2, <3>1
  <2>6. CountIsWrong <=> ~Right
    <3> HIDE DEF count
    <3> QED BY <1>1, <2>4, CountRule
  <2>7. parseError' <=> ~WellFormed'
    <3> HIDE DEF n, Right
    <3> QED BY <1>1, <1>4, <1>7, <2>2, <2>5, <2>6
  <2>8. \A i \in ArgumentsAt(argv) : args[Cardinality({j \in ArgumentsAt(argv) : j <= i})] = argv[i]
        BY <2>2 DEF Filed, Rank
  <2>9. ArgsFollowTheRules'
    <3> DEFINE wellFormed == WellFormed'
    <3>1. parseError' <=> ~wellFormed BY <2>7
    <3> HIDE DEF wellFormed
    <3>2. parseError' \in BOOLEAN BY <1>1, <1>7, <2>2 DEF CountIsWrong
    <3>3. /\ ToSet(Given(argv)') \subseteq DOMAIN options'
          /\ Len(args') = Cardinality(ArgumentsAt(argv)')
          /\ \A i \in ArgumentsAt(argv)' : args'[Cardinality({j \in ArgumentsAt(argv)' : j <= i})] = argv'[i]
          BY <1>1, <1>2, <2>2, <2>4, <2>8
    <3> QED BY <3>1, <3>2, <3>3 DEF ArgsFollowTheRules, wellFormed
  <2> QED BY <1>1, <2>9 DEF ArgsInv, CountIsWrong
<1> QED BY <1>5, <1>6, <1>7

LEMMA ArgsInvStep == ArgsInv /\ [ArgsNext]_argsvars => ArgsInv'
<1> SUFFICES ASSUME ArgsInv, [ArgsNext]_argsvars PROVE ArgsInv' OBVIOUS
<1>1. AllowedOk' BY AllowedOkStep DEF ArgsInv
<1>2. CASE Load BY <1>1, <1>2, LoadKeeps
<1>3. CASE End BY <1>1, <1>3, EndKeeps
<1>4. ASSUME NEW w \in Words, Parse(w) PROVE ArgsInv' BY <1>1, <1>4, ParseKeeps
<1>5. CASE UNCHANGED argsvars
  <2>1. allowed' = allowed /\ argv' = argv /\ UNCHANGED <<argStage, limits, parseError, args, options, option, outstanding>>
        BY <1>5 DEF argsvars
  <2>2. /\ OptionsOk(argv)' <=> OptionsOk(argv)
        /\ Given(argv)' = Given(argv)
        /\ ArgumentsAt(argv)' = ArgumentsAt(argv)
        /\ \A j : IsParameter(argv, j)' <=> IsParameter(argv, j)
        /\ IsMistaken(argv)' <=> IsMistaken(argv)
        BY <2>1, Settled
  <2>3. ArgsRead' <=> ArgsRead BY <2>1, ReadingSettled DEF ArgsRead
  <2>4. WellFormed' <=> WellFormed BY <2>1, <2>2 DEF WellFormed
  <2>5. ArgsFollowTheRules' BY <2>1, <2>2, <2>4 DEF ArgsFollowTheRules, ArgsInv
  <2> QED BY <1>1, <2>1, <2>2, <2>3, <2>5 DEF ArgsInv, Nothing
<1> QED BY <1>2, <1>3, <1>4, <1>5 DEF ArgsNext

(***************************************************************************)
(* For every list of options allowed, every limits and every command line: *)
(* it is accepted exactly if it keeps to the rules, and what it gives is   *)
(* filed where the rules say (nargs.cxx:254-381).                          *)
(***************************************************************************)
THEOREM ArgsFollowTheRulesHolds == ArgsSpec => []ArgsFollowTheRules
<1>1. ArgsInv => ArgsFollowTheRules BY DEF ArgsInv
<1> QED BY ArgsInvInit, ArgsInvStep, <1>1, PTL DEF ArgsSpec
=============================================================================
