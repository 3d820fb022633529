------------------------------- MODULE Nargs -------------------------------
(***************************************************************************)
(* Nargs (src/src/nargs.cxx), which reads the options a program allows and *)
(* then its command line.  A text is a sequence of characters.  The words  *)
(* of the command line are read one at a time, as parseArgv() does.        *)
(***************************************************************************)
EXTENDS Integers, FiniteSets, Sequences, SequencesExt, Functions

CONSTANTS
    ArgCharacters,  \* those of the texts
    Allowables, \* the allowedOptions a program may be written with
    Words,      \* the words that may be typed
    Limits,     \* pairs: minArgCount and maxArgCount
    MaxWords    \* BOUND: how many words are typed

VARIABLES
    stream, token, lastOpt, \* loadAllowables(): what is left, in hand, lastOpt
    allowed,                \* m_allowed: how many parameters each option takes
    limits,                 \* what the constructor was given
    argStage,               \* "load", "parse", "done", or "thrown" by ERROR
    argv,                   \* the words typed
    option, outstanding,    \* parseArgv(): the last option, what it still takes
    args, options, parseError \* m_args, m_options, whether m_parseError is set

argsvars == <<stream, token, lastOpt, allowed, limits, argStage, argv, option, outstanding,
              args, options, parseError>>

Dash == "-"
Numerals == <<"0", "1", "2", "3", "4", "5", "6", "7", "8", "9">>
Digits == ToSet(Numerals)

\* The numbers of allowedOptions have no sign, and are those of an int.
ASSUME AllowablesAssumption == \A text \in Allowables :
    /\ text \in Seq(ArgCharacters)
    /\ \A i \in 1 .. Len(text) - 1 : text[i] \in {Dash, "+"} => text[i + 1] \notin Digits
    /\ \A i \in 1 .. Len(text) - 9 : \E k \in i .. i + 9 : text[k] \notin Digits

ASSUME WordsAssumption == Words \subseteq Seq(ArgCharacters) /\ Limits \subseteq Nat \X Int

\* std::stoi(), on numbers without a sign: the digits a text starts with.
Leading(text) == SelectInSeq(text, LAMBDA c : c \notin Digits)
stringToInt(text) == text # <<>> /\ text[1] \in Digits
AfterNumber(text) == IF Leading(text) = 0 THEN <<>> ELSE SubSeq(text, Leading(text), Len(text))
TakeDigit(n, c) == 10 * n + (CHOOSE d \in 0 .. 9 : Numerals[d + 1] = c)
Number(text) == FoldLeft(TakeDigit, 0, SubSeq(text, 1, Len(text) - Len(AfterNumber(text))))

\* What a loop that consumes a text by its first character has left, turn by turn.
Rests(text) == [i \in 1 .. Len(text) |-> SubSeq(text, i, Len(text))]

\* Ntokeniser::consumeToken(), with " " for every terminator.
TokenOf(text) ==
    LET start == SelectInSeq(text, LAMBDA c : c # " ")
        rest == SubSeq(text, start, Len(text))
        end == SelectInSeq(rest, LAMBDA c : c = " ")
    IN  IF start = 0 THEN [token |-> <<>>, rest |-> <<>>]
        ELSE IF end = 0 THEN [token |-> rest, rest |-> <<>>]
        ELSE [token |-> SubSeq(rest, 1, end - 1), rest |-> SubSeq(rest, end + 1, Len(rest))]

consumeToken(text) == token' = TokenOf(text).token /\ stream' = TokenOf(text).rest

Put(name, n, map) == [m \in DOMAIN map \cup {name} |-> IF m = name THEN n ELSE map[m]]

\* parseAllowableString(): what it adds to the options allowed, and its result,
\* an option that may yet be followed by a number in the next token.  `whole'
\* is set when the rest of the text was taken as one option; digits have been
\* consumed with the option before them.
AddAllowable(read, text) ==
    LET param == <<text[1]>>
        rest == Tail(text)
    IN  IF read.whole \/ text[1] \in Digits THEN read
        ELSE IF text[1] = Dash THEN [read EXCEPT !.last = rest, !.whole = TRUE]
        ELSE IF rest = <<>> THEN [read EXCEPT !.last = param]
        ELSE [read EXCEPT !.allowed = Put(param, IF stringToInt(rest) THEN Number(rest) ELSE 0, @)]

parseAllowableString(text, map) ==
    FoldLeft(AddAllowable, [last |-> <<>>, allowed |-> map, whole |-> FALSE], Rests(text))

ArgsInit ==
    /\ \E text \in Allowables : token = TokenOf(text).token /\ stream = TokenOf(text).rest
    /\ lastOpt = <<>> /\ allowed = [o \in {} |-> 0]
    /\ limits \in Limits
    /\ argStage = "load"
    /\ argv = <<>> /\ option = <<>> /\ outstanding = 0
    /\ args = <<>> /\ options = [o \in {} |-> <<>>] /\ parseError = FALSE

parsing == <<argv, option, outstanding, args, options, parseError>>

\* The loop of loadAllowables().
LoadCount ==
    /\ stringToInt(token) /\ lastOpt # <<>>
    /\ allowed' = Put(lastOpt, Number(token), allowed)
    /\ lastOpt' = <<>>
    /\ IF AfterNumber(token) # <<>>
       THEN token' = AfterNumber(token) /\ UNCHANGED stream
       ELSE consumeToken(stream)
    /\ UNCHANGED argStage

LoadOption ==
    LET map == IF lastOpt = <<>> THEN allowed ELSE Put(lastOpt, 0, allowed)
        parsed == IF Len(token) = 1 THEN [last |-> token, allowed |-> map]
                  ELSE parseAllowableString(token, map)
    IN  /\ ~stringToInt(token) /\ token # <<Dash>>
        /\ allowed' = parsed.allowed
        /\ lastOpt' = parsed.last
        /\ consumeToken(stream)
        /\ UNCHANGED argStage

LoadError ==
    /\ (stringToInt(token) /\ lastOpt = <<>>) \/ token = <<Dash>>
    /\ argStage' = "thrown"
    /\ UNCHANGED <<stream, token, lastOpt, allowed>>

LoadEnd ==
    /\ token = <<>>
    /\ allowed' = IF lastOpt = <<>> THEN allowed ELSE Put(lastOpt, 0, allowed)
    /\ argStage' = "parse"
    /\ UNCHANGED <<stream, token, lastOpt>>

Load ==
    /\ argStage = "load"
    /\ LoadEnd \/ (token # <<>> /\ (LoadCount \/ LoadOption \/ LoadError))
    /\ UNCHANGED <<limits, parsing>>

\* addOptionIfNotDuplicate() and optionIsAllowed(), on a record of what changes.
addOptionIfNotDuplicate(read, name, params) ==
    IF name \in DOMAIN read.options THEN [read EXCEPT !.error = TRUE]
    ELSE [read EXCEPT !.options = Put(name, params, @)]

\* One option after another of a word like -vf: what follows an option that
\* takes parameters is its first one.
LeftWholly(name, takesRest) == allowed[name]
Left(name, takesRest) == IF takesRest THEN allowed[name] - 1 ELSE allowed[name]

addOption(read, text) ==
    LET name == <<text[1]>>
        rest == Tail(text)
        takesRest == allowed[name] > 0 /\ rest # <<>>
        read1 == [read EXCEPT !.left = Left(name, takesRest), !.consumed = takesRest]
    IN  IF read.consumed THEN read
        ELSE IF name \notin DOMAIN allowed THEN [read EXCEPT !.error = TRUE]
        ELSE addOptionIfNotDuplicate(read1, name, IF takesRest THEN <<rest>> ELSE <<>>)

addOptions(text, read) == FoldLeft(addOption, read, Rests(text))

addOptionsIfValid(text, isFullWordOption) ==
    LET read == [options |-> options, left |-> 0, error |-> parseError, consumed |-> FALSE]
    IN  IF ~isFullWordOption THEN addOptions(text, read)
        ELSE IF text \notin DOMAIN allowed THEN [read EXCEPT !.error = TRUE]
        ELSE addOptionIfNotDuplicate([read EXCEPT !.left = allowed[text]], text, <<>>)

IsOption(w) == w # <<>> /\ w[1] = Dash

\* An argument, or a parameter: which goes to the options under the text of the
\* whole word that asked for it.
ParseArgument(w) ==
    /\ ~IsOption(w)
    /\ IF outstanding > 0
       THEN /\ options' = Put(option, Append(IF option \in DOMAIN options THEN options[option]
                                             ELSE <<>>, w), options)
            /\ outstanding' = outstanding - 1
            /\ UNCHANGED args
       ELSE args' = Append(args, w) /\ UNCHANGED <<options, outstanding>>
    /\ UNCHANGED <<option, parseError>>

ParseOption(w) ==
    LET isFullWordOption == Len(w) > 1 /\ w[2] = Dash
        text == IF isFullWordOption THEN SubSeq(w, 3, Len(w)) ELSE Tail(w)
        read == addOptionsIfValid(text, isFullWordOption)
    IN  /\ IsOption(w)
        /\ option' = text
        /\ IF outstanding > 0 \/ text = <<>>
           THEN parseError' = TRUE /\ UNCHANGED <<options, outstanding>>
           ELSE /\ options' = read.options
                /\ outstanding' = read.left
                /\ parseError' = read.error
        /\ UNCHANGED args

Parse(w) ==
    /\ argStage = "parse" /\ ~parseError /\ Len(argv) < MaxWords
    /\ argv' = Append(argv, w)
    /\ ParseArgument(w) \/ ParseOption(w)
    /\ UNCHANGED <<stream, token, lastOpt, allowed, limits, argStage>>

\* The constructor's test of the number of arguments.
maxArgs == IF limits[2] >= 0 /\ limits[2] < limits[1] THEN limits[1] ELSE limits[2]
CountIsWrong == Len(args) < limits[1] \/ (maxArgs >= 0 /\ Len(args) > maxArgs)

End ==
    /\ argStage = "parse"
    /\ argStage' = "done"
    /\ parseError' = (parseError \/ outstanding > 0 \/ CountIsWrong)
    /\ UNCHANGED <<stream, token, lastOpt, allowed, limits, argv, option, outstanding, args, options>>

ArgsNext == Load \/ End \/ \E w \in Words : Parse(w)

ArgsSpec == ArgsInit /\ [][ArgsNext]_argsvars

-----------------------------------------------------------------------------
IsFull(w) == Len(w) > 1 /\ w[2] = Dash

\* The options a word gives, in order, and how many words it asks for after it.
Named(w) ==
    LET text == Tail(w)
        taker == SelectInSeq(text, LAMBDA c : <<c>> \in DOMAIN allowed /\ allowed[<<c>>] > 0)
    IN  IF IsFull(w) THEN <<SubSeq(w, 3, Len(w))>>
        ELSE [i \in 1 .. (IF taker = 0 THEN Len(text) ELSE taker) |-> <<text[i]>>]

AsksFor(w) ==
    LET names == Named(w)
        takes == allowed[names[Len(names)]]
    IN  IF IsFull(w) \/ takes = 0 \/ Len(w) = Len(names) + 1 THEN takes ELSE takes - 1

Given(words) ==
    FlattenSeq([i \in DOMAIN words |-> IF IsOption(words[i]) THEN Named(words[i]) ELSE <<>>])

WordsOk(words) == \A i \in DOMAIN words : IsOption(words[i]) =>
    Named(words[i]) # <<>> /\ ToSet(Named(words[i])) \subseteq DOMAIN allowed

\* Whether the word at j, if there is one, is a parameter; and the places of the
\* arguments.
IsParameter(words, j) == \E i \in DOMAIN words : i < j /\ IsOption(words[i]) /\ j - i <= AsksFor(words[i])
ArgumentsAt(words) == {i \in DOMAIN words : ~IsOption(words[i]) /\ ~IsParameter(words, i)}

OptionsOk(words) ==
    /\ WordsOk(words)
    /\ IsInjective(Given(words))
    /\ \A i \in DOMAIN words : IsOption(words[i]) => ~IsParameter(words, i)

\* A command line that keeps to the rules the constructor was given.
WellFormed ==
    /\ OptionsOk(argv)
    /\ ~IsParameter(argv, Len(argv) + 1)
    /\ LET count == Cardinality(ArgumentsAt(argv))
       IN  /\ count >= limits[1]
           /\ limits[2] < 0 \/ count \in {limits[1]} \cup 0 .. limits[2]

\* A word like -vf where --vf is allowed as well: its parameters are filed as
\* those of --vf.
IsMistaken(words) == \E i \in DOMAIN words :
    IsOption(words[i]) /\ ~IsFull(words[i]) /\ Len(words[i]) > 2 /\ Tail(words[i]) \in DOMAIN allowed

(***************************************************************************)
(* A command line is accepted exactly if it keeps to the rules: it gives   *)
(* only options that are allowed, none of them twice, each with as many    *)
(* parameters as it takes, and as many arguments as were asked for; and    *)
(* what is not an option or a parameter of one is an argument, in the      *)
(* order typed (nargs.cxx:254-381).  Unless a word of several letters is   *)
(* spelt like a whole-word option.                                         *)
(***************************************************************************)
ArgsFollowTheRules ==
    argStage = "done" /\ ~IsMistaken(argv) =>
        /\ ~parseError <=> WellFormed
        /\ ~parseError =>
              /\ ToSet(Given(argv)) \subseteq DOMAIN options
              /\ Len(args) = Cardinality(ArgumentsAt(argv))
              /\ \A i \in ArgumentsAt(argv) :
                     args[Cardinality({j \in ArgumentsAt(argv) : j <= i})] = argv[i]
=============================================================================
