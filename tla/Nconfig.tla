------------------------------ MODULE Nconfig ------------------------------
(***************************************************************************)
(* Nconfig (src/src/nconfig.cxx): the constructor reads a file line by     *)
(* line, parseLine() a line character by character.  The lines come from a *)
(* writer, who means a tag and a value by each and writes them with slashes*)
(* or quotes where they need them; a line may also be broken, or blank.    *)
(* The terminators and commentors are the default ones: parseLine() keeps  *)
(* those of the first Nconfig of the program for all others.               *)
(***************************************************************************)
EXTENDS Integers, Sequences, SequencesExt, TLC

CONSTANTS
    FileCharacters, \* those a file may hold
    FileTexts,  \* the tags and values: sequences of characters, not empty
    Noise,      \* other lines: blank, comments, broken
    MaxLines    \* BOUND: how many lines a file has

ASSUME FileTextsAssumption ==
    FileTexts \subseteq Seq(FileCharacters) \ {<<>>} /\ Noise \subseteq Seq(FileCharacters)

VARIABLES
    config,     \* m_config
    unique,     \* m_uniqueFlag
    lines,      \* how many have been read
    fileStage,  \* "read", "done", or "thrown" by ERROR
    meant,      \* what the lines read so far mean
    why         \* why the last line cannot be accepted, or ""

configvars == <<config, unique, lines, fileStage, meant, why>>

Quote == "\""
Slash == "\\"
Whitespace == {" ", "\t"}
terminators == {" ", ",", "\t"}
commentors == {"#", "/"}
Special == {Quote, Slash} \cup terminators \cup commentors

ASSUME CharactersAssumption == Special \cup {"x"} \subseteq FileCharacters

\* What parseLine() keeps as it goes through a line.
Start == [quoted |-> FALSE, slashed |-> FALSE, comment |-> FALSE, tagParsed |-> FALSE,
          valueParsed |-> FALSE, ok |-> TRUE, tag |-> <<>>, value |-> <<>>]

\* What a terminator ends.
EndField(p) == IF ~p.tagParsed THEN [p EXCEPT !.tagParsed = TRUE] ELSE [p EXCEPT !.valueParsed = TRUE]

Keep(p, c) == IF p.tagParsed THEN [p EXCEPT !.value = Append(@, c)]
              ELSE [p EXCEPT !.tag = Append(@, c)]

IsLead(p, c) == c \in Whitespace /\ (IF p.tagParsed THEN p.value = <<>> ELSE p.tag = <<>>)

\* The loop of parseLine(), on one character.
BareUnlessSlashed(p) == ~p.slashed
Bare(p) == ~p.quoted /\ ~p.slashed

ParseChar(p, c) ==
    LET bare == Bare(p)
        q == [p EXCEPT !.slashed = FALSE]
        extra == p.tagParsed /\ p.valueParsed /\ c \notin Whitespace
    IN  IF p.comment \/ ~p.ok THEN p
        ELSE IF c = Quote /\ ~p.slashed THEN [q EXCEPT !.quoted = ~@]
        ELSE IF bare /\ IsLead(p, c) THEN q
        ELSE IF bare /\ c \in commentors THEN [q EXCEPT !.comment = TRUE]
        ELSE IF extra THEN [q EXCEPT !.ok = FALSE]
        ELSE IF bare /\ c \in terminators THEN EndField(q)
        ELSE IF c = Slash /\ ~p.slashed THEN [q EXCEPT !.slashed = TRUE]
        ELSE Keep(q, c)

Parsed(line) == FoldLeft(ParseChar, Start, line)

\* What it makes of the end of the line.
IsBlank(p) == p.tag = <<>> /\ p.value = <<>>
ParsedOk(p) == /\ p.ok /\ ~p.quoted /\ ~p.slashed
               /\ IsBlank(p) \/ (p.tag # <<>> /\ p.value # <<>>)

ASSUME NoiseAssumption == \A line \in Noise : ParsedOk(Parsed(line)) => IsBlank(Parsed(line))

getValue(tag) == tag \in DOMAIN config

ConfigInit ==
    /\ config = [t \in {} |-> <<>>] /\ unique \in BOOLEAN
    /\ lines = 0 /\ fileStage = "read"
    /\ meant = [t \in {} |-> <<>>] /\ why = ""

\* parseLine() and the constructor's loop, on one line.
parseLine(line) ==
    LET p == Parsed(line)
        thrown == ~ParsedOk(p) \/ (~IsBlank(p) /\ unique /\ getValue(p.tag))
    IN  /\ fileStage = "read" /\ lines < MaxLines
        /\ lines' = lines + 1
        /\ fileStage' = IF thrown THEN "thrown" ELSE fileStage
        /\ config' = IF thrown \/ IsBlank(p) THEN config ELSE (p.tag :> p.value) @@ config
        /\ UNCHANGED unique

\* The ways to write a text.
Slashed(text) == FlattenSeq([i \in DOMAIN text |-> <<Slash, text[i]>>])
Quoted(text) ==
    <<Quote>> \o FlattenSeq([i \in DOMAIN text |->
                     IF text[i] \in {Quote, Slash} THEN <<Slash, text[i]>> ELSE <<text[i]>>]) \o <<Quote>>
Plain(text) == IF ToSet(text) \cap Special = {} THEN text ELSE Quoted(text)
Styles(text) == {Slashed(text), Quoted(text), Plain(text)}

\* The writer: blanks before and after do not matter, nor does a comment.
Writing(tt, vv, end) == <<" ">> \o tt \o <<",">> \o vv \o end
Endings == {<<>>, <<" ", "#", "x">>}

ReadPair(t, v) ==
    /\ \E tt \in Styles(t), vv \in Styles(v), end \in Endings : parseLine(Writing(tt, vv, end))
    /\ meant' = IF unique /\ t \in DOMAIN meant THEN meant ELSE (t :> v) @@ meant
    /\ why' = IF unique /\ t \in DOMAIN meant THEN "duplicate" ELSE ""

ReadNoise(line) ==
    /\ parseLine(line)
    /\ why' = IF ParsedOk(Parsed(line)) THEN "" ELSE "syntax"
    /\ UNCHANGED meant

EndOfFile ==
    /\ fileStage = "read" /\ fileStage' = "done"
    /\ UNCHANGED <<config, unique, lines, meant, why>>

\* eraseValue().
eraseValue(tag) ==
    /\ fileStage = "done"
    /\ config' = [t \in DOMAIN config \ {tag} |-> config[t]]
    /\ meant' = [t \in DOMAIN meant \ {tag} |-> meant[t]]
    /\ UNCHANGED <<unique, lines, fileStage, why>>

ConfigNext ==
    \/ \E t, v \in FileTexts : ReadPair(t, v)
    \/ \E line \in Noise : ReadNoise(line)
    \/ EndOfFile
    \/ \E t \in FileTexts : eraseValue(t)

ConfigSpec == ConfigInit /\ [][ConfigNext]_configvars

-----------------------------------------------------------------------------
(***************************************************************************)
(* A file says what was meant by it: whatever characters a tag and a value *)
(* have - blanks, terminators, commentors, quotes, slashes - a line that   *)
(* slashes or quotes them gives them back and no others, and the file is   *)
(* refused exactly if a line cannot be read or, where tags are unique, one *)
(* tag comes twice (nconfig.cxx:67-180).                                   *)
(***************************************************************************)
FileSaysWhatWasMeant ==
    /\ config = meant
    /\ fileStage = "thrown" <=> why # ""
=============================================================================
