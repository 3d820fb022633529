----------------------------- MODULE MClibrary -----------------------------
(***************************************************************************)
(* The components that other components use and that use no others that    *)
(* are modelled in the same state: each on a small instance of its own.  A *)
(* behaviour is one of one of the parts; the others stay as they are.      *)
(***************************************************************************)
EXTENDS NtimeSleep, Nthread, Nserial, Nsqlite, Npsql, Ncrc, Nconfig, Nargs, Nbinary, TLC

VARIABLE
    part    \* which part moves

libraryVars == <<part, sleepVars, binaryvars, crcvars, threadvars, serialvars, sqlitevars, psqlvars,
                 argsvars, configvars>>

-----------------------------------------------------------------------------
(* The parts' instances, and constants of the modules this one extends.    *)

\* -v takes no parameter, -f one or two, --hv and --vf are whole words; some
\* of the lists are illegal.
SomeArgCharacters == {"v", "f", "h", "a", "1", "2", "-", " "}
SomeAllowables ==
    {<<>>, <<"v", "f", "1">>, <<"f">>, <<"1", "f">>, <<"-", " ", "v">>,
     <<"v", " ", "f", "2", " ", "-", "h", "v">>, <<" ", "f", " ", "1", "v">>,
     <<"-", "h", "v", " ", "1", " ", "v", "f", " ">>, <<"v", "f", "1", "-", "v", "f">>}
SomeWords ==
    {<<>>, <<"a">>, <<"-">>, <<"-", "v">>, <<"-", "f">>, <<"-", "v", "f">>,
     <<"-", "f", "v">>, <<"-", "-", "h", "v">>, <<"-", "-">>, <<"-", "-", "v", "f">>}
SomeLimits == {<<0, -1>>, <<1, 0>>, <<0, 1>>}

\* Bytes with no bit, the first or the second, and 177.
SomeBytes == {{}, {0}, {1}, {0, 4, 5, 7}}

\* Texts with every special character, and lines that mean nothing or are broken.
SomeCharacters == {"\"", "\\", " ", ",", "\t", "#", "/", "a", "x"}
SomeFileTexts == {<<"a">>, <<"a", " ">>, <<"\"", "#">>, <<"\\">>, <<" ", ",", "a">>}
SomeNoise == {<<>>, <<" ", "\t">>, <<"#", "a">>, <<"a">>, <<"a", ",", "\"">>,
              <<"a", ",", "a", ",", "a">>, <<"a", ",", "a", "\\">>}

\* Each setting with two legal values or more and an illegal one.
Port(baud, theBits, parity, stop, flow, raw) ==
    [baud |-> baud, bits |-> theBits, parity |-> parity, stop |-> stop, flow |-> flow, raw |-> raw]
Ports == {Port(9600, 8, "n", 1, "n", TRUE), Port(9600, 7, "o", 2, "s", FALSE),
          Port(9600, 8, "e", 1, "h", TRUE), Port(7, 8, "n", 1, "n", TRUE),
          Port(9600, 8, "n", 1, "x", TRUE)}

\* Texts of one statement and of two.
SomeTexts == {<<"read">>, <<"write">>, <<"write", "read">>, <<"read", "bad">>}

-----------------------------------------------------------------------------
Parts == {"time", "binary", "crc", "thread", "serial", "sqlite", "psql", "args", "config"}

\* Parts with several initial states have one where they do not move.
LibraryInit ==
    /\ part \in Parts
    /\ IF part = "time" THEN SleepInit
       ELSE /\ time = [sec |-> 0, nsec |-> 0] /\ value = 0 /\ pc = "out" /\ call = NoCall
    /\ BinaryInit /\ CrcInit /\ ThreadInit /\ SerialInit
    /\ SqliteInit /\ PsqlInit
    /\ IF part = "args" THEN ArgsInit
       ELSE /\ stream = <<>> /\ token = <<>> /\ lastOpt = <<>> /\ allowed = <<>>
            /\ limits = <<0, 0>> /\ argStage = "load" /\ argv = <<>> /\ option = <<>>
            /\ outstanding = 0 /\ args = <<>> /\ options = <<>> /\ parseError = FALSE
    /\ IF part = "config" THEN ConfigInit
       ELSE /\ config = <<>> /\ unique = FALSE /\ lines = 0 /\ fileStage = "read"
            /\ meant = <<>> /\ why = ""

\* The part p moves, and nothing else.
Moves(p) ==
    /\ part = p /\ UNCHANGED part
    /\ IF p = "time" THEN TRUE ELSE UNCHANGED sleepVars
    /\ IF p = "binary" THEN TRUE ELSE UNCHANGED binaryvars
    /\ IF p = "crc" THEN TRUE ELSE UNCHANGED crcvars
    /\ IF p = "thread" THEN TRUE ELSE UNCHANGED threadvars
    /\ IF p = "serial" THEN TRUE ELSE UNCHANGED serialvars
    /\ IF p = "sqlite" THEN TRUE ELSE UNCHANGED sqlitevars
    /\ IF p = "psql" THEN TRUE ELSE UNCHANGED psqlvars
    /\ IF p = "args" THEN TRUE ELSE UNCHANGED argsvars
    /\ IF p = "config" THEN TRUE ELSE UNCHANGED configvars

LibraryNext ==
    \/ Moves("time") /\ SleepNext
    \/ Moves("binary") /\ BinaryNext
    \/ Moves("crc") /\ CrcNext
    \/ Moves("thread") /\ ThreadNext
    \/ Moves("serial") /\ SerialNext
    \/ Moves("sqlite") /\ SqliteNext
    \/ Moves("psql") /\ PsqlNext
    \/ Moves("args") /\ ArgsNext
    \/ Moves("config") /\ ConfigNext

\* The fairness of the part that moves, which asks nothing of the others.
Fairness ==
    /\ WF_sleepVars(part = "time" /\ Step)
    /\ WF_sqlitevars(part = "sqlite" /\ QueryStep)
    /\ WF_psqlvars(part = "psql" /\ \E u \in Users : UserStep(u))
    /\ WF_threadvars(part = "thread" /\ getTidAndCall)
    /\ WF_threadvars(part = "thread" /\ (JoinTimesOut \/ JoinInTime))
    /\ WF_threadvars(part = "thread" /\ Detach)
    /\ \A c \in Callers :
           WF_threadvars(part = "thread" /\ tidGot /\ GetTid(c))

LibrarySpec == LibraryInit /\ [][LibraryNext]_libraryVars /\ Fairness

-----------------------------------------------------------------------------
(***************************************************************************)
(* Of the calls that may wait, these return: a sleep() whose caller asks   *)
(* for the time that remains (no other need, once interrupted:             *)
(* ntime.cxx:48-51); getTid() and ~Nthread(); an Nsqlite query; and, if    *)
(* the servers of all users answer sooner or later, the constructor of     *)
(* Npsql and its queries, but for a COPY (npsql.cxx:130-134).              *)
(***************************************************************************)
CallsEnd ==
    /\ AskedSleepEnds
    /\ ThreadCallsEnd
    /\ QueryReturns
    /\ part = "psql" => PsqlCallsEnd
=============================================================================
