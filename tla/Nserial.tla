------------------------------ MODULE Nserial ------------------------------
(***************************************************************************)
(* Nserial (src/src/nserial.cxx): the settings of a serial port, changed   *)
(* in m_attr and given to the line by commitChanges(), and the bytes that  *)
(* are on their way.  A termios is a baud rate and the set of its flags;   *)
(* of c_cc, control signals and breaks nothing depends on here.  Kernel    *)
(* and line are external: the line sends a byte at a time.                 *)
(***************************************************************************)
EXTENDS Integers, Sequences

CONSTANTS
    Openings,   \* BOUND: the settings constructors are given
    BaudRates, DataBits, Parities, StopBits, FlowControls, \* and those setters are
    MaxSets,    \* BOUND: how many setters are called
    MaxQueue    \* BOUND: bytes in the kernel's buffers

\* A constructor is given what setters may be given.
ASSUME OpeningsAssumption ==
    Openings \subseteq [baud : BaudRates, bits : DataBits, parity : Parities, stop : StopBits,
                        flow : FlowControls, raw : BOOLEAN]

VARIABLES
    handle,     \* "none"; "open"; "closed"; or "leaked", when the constructor threw after open()
    attr,       \* m_attr
    line,       \* the attributes the line has
    asked,      \* what each setter was last asked for, those that threw left out
    promised,   \* `asked' at the last commitChanges()
    access,     \* how the port was opened
    txQueue,    \* for each byte written and not yet sent, `promised' when it was written
    rxQueue,    \* how many bytes have arrived
    stopped,    \* the directions that are suspended
    garbled,    \* whether a byte was sent with other settings than those it was written
                \* under, with no commitChanges( IMMEDIATE ) meanwhile
    immediate,  \* whether there has been one since the queue was empty
    sets
settings == <<attr, line, asked, promised>>
traffic == <<txQueue, rxQueue, stopped, garbled, immediate>>
serialvars == <<handle, settings, access, traffic, sets>>

Speeds ==
    {0, 50, 75, 110, 134, 150, 200, 300, 600, 1200, 1800, 2400, 4800, 9600, 19200, 38400,
     57600, 115200, 230400, 460800, 500000, 576000, 921600, 1000000, 1152000, 1500000,
     2000000, 2500000, 3000000, 3500000, 4000000}
CSIZE == {"CS6", "CS7", "CS8"}      \* none of them: CS5
XON_XOFF == {"IXON", "IXOFF", "IXANY"}
Terminal == {"ICANON", "ECHO", "ECHOE", "OPOST"}     \* of c_lflag and c_oflag
InputTranslation == {"ICRNL", "INLCR", "IGNCR"}       \* of c_iflag: no setter's business

NoSettings == [baud |-> 0, bits |-> 0, parity |-> "n", stop |-> 1, flow |-> "n", raw |-> TRUE]

NoAttributes == [baud |-> 0, flags |-> {}]

SerialInit ==
    /\ handle = "none"
    /\ attr = NoAttributes /\ line = NoAttributes
    /\ asked = NoSettings /\ promised = NoSettings
    /\ access = {}
    /\ txQueue = <<>> /\ rxQueue = 0 /\ stopped = {}
    /\ garbled = FALSE /\ immediate = FALSE /\ sets = 0

\* A setter's result: the attributes it leaves, and the setting it was asked
\* for; `legal' is whether it returns.
Result(field, given, legal, baud, flags) ==
    [attr  |-> [baud |-> baud, flags |-> flags], legal |-> legal,
     field |-> field, given |-> given]

setBaudRate(a, rate) ==
    Result("baud", rate, rate \in Speeds, IF rate \in Speeds THEN rate ELSE a.baud, a.flags)

\* CSIZE is cleared before the argument is looked at.
setDataBits(a, n) ==
    Result("bits", n, n \in 5 .. 8, a.baud,
           (a.flags \ CSIZE) \cup CASE n = 6 -> {"CS6"} [] n = 7 -> {"CS7"} [] n = 8 -> {"CS8"}
                                    [] OTHER -> {})

setStopBits(a, n) ==
    Result("stop", n, n \in {1, 2}, a.baud,
           IF n = 1 THEN a.flags \ {"CSTOPB"} ELSE a.flags \cup IF n = 2 THEN {"CSTOPB"} ELSE {})

\* Even parity that does not take back odd parity.
setParityOddStays(a, p) ==
    Result("parity", p, p \in {"n", "e", "o"}, a.baud,
           CASE p = "n" -> a.flags \ {"PARENB"}
             [] p = "e" -> a.flags \cup {"PARENB"}
             [] p = "o" -> a.flags \cup {"PARENB", "PARODD"}
             [] OTHER -> a.flags)

setParity(a, p) ==
    Result("parity", p, p \in {"n", "e", "o"}, a.baud,
           CASE p = "n" -> a.flags \ {"PARENB"}
             [] p = "e" -> (a.flags \ {"PARODD"}) \cup {"PARENB"}
             [] p = "o" -> a.flags \cup {"PARENB", "PARODD"}
             [] OTHER -> a.flags)

\* CRTSCTS is a flag of c_cflag, and is cleared in c_iflag: it stays.
setFlowControl(a, f) ==
    Result("flow", f, f \in {"h", "s", "n"}, a.baud,
           (a.flags \ XON_XOFF) \cup CASE f = "h" -> {"CRTSCTS"} [] f = "s" -> XON_XOFF
                                       [] OTHER -> {})

setRawMode(a, raw) ==
    Result("raw", raw, TRUE, a.baud,
           IF raw THEN a.flags \ (Terminal \cup {"ISIG"}) ELSE a.flags \cup Terminal)

\* The settings s after a setter: one that throws leaves none that could be relied on.
Adopted(s, r) ==
    [field \in (DOMAIN s \ {r.field}) \cup (IF r.legal THEN {r.field} ELSE {}) |->
        IF field = r.field THEN r.given ELSE s[field]]

Adopt(r) ==
    /\ attr' = r.attr
    /\ asked' = Adopted(asked, r)

Set ==
    /\ handle = "open" /\ sets < MaxSets
    /\ \/ \E r \in BaudRates : Adopt(setBaudRate(attr, r))
       \/ \E n \in DataBits : Adopt(setDataBits(attr, n))
       \/ \E p \in Parities : Adopt(setParity(attr, p))
       \/ \E n \in StopBits : Adopt(setStopBits(attr, n))
       \/ \E f \in FlowControls : Adopt(setFlowControl(attr, f))
       \/ \E r \in BOOLEAN : Adopt(setRawMode(attr, r))
    /\ sets' = sets + 1
    /\ UNCHANGED <<handle, line, promised, access, traffic>>

\* The constructor: open(), the setters one after the other, up to the first
\* that throws, and commitChanges( IMMEDIATE ).  `was' is the flags the port had.
Construct(was, given, mayUse) ==
    LET s1 == setBaudRate([baud |-> 0, flags |-> was], given.baud)
        s2 == setDataBits(s1.attr, given.bits)
        s3 == setParity(s2.attr, given.parity)
        s4 == setStopBits(s3.attr, given.stop)
        s5 == setFlowControl(s4.attr, given.flow)
        s6 == setRawMode(s5.attr, given.raw)
    IN  /\ handle = "none"
        /\ access' = IF mayUse = {} THEN {"read"} ELSE mayUse  \* O_RDONLY is 0
        /\ IF s1.legal /\ s2.legal /\ s3.legal /\ s4.legal /\ s5.legal
           THEN /\ handle' = "open"
                /\ attr' = [s6.attr EXCEPT !.flags = @ \cup {"CLOCAL", "CREAD"}]
                /\ line' = attr'
                /\ asked' = given /\ promised' = given
           ELSE handle' = "leaked" /\ UNCHANGED settings
        /\ UNCHANGED <<traffic, sets>>

\* The kernel's name for a COMMIT_TIME, and one that makes no difference.
AtOnce(time) == "TCSANOW"
AttrTime(time) ==
    CASE time = "AFTER_TX_EMPTY" -> "TCSADRAIN"
      [] time = "AFTER_TX_AND_FLUSH" -> "TCSAFLUSH"
      [] OTHER -> "TCSANOW"

\* tcsetattr(), which may have to wait for the queue.
commitChanges(time) ==
    /\ handle = "open"
    /\ AttrTime(time) # "TCSANOW" => txQueue = <<>>
    /\ rxQueue' = IF AttrTime(time) = "TCSAFLUSH" THEN 0 ELSE rxQueue
    /\ line' = attr
    /\ promised' = asked
    /\ immediate' = (time = "IMMEDIATE" /\ txQueue # <<>>)
    /\ UNCHANGED <<handle, attr, asked, access, txQueue, stopped, garbled, sets>>

-----------------------------------------------------------------------------
(* The bytes.  A call that the kernel refuses throws and changes nothing.  *)

tx ==
    /\ handle = "open" /\ "write" \in access /\ Len(txQueue) < MaxQueue
    /\ txQueue' = Append(txQueue, promised)
    /\ UNCHANGED <<handle, settings, access, rxQueue, stopped, garbled, immediate, sets>>

\* read(): without anything to read it blocks, or it is an error.
rx ==
    /\ handle = "open" /\ "read" \in access /\ rxQueue > 0
    /\ rxQueue' \in 0 .. rxQueue - 1
    /\ UNCHANGED <<handle, settings, access, txQueue, stopped, garbled, immediate, sets>>

flush(flushRx, flushTx) ==
    /\ handle = "open"
    /\ rxQueue' = IF flushRx THEN 0 ELSE rxQueue
    /\ txQueue' = IF flushTx THEN <<>> ELSE txQueue
    /\ immediate' = (immediate /\ txQueue' # <<>>)
    /\ UNCHANGED <<handle, settings, access, stopped, garbled, sets>>

\* suspendFlow( sendStop ) stops our own sending, and without sendStop tells
\* the other side to stop; resumeFlow() likewise.
SuspendOrResume(send, resume) ==
    /\ handle = "open"
    /\ LET d == IF send THEN "out" ELSE "in"
       IN  stopped' = IF resume THEN stopped \ {d} ELSE stopped \cup {d}
    /\ UNCHANGED <<handle, settings, access, txQueue, rxQueue, garbled, immediate, sets>>

\* The line sends a byte, with the settings it has; or one arrives.
Send ==
    /\ handle = "open" /\ "out" \notin stopped /\ txQueue # <<>>
    /\ garbled' = (garbled \/ (~immediate /\ Head(txQueue) # promised))
    /\ txQueue' = Tail(txQueue)
    /\ immediate' = (immediate /\ txQueue' # <<>>)
    /\ UNCHANGED <<handle, settings, access, rxQueue, stopped, sets>>

Arrive ==
    /\ handle = "open" /\ "in" \notin stopped /\ rxQueue < MaxQueue
    /\ rxQueue' = rxQueue + 1
    /\ UNCHANGED <<handle, settings, access, txQueue, stopped, garbled, immediate, sets>>

\* The destructor.
Close ==
    /\ handle = "open"
    /\ handle' = "closed"
    /\ attr' = NoAttributes /\ line' = NoAttributes
    /\ asked' = NoSettings /\ promised' = NoSettings
    /\ txQueue' = <<>> /\ rxQueue' = 0 /\ stopped' = {} /\ immediate' = FALSE
    /\ access' = {}
    /\ UNCHANGED <<garbled, sets>>

SerialNext ==
    \/ \E was \in {{}, {"PARODD", "CRTSCTS", "ISIG", "ICRNL"}}, given \in Openings,
          mayUse \in {{}, {"read", "write"}} : Construct(was, given, mayUse)
    \/ Set
    \/ \E time \in {"IMMEDIATE", "AFTER_TX_EMPTY", "AFTER_TX_AND_FLUSH"} : commitChanges(time)
    \/ tx \/ rx
    \/ \E a, b \in BOOLEAN : flush(a, b) \/ SuspendOrResume(a, b)
    \/ Send \/ Arrive
    \/ Close

SerialSpec == SerialInit /\ [][SerialNext]_serialvars

-----------------------------------------------------------------------------
\* What a set of flags means to the line.
Size(flags) == CASE "CS8" \in flags -> 8 [] "CS7" \in flags -> 7 [] "CS6" \in flags -> 6
                 [] OTHER -> 5
ParityOf(flags) == IF "PARENB" \notin flags THEN "n" ELSE IF "PARODD" \in flags THEN "o" ELSE "e"

\* A line that edits, echoes, interprets and prints nothing, and one that does.
IsRaw(flags) == flags \cap (Terminal \cup {"ISIG"}) = {}
IsCanonical(flags) == Terminal \subseteq flags

\* Attributes a have the settings s, those that s has, and one size at most.
Has(a, s) ==
    /\ "baud" \in DOMAIN s => s["baud"] = a.baud
    /\ "bits" \in DOMAIN s => s["bits"] = Size(a.flags)
    /\ \A c, d \in a.flags \cap CSIZE : c = d
    /\ "parity" \in DOMAIN s => s["parity"] = ParityOf(a.flags)
    /\ "stop" \in DOMAIN s => s["stop"] = IF "CSTOPB" \in a.flags THEN 2 ELSE 1
    /\ "raw" \in DOMAIN s => IF s["raw"] THEN IsRaw(a.flags) ELSE IsCanonical(a.flags)
    /\ "flow" \in DOMAIN s =>
           /\ s["flow"] = "s" <=> XON_XOFF \cap a.flags # {}
           /\ s["flow"] = "h" => "CRTSCTS" \in a.flags

(***************************************************************************)
(* The line has the settings that were asked for when they were last       *)
(* committed, whatever was set before, was refused or was set since.  Raw  *)
(* means what setRawMode() clears: lines, echo, signals and the            *)
(* translation of output (nserial.cxx:437-438), not that of input; and     *)
(* hardware flow control is required where it was asked for, not excluded  *)
(* where it was not (nserial.cxx:389).                                     *)
(***************************************************************************)
SettingsAsAsked == handle = "open" => Has(line, promised)

(***************************************************************************)
(* Bytes that are on their way are sent with the settings they were        *)
(* written under, unless somebody commits others IMMEDIATEly               *)
(* (nserial.h, AFTER_TX_EMPTY and AFTER_TX_AND_FLUSH).                     *)
(***************************************************************************)
SentAsWritten == ~garbled

-----------------------------------------------------------------------------
(* What the documentation says and the code does not do *)

(***************************************************************************)
(* "Raw mode means no translation of data" (nserial.h:77).                 *)
(***************************************************************************)
RawIsUntranslated ==
    handle = "open" /\ "raw" \in DOMAIN promised /\ promised["raw"] =>
        InputTranslation \cap line.flags = {}

(***************************************************************************)
(* Without hardware flow control, RTS and CTS control nothing              *)
(* (nserial.h:67-69).                                                      *)
(***************************************************************************)
HardwareFlowEnds ==
    handle = "open" /\ "flow" \in DOMAIN promised =>
        ("CRTSCTS" \in line.flags <=> promised["flow"] = "h")
=============================================================================
