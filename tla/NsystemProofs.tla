--------------------------- MODULE NsystemProofs ---------------------------
(***************************************************************************)
(* Proofs about what libraries and the kernel are asked for: Nserial, for  *)
(* any settings, number of setters called and size of the queues; the two  *)
(* databases, Npsql for any users, number of queries and answers, and      *)
(* Nsqlite for any texts; and Nthread, for any cores, masks and priorities.*)
(***************************************************************************)
EXTENDS Nthread, Nserial, Npsql, Nsqlite, FiniteSetTheorems, TLAPS

-----------------------------------------------------------------------------
(* Nserial *)

Fields == {"baud", "bits", "parity", "stop", "flow", "raw"}

\* m_attr has what the setters that returned were asked for, and the line what
\* they had been asked for when it was given m_attr.
SettingsInv == handle = "open" => Has(attr, asked) /\ Has(line, promised)

\* Bytes are on their way on an open port alone, and were written under the
\* settings the line has, or somebody could not wait.
InFlight ==
    /\ handle # "open" => txQueue = <<>>
    /\ txQueue \in Seq({txQueue[i] : i \in DOMAIN txQueue})
    /\ ~immediate => \A i \in DOMAIN txQueue : txQueue[i] = promised
    /\ immediate \in BOOLEAN /\ ~garbled

SerialInv == SettingsInv /\ InFlight

-----------------------------------------------------------------------------
(* The setters *)

\* Settings that say less are had as well.
LEMMA HasLess ==
    ASSUME NEW a, NEW s, NEW t, Has(a, s),
           \A field \in DOMAIN t \cap Fields : field \in DOMAIN s /\ t[field] = s[field]
    PROVE  Has(a, t)
BY DEF Has, Fields

\* What a setter leaves of the settings and adds to them.
LEMMA AdoptedSettings ==
    ASSUME NEW s, NEW r, NEW f, r.field = f
    PROVE  /\ \A field \in DOMAIN Adopted(s, r) \ {f} :
                  field \in DOMAIN s /\ Adopted(s, r)[field] = s[field]
           /\ f \in DOMAIN Adopted(s, r) => r.legal /\ Adopted(s, r)[f] = r.given
           /\ r.legal => f \in DOMAIN Adopted(s, r)
           /\ \A field \in DOMAIN s \ {f} : field \in DOMAIN Adopted(s, r)
BY DEF Adopted

LEMMA setBaudRateHas ==
    ASSUME NEW a, NEW s, Has(a, s), NEW v
    PROVE  Has(setBaudRate(a, v).attr, Adopted(s, setBaudRate(a, v)))
<1> DEFINE r == setBaudRate(a, v)
           t == Adopted(s, r)
<1>1. /\ r.field = "baud" /\ r.given = v /\ (r.legal <=> v \in Speeds)
      /\ r.attr.flags = a.flags /\ (v \in Speeds => r.attr.baud = v)
      BY DEF setBaudRate, Result
<1> HIDE DEF r
<1>2. /\ \A field \in DOMAIN t \ {"baud"} : field \in DOMAIN s /\ t[field] = s[field]
      /\ "baud" \in DOMAIN t => v \in Speeds /\ t["baud"] = v
      BY <1>1, AdoptedSettings
<1> HIDE DEF t
<1>3. Has(r.attr, t) BY <1>1, <1>2 DEF Has
<1> QED BY <1>3 DEF r, t

LEMMA setDataBitsHas ==
    ASSUME NEW a, NEW s, Has(a, s), NEW v
    PROVE  Has(setDataBits(a, v).attr, Adopted(s, setDataBits(a, v)))
<1> DEFINE r == setDataBits(a, v)
           t == Adopted(s, r)
<1>1. /\ r.field = "bits" /\ r.given = v /\ (r.legal <=> v \in 5 .. 8)
      /\ r.attr.baud = a.baud
      /\ r.attr.flags = (a.flags \ CSIZE) \cup
             CASE v = 6 -> {"CS6"} [] v = 7 -> {"CS7"} [] v = 8 -> {"CS8"} [] OTHER -> {}
      BY DEF setDataBits, Result
<1> HIDE DEF r
<1>2. /\ \A field \in DOMAIN t \ {"bits"} : field \in DOMAIN s /\ t[field] = s[field]
      /\ "bits" \in DOMAIN t => v \in 5 .. 8 /\ t["bits"] = v
      BY <1>1, AdoptedSettings
<1> HIDE DEF t
<1>3. /\ v \in 5 .. 8 => v = Size(r.attr.flags)
      /\ \A c, d \in r.attr.flags \cap CSIZE : c = d
      BY <1>1 DEF Size, CSIZE
<1>4. \A flag : flag \notin CSIZE => (flag \in r.attr.flags <=> flag \in a.flags)
      BY <1>1 DEF CSIZE
<1>5. ParityOf(r.attr.flags) = ParityOf(a.flags) BY <1>4 DEF CSIZE, ParityOf
<1>6. XON_XOFF \cap r.attr.flags = XON_XOFF \cap a.flags BY <1>4 DEF CSIZE, XON_XOFF
<1>7. /\ IsRaw(r.attr.flags) <=> IsRaw(a.flags)
      /\ IsCanonical(r.attr.flags) <=> IsCanonical(a.flags)
      BY <1>4 DEF CSIZE, IsRaw, IsCanonical, Terminal
<1>8. Has(r.attr, t) BY <1>1, <1>2, <1>3, <1>4, <1>5, <1>6, <1>7 DEF Has, CSIZE
<1> QED BY <1>8 DEF r, t

LEMMA setStopBitsHas ==
    ASSUME NEW a, NEW s, Has(a, s), NEW v
    PROVE  Has(setStopBits(a, v).attr, Adopted(s, setStopBits(a, v)))
<1> DEFINE r == setStopBits(a, v)
           t == Adopted(s, r)
<1>1. /\ r.field = "stop" /\ r.given = v /\ (r.legal <=> v \in {1, 2})
      /\ r.attr.baud = a.baud
      /\ r.attr.flags = IF v = 1 THEN a.flags \ {"CSTOPB"}
                        ELSE a.flags \cup IF v = 2 THEN {"CSTOPB"} ELSE {}
      BY DEF setStopBits, Result
<1> HIDE DEF r
<1>2. /\ \A field \in DOMAIN t \ {"stop"} : field \in DOMAIN s /\ t[field] = s[field]
      /\ "stop" \in DOMAIN t => v \in {1, 2} /\ t["stop"] = v
      BY <1>1, AdoptedSettings
<1> HIDE DEF t
<1>3. \A flag : flag # "CSTOPB" => (flag \in r.attr.flags <=> flag \in a.flags)
      BY <1>1
<1>4. v \in {1, 2} => v = IF "CSTOPB" \in r.attr.flags THEN 2 ELSE 1 BY <1>1
<1>5. Size(r.attr.flags) = Size(a.flags) /\ ParityOf(r.attr.flags) = ParityOf(a.flags)
      BY <1>3 DEF Size, ParityOf
<1>6. /\ XON_XOFF \cap r.attr.flags = XON_XOFF \cap a.flags
      /\ CSIZE \cap r.attr.flags = CSIZE \cap a.flags
      BY <1>3 DEF XON_XOFF, CSIZE
<1>7. /\ IsRaw(r.attr.flags) <=> IsRaw(a.flags)
      /\ IsCanonical(r.attr.flags) <=> IsCanonical(a.flags)
      BY <1>3 DEF IsRaw, IsCanonical, Terminal
<1>8. Has(r.attr, t) BY <1>1, <1>2, <1>3, <1>4, <1>5, <1>6, <1>7 DEF Has
<1> QED BY <1>8 DEF r, t

LEMMA setParityHas ==
    ASSUME NEW a, NEW s, Has(a, s), NEW v
    PROVE  Has(setParity(a, v).attr, Adopted(s, setParity(a, v)))
<1> DEFINE r == setParity(a, v)
           t == Adopted(s, r)
<1>1. /\ r.field = "parity" /\ r.given = v /\ (r.legal <=> v \in {"n", "e", "o"})
      /\ r.attr.baud = a.baud
      /\ r.attr.flags = CASE v = "n" -> a.flags \ {"PARENB"}
                          [] v = "e" -> (a.flags \ {"PARODD"}) \cup {"PARENB"}
                          [] v = "o" -> a.flags \cup {"PARENB", "PARODD"}
                          [] OTHER -> a.flags
      BY DEF setParity, Result
<1> HIDE DEF r
<1>2. /\ \A field \in DOMAIN t \ {"parity"} : field \in DOMAIN s /\ t[field] = s[field]
      /\ "parity" \in DOMAIN t => v \in {"n", "e", "o"} /\ t["parity"] = v
      BY <1>1, AdoptedSettings
<1> HIDE DEF t
<1>3. \A flag : flag \notin {"PARENB", "PARODD"} =>
                    (flag \in r.attr.flags <=> flag \in a.flags)
      BY <1>1
<1>4. v \in {"n", "e", "o"} => v = ParityOf(r.attr.flags) BY <1>1 DEF ParityOf
<1>5. Size(r.attr.flags) = Size(a.flags) BY <1>3 DEF Size
<1>6. /\ XON_XOFF \cap r.attr.flags = XON_XOFF \cap a.flags
      /\ CSIZE \cap r.attr.flags = CSIZE \cap a.flags
      BY <1>3 DEF XON_XOFF, CSIZE
<1>7. /\ IsRaw(r.attr.flags) <=> IsRaw(a.flags)
      /\ IsCanonical(r.attr.flags) <=> IsCanonical(a.flags)
      BY <1>3 DEF IsRaw, IsCanonical, Terminal
<1>8. Has(r.attr, t) BY <1>1, <1>2, <1>3, <1>4, <1>5, <1>6, <1>7 DEF Has
<1> QED BY <1>8 DEF r, t

LEMMA setFlowControlHas ==
    ASSUME NEW a, NEW s, Has(a, s), NEW v
    PROVE  Has(setFlowControl(a, v).attr, Adopted(s, setFlowControl(a, v)))
<1> DEFINE r == setFlowControl(a, v)
           t == Adopted(s, r)
<1>1. /\ r.field = "flow" /\ r.given = v /\ (r.legal <=> v \in {"h", "s", "n"})
      /\ r.attr.baud = a.baud
      /\ r.attr.flags = (a.flags \ XON_XOFF) \cup
             CASE v = "h" -> {"CRTSCTS"} [] v = "s" -> XON_XOFF [] OTHER -> {}
      BY DEF setFlowControl, Result
<1> HIDE DEF r
<1>2. /\ \A field \in DOMAIN t \ {"flow"} : field \in DOMAIN s /\ t[field] = s[field]
      /\ "flow" \in DOMAIN t => v \in {"h", "s", "n"} /\ t["flow"] = v
      BY <1>1, AdoptedSettings
<1> HIDE DEF t
<1>3. \A flag : flag \notin XON_XOFF \cup {"CRTSCTS"} =>
                    (flag \in r.attr.flags <=> flag \in a.flags)
      BY <1>1
<1>4. /\ v = "s" <=> XON_XOFF \cap r.attr.flags # {}
      /\ v = "h" => "CRTSCTS" \in r.attr.flags
      BY <1>1 DEF XON_XOFF
<1>5. Size(r.attr.flags) = Size(a.flags) /\ ParityOf(r.attr.flags) = ParityOf(a.flags)
      BY <1>3 DEF Size, ParityOf, XON_XOFF
<1>6. CSIZE \cap r.attr.flags = CSIZE \cap a.flags
      BY <1>3 DEF XON_XOFF, CSIZE
<1>7. /\ IsRaw(r.attr.flags) <=> IsRaw(a.flags)
      /\ IsCanonical(r.attr.flags) <=> IsCanonical(a.flags)
      BY <1>3 DEF IsRaw, IsCanonical, Terminal, XON_XOFF
<1>8. Has(r.attr, t) BY <1>1, <1>2, <1>3, <1>4, <1>5, <1>6, <1>7 DEF Has, XON_XOFF
<1> QED BY <1>8 DEF r, t

LEMMA setRawModeHas ==
    ASSUME NEW a, NEW s, Has(a, s), NEW v \in BOOLEAN
    PROVE  Has(setRawMode(a, v).attr, Adopted(s, setRawMode(a, v)))
<1> DEFINE r == setRawMode(a, v)
           t == Adopted(s, r)
           Own == Terminal \cup {"ISIG"}
<1>1. /\ r.field = "raw" /\ r.given = v /\ r.legal = TRUE
      /\ r.attr.baud = a.baud
      /\ r.attr.flags = IF v THEN a.flags \ Own ELSE a.flags \cup Terminal
      BY DEF setRawMode, Result
<1> HIDE DEF r
<1>2. /\ \A field \in DOMAIN t \ {"raw"} : field \in DOMAIN s /\ t[field] = s[field]
      /\ t["raw"] = v
      BY <1>1, AdoptedSettings
<1> HIDE DEF t
<1>3. \A flag : flag \notin Own => (flag \in r.attr.flags <=> flag \in a.flags)
      BY <1>1
<1>4. IF v THEN IsRaw(r.attr.flags) ELSE IsCanonical(r.attr.flags)
      BY <1>1 DEF IsRaw, IsCanonical
<1>5. Size(r.attr.flags) = Size(a.flags) /\ ParityOf(r.attr.flags) = ParityOf(a.flags)
      BY <1>3 DEF Size, ParityOf, Terminal
<1>6. /\ XON_XOFF \cap r.attr.flags = XON_XOFF \cap a.flags
      /\ CSIZE \cap r.attr.flags = CSIZE \cap a.flags
      BY <1>3 DEF XON_XOFF, CSIZE, Terminal
<1>7. Has(r.attr, t) BY <1>1, <1>2, <1>3, <1>4, <1>5, <1>6 DEF Has, Terminal
<1> QED BY <1>7 DEF r, t

LEMMA SetInv == ASSUME SettingsInv, Set PROVE SettingsInv'
<1>1. handle = "open" /\ UNCHANGED <<handle, line, promised>> BY DEF Set
<1>2. Has(attr, asked) /\ Has(line, promised) BY <1>1 DEF SettingsInv
<1>3. ASSUME NEW r, Adopt(r), Has(r.attr, Adopted(asked, r)) PROVE Has(attr', asked')
      BY <1>3 DEF Adopt
<1>4. Has(attr', asked')
  <2>1. ASSUME NEW v, Adopt(setBaudRate(attr, v)) PROVE Has(attr', asked')
        BY <1>2, <1>3, <2>1, setBaudRateHas
  <2>2. ASSUME NEW v, Adopt(setDataBits(attr, v)) PROVE Has(attr', asked')
        BY <1>2, <1>3, <2>2, setDataBitsHas
  <2>3. ASSUME NEW v, Adopt(setParity(attr, v)) PROVE Has(attr', asked')
        BY <1>2, <1>3, <2>3, setParityHas
  <2>4. ASSUME NEW v, Adopt(setStopBits(attr, v)) PROVE Has(attr', asked')
        BY <1>2, <1>3, <2>4, setStopBitsHas
  <2>5. ASSUME NEW v, Adopt(setFlowControl(attr, v)) PROVE Has(attr', asked')
        BY <1>2, <1>3, <2>5, setFlowControlHas
  <2>6. ASSUME NEW v \in BOOLEAN, Adopt(setRawMode(attr, v)) PROVE Has(attr', asked')
        BY <1>2, <1>3, <2>6, setRawModeHas
  <2> QED BY <2>1, <2>2, <2>3, <2>4, <2>5, <2>6 DEF Set
<1> QED BY <1>1, <1>2, <1>4 DEF SettingsInv

\* The constructor: a port that comes with settings of its own, of one size, has
\* after the six setters what they were given.
LEMMA ConstructInv ==
    ASSUME SettingsInv, NEW was, NEW given \in Openings, NEW mayUse,
           Construct(was, given, mayUse), \A c, d \in was \cap CSIZE : c = d
    PROVE  SettingsInv'
<1> DEFINE s1 == setBaudRate([baud |-> 0, flags |-> was], given.baud)
           s2 == setDataBits(s1.attr, given.bits)
           s3 == setParity(s2.attr, given.parity)
           s4 == setStopBits(s3.attr, given.stop)
           s5 == setFlowControl(s4.attr, given.flow)
           s6 == setRawMode(s5.attr, given.raw)
           t0 == [field \in {} |-> 0]
           t1 == Adopted(t0, s1)
           t2 == Adopted(t1, s2)
           t3 == Adopted(t2, s3)
           t4 == Adopted(t3, s4)
           t5 == Adopted(t4, s5)
           t6 == Adopted(t5, s6)
<1>0. handle' = "open" =>
          /\ s1.legal /\ s2.legal /\ s3.legal /\ s4.legal /\ s5.legal
          /\ attr' = [s6.attr EXCEPT !.flags = @ \cup {"CLOCAL", "CREAD"}]
          /\ line' = attr' /\ asked' = given /\ promised' = given
      BY DEF Construct
<1>1. Has([baud |-> 0, flags |-> was], t0) BY DEF Has
<1>2. /\ given.raw \in BOOLEAN /\ DOMAIN given = Fields
      /\ given.baud = given["baud"] /\ given.bits = given["bits"]
      /\ given.parity = given["parity"] /\ given.stop = given["stop"]
      /\ given.flow = given["flow"] /\ given.raw = given["raw"]
      BY OpeningsAssumption DEF Fields
<1>3. Has(s6.attr, t6)
  <2> HIDE DEF t0
  <2>1. Has(s1.attr, t1) BY <1>1, setBaudRateHas
  <2> HIDE DEF s1, t1
  <2>2. Has(s2.attr, t2) BY <2>1, setDataBitsHas
  <2> HIDE DEF s2, t2
  <2>3. Has(s3.attr, t3) BY <2>2, setParityHas
  <2> HIDE DEF s3, t3
  <2>4. Has(s4.attr, t4) BY <2>3, setStopBitsHas
  <2> HIDE DEF s4, t4
  <2>5. Has(s5.attr, t5) BY <2>4, setFlowControlHas
  <2> HIDE DEF s5, t5
  <2> QED BY <1>2, <2>5, setRawModeHas
<1>4. /\ s1.field = "baud" /\ s1.given = given.baud
      /\ s2.field = "bits" /\ s2.given = given.bits
      /\ s3.field = "parity" /\ s3.given = given.parity
      /\ s4.field = "stop" /\ s4.given = given.stop
      /\ s5.field = "flow" /\ s5.given = given.flow
      /\ s6.field = "raw" /\ s6.given = given.raw /\ s6.legal
      BY DEF setBaudRate, setDataBits, setParity, setStopBits, setFlowControl, setRawMode, Result
<1>5. \E baud, flags : s6.attr = [baud |-> baud, flags |-> flags]
      BY DEF setRawMode, Result
<1> HIDE DEF s1, s2, s3, s4, s5, s6, t0
<1>6. ASSUME handle' = "open" PROVE Has(attr', given)
  <2>1. "baud" \in DOMAIN t1 /\ t1["baud"] = given.baud
        BY <1>0, <1>4, <1>6, AdoptedSettings
  <2>2. /\ "baud" \in DOMAIN t2 /\ t2["baud"] = given.baud
        /\ "bits" \in DOMAIN t2 /\ t2["bits"] = given.bits
    <3> HIDE DEF t1
    <3> QED BY <1>0, <1>4, <1>6, <2>1, AdoptedSettings
  <2>3. /\ "baud" \in DOMAIN t3 /\ t3["baud"] = given.baud
        /\ "bits" \in DOMAIN t3 /\ t3["bits"] = given.bits
        /\ "parity" \in DOMAIN t3 /\ t3["parity"] = given.parity
    <3> HIDE DEF t2
    <3> QED BY <1>0, <1>4, <1>6, <2>2, AdoptedSettings
  <2>4. /\ "baud" \in DOMAIN t4 /\ t4["baud"] = given.baud
        /\ "bits" \in DOMAIN t4 /\ t4["bits"] = given.bits
        /\ "parity" \in DOMAIN t4 /\ t4["parity"] = given.parity
        /\ "stop" \in DOMAIN t4 /\ t4["stop"] = given.stop
    <3> HIDE DEF t3
    <3> QED BY <1>0, <1>4, <1>6, <2>3, AdoptedSettings
  <2>5. /\ "baud" \in DOMAIN t5 /\ t5["baud"] = given.baud
        /\ "bits" \in DOMAIN t5 /\ t5["bits"] = given.bits
        /\ "parity" \in DOMAIN t5 /\ t5["parity"] = given.parity
        /\ "stop" \in DOMAIN t5 /\ t5["stop"] = given.stop
        /\ "flow" \in DOMAIN t5 /\ t5["flow"] = given.flow
    <3> HIDE DEF t4
    <3> QED BY <1>0, <1>4, <1>6, <2>4, AdoptedSettings
  <2>6. /\ "baud" \in DOMAIN t6 /\ t6["baud"] = given.baud
        /\ "bits" \in DOMAIN t6 /\ t6["bits"] = given.bits
        /\ "parity" \in DOMAIN t6 /\ t6["parity"] = given.parity
        /\ "stop" \in DOMAIN t6 /\ t6["stop"] = given.stop
        /\ "flow" \in DOMAIN t6 /\ t6["flow"] = given.flow
        /\ "raw" \in DOMAIN t6 /\ t6["raw"] = given.raw
    <3> HIDE DEF t5
    <3> QED BY <1>0, <1>4, <1>6, <2>5, AdoptedSettings
  <2> HIDE DEF t6
  <2>7. \A field \in Fields : field \in DOMAIN t6 /\ given[field] = t6[field]
        BY <1>2, <2>6 DEF Fields
  <2>8. Has(s6.attr, given) BY <1>3, <2>7, HasLess
  <2>9. /\ attr'.baud = s6.attr.baud
        /\ attr'.flags = s6.attr.flags \cup {"CLOCAL", "CREAD"}
        BY <1>0, <1>5, <1>6
  <2>10. \A flag : flag \notin {"CLOCAL", "CREAD"} =>
                       (flag \in attr'.flags <=> flag \in s6.attr.flags)
         BY <2>9
  <2>11. /\ Size(attr'.flags) = Size(s6.attr.flags)
         /\ ParityOf(attr'.flags) = ParityOf(s6.attr.flags)
         BY <2>10 DEF Size, ParityOf
  <2>12. /\ XON_XOFF \cap attr'.flags = XON_XOFF \cap s6.attr.flags
         /\ CSIZE \cap attr'.flags = CSIZE \cap s6.attr.flags
         BY <2>10 DEF XON_XOFF, CSIZE
  <2>13. /\ IsRaw(attr'.flags) <=> IsRaw(s6.attr.flags)
         /\ IsCanonical(attr'.flags) <=> IsCanonical(s6.attr.flags)
         BY <2>10 DEF IsRaw, IsCanonical, Terminal
  <2> QED BY <2>8, <2>9, <2>10, <2>11, <2>12, <2>13 DEF Has
<1> QED BY <1>0, <1>6 DEF SettingsInv

-----------------------------------------------------------------------------
(* The bytes on their way *)

LEMMA OwnSeq ==
    ASSUME NEW S, NEW q \in Seq(S) PROVE q \in Seq({q[i] : i \in DOMAIN q})
<1> DEFINE R == {q[i] : i \in DOMAIN q}
<1>1. /\ Len(q) \in Nat /\ DOMAIN q = 1 .. Len(q)
      /\ q = [i \in 1 .. Len(q) |-> q[i]]
      OBVIOUS
<1>2. \A i \in 1 .. Len(q) : q[i] \in R BY <1>1
<1> HIDE DEF R
<1>3. q \in Seq(R) BY <1>1, <1>2
<1> QED BY <1>3 DEF R

\* A queue that nothing has been taken out of order from stays so.
LEMMA InFlightSame ==
    ASSUME InFlight, UNCHANGED <<handle, txQueue, promised, immediate, garbled>>
    PROVE  InFlight'
BY DEF InFlight

LEMMA InFlightEmpty ==
    ASSUME txQueue' = <<>>, immediate' \in BOOLEAN, ~garbled' PROVE InFlight'
<1>1. <<>> \in Seq({}) /\ DOMAIN <<>> = {} OBVIOUS
<1>2. txQueue' \in Seq({txQueue'[i] : i \in DOMAIN txQueue'}) BY <1>1, OwnSeq
<1> QED BY <1>1, <1>2 DEF InFlight

LEMMA txInv == ASSUME InFlight, tx PROVE InFlight'
<1> DEFINE R == {txQueue[i] : i \in DOMAIN txQueue}
           S == R \cup {promised}
<1>1. /\ handle = "open" /\ txQueue' = Append(txQueue, promised)
      /\ UNCHANGED <<handle, promised, immediate, garbled>>
      BY DEF tx, settings
<1>2. txQueue \in Seq(R) BY DEF InFlight
<1> HIDE DEF R
<1>3. txQueue \in Seq(S) BY <1>2
<1>4. promised \in S OBVIOUS
<1> HIDE DEF S
<1>5. Append(txQueue, promised) \in Seq(S) BY <1>3, <1>4
<1>6. txQueue' \in Seq({txQueue'[i] : i \in DOMAIN txQueue'}) BY <1>1, <1>5, OwnSeq
<1>7. ASSUME ~immediate PROVE \A i \in DOMAIN txQueue' : txQueue'[i] = promised'
  <2>1. \A i \in DOMAIN txQueue : txQueue[i] = promised BY <1>7 DEF InFlight
  <2> QED BY <1>1, <1>3, <1>4, <2>1
<1> QED BY <1>1, <1>6, <1>7 DEF InFlight

LEMMA SendInv == ASSUME InFlight, Send PROVE InFlight'
<1> DEFINE R == {txQueue[i] : i \in DOMAIN txQueue}
<1>1. /\ txQueue # <<>> /\ txQueue' = Tail(txQueue) /\ UNCHANGED <<handle, promised>>
      /\ (garbled' <=> garbled \/ (~immediate /\ Head(txQueue) # promised))
      /\ (immediate' <=> immediate /\ txQueue' # <<>>) /\ immediate' \in BOOLEAN
      BY DEF Send, settings
<1>2. txQueue \in Seq(R) BY DEF InFlight
<1> HIDE DEF R
<1>3. Tail(txQueue) \in Seq(R) BY <1>1, <1>2
<1>4. txQueue' \in Seq({txQueue'[i] : i \in DOMAIN txQueue'})
  <2>1. txQueue' \in Seq(R) BY <1>1, <1>3
  <2> QED BY <2>1, OwnSeq
<1>5. ASSUME ~immediate PROVE Head(txQueue) = promised
  <2>1. 1 \in DOMAIN txQueue /\ Head(txQueue) = txQueue[1] BY <1>1, <1>2
  <2> QED BY <1>5, <2>1 DEF InFlight
<1>6. ~garbled' BY <1>1, <1>5 DEF InFlight
<1>7. ASSUME ~immediate' PROVE \A i \in DOMAIN txQueue' : txQueue'[i] = promised'
  <2>1. CASE txQueue' = <<>> BY <2>1
  <2>2. CASE txQueue' # <<>>
    <3>1. \A i \in DOMAIN txQueue : txQueue[i] = promised BY <1>1, <1>7, <2>2 DEF InFlight
    <3> QED BY <1>1, <1>2, <3>1
  <2> QED BY <2>1, <2>2
<1>8. handle = "open" BY DEF Send
<1> QED BY <1>1, <1>4, <1>6, <1>7, <1>8 DEF InFlight

\* Either the queue was empty when the line got its settings, or the commit was
\* IMMEDIATE.
LEMMA commitChangesInv ==
    ASSUME InFlight, NEW commitTime \in {"IMMEDIATE", "AFTER_TX_EMPTY", "AFTER_TX_AND_FLUSH"},
           commitChanges(commitTime)
    PROVE  InFlight'
<1>1. /\ UNCHANGED <<handle, txQueue, garbled>>
      /\ (immediate' <=> commitTime = "IMMEDIATE" /\ txQueue # <<>>) /\ immediate' \in BOOLEAN
      /\ commitTime # "IMMEDIATE" => txQueue = <<>>
      BY DEF commitChanges, AttrTime
<1>2. CASE txQueue = <<>> BY <1>1, <1>2, InFlightEmpty DEF InFlight
<1>3. CASE txQueue # <<>> BY <1>1, <1>3 DEF InFlight
<1> QED BY <1>2, <1>3

LEMMA flushInv == ASSUME InFlight, NEW flushRx, NEW flushTx, flush(flushRx, flushTx) PROVE InFlight'
<1>1. /\ txQueue' = IF flushTx THEN <<>> ELSE txQueue
      /\ (immediate' <=> immediate /\ txQueue' # <<>>) /\ immediate' \in BOOLEAN
      /\ UNCHANGED <<handle, promised, garbled>>
      BY DEF flush, settings
<1>2. CASE txQueue' = <<>> BY <1>1, <1>2, InFlightEmpty DEF InFlight
<1>3. CASE txQueue' # <<>>
  <2>1. UNCHANGED txQueue BY <1>1, <1>3
  <2> QED BY <1>1, <1>3, <2>1 DEF InFlight
<1> QED BY <1>2, <1>3

-----------------------------------------------------------------------------
LEMMA SerialInitInv == SerialInit => SerialInv
<1> SUFFICES ASSUME SerialInit PROVE SerialInv OBVIOUS
<1>1. <<>> \in Seq({}) /\ DOMAIN <<>> = {} OBVIOUS
<1>2. txQueue \in Seq({txQueue[i] : i \in DOMAIN txQueue}) BY <1>1, OwnSeq DEF SerialInit
<1> QED BY <1>1, <1>2 DEF SerialInit, SerialInv, SettingsInv, InFlight

\* The steps that change neither settings nor what is to be sent.
LEMMA QuietInv ==
    ASSUME SerialInv, UNCHANGED <<handle, settings>>,
           UNCHANGED <<txQueue, garbled, immediate>>
    PROVE  SerialInv'
BY DEF settings, SerialInv, SettingsInv, InFlight

(***************************************************************************)
(* The inductive invariant.  That a setter keeps what the others were      *)
(* asked for is the point of the six lemmas about setters: their flags     *)
(* share a word, and none may leave or take away another's.                *)
(***************************************************************************)
THEOREM SerialInvHolds == SerialSpec => []SerialInv
<1>1. SerialInit => SerialInv BY SerialInitInv
<1>2. SerialInv /\ [SerialNext]_serialvars => SerialInv'
  <2> SUFFICES ASSUME SerialInv, [SerialNext]_serialvars PROVE SerialInv' OBVIOUS
  <2>1. CASE UNCHANGED serialvars BY <2>1, QuietInv DEF serialvars, traffic
  <2>2. ASSUME NEW was \in {{}, {"PARODD", "CRTSCTS", "ISIG", "ICRNL"}}, NEW given \in Openings,
               NEW mayUse \in {{}, {"read", "write"}}, Construct(was, given, mayUse)
        PROVE  SerialInv'
    <3>1. \A c, d \in was \cap CSIZE : c = d BY DEF CSIZE
    <3>2. SettingsInv' BY <2>2, <3>1, ConstructInv DEF SerialInv
    <3>3. /\ handle = "none"
          /\ UNCHANGED <<txQueue, immediate, garbled>>
          BY <2>2 DEF Construct, traffic
    <3>4. InFlight' BY <3>3, InFlightEmpty DEF SerialInv, InFlight
    <3> QED BY <3>2, <3>4 DEF SerialInv
  <2>3. CASE Set
    <3>1. SettingsInv' BY <2>3, SetInv DEF SerialInv
    <3>2. InFlight' BY <2>3, InFlightSame DEF Set, traffic, SerialInv
    <3> QED BY <3>1, <3>2 DEF SerialInv
  <2>4. ASSUME NEW commitTime \in {"IMMEDIATE", "AFTER_TX_EMPTY", "AFTER_TX_AND_FLUSH"},
               commitChanges(commitTime)
        PROVE  SerialInv'
    <3>1. SettingsInv' BY <2>4 DEF commitChanges, SerialInv, SettingsInv
    <3> QED BY <2>4, <3>1, commitChangesInv DEF SerialInv
  <2>5. CASE tx
    <3>1. SettingsInv' BY <2>5 DEF tx, settings, SerialInv, SettingsInv
    <3> QED BY <2>5, <3>1, txInv DEF SerialInv
  <2>6. CASE rx BY <2>6, QuietInv DEF rx
  <2>7. ASSUME NEW a \in BOOLEAN, NEW b \in BOOLEAN, flush(a, b) PROVE SerialInv'
    <3>1. SettingsInv' BY <2>7 DEF flush, settings, SerialInv, SettingsInv
    <3> QED BY <2>7, <3>1, flushInv DEF SerialInv
  <2>8. ASSUME NEW a \in BOOLEAN, NEW b \in BOOLEAN, SuspendOrResume(a, b) PROVE SerialInv'
        BY <2>8, QuietInv DEF SuspendOrResume
  <2>9. CASE Send
    <3>1. SettingsInv' BY <2>9 DEF Send, settings, SerialInv, SettingsInv
    <3> QED BY <2>9, <3>1, SendInv DEF SerialInv
  <2>10. CASE Arrive BY <2>10, QuietInv DEF Arrive
  <2>11. CASE Close
    <3>1. SettingsInv' BY <2>11 DEF Close, SettingsInv
    <3>2. InFlight' BY <2>11, InFlightEmpty DEF Close, SerialInv, InFlight
    <3> QED BY <3>1, <3>2 DEF SerialInv
  <2> QED BY <2>1, <2>2, <2>3, <2>4, <2>5, <2>6, <2>7, <2>8, <2>9, <2>10, <2>11 DEF SerialNext
<1> QED BY <1>1, <1>2, PTL DEF SerialSpec

(***************************************************************************)
(* The line has the settings that were asked for when they were last       *)
(* committed, after any sequence of constructor, setters, refusals and     *)
(* commits (nserial.cxx:20-72, 165-468): property SettingsAsAsked.         *)
(***************************************************************************)
THEOREM SettingsAsAskedHolds == SerialSpec => []SettingsAsAsked
<1>1. SerialInv => SettingsAsAsked BY DEF SerialInv, SettingsInv, SettingsAsAsked
<1> QED BY <1>1, SerialInvHolds, PTL

(***************************************************************************)
(* No byte is sent with settings other than those it was written under,    *)
(* unless somebody commits others IMMEDIATEly (nserial.cxx:456-468):       *)
(* property SentAsWritten.                                                 *)
(***************************************************************************)
THEOREM SentAsWrittenHolds == SerialSpec => []SentAsWritten
<1>1. SerialInv => SentAsWritten BY DEF SerialInv, InFlight, SentAsWritten
<1> QED BY <1>1, SerialInvHolds, PTL

-----------------------------------------------------------------------------
(* Npsql *)

PsqlTypes ==
    /\ DOMAIN at = Users
    /\ held \in [Users -> Nat] /\ result \in [Users -> Nat] /\ made \in [Users -> Nat]
    /\ live \in [Users -> SUBSET Nat] /\ lost \in [Users -> SUBSET Nat]
    /\ kept \in [Users -> BOOLEAN]

\* PGresults are numbered as PQexec() makes them.
Numbered(u) ==
    /\ held[u] <= made[u] /\ result[u] <= made[u]
    /\ \A r \in live[u] : 1 <= r /\ r <= made[u]

\* Who owns a PGresult.
Owned(u) ==
    /\ held[u] # 0 => held[u] \in live[u]
    /\ result[u] # 0 => result[u] \in live[u]
    /\ live[u] \subseteq {held[u], result[u]} \cup lost[u]

\* A query under way has its PGresult for itself until it hands it over, and
\* shares it with the NpsqlResult then.
UnderWay(u) ==
    /\ result[u] # 0 => at[u] \in {"assign", "loop"}
    /\ at[u] = "assign" /\ result[u] # 0 => result[u] # held[u]
    /\ at[u] = "loop" /\ kept[u] => held[u] = result[u]
    /\ at[u] = "loop" /\ ~kept[u] /\ result[u] # 0 => result[u] # held[u]

UserInv(u) == Numbered(u) /\ Owned(u) /\ UnderWay(u)

PsqlInv == PsqlTypes /\ \A u \in Users : UserInv(u)

-----------------------------------------------------------------------------
LEMMA PsqlInitInv == PsqlInit => PsqlInv
BY DEF PsqlInit, PsqlInv, PsqlTypes, UserInv, Numbered, Owned, UnderWay

\* A step of one user leaves the others' results alone.
LEMMA OtherUsers ==
    ASSUME PsqlInv, NEW u \in Users, NEW v \in Users, v # u,
           at'[v] = at[v], held'[v] = held[v], result'[v] = result[v], kept'[v] = kept[v],
           made'[v] = made[v], live'[v] = live[v], lost'[v] = lost[v]
    PROVE  UserInv(v)'
BY DEF PsqlInv, UserInv, Numbered, Owned, UnderWay

\* The steps that touch no result: the query is not under way before or after.
LEMMA QuietStep ==
    ASSUME PsqlInv, NEW u \in Users, NEW to,
           at[u] \notin {"assign", "loop"}, to \notin {"assign", "loop"},
           at' = [at EXCEPT ![u] = to],
           kept' \in [Users -> BOOLEAN], \A v \in Users \ {u} : kept'[v] = kept[v],
           UNCHANGED <<held, result, made, live, lost>>
    PROVE  PsqlInv'
BY DEF PsqlInv, PsqlTypes, UserInv, Numbered, Owned, UnderWay

LEMMA PQexecInv == ASSUME PsqlInv, NEW u \in Users, PQexec(u) PROVE PsqlInv'
<1>1. at[u] = "exec" /\ at' = [at EXCEPT ![u] = "assign"]
      BY DEF PQexec, Goes
<1>2. result[u] = 0 BY <1>1 DEF PsqlInv, UserInv, UnderWay
<1>3. UNCHANGED <<held, kept, lost>> /\ made' = [made EXCEPT ![u] = @ + 1]
      BY DEF PQexec
<1>4. made[u] \in Nat /\ made'[u] = made[u] + 1 BY <1>3 DEF PsqlInv, PsqlTypes
<1>5. CASE /\ result' = [result EXCEPT ![u] = made'[u]]
           /\ live' = [live EXCEPT ![u] = @ \cup {made'[u]}]
  <2>1. PsqlTypes' BY <1>1, <1>3, <1>4, <1>5 DEF PsqlInv, PsqlTypes
  <2>2. UserInv(u)'
        BY <1>1, <1>2, <1>3, <1>4, <1>5 DEF PsqlInv, PsqlTypes, UserInv, Numbered, Owned, UnderWay
  <2>3. \A v \in Users \ {u} : UserInv(v)'
        BY <1>1, <1>3, <1>5, OtherUsers DEF PsqlInv, PsqlTypes
  <2> QED BY <2>1, <2>2, <2>3 DEF PsqlInv
<1>6. CASE UNCHANGED <<result, live>>
  <2>1. PsqlTypes' BY <1>1, <1>3, <1>4, <1>6 DEF PsqlInv, PsqlTypes
  <2>2. UserInv(u)'
        BY <1>1, <1>2, <1>3, <1>4, <1>6 DEF PsqlInv, PsqlTypes, UserInv, Numbered, Owned, UnderWay
  <2>3. \A v \in Users \ {u} : UserInv(v)'
        BY <1>1, <1>3, <1>6, OtherUsers DEF PsqlInv, PsqlTypes
  <2> QED BY <2>1, <2>2, <2>3 DEF PsqlInv
<1> QED BY <1>5, <1>6 DEF PQexec

LEMMA AssignInv == ASSUME PsqlInv, NEW u \in Users, Assign(u) PROVE PsqlInv'
<1>1. /\ at[u] = "assign" /\ at' = [at EXCEPT ![u] = "loop"]
      /\ live' = [live EXCEPT ![u] = @ \ closeResult(u)]
      /\ held' = [held EXCEPT ![u] = IF kept[u] THEN result[u] ELSE @]
      /\ UNCHANGED <<result, kept, made, lost>>
      BY DEF Assign, Goes
<1>2. PsqlTypes' BY <1>1 DEF PsqlInv, PsqlTypes
<1>3. UserInv(u)'
  <2>1. CASE kept[u]
    <3>1. live'[u] = live[u] \ {held[u]} /\ held'[u] = result[u]
          BY <1>1, <2>1 DEF PsqlInv, PsqlTypes, closeResult
    <3>2. at'[u] = "loop" BY <1>1 DEF PsqlInv, PsqlTypes
    <3> QED BY <1>1, <2>1, <3>1, <3>2 DEF PsqlInv, PsqlTypes, UserInv, Numbered, Owned, UnderWay
  <2>2. CASE ~kept[u]
    <3>1. live'[u] = live[u] /\ held'[u] = held[u]
          BY <1>1, <2>2 DEF PsqlInv, PsqlTypes, closeResult
    <3>2. at'[u] = "loop" BY <1>1 DEF PsqlInv, PsqlTypes
    <3> QED BY <1>1, <2>2, <3>1, <3>2 DEF PsqlInv, PsqlTypes, UserInv, Numbered, Owned, UnderWay
  <2> QED BY <2>1, <2>2
<1>4. \A v \in Users \ {u} : UserInv(v)' BY <1>1, OtherUsers DEF PsqlInv, PsqlTypes
<1> QED BY <1>2, <1>3, <1>4 DEF PsqlInv

LEMMA ThrowInv == ASSUME PsqlInv, NEW u \in Users, Throw(u) PROVE PsqlInv'
<1>1. /\ at[u] = "loop" /\ at' = [at EXCEPT ![u] = "ready"]
      /\ lost' = [lost EXCEPT ![u] = IF kept[u] \/ result[u] = 0 THEN @
                                      ELSE @ \cup {result[u]}]
      /\ result' = [result EXCEPT ![u] = 0]
      /\ UNCHANGED <<held, kept, made, live>>
      BY DEF Throw, Goes
<1>2. PsqlTypes' BY <1>1 DEF PsqlInv, PsqlTypes
<1>3. UserInv(u)' BY <1>1 DEF PsqlInv, PsqlTypes, UserInv, Numbered, Owned, UnderWay
<1>4. \A v \in Users \ {u} : UserInv(v)' BY <1>1, OtherUsers DEF PsqlInv, PsqlTypes
<1> QED BY <1>2, <1>3, <1>4 DEF PsqlInv

LEMMA ConcludeInv == ASSUME PsqlInv, NEW u \in Users, Conclude(u) PROVE PsqlInv'
<1>1. /\ at[u] = "loop" /\ at' = [at EXCEPT ![u] = "ready"]
      /\ live' = [live EXCEPT ![u] = @ \ Clears(u)]
      /\ result' = [result EXCEPT ![u] = 0]
      /\ UNCHANGED <<held, kept, made, lost>>
      BY DEF Conclude, Goes
<1>2. PsqlTypes' BY <1>1 DEF PsqlInv, PsqlTypes
<1>3. UserInv(u)'
  <2>1. live'[u] = live[u] \ (IF kept[u] THEN {} ELSE {result[u]})
        BY <1>1 DEF PsqlInv, PsqlTypes, Clears
  <2> QED BY <1>1, <2>1 DEF PsqlInv, PsqlTypes, UserInv, Numbered, Owned, UnderWay
<1>4. \A v \in Users \ {u} : UserInv(v)' BY <1>1, OtherUsers DEF PsqlInv, PsqlTypes
<1> QED BY <1>2, <1>3, <1>4 DEF PsqlInv

LEMMA FinishInv == ASSUME PsqlInv, NEW u \in Users, Finish(u) PROVE PsqlInv'
<1>1. /\ at[u] = "ready" /\ at' = [at EXCEPT ![u] = "gone"]
      /\ live' = [live EXCEPT ![u] = @ \ {held[u]}]
      /\ held' = [held EXCEPT ![u] = 0]
      /\ UNCHANGED <<result, kept, made, lost>>
      BY DEF Finish, Goes
<1>2. PsqlTypes' BY <1>1 DEF PsqlInv, PsqlTypes
<1>3. UserInv(u)' BY <1>1 DEF PsqlInv, PsqlTypes, UserInv, Numbered, Owned, UnderWay
<1>4. \A v \in Users \ {u} : UserInv(v)' BY <1>1, OtherUsers DEF PsqlInv, PsqlTypes
<1> QED BY <1>2, <1>3, <1>4 DEF PsqlInv

LEMMA StartQueryInv ==
    ASSUME PsqlInv, NEW u \in Users, NEW keep \in BOOLEAN, StartQuery(u, keep) PROVE PsqlInv'
<1>1. /\ at[u] = "ready" /\ at' = [at EXCEPT ![u] = "exec"]
      /\ kept' = [kept EXCEPT ![u] = keep]
      /\ UNCHANGED <<held, result, made, live, lost>>
      BY DEF StartQuery, Goes
<1>2. kept' \in [Users -> BOOLEAN] /\ \A v \in Users \ {u} : kept'[v] = kept[v]
      BY <1>1 DEF PsqlInv, PsqlTypes
<1> QED BY <1>1, <1>2, QuietStep

\* Of the steps of the connection each is quiet, but for ServerAnswers, which
\* changes neither the results nor where anybody is.
LEMMA ConnectionInv ==
    ASSUME PsqlInv, NEW u \in Users,
           LockConnecting(u) \/ Connect(u) \/ UnlockConnecting(u) \/ ServerAnswers(u) \/ waitForDb(u)
    PROVE  PsqlInv'
<1>0. UNCHANGED resultVars
      BY DEF LockConnecting, Connect, UnlockConnecting, ServerAnswers, waitForDb
<1>1. /\ UNCHANGED <<held, result, kept, made, live, lost>>
      /\ kept' \in [Users -> BOOLEAN] /\ \A v \in Users \ {u} : kept'[v] = kept[v]
      BY <1>0 DEF resultVars, PsqlInv, PsqlTypes
<1>2. CASE ServerAnswers(u)
      BY <1>1, <1>2 DEF ServerAnswers, PsqlInv, PsqlTypes, UserInv, Numbered, Owned, UnderWay
<1>3. CASE LockConnecting(u) BY <1>1, <1>3, QuietStep DEF LockConnecting, Goes
<1>4. CASE Connect(u) BY <1>1, <1>4, QuietStep DEF Connect, Goes
<1>5. CASE UnlockConnecting(u) BY <1>1, <1>5, QuietStep DEF UnlockConnecting, Goes
<1>6. CASE waitForDb(u) BY <1>1, <1>6, QuietStep DEF waitForDb, Goes
<1> QED BY <1>2, <1>3, <1>4, <1>5, <1>6

(***************************************************************************)
(* The inductive invariant: a query's result is its own until operator =   *)
(* hands it over.  Without "result # held" a query that clears what the    *)
(* NpsqlResult holds, or what it made, might clear the other's.            *)
(***************************************************************************)
THEOREM PsqlInvHolds == PsqlSpec => []PsqlInv
<1>1. PsqlInit => PsqlInv BY PsqlInitInv
<1>2. PsqlInv /\ [PsqlNext]_psqlvars => PsqlInv'
  <2> SUFFICES ASSUME PsqlInv, [PsqlNext]_psqlvars PROVE PsqlInv' OBVIOUS
  <2>1. CASE UNCHANGED psqlvars
        BY <2>1 DEF psqlvars, PsqlInv, PsqlTypes, UserInv, Numbered, Owned, UnderWay
  <2>2. ASSUME NEW u \in Users, UserStep(u) \/ ServerStep(u) PROVE PsqlInv'
        BY <2>2, ConnectionInv, PQexecInv, AssignInv, ThrowInv, ConcludeInv DEF UserStep, ServerStep
  <2>3. ASSUME NEW u \in Users, Finish(u) PROVE PsqlInv' BY <2>3, FinishInv
  <2>4. ASSUME NEW u \in Users, NEW keep \in BOOLEAN, StartQuery(u, keep) PROVE PsqlInv'
        BY <2>4, StartQueryInv
  <2> QED BY <2>1, <2>2, <2>3, <2>4 DEF PsqlNext
<1> QED BY <1>1, <1>2, PTL DEF PsqlSpec

(***************************************************************************)
(* Each PGresult is cleared once, by its one owner, or was dropped by an   *)
(* exception (npsql.cxx:141, 160): property ResultsHaveAnOwner.            *)
(***************************************************************************)
THEOREM ResultsHaveAnOwnerHolds == PsqlSpec => []ResultsHaveAnOwner
<1>1. PsqlInv => ResultsHaveAnOwner BY DEF PsqlInv, UserInv, Owned, ResultsHaveAnOwner
<1> QED BY <1>1, PsqlInvHolds, PTL

-----------------------------------------------------------------------------
(* Nsqlite *)

\* How many statements of a kind there are among the first n of a text.
CountTo(s, n, kind) == Cardinality({i \in 1 .. n : s[i] = kind})

\* Those of the text that this run of it has been through.
Ran(kind) == CountTo(text, next - 1, kind)

SqliteTypes ==
    /\ table \in Nat /\ foreign \in BOOLEAN
    /\ phase \in {"out", "exec", "sleep", "return", "answered"}
    /\ text \in Seq(Statements) /\ next \in 1 .. Len(text) + 1
    /\ results \in [names : BOOLEAN, data : Seq(Nat), affected : Nat, error : BOOLEAN]
    /\ changes \in Nat /\ effects \in Nat
    /\ status \in {"OK", "BUSY", "ERROR"} /\ redone \in BOOLEAN

\* The rows have names, whichever run of the text they are from.
Named == results.names <=> results.data # <<>>

\* A text that has not been run again is where its effects say it is.
OnceSoFar ==
    ~redone =>
        /\ effects = Ran("write")
        /\ Ran("read") = 0 => results.data = <<>>
        /\ Ran("read") = 1 => \A i \in DOMAIN results.data : results.data[i] = i
        /\ next > 1 /\ text[next - 1] = "write" => changes = 1
        /\ phase = "sleep" => next = 1

\* What query() knows when it returns.
Ends ==
    /\ phase \in {"return", "answered"} => status # "BUSY"
    /\ phase \in {"return", "answered"} /\ status = "OK" => next = Len(text) + 1
    /\ phase = "answered" =>
           /\ results.error <=> status # "OK"
           /\ results.affected = changes

SqliteInv == SqliteTypes /\ Named /\ OnceSoFar /\ Ends

\* The count among no statements.
LEMMA CountToNone == \A s, kind : CountTo(s, 0, kind) = 0
BY FS_EmptySet DEF CountTo

\* The count goes up by one at a statement of the kind, and only there.
LEMMA CountToNext ==
    ASSUME NEW s, NEW kind, NEW n \in Nat, NEW m, m = n + 1
    PROVE  /\ CountTo(s, n, kind) \in Nat
           /\ CountTo(s, m, kind) = CountTo(s, n, kind) + (IF s[m] = kind THEN 1 ELSE 0)
<1> DEFINE S == {i \in 1 .. n : s[i] = kind}
<1>1. IsFiniteSet(1 .. n) BY FS_Interval
<1>2. IsFiniteSet(S) BY <1>1, FS_Subset, S \subseteq 1 .. n
<1>3. Cardinality(S) \in Nat BY <1>2, FS_CardinalityType
<1>4. CASE s[m] = kind
  <2>1. {i \in 1 .. m : s[i] = kind} = S \cup {m} BY <1>4
  <2>2. m \notin S OBVIOUS
  <2> QED BY <1>2, <1>3, <1>4, <2>1, <2>2, FS_AddElement DEF CountTo
<1>5. CASE s[m] # kind
  <2>1. {i \in 1 .. m : s[i] = kind} = S BY <1>5
  <2> QED BY <1>3, <1>5, <2>1 DEF CountTo
<1> QED BY <1>4, <1>5

\* A query that begins has been through nothing.
LEMMA RanNone == next = 1 => \A kind : Ran(kind) = 0
<1>1. 1 - 1 = 0 OBVIOUS
<1> QED BY <1>1, CountToNone DEF Ran

LEMMA NoResultsType ==
    NoResults \in [names : BOOLEAN, data : Seq(Nat), affected : Nat, error : BOOLEAN]
<1>1. <<>> \in Seq(Nat) OBVIOUS
<1> QED BY <1>1 DEF NoResults

LEMMA SqliteInitInv == SqliteInit => SqliteInv
<1> SUFFICES ASSUME SqliteInit PROVE SqliteInv OBVIOUS
<1>0. <<>> \in Seq(Statements) /\ Len(<<>>) = 0 OBVIOUS
<1>1. SqliteTypes
  <2>1. text \in Seq(Statements) BY <1>0 DEF SqliteInit
  <2>2. next \in 1 .. Len(text) + 1 BY <1>0 DEF SqliteInit
  <2>3. results \in [names : BOOLEAN, data : Seq(Nat), affected : Nat, error : BOOLEAN]
        BY NoResultsType DEF SqliteInit
  <2> QED BY <2>1, <2>2, <2>3 DEF SqliteInit, SqliteTypes
<1>2. Ran("write") = 0 /\ Ran("read") = 0 BY RanNone DEF SqliteInit
<1>3. OnceSoFar BY <1>2 DEF SqliteInit, NoResults, OnceSoFar
<1>4. Named /\ Ends BY DEF SqliteInit, NoResults, Named, Ends
<1> QED BY <1>1, <1>3, <1>4 DEF SqliteInv

LEMMA QueryInv == ASSUME SqliteInv, NEW t \in QueryTexts, Query(t) PROVE SqliteInv'
<1>1. t \in Seq(Statements) BY QueryTextsAssumption
<1>2. /\ phase' = "exec" /\ text' = t /\ next' = 1 /\ results' = NoResults
      /\ status' = "OK" /\ effects' = 0 /\ redone' = FALSE
      /\ UNCHANGED <<table, foreign, changes>>
      BY DEF Query, Clear
<1>3. next' - 1 = 0 BY <1>2
<1>4. Ran("write")' = 0 /\ Ran("read")' = 0 BY <1>3, CountToNone DEF Ran
<1>5. Len(t) \in Nat BY <1>1
<1>6. SqliteTypes'
  <2>1. text' \in Seq(Statements) BY <1>1, <1>2
  <2>2. next' \in 1 .. Len(text') + 1 BY <1>2, <1>5
  <2>3. results' \in [names : BOOLEAN, data : Seq(Nat), affected : Nat, error : BOOLEAN]
        BY <1>2, NoResultsType
  <2> QED BY <1>2, <2>1, <2>2, <2>3 DEF SqliteInv, SqliteTypes
<1>7. OnceSoFar' BY <1>2, <1>4 DEF NoResults, OnceSoFar
<1>8. Named' /\ Ends' BY <1>2 DEF NoResults, Named, Ends
<1> QED BY <1>6, <1>7, <1>8 DEF SqliteInv

\* sqlite3_exec() stops where it is.
LEMMA StopInv ==
    ASSUME SqliteInv, phase = "exec", NEW y \in {"OK", "BUSY", "ERROR"}, Stop(y),
           UNCHANGED foreign,
           redone' <=> redone \/ (y = "BUSY" /\ next > 1), redone' \in BOOLEAN,
           y = "OK" => next = Len(text) + 1
    PROVE  SqliteInv'
<1>1. /\ status' = y /\ phase' = IF y = "BUSY" THEN "sleep" ELSE "return"
      /\ UNCHANGED <<table, text, next, results, changes, effects>>
      BY DEF Stop
<1>2. Ran("write")' = Ran("write") /\ Ran("read")' = Ran("read") BY <1>1 DEF Ran
<1>3. SqliteTypes' BY <1>1 DEF SqliteInv, SqliteTypes
<1>4. Named' /\ Ends' BY <1>1 DEF SqliteInv, Named, Ends
<1>5. OnceSoFar'
  <2>1. SUFFICES ASSUME ~redone' PROVE OnceSoFar' BY DEF OnceSoFar
  <2>2. ~redone /\ (y = "BUSY" => ~(next > 1)) BY <2>1
  <2>3. y = "BUSY" => next = 1 BY <2>2 DEF SqliteInv, SqliteTypes
  <2> QED BY <1>1, <1>2, <2>2, <2>3 DEF SqliteInv, OnceSoFar
<1> QED BY <1>3, <1>4, <1>5 DEF SqliteInv

\* A statement that is run counts itself.
LEMMA StatementInv ==
    ASSUME SqliteInv, phase = "exec", next <= Len(text), text[next] # "bad",
           next' = next + 1,
           \/ text[next] = "read" /\ Deliver /\ UNCHANGED <<table, changes, effects>>
           \/ /\ text[next] # "read"
              /\ table' = table + 1 /\ changes' = 1 /\ effects' = effects + 1
              /\ UNCHANGED results,
           UNCHANGED <<foreign, phase, text, status, redone>>
    PROVE  SqliteInv'
<1>0. /\ next \in Nat /\ next >= 1 /\ Len(text) \in Nat
      /\ text[next] \in Statements
      /\ next - 1 \in Nat /\ (next - 1) + 1 = next /\ next' - 1 = next
      BY DEF SqliteInv, SqliteTypes
<1>1. ASSUME NEW kind
      PROVE  /\ Ran(kind) \in Nat
             /\ Ran(kind)' = Ran(kind) + (IF text[next] = kind THEN 1 ELSE 0)
  <2>1. CountTo(text, next, kind) =
            CountTo(text, next - 1, kind) + (IF text[next] = kind THEN 1 ELSE 0)
        BY <1>0, CountToNext
  <2> QED BY <1>0, <2>1, CountToNext DEF Ran
<1>2. CASE text[next] = "read"
  <2> DEFINE rows == [i \in 1 .. table |-> i]
  <2>1. /\ results'.names = (results.names \/ table > 0)
        /\ results'.data = results.data \o rows
        /\ results'.affected = results.affected /\ results'.error = results.error
        /\ results' \in [names : BOOLEAN, data : Seq(Nat), affected : Nat, error : BOOLEAN]
        /\ UNCHANGED <<table, changes, effects>>
    <3>1. rows \in Seq(Nat) BY DEF SqliteInv, SqliteTypes
    <3>2. results.data \o rows \in Seq(Nat) BY <3>1 DEF SqliteInv, SqliteTypes
    <3>3. results' = [results EXCEPT !.names = @ \/ table > 0, !.data = @ \o rows]
          BY <1>2 DEF Deliver
    <3>4. UNCHANGED <<table, changes, effects>> BY <1>2
    <3> HIDE DEF rows
    <3> QED BY <3>2, <3>3, <3>4 DEF SqliteInv, SqliteTypes
  <2>2. SqliteTypes' BY <1>0, <2>1 DEF SqliteInv, SqliteTypes
  <2>3. rows \in Seq(Nat) /\ Len(rows) = table /\ table \in Nat
        BY DEF SqliteInv, SqliteTypes
  <2>4. results.data \in Seq(Nat) /\ results.names \in BOOLEAN BY DEF SqliteInv, SqliteTypes
  <2>5. Len(results'.data) = Len(results.data) + table BY <2>1, <2>3, <2>4
  <2>6. Named'
    <3>1. \A s \in Seq(Nat) : s # <<>> <=> Len(s) > 0 OBVIOUS
    <3>2. results'.data \in Seq(Nat) BY <2>1
    <3>3. results.names <=> Len(results.data) > 0 BY <2>4, <3>1 DEF SqliteInv, Named
    <3>4. Len(results.data) \in Nat BY <2>4
    <3>5. results'.names <=> Len(results'.data) > 0 BY <2>1, <2>3, <2>5, <3>3, <3>4
    <3> QED BY <3>1, <3>2, <3>5 DEF Named
  <2>7. OnceSoFar'
    <3>1. SUFFICES ASSUME ~redone PROVE OnceSoFar' BY DEF OnceSoFar
    <3>2. Ran("write")' = Ran("write") /\ Ran("read")' = Ran("read") + 1
          BY <1>1, <1>2
    <3>3. Ran("read") = 0 => \A i \in DOMAIN results'.data : results'.data[i] = i
      <4>1. SUFFICES ASSUME results.data = <<>>
                     PROVE  \A i \in DOMAIN results'.data : results'.data[i] = i
            BY <3>1 DEF SqliteInv, OnceSoFar
      <4>2. results'.data = rows BY <2>1, <2>3, <4>1
      <4> QED BY <4>2
    <3>4. effects' = Ran("write")' BY <2>1, <3>1, <3>2 DEF SqliteInv, OnceSoFar
    <3>5. Ran("read") \in Nat BY <1>1
    <3>6. text'[next' - 1] # "write" BY <1>0, <1>2
    <3> QED BY <3>2, <3>3, <3>4, <3>5, <3>6 DEF OnceSoFar
  <2>8. Ends' BY DEF SqliteInv, Ends
  <2> QED BY <2>2, <2>6, <2>7, <2>8 DEF SqliteInv
<1>3. CASE text[next] = "write"
  <2>1. /\ table' = table + 1 /\ changes' = 1 /\ effects' = effects + 1
        /\ UNCHANGED results
        BY <1>3
  <2>2. SqliteTypes' BY <1>0, <2>1 DEF SqliteInv, SqliteTypes
  <2>3. Ran("write")' = Ran("write") + 1 /\ Ran("read")' = Ran("read") BY <1>1, <1>3
  <2>4. OnceSoFar' BY <2>1, <2>3 DEF SqliteInv, OnceSoFar
  <2>5. Named' /\ Ends' BY <2>1 DEF SqliteInv, Named, Ends
  <2> QED BY <2>2, <2>4, <2>5 DEF SqliteInv
<1> QED BY <1>0, <1>2, <1>3 DEF Statements

LEMMA ExecInv == ASSUME SqliteInv, Exec PROVE SqliteInv'
<1>0. phase = "exec" /\ UNCHANGED foreign /\ redone \in BOOLEAN /\ next \in 1 .. Len(text) + 1
      BY DEF Exec, SqliteInv, SqliteTypes
<1>1. CASE next > Len(text)
  <2>1. Stop("OK") /\ UNCHANGED redone BY <1>1 DEF Exec
  <2>2. next = Len(text) + 1 /\ (redone' <=> redone \/ ("OK" = "BUSY" /\ next > 1)) /\ redone' \in BOOLEAN
        BY <1>0, <1>1, <2>1 DEF SqliteInv, SqliteTypes
  <2> QED BY <1>0, <2>1, <2>2, StopInv
<1>2. CASE ~(next > Len(text)) /\ text[next] = "bad"
  <2>1. Stop("ERROR") /\ UNCHANGED redone BY <1>2 DEF Exec
  <2>2. (redone' <=> redone \/ ("ERROR" = "BUSY" /\ next > 1)) /\ redone' \in BOOLEAN BY <1>0, <2>1
  <2> QED BY <1>0, <2>1, <2>2, StopInv
<1>3. CASE ~(next > Len(text)) /\ text[next] # "bad" /\ foreign
  <2>1. Stop("BUSY") /\ redone' = (redone \/ next > 1) BY <1>3 DEF Exec
  <2>2. (redone' <=> redone \/ ("BUSY" = "BUSY" /\ next > 1)) /\ redone' \in BOOLEAN
        BY <2>1, <1>0
  <2> QED BY <1>0, <2>1, <2>2, StopInv
<1>4. CASE ~(next > Len(text)) /\ text[next] # "bad" /\ ~foreign
  <2>1. /\ next' = next + 1 /\ UNCHANGED <<phase, text, status, redone>>
        /\ \/ text[next] = "read" /\ Deliver /\ UNCHANGED <<table, changes, effects>>
           \/ /\ text[next] # "read"
              /\ table' = table + 1 /\ changes' = 1 /\ effects' = effects + 1
              /\ UNCHANGED results
        BY <1>4 DEF Exec
  <2>2. next <= Len(text) BY <1>0, <1>4 DEF SqliteInv, SqliteTypes
  <2> QED BY <1>0, <1>4, <2>1, <2>2, StatementInv
<1> QED BY <1>1, <1>2, <1>3, <1>4

\* The steps between two runs of a text, before and after a query, and those of
\* the other process.
LEMMA RestInv ==
    ASSUME SqliteInv, Lock \/ Unlock \/ Sleep \/ Answer \/ Leave PROVE SqliteInv'
<1>1. CASE Lock \/ Unlock
  <2>1. UNCHANGED connection /\ table' \in Nat /\ foreign' \in BOOLEAN
    <3>1. CASE Lock BY <3>1 DEF Lock, SqliteInv, SqliteTypes
    <3>2. CASE Unlock
      <4>1. table \in Nat /\ table + 1 \in Nat BY DEF SqliteInv, SqliteTypes
      <4>2. table' \in {table, table + 1} /\ foreign' = FALSE /\ UNCHANGED connection
            BY <3>2 DEF Unlock
      <4> QED BY <4>1, <4>2
    <3> QED BY <1>1, <3>1, <3>2
  <2>2. UNCHANGED <<phase, text, next, results, changes, status, effects, redone>>
        BY <2>1 DEF connection
  <2> QED BY <2>1, <2>2 DEF SqliteInv, SqliteTypes, Named, OnceSoFar, Ran, Ends
<1>2. CASE Sleep
  <2>1. phase = "sleep" /\ phase' = "exec" /\ next' = 1
        /\ UNCHANGED <<table, foreign, text, results, changes, status, effects, redone>>
        BY <1>2 DEF Sleep
  <2>2. ~redone => next = 1 BY <2>1 DEF SqliteInv, OnceSoFar
  <2>3. Len(text) \in Nat BY DEF SqliteInv, SqliteTypes
  <2> QED BY <2>1, <2>2, <2>3 DEF SqliteInv, SqliteTypes, Named, OnceSoFar, Ran, Ends
<1>3. CASE Answer
  <2>1. /\ phase = "return" /\ phase' = "answered"
        /\ results' = [results EXCEPT !.affected = changes, !.error = (status # "OK")]
        /\ UNCHANGED <<table, foreign, text, next, changes, status, effects, redone>>
        BY <1>3 DEF Answer
  <2>2. /\ results'.names = results.names /\ results'.data = results.data
        /\ results'.affected = changes /\ results'.error = (status # "OK")
        /\ results' \in [names : BOOLEAN, data : Seq(Nat), affected : Nat, error : BOOLEAN]
        BY <2>1 DEF SqliteInv, SqliteTypes
  <2> QED BY <2>1, <2>2 DEF SqliteInv, SqliteTypes, Named, OnceSoFar, Ran, Ends
<1>4. CASE Leave
  <2>1. /\ phase = "answered" /\ phase' = "out"
        /\ UNCHANGED <<table, foreign, text, next, results, changes, status, effects, redone>>
        BY <1>4 DEF Leave
  <2> QED BY <2>1 DEF SqliteInv, SqliteTypes, Named, OnceSoFar, Ran, Ends
<1> QED BY <1>1, <1>2, <1>3, <1>4

(***************************************************************************)
(* The inductive invariant: as long as no statement has been run again,    *)
(* what was written and delivered is what the statements before `next'     *)
(* write and deliver; SQLITE_BUSY before the first of them runs nothing    *)
(* again.                                                                  *)
(***************************************************************************)
THEOREM SqliteInvHolds == SqliteSpec => []SqliteInv
<1>1. SqliteInit => SqliteInv BY SqliteInitInv
<1>2. SqliteInv /\ [SqliteNext]_sqlitevars => SqliteInv'
  <2> SUFFICES ASSUME SqliteInv, [SqliteNext]_sqlitevars PROVE SqliteInv' OBVIOUS
  <2>1. CASE UNCHANGED sqlitevars
        BY <2>1 DEF sqlitevars, connection, SqliteInv, SqliteTypes, Named, OnceSoFar, Ran, Ends
  <2>2. CASE Lock \/ Unlock \/ Sleep \/ Answer \/ Leave BY <2>2, RestInv
  <2>3. CASE Exec BY <2>3, ExecInv
  <2>4. CASE \E t \in QueryTexts : Query(t) BY <2>4, QueryInv
  <2> QED BY <2>1, <2>2, <2>3, <2>4 DEF SqliteNext, QueryStep
<1> QED BY <1>1, <1>2, PTL DEF SqliteSpec

(***************************************************************************)
(* A query that returns true and was not interrupted in the middle of its  *)
(* text has written and delivered each statement of it once, and nothing   *)
(* of an earlier query is left in the NsqliteResult; one that returns      *)
(* false says so (nsqlite.cxx:46-80): property QueryRunsOnce.              *)
(***************************************************************************)
THEOREM QueryRunsOnceHolds == SqliteSpec => []QueryRunsOnce
<1>1. SqliteInv => QueryRunsOnce
  <2> SUFFICES ASSUME SqliteInv, phase = "answered" PROVE QueryRunsOnce BY DEF QueryRunsOnce
  <2>1. ASSUME status = "OK", NEW kind PROVE Count(kind) = Ran(kind)
    <3>1. next - 1 = Len(text) /\ DOMAIN text = 1 .. Len(text)
          BY <2>1 DEF SqliteInv, SqliteTypes, Ends
    <3> QED BY <3>1 DEF Count, Ran, CountTo
  <2>2. /\ results.error <=> status # "OK"
        /\ status # "BUSY"
        /\ results.names <=> results.data # <<>>
        BY DEF SqliteInv, Ends, Named
  <2>3. ASSUME ~redone, status = "OK"
        PROVE  /\ effects = Count("write")
               /\ text # <<>> /\ text[Len(text)] = "write" => results.affected = 1
               /\ Count("read") = 0 => results.data = <<>>
               /\ Count("read") = 1 => \A i \in DOMAIN results.data : results.data[i] = i
    <3>1. Count("write") = Ran("write") /\ Count("read") = Ran("read") BY <2>1, <2>3
    <3>2. next = Len(text) + 1 /\ results.affected = changes BY <2>3 DEF SqliteInv, Ends
    <3>3. text # <<>> => next > 1 /\ next - 1 = Len(text)
          BY <3>2 DEF SqliteInv, SqliteTypes
    <3> QED BY <2>3, <3>1, <3>2, <3>3 DEF SqliteInv, OnceSoFar
  <2> QED BY <2>2, <2>3 DEF QueryRunsOnce
<1> QED BY <1>1, SqliteInvHolds, PTL

-----------------------------------------------------------------------------
(* Nthread *)

ThreadTypes ==
    /\ object \in {"none", "alive", "destructor", "destroyed", "lost"}
    /\ detached \in BOOLEAN /\ joined \in BOOLEAN /\ tidGot \in BOOLEAN /\ stray \in BOOLEAN
    /\ run \in {"none", "start", "signal", "proc", "ended"}
    /\ storage \in {"none", "joinable", "detached", "reclaimed"}
    /\ DOMAIN callerAt = Callers /\ DOMAIN told = Callers

\* Nothing has happened before the constructor.
Unborn == object = "none" <=> run = "none"

\* What may still be called on the object.
InCalls ==
    /\ \A c \in Callers : callerAt[c] = "tid" => object = "alive"
    /\ callerAt[Owner] = "join" => object = "alive"
    /\ callerAt[Owner] \in {"timedjoin", "detach"} => object = "destructor"

\* The kernel's thread, the thread itself and the flags of the object agree.
Storage ==
    /\ storage = "reclaimed" => run = "ended"
    /\ storage = "detached" => run # "ended"
    /\ joined => storage = "reclaimed"
    /\ detached /\ object # "none" => storage \in {"detached", "reclaimed"}
    /\ object = "destroyed" => storage \in {"detached", "reclaimed"}

\* What the thread has written.
Written ==
    /\ run \in {"signal", "proc", "ended"} => tid = Tid
    /\ tidGot => run \in {"proc", "ended"}
    /\ stray => object \in {"destroyed", "lost"}

ThreadInv == ThreadTypes /\ Unborn /\ InCalls /\ Storage /\ Written /\ TidIsKnown

USE DEF Callers, Tid, Unasked

LEMMA ThreadInitInv == ThreadInit => ThreadInv
BY DEF ThreadInit, ThreadInv, ThreadTypes, Unborn, InCalls, Storage, Written, TidIsKnown

LEMMA CreateInv ==
    ASSUME ThreadInv, NEW d \in BOOLEAN, NEW n \in BOOLEAN, Create(d, n) PROVE ThreadInv'
BY DEF Create, attributes, ThreadInv, ThreadTypes, Unborn, InCalls, Storage, Written, TidIsKnown

\* The thread writes to an object that is gone only if nobody joined it, and
\* nobody has been told its id: it has not signalled yet.
LEMMA getTidAndCallInv == ASSUME ThreadInv, getTidAndCall PROVE ThreadInv'
<1>1. run \in {"start", "signal"} BY DEF getTidAndCall
<1>2. ~joined /\ \A c \in Callers : told[c] = -1
      BY <1>1 DEF ThreadInv, Storage, TidIsKnown
<1>3. object # "none" BY <1>1 DEF ThreadInv, Unborn
<1>4. stray' => object \in {"destroyed", "lost"}
      BY <1>3 DEF getTidAndCall, Exists, ThreadInv, ThreadTypes, Written
<1>5. stray' \in BOOLEAN BY DEF getTidAndCall, Exists, ThreadInv, ThreadTypes
<1>6. TidIsKnown' BY <1>2, <1>4 DEF getTidAndCall, object_, ThreadInv, ThreadTypes, TidIsKnown
<1>7. CASE run = "start"
      BY <1>3, <1>4, <1>5, <1>6, <1>7 DEF getTidAndCall, object_, attributes, ThreadInv,
         ThreadTypes, Unborn, InCalls, Storage, Written
<1>8. CASE run = "signal"
      BY <1>3, <1>4, <1>5, <1>6, <1>8 DEF getTidAndCall, object_, attributes, ThreadInv,
         ThreadTypes, Unborn, InCalls, Storage, Written
<1> QED BY <1>1, <1>7, <1>8

LEMMA ThreadEndsInv == ASSUME ThreadInv, ThreadEnds PROVE ThreadInv'
BY DEF ThreadEnds, object_, attributes, ThreadInv, ThreadTypes, Unborn, InCalls, Storage, Written,
       TidIsKnown

LEMMA GetTidInv == ASSUME ThreadInv, NEW c \in Callers, GetTid(c) PROVE ThreadInv'
BY DEF GetTid, WaitForTid, Go, object_, attributes, ThreadInv, ThreadTypes, Unborn, InCalls,
       Storage, Written, TidIsKnown

LEMMA GetReturnValueInv == ASSUME ThreadInv, GetReturnValue PROVE ThreadInv'
<1>1. UNCHANGED <<object, detached, thread_, told>> BY DEF GetReturnValue
<1>2. CASE /\ object = "alive" /\ Go(Owner, "out", "join")
           /\ UNCHANGED <<joined, storage>>
      BY <1>1, <1>2 DEF Go, thread_, ThreadInv, ThreadTypes, Unborn, InCalls, Storage, Written,
         TidIsKnown
<1>3. CASE /\ run = "ended" /\ Go(Owner, "join", "out")
           /\ joined' = TRUE /\ storage' = "reclaimed"
  <2>1. object = "alive" /\ ~stray BY <1>3 DEF Go, ThreadInv, InCalls, Written
  <2>2. TidIsKnown' BY <1>1, <2>1 DEF thread_, ThreadInv, TidIsKnown
  <2> QED BY <1>1, <1>3, <2>1, <2>2 DEF Go, thread_, ThreadInv, ThreadTypes, Unborn, InCalls,
          Storage, Written
<1> QED BY <1>2, <1>3 DEF GetReturnValue

LEMMA DestroyInv == ASSUME ThreadInv, Destroy PROVE ThreadInv'
BY DEF Destroy, Go, thread_, attributes, ThreadInv, ThreadTypes, Unborn, InCalls, Storage, Written,
       TidIsKnown

\* killThread()
LEMMA KillThreadInv == ASSUME ThreadInv, JoinInTime \/ JoinTimesOut \/ Detach PROVE ThreadInv'
<1>1. CASE JoinInTime
      BY <1>1 DEF JoinInTime, Go, thread_, attributes, ThreadInv, ThreadTypes, Unborn, InCalls,
         Storage, Written, TidIsKnown
<1>2. CASE JoinTimesOut
      BY <1>2 DEF JoinTimesOut, Go, object_, thread_, attributes, ThreadInv, ThreadTypes, Unborn,
         InCalls, Storage, Written, TidIsKnown
<1>3. CASE Detach
      BY <1>3 DEF Detach, Go, thread_, attributes, ThreadInv, ThreadTypes, Unborn, InCalls,
         Storage, Written, TidIsKnown
<1> QED BY <1>1, <1>2, <1>3

LEMMA ThreadQuietInv == ASSUME ThreadInv, UNCHANGED <<object_, thread_, storage, callerAt, told>>
                  PROVE ThreadInv'
BY DEF object_, thread_, ThreadInv, ThreadTypes, Unborn, InCalls, Storage, Written, TidIsKnown

(***************************************************************************)
(* The inductive invariant: who may be inside a call of the object, and    *)
(* what the thread, the kernel and the object's flags say of each other.   *)
(***************************************************************************)
THEOREM ThreadInvHolds == ThreadSpec => []ThreadInv
<1>1. ThreadInit => ThreadInv BY ThreadInitInv
<1>2. ThreadInv /\ [ThreadNext]_threadvars => ThreadInv'
  <2> SUFFICES ASSUME ThreadInv, [ThreadNext]_threadvars PROVE ThreadInv' OBVIOUS
  <2>1. CASE UNCHANGED threadvars BY <2>1, ThreadQuietInv DEF threadvars
  <2>2. CASE ThreadNext
    <3>1. CASE Adjust BY <3>1, ThreadQuietInv DEF Adjust
    <3>2. CASE \E d, n \in BOOLEAN : Create(d, n) BY <3>2, CreateInv
    <3>3. CASE \E c \in Callers : GetTid(c) BY <3>3, GetTidInv
    <3>4. CASE getTidAndCall BY <3>4, getTidAndCallInv
    <3>5. CASE ThreadEnds BY <3>5, ThreadEndsInv
    <3>6. CASE GetReturnValue BY <3>6, GetReturnValueInv
    <3>7. CASE Destroy BY <3>7, DestroyInv
    <3>8. CASE JoinInTime \/ JoinTimesOut \/ Detach BY <3>8, KillThreadInv
    <3> QED BY <2>2, <3>1, <3>2, <3>3, <3>4, <3>5, <3>6, <3>7, <3>8 DEF ThreadNext
  <2> QED BY <2>1, <2>2
<1> QED BY <1>1, <1>2, PTL DEF ThreadSpec

(***************************************************************************)
(* No thread is left behind as a zombie by a destructor, the id that       *)
(* getTid() returns is the thread's, and the thread does not touch an      *)
(* object whose owner had reason to think it would not (nthread.cxx:35-36, *)
(* 350-354): property ThreadAccounted.                                     *)
(***************************************************************************)
THEOREM ThreadAccountedHolds == ThreadSpec => []ThreadAccounted
<1>1. ThreadInv => ThreadAccounted BY DEF ThreadInv, Storage, ThreadAccounted, NoZombies
<1> QED BY <1>1, ThreadInvHolds, PTL

-----------------------------------------------------------------------------
(* The attributes *)

AttributesInv ==
    /\ kernel.cores = adjusted.cores \cap Cores
    /\ kernel.model = adjusted.model /\ kernel.priority = adjusted.priority
    /\ DOMAIN kernel = {"model", "priority", "cores"} /\ DOMAIN adjusted = DOMAIN kernel

LEMMA AdjustKeeps == ASSUME AttributesInv, Adjust PROVE AttributesInv'
<1>1. ASSUME NEW flags \in SUBSET MaskBits, SetThreadAffinity(flags) PROVE AttributesInv'
  <2> DEFINE mask == IF flags = {} THEN AllCores ELSE flags
  <2>1. Bits(mask) \cap Cores = mask \cap Cores BY CoresAssumption DEF Bits
  <2> HIDE DEF mask
  <2> QED BY <1>1, <2>1 DEF SetThreadAffinity, attributes, AttributesInv, mask
<1>2. ASSUME NEW m \in Models, NEW p \in Priorities, SetSchedulingModel(m, p) PROVE AttributesInv'
      BY <1>2 DEF SetSchedulingModel, attributes, AttributesInv
<1>3. ASSUME NEW p \in Priorities, SetSchedulingPriority(p) PROVE AttributesInv'
      BY <1>3 DEF SetSchedulingPriority, attributes, AttributesInv
<1> QED BY <1>1, <1>2, <1>3 DEF Adjust

\* The text has each core where the Nbinary will look for it.
LEMMA AffinityIsCores == ASSUME kernel.cores \subseteq Cores PROVE getThreadAffinity = kernel.cores
<1>1. \A i \in 1 .. SetSize : AffinityText[i] = 1 <=> SetSize - i \in kernel.cores
      BY DEF AffinityText
<1>2. \A c \in Cores : c \in 0 .. SetSize - 1 /\ SetSize - c \in 1 .. SetSize
                     /\ SetSize - (SetSize - c) = c
      BY CoresAssumption
<1>3. getThreadAffinity \subseteq kernel.cores BY <1>1 DEF getThreadAffinity
<1>4. kernel.cores \subseteq getThreadAffinity BY <1>1, <1>2 DEF getThreadAffinity
<1> QED BY <1>3, <1>4

(***************************************************************************)
(* Whatever the owner asks for, in whatever order, and whichever of the    *)
(* calls fail, the getters tell what the last calls that returned have     *)
(* asked for, of the cores there are (nthread.h:60-88): property           *)
(* AttributesAsAsked.                                                      *)
(***************************************************************************)
THEOREM AttributesAsAskedHolds == ThreadSpec => []AttributesAsAsked
<1>1. ThreadInit => AttributesInv BY DEF ThreadInit, Default, AllCores, AttributesInv
<1>2. AttributesInv /\ [ThreadNext]_threadvars => AttributesInv'
  <2> SUFFICES ASSUME AttributesInv, [ThreadNext]_threadvars PROVE AttributesInv' OBVIOUS
  <2>1. CASE Adjust BY <2>1, AdjustKeeps
  <2>2. CASE UNCHANGED attributes BY <2>2 DEF attributes, AttributesInv
  <2>3. CASE UNCHANGED threadvars BY <2>2, <2>3 DEF threadvars
  <2>4. CASE ThreadNext /\ ~Adjust
    <3>1. UNCHANGED attributes
          BY <2>4 DEF ThreadNext, Create, getTidAndCall, ThreadEnds, GetTid, GetReturnValue,
             Destroy, JoinInTime, JoinTimesOut, Detach
    <3> QED BY <2>2, <3>1
  <2> QED BY <2>1, <2>3, <2>4
<1>3. AttributesInv => AttributesAsAsked BY AffinityIsCores DEF AttributesInv, AttributesAsAsked
<1> QED BY <1>1, <1>2, <1>3, PTL DEF ThreadSpec
=============================================================================
