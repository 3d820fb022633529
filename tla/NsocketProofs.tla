---------------------------- MODULE NsocketProofs ----------------------------
(***************************************************************************)
(* Proofs about Nsocket for any number of threads that wait, any lengths   *)
(* and any calls of the owner.                                             *)
(***************************************************************************)
EXTENDS Nsocket, TLAPS

-----------------------------------------------------------------------------
(* Sequences, element by element *)

LEMMA Joined ==
    ASSUME NEW S, NEW s \in Seq(S), NEW t \in Seq(S)
    PROVE  /\ s \o t \in Seq(S)
           /\ Len(s \o t) = Len(s) + Len(t)
           /\ \A i \in 1 .. Len(s) : (s \o t)[i] = s[i]
           /\ \A i \in Len(s) + 1 .. Len(s) + Len(t) : (s \o t)[i] = t[i - Len(s)]
OBVIOUS

LEMMA SplitAt ==
    ASSUME NEW S, NEW s \in Seq(S), NEW n \in 0 .. Len(s)
    PROVE  /\ SubSeq(s, 1, n) \in Seq(S)
           /\ Len(SubSeq(s, 1, n)) = n
           /\ \A i \in 1 .. n : SubSeq(s, 1, n)[i] = s[i]
           /\ SubSeq(s, n + 1, Len(s)) \in Seq(S)
           /\ Len(SubSeq(s, n + 1, Len(s))) = Len(s) - n
           /\ \A i \in 1 .. Len(s) - n : SubSeq(s, n + 1, Len(s))[i] = s[n + i]
OBVIOUS

LEMMA SameElements ==
    ASSUME NEW S, NEW s \in Seq(S), NEW t \in Seq(S), Len(s) = Len(t),
           \A i \in 1 .. Len(s) : s[i] = t[i]
    PROVE  s = t
OBVIOUS

LEMMA Parted ==
    ASSUME NEW S, NEW s \in Seq(S), NEW n \in 0 .. Len(s)
    PROVE  s = SubSeq(s, 1, n) \o SubSeq(s, n + 1, Len(s))
<1> DEFINE a == SubSeq(s, 1, n)
           b == SubSeq(s, n + 1, Len(s))
<1>1. /\ a \in Seq(S) /\ Len(a) = n /\ \A i \in 1 .. n : a[i] = s[i]
      /\ b \in Seq(S) /\ Len(b) = Len(s) - n /\ \A i \in 1 .. Len(s) - n : b[i] = s[n + i]
  BY SplitAt
<1> HIDE DEF a, b
<1>2. /\ a \o b \in Seq(S) /\ Len(a \o b) = Len(s)
      /\ \A i \in 1 .. n : (a \o b)[i] = s[i]
      /\ \A i \in n + 1 .. Len(s) : (a \o b)[i] = b[i - n]
  BY <1>1, Joined
<1>3. \A i \in 1 .. Len(s) : (a \o b)[i] = s[i]
  BY <1>1, <1>2
<1>4. a \o b = s
  BY <1>2, <1>3, SameElements
<1>5. QED
  BY <1>4 DEF a, b

LEMMA Appended ==
    ASSUME NEW S, NEW s \in Seq(S), NEW e \in S
    PROVE  /\ Append(s, e) \in Seq(S)
           /\ Len(Append(s, e)) = Len(s) + 1
           /\ \A i \in 1 .. Len(s) : Append(s, e)[i] = s[i]
           /\ Append(s, e)[Len(s) + 1] = e
OBVIOUS

LEMMA Lengths ==
    ASSUME NEW S, NEW s \in Seq(S)
    PROVE  Len(s) \in Nat /\ (Len(s) = 0 <=> s = <<>>)
OBVIOUS

-----------------------------------------------------------------------------
(* The auto-buffer thread and the request to stop it *)

BufferPlaces ==
    {"out", "loop", "signal"} \cup WaitPlaces \cup RecvPlaces \cup FillPlaces

\* Where the auto-buffer thread and the owner can be, and on what call.
Places ==
    /\ DOMAIN pc = Threads /\ DOMAIN mode = Threads
    /\ pc[Buffer] \in BufferPlaces
    /\ pc[Buffer] \notin {"out", "loop"} => mode[Buffer] = "fill"
    /\ pc[Owner] \in {"out", "cpipe", "cflag", "cthread", "stop", "join", "forget", "tell",
                      "cfd", "cclear", "cdelete", "closed"}

\* The request to stop is made while the thread runs, and the thread takes it
\* with it when it leaves; only then does the owner forget the thread.
Stopping ==
    /\ thread \in BOOLEAN /\ stop \in BOOLEAN
    /\ stop => pc[Owner] = "join" /\ pc[Buffer] # "out"
    /\ thread /\ pc[Buffer] = "out" => pc[Owner] \in {"join", "forget"}
    /\ pc[Owner] \in {"stop", "join", "forget"} => thread
    /\ pc[Owner] = "forget" => pc[Buffer] = "out"
    /\ ~thread => pc[Buffer] = "out"
    /\ pc[Owner] \in {"tell", "cfd", "cclear", "cdelete", "closed"} => ~thread
    /\ ~fdOpen => pc[Owner] \in {"cclear", "cdelete", "closed"}

IInv == Places /\ Stopping

\* Threads are told apart, so a step of one leaves the others where they are.
LEMMA Apart ==
    /\ Buffer \in Threads /\ Owner \in Threads /\ Buffer # Owner
    /\ \A u \in Users : u \in Threads /\ u # Buffer /\ u # Owner
BY ThreadAssumption DEF Threads, Users

\* Steps that leave the owner, the request and the thread's place alone.
LEMMA Elsewhere ==
    ASSUME IInv, UNCHANGED <<thread, stop, fdOpen>>,
           DOMAIN pc' = Threads, DOMAIN mode' = Threads,
           pc'[Owner] = pc[Owner], pc'[Buffer] = pc[Buffer], mode'[Buffer] = mode[Buffer]
    PROVE  IInv'
BY DEF IInv, Places, Stopping

\* Steps of the thread inside updateReadBuffer() and rawRead().
LEMMA Inside ==
    ASSUME IInv, UNCHANGED <<thread, stop, fdOpen, mode>>, DOMAIN pc' = Threads,
           pc'[Owner] = pc[Owner], pc[Buffer] \notin {"out", "loop"},
           pc'[Buffer] \in BufferPlaces \ {"out"}
    PROVE  IInv'
BY DEF IInv, Places, Stopping

\* A step of one thread moves no other.
LEMMA MoveOthers ==
    ASSUME DOMAIN pc = Threads, NEW t \in Threads, NEW from, NEW to, Move(t, from, to)
    PROVE  /\ DOMAIN pc' = Threads
           /\ pc[t] = from /\ pc'[t] = to
           /\ \A s \in Threads : s # t => pc'[s] = pc[s]
BY DEF Move

\* The same for steps that also say which call they belong to.
LEMMA EnterOthers ==
    ASSUME DOMAIN pc = Threads, DOMAIN mode = Threads, NEW t \in Threads,
           NEW from, NEW to, NEW m, Enter(t, from, to, m)
    PROVE  /\ DOMAIN pc' = Threads /\ DOMAIN mode' = Threads
           /\ pc[t] = from /\ pc'[t] = to /\ mode'[t] = m
           /\ \A s \in Threads : s # t => pc'[s] = pc[s] /\ mode'[s] = mode[s]
BY DEF Enter, Move

LEMMA UserKeeps ==
    ASSUME IInv, NEW u \in Users, UserStep(u) \/ Read(u) \/ WaitForSocketEvent(u)
    PROVE  IInv'
<1> USE Apart
<1>1. DOMAIN pc = Threads /\ DOMAIN mode = Threads
  BY DEF IInv, Places
<1> SUFFICES /\ UNCHANGED <<thread, stop, fdOpen>>
             /\ DOMAIN pc' = Threads /\ DOMAIN mode' = Threads
             /\ \A s \in Threads : s # u => pc'[s] = pc[s] /\ mode'[s] = mode[s]
  BY Elsewhere
<1>2. CASE TestPipe(u)
  BY <1>1, <1>2 DEF TestPipe, Move
<1>3. CASE MakePipe(u) \/ NewPipe(u) \/ FlagPipe(u)
  BY <1>1, <1>3 DEF MakePipe, NewPipe, FlagPipe, Move
<1>4. CASE Poll(u)
  BY <1>1, <1>4 DEF Poll, Move
<1>5. CASE Wake(u)
  BY <1>1, <1>5 DEF Wake, Move
<1>6. CASE RawTest(u)
  BY <1>1, <1>6 DEF RawTest
<1>7. CASE Recv(u)
  BY <1>1, <1>7 DEF Recv, RecvReturns, Move
<1>8. CASE RecvWakes(u)
  BY <1>1, <1>8 DEF RecvWakes, RecvReturns, Move
<1>9. CASE MakeBlock(u) \/ FillTest(u) \/ Push(u) \/ Misuse(u)
  BY <1>1, <1>9 DEF MakeBlock, FillTest, Push, Misuse, Move
<1>10. CASE ReadSize(u) \/ ReadTest(u) \/ ReadStatus(u) \/ TakeBuffered(u) \/ ReadMore(u)
  BY <1>1, <1>10 DEF ReadSize, ReadTest, ReadStatus, TakeBuffered, ReadMore, Move
<1>11. CASE ReadThread(u)
  BY <1>1, <1>11 DEF ReadThread, Enter, Move
<1>12. CASE WaitStatus(u) \/ WaitBuffer(u) \/ WaitThread(u) \/ WaitDone(u)
  BY <1>1, <1>12 DEF WaitStatus, WaitBuffer, WaitThread, WaitDone, Move
<1>13. CASE Read(u)
  BY <1>1, <1>13 DEF Read, Enter, Move
<1>14. CASE WaitForSocketEvent(u)
  BY <1>1, <1>14 DEF WaitForSocketEvent, Enter, Move
<1>15. QED
  BY <1>2, <1>3, <1>4, <1>5, <1>6, <1>7, <1>8, <1>9, <1>10, <1>11, <1>12, <1>13, <1>14
     DEF UserStep, RawEventStep, RawReadStep, FillStep, ReadStep, EventStep

LEMMA BufferKeeps ==
    ASSUME IInv, BufferStep
    PROVE  IInv'
<1> USE Apart DEF BufferPlaces, WaitPlaces, RecvPlaces, FillPlaces
<1>1. /\ DOMAIN pc = Threads /\ DOMAIN mode = Threads
      /\ pc[Buffer] \in BufferPlaces
      /\ pc[Buffer] \notin {"out", "loop"} => mode[Buffer] = "fill"
  BY DEF IInv, Places
<1>2. CASE BufferLoop
  <2>1. CASE stop
    <3>1. /\ Move(Buffer, "loop", "out")
          /\ stop' = FALSE /\ UNCHANGED <<thread, mode, fdOpen>> /\ pc[Owner] = "join"
      BY <1>2, <2>1 DEF BufferLoop, IInv, Stopping
    <3>2. /\ DOMAIN pc' = Threads
          /\ pc'[Buffer] = "out" /\ pc'[Owner] = "join"
      BY <1>1, <3>1, MoveOthers
    <3>3. QED
      BY <3>1, <3>2 DEF IInv, Places, Stopping, BufferPlaces
  <2>2. CASE ~stop
    <3>1. Enter(Buffer, "loop", "block", "fill")
      BY <1>2, <2>2, Zenon DEF BufferLoop
    <3>2. stop' = stop /\ thread' = thread /\ fdOpen' = fdOpen
      BY <1>2, <2>2 DEF BufferLoop, IInv, Stopping
    <3>3. /\ DOMAIN pc' = Threads /\ DOMAIN mode' = Threads
          /\ pc[Buffer] = "loop" /\ pc'[Buffer] = "block" /\ mode'[Buffer] = "fill"
          /\ pc'[Owner] = pc[Owner]
      BY <1>1, <3>1, EnterOthers
    <3>4. QED
      BY <3>2, <3>3 DEF IInv, Places, Stopping, BufferPlaces
  <2>3. QED
    BY <2>1, <2>2
<1>3. CASE SignalDone
  BY <1>1, <1>3, MoveOthers, Inside DEF SignalDone, BufferPlaces
<1>4. CASE TestPipe(Buffer)
  BY <1>1, <1>4, Inside DEF TestPipe, Move, BufferPlaces
<1>5. CASE MakePipe(Buffer) \/ NewPipe(Buffer) \/ FlagPipe(Buffer)
  BY <1>1, <1>5, Inside DEF MakePipe, NewPipe, FlagPipe, Move, BufferPlaces
<1>6. CASE Poll(Buffer)
  BY <1>1, <1>6, Inside DEF Poll, Move, AfterPoll, BufferPlaces
<1>7. CASE Wake(Buffer)
  BY <1>1, <1>7, Inside DEF Wake, Move, AfterPoll, BufferPlaces
<1>8. CASE RawTest(Buffer)
  <2>1. mode[Buffer] = "fill"
    BY <1>1, <1>8 DEF RawTest
  <2>2. pc'[Buffer] \in {"recv", "pipe", "fill"}
    BY <1>1, <1>8, <2>1 DEF RawTest
  <2>3. QED
    BY <1>1, <1>8, <2>2, Inside DEF RawTest, BufferPlaces
<1>9. CASE Recv(Buffer)
  BY <1>1, <1>9, Inside DEF Recv, RecvReturns, Move, BufferPlaces
<1>10. CASE RecvWakes(Buffer)
  BY <1>1, <1>10, Inside DEF RecvWakes, RecvReturns, Move, BufferPlaces
<1>11. CASE FillTest(Buffer)
  BY <1>1, <1>11, Inside DEF FillTest, Move, BufferPlaces
<1>12. CASE Push(Buffer)
  BY <1>1, <1>12, Inside DEF Push, Move, BufferPlaces
<1>13. CASE ReadStep(Buffer) \/ EventStep(Buffer)
  BY <1>1, <1>13 DEF ReadStep, EventStep, ReadPlaces, EventPlaces
<1>14. CASE MakeBlock(Buffer)
  <2>1. pc[Buffer] = "block" /\ mode[Buffer] = "fill" /\ fdOpen
    BY <1>1, <1>14 DEF MakeBlock, IInv, Stopping
  <2>2. pc'[Buffer] = "fill"
    BY <1>1, <1>14, <2>1 DEF MakeBlock
  <2>3. QED
    BY <1>1, <1>14, <2>1, <2>2, Inside DEF MakeBlock
<1>15. CASE Misuse(Buffer)
  BY <1>1, <1>15, Elsewhere DEF Misuse
<1>16. QED
  BY <1>2, <1>3, <1>4, <1>5, <1>6, <1>7, <1>8, <1>9, <1>10, <1>11, <1>12, <1>13, <1>14, <1>15
     DEF BufferStep, UserStep, RawEventStep, RawReadStep, FillStep, ReadStep, EventStep

LEMMA OwnerKeeps ==
    ASSUME IInv, OwnerStep \/ OwnerCall
    PROVE  IInv'
<1> USE Apart DEF IInv, Places, Stopping
<1>1. CASE Enable
  BY <1>1 DEF Enable, BufferPlaces, WaitPlaces, RecvPlaces, FillPlaces
<1>2. CASE Disable
  BY <1>2, EnterOthers DEF Disable
<1>3. CASE CloseSocket
  BY <1>3, EnterOthers DEF CloseSocket
<1>4. CASE StopThread
  BY <1>4, MoveOthers DEF StopThread
<1>5. CASE Join
  BY <1>5, MoveOthers DEF Join
<1>6. CASE ForgetThread
  <2>1. pc[Owner] = "forget" /\ thread' = FALSE /\ UNCHANGED <<stop, mode, fdOpen>>
    BY <1>6 DEF ForgetThread, Move
  <2>2. /\ pc'[Owner] = "tell" /\ pc'[Buffer] = pc[Buffer] /\ DOMAIN pc' = Threads
    BY <1>6, MoveOthers DEF ForgetThread
  <2>3. QED
    BY <2>1, <2>2
<1>7. CASE TellWaiters
  BY <1>7, MoveOthers DEF TellWaiters
<1>8. CASE ClosePipe \/ ClearPipeFlag
  BY <1>8, MoveOthers DEF ClosePipe, ClearPipeFlag
<1>9. CASE CloseThread
  BY <1>9, MoveOthers DEF CloseThread
<1>10. CASE CloseFd \/ ClearBuffer \/ DeleteBlock
  BY <1>10, MoveOthers DEF CloseFd, ClearBuffer, DeleteBlock
<1>11. QED
  BY <1>1, <1>2, <1>3, <1>4, <1>5, <1>6, <1>7, <1>8, <1>9, <1>10 DEF OwnerStep, OwnerCall

LEMMA Initially == Init /\ AutoBuffer \in BOOLEAN => IInv
<1> SUFFICES ASSUME Init, AutoBuffer \in BOOLEAN PROVE IInv
  OBVIOUS
<1> USE Apart DEF Init
<1>1. /\ DOMAIN pc = Threads /\ DOMAIN mode = Threads /\ pc[Owner] = "out"
      /\ thread = AutoBuffer /\ stop = FALSE /\ fdOpen = TRUE
  OBVIOUS
<1>2. pc[Buffer] = IF AutoBuffer THEN "loop" ELSE "out"
  OBVIOUS
<1>3. Places
  BY <1>1, <1>2 DEF Places, BufferPlaces
<1>4. CASE AutoBuffer
  BY <1>1, <1>2, <1>3, <1>4 DEF IInv, Stopping
<1>5. CASE ~AutoBuffer
  <2>1. thread = FALSE /\ pc[Buffer] = "out"
    BY <1>1, <1>2, <1>5
  <2>2. QED
    BY <1>1, <1>3, <2>1 DEF IInv, Stopping
<1>6. QED
  BY <1>4, <1>5

LEMMA IInvStep == IInv /\ [Next]_vars => IInv'
<1> SUFFICES ASSUME IInv, [Next]_vars PROVE IInv'
  OBVIOUS
<1>1. CASE UNCHANGED vars
  BY <1>1 DEF vars, IInv, Places, Stopping
<1>2. CASE PeerSend \/ PeerClose
  BY <1>2 DEF PeerSend, PeerClose, IInv, Places, Stopping
<1>3. CASE \E u \in Users : UserStep(u) \/ Read(u) \/ WaitForSocketEvent(u)
  BY <1>3, UserKeeps
<1>4. CASE BufferStep
  BY <1>4, BufferKeeps
<1>5. CASE OwnerStep \/ OwnerCall
  BY <1>5, OwnerKeeps
<1>6. QED
  BY <1>1, <1>2, <1>3, <1>4, <1>5 DEF Next

(***************************************************************************)
(* setAutoReadBuffering() and closeSocket() forget the auto-buffer thread  *)
(* only when it has left autoBufferProc() with the request to stop: no     *)
(* thread uses the socket after its descriptor is closed, and no request   *)
(* is left to stop the next thread.                                        *)
(***************************************************************************)
THEOREM NoThreadLeftBehindHolds == SafeSpec => []NoThreadLeftBehind
<1>1. Init => IInv
  BY Initially, ParameterAssumption
<1>2. IInv => NoThreadLeftBehind
  BY DEF IInv, Stopping, NoThreadLeftBehind
<1>3. QED
  BY <1>1, <1>2, IInvStep, PTL DEF SafeSpec

-----------------------------------------------------------------------------
(* Where a thread is and which call brought it there *)

Modes ==
    /\ \A t \in Threads :
          /\ pc[t] \in WaitPlaces => mode[t] \in {"fill", "direct", "wait"}
          /\ pc[t] \in RecvPlaces => mode[t] \in {"fill", "fillNow", "direct"}
          /\ pc[t] = "fill" => mode[t] = "fill"
          /\ pc[t] \in {"block", "push"} => mode[t] \in {"fill", "fillNow"}
          /\ pc[t] \in {"wstatus", "wbuffer", "wthread"} => mode[t] = "wait"
    /\ \A w \in Waiters :
          /\ pc[w] \in WaitPlaces \cup {"out", "wstatus", "wbuffer", "wthread", "wevent"}
          /\ pc[w] # "out" => mode[w] = "wait"

Structure == TypeOK /\ IInv /\ Modes

-----------------------------------------------------------------------------
(* One thread at a time reads the socket *)

\* updateReadBuffer(), or rawRead() into the user's own memory.
InFill(t) ==
    mode[t] \in {"fill", "fillNow"} /\ pc[t] \in WaitPlaces \cup RecvPlaces \cup FillPlaces

InDirect(t) == mode[t] = "direct" /\ pc[t] \in WaitPlaces \cup RecvPlaces

(***************************************************************************)
(* A reader reads the socket only while there is no auto-buffer thread,    *)
(* and m_socketReadBuffer is empty except inside updateReadBuffer(), after *)
(* its first test.                                                         *)
(***************************************************************************)
Holding(t) == InFill(t) /\ pc[t] # "block"

Alone ==
    /\ \A r \in Readers : InFill(r) \/ InDirect(r) => ~thread
    /\ \A t \in Threads : raw[t] # <<>> => Holding(t)

-----------------------------------------------------------------------------
(* Reads past the read buffer *)

(***************************************************************************)
(* read() goes past m_readBuffer only when theBufferReadsFlag is FALSE.    *)
(* If setAutoReadBuffering( false ) then ends the auto-buffer thread       *)
(* between the test of the buffer and the test of the thread, bytes are    *)
(* left in the buffer that come before those on the socket.                *)
(***************************************************************************)
NeverSwitchedOff ==
    \/ FALSE \notin MayBuffer
    \/ "disable" \notin Calls
    \/ ~AutoBuffer /\ "enable" \notin Calls

\* On the way to a recv() past the buffer, which r has found empty.
Past(r) ==
    \/ pc[r] \in {"rtop", "rstatus"} /\ ~found
    \/ pc[r] = "rmore" /\ Len(taken[r]) < ReadLength
    \/ pc[r] = "rthread"

DirectReads ==
    /\ FALSE \notin MayBuffer => \A r \in Readers : pc[r] # "out" => flags.buffer
    /\ "disable" \notin Calls /\ pc[Owner] # "out" =>
          mode[Owner] = "close" /\ status # "CONNECTED"
    /\ ~AutoBuffer /\ "enable" \notin Calls => ~thread
    /\ \A r \in Readers : InDirect(r) =>
          /\ ~flags.buffer
          /\ buffer = <<>> \/ (pc[r] = "raw" /\ status # "CONNECTED")
    /\ \A r \in Readers :
          Past(r) /\ ~flags.buffer => thread \/ buffer = <<>> \/ status # "CONNECTED"

-----------------------------------------------------------------------------
(* The order of the bytes *)

\* s is the bytes first + 1, first + 2, ...
Follows(s, first) == \A i \in 1 .. Len(s) : s[i] = first + i

(***************************************************************************)
(* The n bytes that were sent: the first h are handed to read(), where con *)
(* is what has been consumed of them (all, if whole), and the others are   *)
(* in buf, hand and inb, the two buffers and the socket, without a gap.    *)
(***************************************************************************)
Linked(h, con, buf, hand, inb, n, whole) ==
    /\ n = h + Len(buf) + Len(hand) + Len(inb)
    /\ Follows(buf, h)
    /\ Follows(hand, h + Len(buf))
    /\ Follows(inb, h + Len(buf) + Len(hand))
    /\ InOrder(con)
    /\ \A i \in 1 .. Len(con) : con[i] <= h
    /\ whole => Len(con) = h /\ Follows(con, 0)

Chain(t) ==
    \E h \in Nat : Linked(h, consumed, buffer, raw[t], inbox, sent, Undropped)

ByteChain == \E t \in Threads : OnlyFiller(t) /\ Chain(t)

-----------------------------------------------------------------------------
(* Types *)

CallModes == {"none", "fill", "fillNow", "direct", "wait", "close"}

\* Steps that move threads and change neither bytes nor pipes.
LEMMA TypeMoves ==
    ASSUME TypeOK, UNCHANGED <<peer, pipeNo, closedPipes, buffer, locals>>,
           fdOpen' \in BOOLEAN, pipeFlag' \in BOOLEAN, thread' \in BOOLEAN, stop' \in BOOLEAN,
           status' \in {"CONNECTED", "REMOTE_CLOSED", "CLOSED"}, done' \in 0 .. MaxDone,
           pc' \in [Threads -> ThreadStates], mode' \in [Threads -> CallModes]
    PROVE  TypeOK'
BY DEF TypeOK, peer, locals, CallModes

\* Steps that move threads and change only what they have read.
LEMMA TypeReads ==
    ASSUME TypeOK,
           UNCHANGED <<peerOpen, sent, fdOpen, pipe, thread, stop, mode, polled, block, flags>>,
           found' \in BOOLEAN,
           inbox' \in Seq(Bytes), buffer' \in Seq(Bytes), consumed' \in Seq(Bytes),
           raw' \in [Threads -> Seq(Bytes)], taken' \in [Threads -> Seq(Bytes)],
           \A s \in Threads : Len(taken'[s]) <= ReadLength,
           status' \in {"CONNECTED", "REMOTE_CLOSED", "CLOSED"}, done' \in 0 .. MaxDone,
           pc' \in [Threads -> ThreadStates]
    PROVE  TypeOK'
BY DEF TypeOK, pipe

LEMMA MoveTyped ==
    ASSUME TypeOK, NEW t \in Threads, NEW from, NEW to \in ThreadStates, Move(t, from, to)
    PROVE  pc' \in [Threads -> ThreadStates]
BY DEF TypeOK, Move

LEMMA EnterTyped ==
    ASSUME TypeOK, NEW t \in Threads, NEW from, NEW to \in ThreadStates, NEW m \in CallModes,
           Enter(t, from, to, m)
    PROVE  pc' \in [Threads -> ThreadStates] /\ mode' \in [Threads -> CallModes]
BY DEF TypeOK, Enter, Move, CallModes

\* What TypeOK says, but for the bytes.
LEMMA Typed ==
    ASSUME TypeOK
    PROVE  /\ fdOpen \in BOOLEAN /\ pipeFlag \in BOOLEAN /\ thread \in BOOLEAN
           /\ stop \in BOOLEAN /\ done \in 0 .. MaxDone
           /\ status \in {"CONNECTED", "REMOTE_CLOSED", "CLOSED"}
           /\ pc \in [Threads -> ThreadStates] /\ mode \in [Threads -> CallModes]
BY DEF TypeOK, CallModes

LEMMA TypeInit == Init => TypeOK
<1> SUFFICES ASSUME Init PROVE TypeOK
  OBVIOUS
<1>1. <<>> \in Seq(Bytes) /\ Len(<<>>) = 0
  OBVIOUS
<1>2. /\ peerOpen \in BOOLEAN /\ fdOpen \in BOOLEAN /\ pipeFlag \in BOOLEAN
      /\ thread \in BOOLEAN /\ stop \in BOOLEAN
      /\ flags \in [just : BOOLEAN, buffer : BOOLEAN]
      /\ found \in BOOLEAN /\ block \in BlockStates
      /\ sent \in 0 .. MaxBytes /\ done \in 0 .. MaxDone
      /\ status \in {"CONNECTED", "REMOTE_CLOSED", "CLOSED"}
  <2>1. peerOpen = TRUE /\ fdOpen = TRUE /\ pipeFlag = FALSE /\ thread = AutoBuffer
        /\ stop = FALSE /\ sent = 0 /\ done = 0 /\ status = "CONNECTED"
        /\ flags = [just |-> FALSE, buffer |-> FALSE]
    BY DEF Init
  <2>2. /\ peerOpen \in BOOLEAN /\ fdOpen \in BOOLEAN /\ pipeFlag \in BOOLEAN
        /\ thread \in BOOLEAN /\ stop \in BOOLEAN
    BY <2>1, ParameterAssumption
  <2>3. /\ flags \in [just : BOOLEAN, buffer : BOOLEAN]
        /\ found \in BOOLEAN /\ block \in BlockStates
    <3>1. flags \in [just : BOOLEAN, buffer : BOOLEAN]
      BY <2>1
    <3>2. found = FALSE /\ block = "none"
      BY DEF Init
    <3>3. block \in BlockStates
      BY <3>2 DEF BlockStates
    <3>4. QED
      BY <3>1, <3>2, <3>3
  <2>4. sent \in 0 .. MaxBytes /\ done \in 0 .. MaxDone
    BY <2>1, ParameterAssumption
  <2>5. QED
    BY <2>1, <2>2, <2>3, <2>4
<1>3. {inbox, buffer, consumed} \subseteq Seq(Bytes)
  BY <1>1 DEF Init
<1>4. pc \in [Threads -> ThreadStates] /\ mode \in [Threads -> CallModes]
  BY DEF Init, ThreadStates, CallModes
<1>5. /\ pipeNo \in Nat /\ closedPipes \subseteq 0 .. pipeNo
      /\ polled \in [Threads -> 0 .. pipeNo]
  BY DEF Init
<1>6. /\ raw \in [Threads -> Seq(Bytes)] /\ taken \in [Threads -> Seq(Bytes)]
      /\ \A t \in Threads : Len(taken[t]) <= ReadLength
  BY <1>1, ParameterAssumption DEF Init
<1>7. QED
  BY <1>2, <1>3, <1>4, <1>5, <1>6 DEF TypeOK, CallModes

LEMMA TypePeer == TypeOK /\ (PeerSend \/ PeerClose) => TypeOK'
<1> SUFFICES ASSUME TypeOK, PeerSend \/ PeerClose PROVE TypeOK'
  OBVIOUS
<1>1. CASE PeerSend
  <2>1. sent' \in 0 .. MaxBytes /\ inbox' \in Seq(Bytes)
    BY <1>1, ParameterAssumption, Appended DEF PeerSend, TypeOK, Bytes
  <2>2. QED
    BY <1>1, <2>1 DEF PeerSend, TypeOK, pipe, locals
<1>2. CASE PeerClose
  BY <1>2 DEF PeerClose, TypeOK, pipe, locals
<1>3. QED
  BY <1>1, <1>2

LEMMA TypeUser ==
    ASSUME TypeOK, Modes, NEW t \in Threads, UserStep(t)
    PROVE  TypeOK'
<1> USE Typed DEF ThreadStates, CallModes
<1>1. CASE TestPipe(t) \/ MakePipe(t)
  BY <1>1, MoveTyped, TypeMoves DEF TestPipe, MakePipe, pipe
<1>2. CASE NewPipe(t)
  BY <1>2, MoveTyped DEF NewPipe, TypeOK, peer, locals
<1>3. CASE FlagPipe(t)
  BY <1>3, MoveTyped, TypeMoves DEF FlagPipe
<1>4. CASE MakeBlock(t)
  <2>1. pc' \in [Threads -> ThreadStates] /\ block' \in BlockStates
    BY <1>4 DEF MakeBlock, BlockStates
  <2>2. QED
    BY <1>4, <2>1 DEF MakeBlock, TypeOK, peer, pipe
<1>5. CASE Misuse(t)
  BY <1>5 DEF Misuse, BlockStates, TypeOK, peer, pipe
<1>6. CASE ReadSize(t)
  BY <1>6, MoveTyped DEF ReadSize, TypeOK, peer, pipe
<1>7. CASE Poll(t) \/ Wake(t)
  <2>1. AfterPoll(t) \in ThreadStates
    BY <1>7 DEF Poll, Wake, Move, AfterPoll, AfterWait, Modes, WaitPlaces
  <2>2. pc' \in [Threads -> ThreadStates]
    BY <1>7, <2>1, MoveTyped DEF Poll, Wake
  <2>3. pipeNo \in 0 .. pipeNo /\ 0 \in 0 .. pipeNo /\ polled \in [Threads -> 0 .. pipeNo]
    BY DEF TypeOK
  <2>4. \/ polled' = polled
        \/ polled' = [polled EXCEPT ![t] = pipeNo]
        \/ polled' = [polled EXCEPT ![t] = 0]
    BY <1>7 DEF Poll, Wake
  <2>5. polled' \in [Threads -> 0 .. pipeNo]
    BY <2>3, <2>4
  <2>6. UNCHANGED <<peer, status, fdOpen, pipe, buffer, thread, stop, done, mode,
                    raw, block, flags, found, taken, consumed>>
    BY <1>7 DEF Poll, Wake
  <2>7. QED
    BY <2>2, <2>5, <2>6 DEF TypeOK, peer, pipe
<1>8. CASE RawTest(t)
  <2>1. /\ \E to \in ThreadStates : pc' = [pc EXCEPT ![t] = to]
        /\ UNCHANGED <<peer, status, fdOpen, pipe, buffer, thread, stop, done, mode, locals>>
    BY <1>8 DEF RawTest, Modes, RecvPlaces
  <2>2. QED
    BY <2>1, TypeMoves DEF pipe
<1>9. CASE FillTest(t)
  BY <1>9, MoveTyped, TypeMoves DEF FillTest, pipe
<1>10. CASE Push(t)
  <2>1. pc' \in [Threads -> ThreadStates]
    BY <1>10, MoveTyped DEF Push
  <2>2. /\ buffer' = buffer \o raw[t] /\ raw' = [raw EXCEPT ![t] = <<>>]
        /\ UNCHANGED <<peer, status, fdOpen, pipe, thread, stop, done, mode, polled, block,
                       flags, found, taken, consumed>>
    BY <1>10 DEF Push
  <2>3. buffer' \in Seq(Bytes) /\ raw' \in [Threads -> Seq(Bytes)]
    BY <2>2, Joined DEF TypeOK
  <2>4. QED
    BY <2>1, <2>2, <2>3, TypeReads DEF TypeOK, peer
<1>11. CASE ReadTest(t) \/ ReadStatus(t) \/ ReadMore(t)
  BY <1>11, MoveTyped, TypeMoves DEF ReadTest, ReadStatus, ReadMore, pipe
<1>12. CASE ReadThread(t)
  <2>1. pc' \in [Threads -> ThreadStates] /\ mode' \in [Threads -> CallModes]
    BY <1>12, EnterTyped DEF ReadThread
  <2>2. QED
    BY <1>12, <2>1, TypeMoves DEF ReadThread, pipe
<1>13. CASE WaitStatus(t) \/ WaitBuffer(t) \/ WaitThread(t)
  <2>1. AfterWait(t) \in ThreadStates
    BY DEF AfterWait
  <2>2. QED
    BY <1>13, <2>1, MoveTyped, TypeMoves DEF WaitStatus, WaitBuffer, WaitThread, pipe
<1>14. CASE WaitDone(t)
  <2>1. AfterWait(t) \in ThreadStates /\ done' \in 0 .. MaxDone
    BY <1>14, ParameterAssumption DEF WaitDone, AfterWait
  <2>2. QED
    BY <1>14, <2>1, MoveTyped, TypeMoves DEF WaitDone, pipe
<1>15. CASE TakeBuffered(t)
  <2> DEFINE room == ReadLength - Len(taken[t])
             n == IF Len(buffer) < room THEN Len(buffer) ELSE room
  <2>0. /\ buffer \in Seq(Bytes) /\ Len(buffer) \in Nat
        /\ taken \in [Threads -> Seq(Bytes)]
        /\ \A s \in Threads : Len(taken[s]) <= ReadLength
        /\ Len(taken[t]) \in Nat
    BY Lengths DEF TypeOK
  <2>1. n \in 0 .. Len(buffer) /\ Len(taken[t]) + n <= ReadLength
    BY <2>0, ParameterAssumption
  <2>2. /\ buffer' = SubSeq(buffer, n + 1, Len(buffer))
        /\ taken' = [taken EXCEPT ![t] = @ \o SubSeq(buffer, 1, n)]
        /\ consumed' = consumed \o SubSeq(buffer, 1, n)
        /\ Move(t, "rtake", "rmore")
        /\ done' = IF buffer' = <<>> /\ done > 0 THEN done - 1 ELSE done
        /\ found' = (buffer' # <<>>)
        /\ UNCHANGED <<peer, status, fdOpen, pipe, thread, stop, mode, polled, raw, block, flags>>
    BY <1>15 DEF TakeBuffered
  <2> HIDE DEF n
  <2>3. /\ buffer' \in Seq(Bytes) /\ consumed' \in Seq(Bytes)
        /\ SubSeq(buffer, 1, n) \in Seq(Bytes) /\ Len(SubSeq(buffer, 1, n)) = n
    BY <2>1, <2>2, SplitAt, Joined DEF TypeOK
  <2>4. taken' \in [Threads -> Seq(Bytes)] /\ \A s \in Threads : Len(taken'[s]) <= ReadLength
    <3>1. /\ taken[t] \o SubSeq(buffer, 1, n) \in Seq(Bytes)
          /\ Len(taken[t] \o SubSeq(buffer, 1, n)) = Len(taken[t]) + n
      BY <2>0, <2>3, Joined
    <3>2. \A s \in Threads : taken'[s] = IF s = t THEN taken[t] \o SubSeq(buffer, 1, n)
                                                  ELSE taken[s]
      BY <2>0, <2>2
    <3>3. QED
      BY <2>0, <2>1, <2>2, <3>1, <3>2
  <2>5. done' \in 0 .. MaxDone /\ pc' \in [Threads -> ThreadStates]
    BY <2>2, MoveTyped, ParameterAssumption
  <2>6. QED
    BY <2>2, <2>3, <2>4, <2>5, TypeReads DEF TypeOK, peer
<1>16. ASSUME NEW from, NEW isOpen, RecvReturns(t, from, isOpen),
              UNCHANGED <<peerOpen, sent, fdOpen, pipe, buffer, thread, stop, done, mode,
                          polled, block, flags, found>>
       PROVE  TypeOK'
  <2>0. pc' \in [Threads -> ThreadStates]
    BY <1>16, MoveTyped DEF RecvReturns
  <2>1. CASE GetBytes(t)
    <3> DEFINE n == IF mode[t] = "direct" /\ Len(inbox) > ReadLength - Len(taken[t])
                    THEN ReadLength - Len(taken[t]) ELSE Len(inbox)
               bytes == SubSeq(inbox, 1, n)
    <3>0. /\ inbox \in Seq(Bytes) /\ Len(inbox) \in Nat
          /\ raw \in [Threads -> Seq(Bytes)] /\ taken \in [Threads -> Seq(Bytes)]
          /\ \A s \in Threads : Len(taken[s]) <= ReadLength
          /\ Len(taken[t]) \in Nat /\ consumed \in Seq(Bytes)
      BY Lengths DEF TypeOK
    <3>1. /\ n \in 0 .. Len(inbox)
          /\ mode[t] = "direct" => Len(taken[t]) + n <= ReadLength
      BY <3>0, ParameterAssumption
    <3>2. /\ inbox' = SubSeq(inbox, n + 1, Len(inbox))
          /\ \/ /\ mode[t] = "direct"
                /\ taken' = [taken EXCEPT ![t] = @ \o bytes]
                /\ consumed' = consumed \o bytes
                /\ UNCHANGED raw
             \/ /\ raw' = [raw EXCEPT ![t] = @ \o bytes]
                /\ UNCHANGED <<taken, consumed>>
          /\ UNCHANGED status
      BY <2>1 DEF GetBytes
    <3> HIDE DEF n
    <3>3. bytes \in Seq(Bytes) /\ Len(bytes) = n /\ inbox' \in Seq(Bytes)
      BY <3>1, <3>2, SplitAt DEF TypeOK
    <3> HIDE DEF bytes
    <3>4. consumed' \in Seq(Bytes)
      <4>1. consumed \o bytes \in Seq(Bytes)
        BY <3>0, <3>3, Joined
      <4>2. QED
        BY <3>0, <3>2, <4>1
    <3>5. raw' \in [Threads -> Seq(Bytes)]
      <4>1. raw[t] \o bytes \in Seq(Bytes)
        BY <3>0, <3>3, Joined
      <4>2. QED
        BY <3>0, <3>2, <4>1
    <3>6. taken' \in [Threads -> Seq(Bytes)] /\ \A s \in Threads : Len(taken'[s]) <= ReadLength
      <4>1. /\ taken[t] \o bytes \in Seq(Bytes)
            /\ Len(taken[t] \o bytes) = Len(taken[t]) + n
        <5>1. taken[t] \in Seq(Bytes)
          BY <3>0
        <5>2. QED
          BY <5>1, <3>3, Joined
      <4>2. QED
        BY <3>0, <3>1, <3>2, <4>1
    <3>7. QED
      BY <1>16, <2>0, <3>2, <3>3, <3>4, <3>5, <3>6, TypeReads DEF TypeOK
  <2>2. CASE status' = "REMOTE_CLOSED" /\ UNCHANGED <<inbox, raw, taken, consumed>>
    BY <1>16, <2>0, <2>2, TypeReads DEF TypeOK
  <2>3. QED
    BY <1>16, <2>1, <2>2 DEF RecvReturns
<1>17. CASE Recv(t)
  <2>1. CASE ~fdOpen \/ Readable
    BY <1>16, <1>17, <2>1 DEF Recv
  <2>2. CASE ~(~fdOpen \/ Readable)
    BY <1>17, <2>2, MoveTyped, TypeMoves DEF Recv, pipe, peer, locals
  <2>3. QED
    BY <2>1, <2>2
<1>18. CASE RecvWakes(t)
  BY <1>16, <1>18 DEF RecvWakes
<1>19. QED
  BY <1>1, <1>2, <1>3, <1>4, <1>5, <1>6, <1>7, <1>8, <1>9, <1>10, <1>11, <1>12, <1>13, <1>14,
     <1>15, <1>17, <1>18
     DEF UserStep, RawEventStep, RawReadStep, FillStep, ReadStep, EventStep

LEMMA TypeCalls ==
    ASSUME TypeOK, NEW u \in Users, Read(u) \/ WaitForSocketEvent(u)
    PROVE  TypeOK'
<1> USE Typed, Apart DEF ThreadStates, CallModes
<1>1. CASE Read(u)
  <2>1. pc' \in [Threads -> ThreadStates] /\ mode' \in [Threads -> CallModes]
    BY <1>1, MoveTyped, EnterTyped DEF Read
  <2>2. flags' \in [just : BOOLEAN, buffer : BOOLEAN]
    BY <1>1, ParameterAssumption DEF Read
  <2>3. taken' \in [Threads -> Seq(Bytes)] /\ \A s \in Threads : Len(taken'[s]) <= ReadLength
    <3>1. taken' = [taken EXCEPT ![u] = <<>>]
      BY <1>1 DEF Read
    <3>2. QED
      BY <3>1, ParameterAssumption DEF TypeOK
  <2>4. QED
    BY <1>1, <2>1, <2>2, <2>3 DEF Read, TypeOK, peer, pipe
<1>2. CASE WaitForSocketEvent(u)
  BY <1>2, EnterTyped, TypeMoves DEF WaitForSocketEvent, pipe
<1>3. QED
  BY <1>1, <1>2

LEMMA TypeOwner ==
    ASSUME TypeOK, OwnerStep \/ OwnerCall \/ BufferLoop \/ SignalDone
    PROVE  TypeOK'
<1> USE Typed, Apart, ParameterAssumption DEF ThreadStates, CallModes
<1>1. CASE Enable
  BY <1>1, TypeMoves DEF Enable, pipe
<1>2. CASE Disable \/ CloseSocket
  BY <1>2, EnterTyped, TypeMoves DEF Disable, CloseSocket, pipe
<1>3. CASE StopThread \/ Join \/ ForgetThread
  BY <1>3, MoveTyped, TypeMoves DEF StopThread, Join, ForgetThread, pipe
<1>4. CASE TellWaiters
  BY <1>4, MoveTyped, TypeMoves DEF TellWaiters, CountDone, pipe
<1>5. CASE ClosePipe
  <2>1. /\ Move(Owner, "cpipe", IF pipeFlag THEN "cflag" ELSE "cthread")
        /\ closedPipes' = IF pipeFlag THEN closedPipes \cup {pipeNo} ELSE closedPipes
        /\ UNCHANGED <<peer, status, fdOpen, pipeFlag, pipeNo, buffer, thread, stop, done,
                       mode, locals>>
    BY <1>5 DEF ClosePipe
  <2>2. pc' \in [Threads -> ThreadStates] /\ closedPipes' \subseteq 0 .. pipeNo
    BY <2>1, MoveTyped DEF TypeOK
  <2>3. QED
    BY <2>1, <2>2 DEF TypeOK, peer, locals
<1>6. CASE ClearPipeFlag \/ CloseThread \/ CloseFd
  BY <1>6, MoveTyped, TypeMoves DEF ClearPipeFlag, CloseThread, CloseFd, pipe
<1>7. CASE DeleteBlock
  BY <1>7, MoveTyped DEF DeleteBlock, BlockStates, TypeOK, peer, pipe
<1>8. CASE ClearBuffer
  <2>1. /\ buffer' = <<>>
        /\ UNCHANGED <<peer, status, fdOpen, pipe, thread, stop, done, mode, locals>>
    BY <1>8 DEF ClearBuffer
  <2>2. pc' \in [Threads -> ThreadStates] /\ buffer' \in Seq(Bytes)
    BY <1>8, <2>1, MoveTyped DEF ClearBuffer
  <2>3. QED
    BY <2>1, <2>2, TypeReads DEF TypeOK, peer, locals
<1>9. CASE BufferLoop
  <2>1. pc' \in [Threads -> ThreadStates] /\ mode' \in [Threads -> CallModes]
    BY <1>9, MoveTyped, EnterTyped DEF BufferLoop
  <2>2. QED
    BY <1>9, <2>1, TypeMoves DEF BufferLoop, pipe
<1>10. CASE SignalDone
  BY <1>10, MoveTyped, TypeMoves DEF SignalDone, CountDone, pipe
<1>11. QED
  BY <1>1, <1>2, <1>3, <1>4, <1>5, <1>6, <1>7, <1>8, <1>9, <1>10 DEF OwnerStep, OwnerCall

LEMMA TypeStep == TypeOK /\ Modes /\ [Next]_vars => TypeOK'
<1> SUFFICES ASSUME TypeOK, Modes, [Next]_vars PROVE TypeOK'
  OBVIOUS
<1>1. CASE UNCHANGED vars
  BY <1>1 DEF vars, TypeOK, peer, pipe, locals
<1>2. QED
  BY <1>1, Apart, TypePeer, TypeUser, TypeCalls, TypeOwner DEF Next, BufferStep

-----------------------------------------------------------------------------
(* Which call a thread is in *)

LEMMA ModesUser ==
    ASSUME TypeOK, Modes, NEW t \in Threads, UserStep(t)
    PROVE  Modes'
<1> USE ThreadAssumption
    DEF Modes, Move, Enter, WaitPlaces, RecvPlaces, FillPlaces, Threads, Users
<1>0. pc \in [Threads -> ThreadStates] /\ mode \in [Threads -> CallModes]
  BY DEF TypeOK, CallModes
<1>1. CASE TestPipe(t) \/ MakePipe(t) \/ NewPipe(t) \/ FlagPipe(t)
  BY <1>0, <1>1 DEF TestPipe, MakePipe, NewPipe, FlagPipe
<1>2. CASE Poll(t)
  BY <1>0, <1>2 DEF Poll, AfterPoll, AfterWait
<1>3. CASE Wake(t)
  BY <1>0, <1>3 DEF Wake, AfterPoll, AfterWait
<1>4. CASE RawTest(t)
  BY <1>0, <1>4 DEF RawTest
<1>5. CASE Recv(t)
  BY <1>0, <1>5 DEF Recv, RecvReturns
<1>6. CASE RecvWakes(t)
  BY <1>0, <1>6 DEF RecvWakes, RecvReturns
<1>7. CASE MakeBlock(t) \/ FillTest(t) \/ Push(t) \/ Misuse(t)
  BY <1>0, <1>7 DEF MakeBlock, FillTest, Push, Misuse
<1>8. CASE ReadSize(t) \/ ReadTest(t) \/ ReadStatus(t) \/ TakeBuffered(t) \/ ReadMore(t)
  BY <1>0, <1>8 DEF ReadSize, ReadTest, ReadStatus, TakeBuffered, ReadMore
<1>9. CASE ReadThread(t)
  BY <1>0, <1>9 DEF ReadThread
<1>10. CASE WaitStatus(t) \/ WaitBuffer(t) \/ WaitThread(t) \/ WaitDone(t)
  BY <1>0, <1>10 DEF WaitStatus, WaitBuffer, WaitThread, WaitDone, AfterWait
<1>11. QED
  BY <1>1, <1>2, <1>3, <1>4, <1>5, <1>6, <1>7, <1>8, <1>9, <1>10
     DEF UserStep, RawEventStep, RawReadStep, FillStep, ReadStep, EventStep

LEMMA ModesStep == TypeOK /\ Places /\ Modes /\ [Next]_vars => Modes'
<1> SUFFICES ASSUME TypeOK, Places, Modes, [Next]_vars PROVE Modes'
  OBVIOUS
<1> USE ThreadAssumption, Apart DEF Modes, Move, Enter, WaitPlaces, RecvPlaces
<1>0. pc \in [Threads -> ThreadStates] /\ mode \in [Threads -> CallModes]
  BY DEF TypeOK, CallModes
<1>1. CASE UNCHANGED vars
  BY <1>1 DEF vars
<1>2. CASE PeerSend \/ PeerClose
  BY <1>2 DEF PeerSend, PeerClose
<1>3. ASSUME NEW u \in Users, Read(u) PROVE Modes'
  BY <1>0, <1>3 DEF Read, Users
<1>4. ASSUME NEW u \in Users, WaitForSocketEvent(u) PROVE Modes'
  BY <1>0, <1>4 DEF WaitForSocketEvent, Users
<1>5. CASE BufferLoop \/ SignalDone
  BY <1>0, <1>5 DEF BufferLoop, SignalDone, Users
<1>6. CASE Enable
  BY <1>0, <1>6 DEF Enable, Users
<1>7. CASE Disable \/ CloseSocket
  BY <1>0, <1>7 DEF Disable, CloseSocket, Users
<1>8. CASE OwnerStep
  BY <1>0, <1>8
     DEF OwnerStep, StopThread, Join, ForgetThread, TellWaiters, ClosePipe, ClearPipeFlag,
         CloseThread, CloseFd, ClearBuffer, DeleteBlock, Users
<1>9. QED
  BY <1>1, <1>2, <1>3, <1>4, <1>5, <1>6, <1>7, <1>8, ModesUser
     DEF Next, BufferStep, OwnerCall

-----------------------------------------------------------------------------
(* Where bytes are read from the socket *)

LEMMA UserElsewhere ==
    ASSUME Structure, NEW t \in Threads, UserStep(t)
    PROVE  /\ UNCHANGED <<thread, flags, sent>>
           /\ \A s \in Threads \ {t} : pc'[s] = pc[s] /\ mode'[s] = mode[s]
           /\ \A s \in Threads \ {t} : raw'[s] = raw[s] /\ taken'[s] = taken[s]
           /\ status' = status \/ status' = "REMOTE_CLOSED"
           /\ pc[t] \notin ReadPlaces => found' = found
<1> USE DEF Move, Enter, peer, locals, ReadPlaces
<1>0. /\ pc \in [Threads -> ThreadStates] /\ mode \in [Threads -> CallModes]
      /\ raw \in [Threads -> Seq(Bytes)] /\ taken \in [Threads -> Seq(Bytes)]
  BY DEF Structure, TypeOK, CallModes
<1>1. CASE TestPipe(t) \/ MakePipe(t) \/ NewPipe(t) \/ FlagPipe(t) \/ Poll(t) \/ Wake(t)
  BY <1>0, <1>1 DEF TestPipe, MakePipe, NewPipe, FlagPipe, Poll, Wake
<1>2. CASE RawTest(t)
  BY <1>0, <1>2 DEF RawTest
<1>3. ASSUME NEW from, NEW isOpen, RecvReturns(t, from, isOpen),
             UNCHANGED <<mode, thread, flags, found, sent>>
      PROVE  /\ UNCHANGED <<thread, flags, sent>>
             /\ \A s \in Threads \ {t} : pc'[s] = pc[s] /\ mode'[s] = mode[s]
             /\ \A s \in Threads \ {t} : raw'[s] = raw[s] /\ taken'[s] = taken[s]
             /\ status' = status \/ status' = "REMOTE_CLOSED"
             /\ found' = found
  BY <1>0, <1>3 DEF RecvReturns, GetBytes
<1>4. CASE Recv(t)
  <2>1. CASE ~fdOpen \/ Readable
    BY <1>3, <1>4, <2>1 DEF Recv
  <2>2. CASE ~(~fdOpen \/ Readable)
    BY <1>0, <1>4, <2>2 DEF Recv
  <2>3. QED
    BY <2>1, <2>2
<1>5. CASE RecvWakes(t)
  BY <1>3, <1>5 DEF RecvWakes
<1>6. CASE FillTest(t) \/ WaitStatus(t) \/ WaitBuffer(t) \/ WaitThread(t) \/ WaitDone(t)
  BY <1>0, <1>6 DEF FillTest, WaitStatus, WaitBuffer, WaitThread, WaitDone
<1>7. CASE MakeBlock(t) \/ Push(t) \/ Misuse(t)
  BY <1>0, <1>7 DEF MakeBlock, Push, Misuse
<1>8. CASE TakeBuffered(t)
  BY <1>0, <1>8 DEF TakeBuffered
<1>9. CASE ReadSize(t) \/ ReadTest(t) \/ ReadStatus(t) \/ ReadMore(t)
  BY <1>0, <1>9 DEF ReadSize, ReadTest, ReadStatus, ReadMore
<1>10. CASE ReadThread(t)
  BY <1>0, <1>10 DEF ReadThread
<1>11. QED
  BY <1>1, <1>2, <1>4, <1>5, <1>6, <1>7, <1>8, <1>9, <1>10
     DEF UserStep, RawEventStep, RawReadStep, FillStep, ReadStep, EventStep

\* How a thread gets into updateReadBuffer() and rawRead(), and out again.
LEMMA UserMoves ==
    ASSUME Structure, NEW t \in Threads, UserStep(t)
    PROVE  /\ InFill(t)' => InFill(t) \/ (pc[t] = "rthread" /\ ~thread)
           /\ Holding(t) => Holding(t)' \/ raw'[t] = <<>>
           /\ raw'[t] # <<>> => raw[t] # <<>> \/ Holding(t)'
           /\ InDirect(t)' =>
                 \/ InDirect(t)
                 \/ pc[t] = "rthread" /\ pc'[t] = "raw" /\ ~thread /\ ~flags.buffer
<1> USE DEF Move, Enter, peer, locals, Holding, InFill, InDirect, WaitPlaces, RecvPlaces,
            FillPlaces
<1>0. /\ pc \in [Threads -> ThreadStates] /\ mode \in [Threads -> CallModes]
      /\ raw \in [Threads -> Seq(Bytes)]
  BY DEF Structure, TypeOK, CallModes
<1>m. /\ pc[t] \in WaitPlaces => mode[t] \in {"fill", "direct", "wait"}
      /\ pc[t] \in RecvPlaces => mode[t] \in {"fill", "fillNow", "direct"}
      /\ pc[t] = "fill" => mode[t] = "fill"
      /\ pc[t] \in {"block", "push"} => mode[t] \in {"fill", "fillNow"}
      /\ pc[t] = "wthread" => mode[t] = "wait"
  BY DEF Structure, Modes
<1>1. CASE TestPipe(t) \/ MakePipe(t) \/ NewPipe(t) \/ FlagPipe(t)
  BY <1>0, <1>m, <1>1 DEF TestPipe, MakePipe, NewPipe, FlagPipe
<1>2. CASE Poll(t)
  BY <1>0, <1>m, <1>2 DEF Poll, AfterPoll, AfterWait
<1>3. CASE Wake(t)
  BY <1>0, <1>m, <1>3 DEF Wake, AfterPoll, AfterWait
<1>4. CASE RawTest(t)
  BY <1>0, <1>m, <1>4 DEF RawTest
<1>5. CASE Recv(t) \/ RecvWakes(t)
  <2>1. /\ pc[t] \in RecvPlaces /\ UNCHANGED mode
        /\ pc' = [pc EXCEPT ![t] = "raw"] \/ pc' = [pc EXCEPT ![t] = "recving"]
        /\ mode[t] = "direct" => raw' = raw
    BY <1>5 DEF Recv, RecvWakes, RecvReturns, GetBytes
  <2>2. QED
    BY <1>0, <1>m, <2>1
<1>6. CASE FillTest(t)
  BY <1>0, <1>m, <1>6 DEF FillTest
<1>7. CASE Push(t)
  BY <1>0, <1>m, <1>7 DEF Push
<1>8. CASE ReadSize(t) \/ ReadTest(t) \/ ReadStatus(t) \/ TakeBuffered(t) \/ ReadMore(t)
  BY <1>0, <1>8 DEF ReadSize, ReadTest, ReadStatus, TakeBuffered, ReadMore
<1>9. CASE ReadThread(t)
  BY <1>0, <1>9 DEF ReadThread
<1>10. CASE MakeBlock(t)
  BY <1>0, <1>m, <1>10 DEF MakeBlock
<1>11. CASE Misuse(t)
  BY <1>0, <1>m, <1>11 DEF Misuse
<1>12. CASE WaitStatus(t) \/ WaitBuffer(t) \/ WaitThread(t) \/ WaitDone(t)
  BY <1>0, <1>m, <1>12 DEF WaitStatus, WaitBuffer, WaitThread, WaitDone, AfterWait
<1>13. QED
  BY <1>1, <1>2, <1>3, <1>4, <1>5, <1>6, <1>7, <1>8, <1>9, <1>10, <1>11, <1>12
     DEF UserStep, RawEventStep, RawReadStep, FillStep, ReadStep, EventStep

\* What a call of the owner, or of the loop of autoBufferProc(), leaves alone.
LEMMA OthersElsewhere ==
    ASSUME Structure,
           \/ OwnerStep \/ OwnerCall \/ BufferLoop \/ SignalDone
           \/ \E u \in Users : Read(u) \/ WaitForSocketEvent(u)
    PROVE  UNCHANGED <<sent, inbox, raw, consumed>>
BY DEF OwnerStep, OwnerCall, BufferLoop, SignalDone, StopThread, Join, ForgetThread,
       TellWaiters, ClosePipe, ClearPipeFlag, CloseThread, CloseFd, ClearBuffer, DeleteBlock,
       Enable, Disable, CloseSocket, Read, WaitForSocketEvent, peer, locals

LEMMA OwnerMoves ==
    ASSUME Structure, OwnerStep \/ Disable \/ CloseSocket
    PROVE  /\ \A s \in Threads \ {Owner} : pc'[s] = pc[s] /\ mode'[s] = mode[s]
           /\ thread' => thread
           /\ ~InFill(Owner) /\ ~InFill(Owner)'
           /\ UNCHANGED <<flags, found, taken>>
<1>0. /\ pc \in [Threads -> ThreadStates] /\ mode \in [Threads -> CallModes]
      /\ pc[Owner] \in {"out", "cpipe", "cflag", "cthread", "stop", "join", "forget", "tell",
                        "cfd", "cclear", "cdelete", "closed"}
      /\ Owner \in Threads
  BY Apart DEF Structure, TypeOK, CallModes, IInv, Places
<1> USE DEF Move, Enter, InFill, WaitPlaces, RecvPlaces, FillPlaces, locals
<1>1. CASE Disable \/ CloseSocket
  BY <1>0, <1>1 DEF Disable, CloseSocket
<1>2. CASE StopThread \/ Join \/ ForgetThread \/ TellWaiters
  BY <1>0, <1>2 DEF StopThread, Join, ForgetThread, TellWaiters
<1>3. CASE ClosePipe \/ ClearPipeFlag \/ CloseThread
  BY <1>0, <1>3 DEF ClosePipe, ClearPipeFlag, CloseThread
<1>4. CASE CloseFd \/ ClearBuffer \/ DeleteBlock
  BY <1>0, <1>4 DEF CloseFd, ClearBuffer, DeleteBlock
<1>5. QED
  BY <1>1, <1>2, <1>3, <1>4 DEF OwnerStep

LEMMA AloneStep == Structure /\ Alone /\ [Next]_vars => Alone'
<1> SUFFICES ASSUME Structure, Alone, [Next]_vars PROVE Alone'
  OBVIOUS
<1> USE Apart
<1>0. /\ pc \in [Threads -> ThreadStates] /\ mode \in [Threads -> CallModes]
      /\ Readers \subseteq Users
  BY DEF Structure, TypeOK, CallModes, Users
<1>1. CASE UNCHANGED vars
  BY <1>1 DEF vars, locals, Alone, Holding, InFill, InDirect
<1>2. CASE PeerSend \/ PeerClose
  BY <1>2 DEF PeerSend, PeerClose, locals, Alone, Holding, InFill, InDirect
<1>3. ASSUME NEW t \in Threads, UserStep(t) PROVE Alone'
  <2>1. /\ thread' = thread
        /\ \A s \in Threads \ {t} : pc'[s] = pc[s] /\ mode'[s] = mode[s] /\ raw'[s] = raw[s]
    BY <1>3, UserElsewhere
  <2>2. /\ InFill(t)' => InFill(t) \/ ~thread
        /\ InDirect(t)' => InDirect(t) \/ ~thread
        /\ Holding(t) => Holding(t)' \/ raw'[t] = <<>>
        /\ raw'[t] # <<>> => raw[t] # <<>> \/ Holding(t)'
    BY <1>3, UserMoves
  <2>3. ASSUME NEW s \in Threads, s # t
        PROVE  (InFill(s)' <=> InFill(s)) /\ (InDirect(s)' <=> InDirect(s))
               /\ (Holding(s)' <=> Holding(s)) /\ raw'[s] = raw[s]
    BY <2>1, <2>3 DEF Holding, InFill, InDirect
  <2>4. ASSUME NEW r \in Readers, InFill(r)' \/ InDirect(r)' PROVE ~thread'
    <3>1. r \in Threads
      BY <1>0
    <3>2. InFill(r) \/ InDirect(r) \/ ~thread
      BY <2>2, <2>3, <2>4, <3>1
    <3>3. QED
      BY <2>1, <3>2 DEF Alone
  <2>5. ASSUME NEW s \in Threads, raw'[s] # <<>> PROVE Holding(s)'
    <3>1. CASE s = t
      BY <2>2, <2>5, <3>1 DEF Alone
    <3>2. CASE s # t
      BY <2>3, <2>5, <3>2 DEF Alone
    <3>3. QED
      BY <3>1, <3>2
  <2>6. QED
    BY <2>4, <2>5 DEF Alone
<1>4. ASSUME NEW u \in Users, Read(u) \/ WaitForSocketEvent(u) PROVE Alone'
  <2>1. /\ UNCHANGED <<raw, thread>> /\ pc[u] = "out"
        /\ \A s \in Threads \ {u} : pc'[s] = pc[s] /\ mode'[s] = mode[s]
        /\ \/ pc'[u] \in {"rsize", "wstatus"}
           \/ pc'[u] = "block" /\ mode'[u] = "fillNow" /\ ~thread
    BY <1>0, <1>4 DEF Read, WaitForSocketEvent, Move, Enter, locals
  <2>2. raw[u] = <<>>
    BY <2>1 DEF Alone, Holding, InFill, WaitPlaces, RecvPlaces, FillPlaces
  <2>3. QED
    BY <1>0, <2>1, <2>2
       DEF Alone, Holding, InFill, InDirect, WaitPlaces, RecvPlaces, FillPlaces
<1>5. CASE BufferLoop \/ SignalDone
  <2>1. /\ UNCHANGED <<raw, thread>> /\ pc[Buffer] \in {"loop", "signal"}
        /\ \A s \in Threads \ {Buffer} : pc'[s] = pc[s] /\ mode'[s] = mode[s]
    BY <1>0, <1>5 DEF BufferLoop, SignalDone, Move, Enter, locals
  <2>2. raw[Buffer] = <<>>
    BY <2>1 DEF Alone, Holding, InFill, WaitPlaces, RecvPlaces, FillPlaces
  <2>3. QED
    BY <1>0, <2>1, <2>2 DEF Alone, Holding, InFill, InDirect
<1>6. CASE Enable
  <2>1. /\ UNCHANGED <<raw, mode>> /\ pc[Buffer] = "out"
        /\ \A s \in Threads \ {Buffer} : pc'[s] = pc[s]
        /\ \A u \in Users : pc[u] = "out"
    BY <1>0, <1>6 DEF Enable, locals, Structure, IInv, Stopping
  <2>2. raw[Buffer] = <<>>
    BY <2>1 DEF Alone, Holding, InFill, WaitPlaces, RecvPlaces, FillPlaces
  <2>3. QED
    BY <1>0, <2>1, <2>2
       DEF Alone, Holding, InFill, InDirect, WaitPlaces, RecvPlaces, FillPlaces
<1>7. CASE OwnerStep \/ Disable \/ CloseSocket
  <2>1. raw' = raw
    BY <1>7, OthersElsewhere DEF OwnerCall
  <2>2. raw[Owner] = <<>>
    BY <1>7, OwnerMoves DEF Alone, Holding
  <2>3. QED
    BY <1>0, <1>7, <2>1, <2>2, OwnerMoves DEF Alone, Holding, InFill, InDirect
<1>8. QED
  BY <1>1, <1>2, <1>3, <1>4, <1>5, <1>6, <1>7 DEF Next, BufferStep, OwnerCall

\* Only one thread is ever inside rawRead().
LEMMA OneAtATime ==
    ASSUME Structure, Alone, NEW s \in Threads, NEW t \in Threads,
           InFill(s) \/ InDirect(s), InFill(t) \/ InDirect(t)
    PROVE  s = t
<1>1. \A x \in Threads : InFill(x) \/ InDirect(x) =>
          (x \in Readers /\ ~thread) \/ (x = Buffer /\ thread)
  <2> SUFFICES ASSUME NEW x \in Threads, InFill(x) \/ InDirect(x)
               PROVE  (x \in Readers /\ ~thread) \/ (x = Buffer /\ thread)
    OBVIOUS
  <2>1. CASE x \in Readers
    BY <2>1 DEF Alone
  <2>2. CASE x \in Waiters
    BY <2>2 DEF Structure, Modes, InFill, InDirect, WaitPlaces, RecvPlaces, FillPlaces
  <2>3. CASE x = Owner
    BY <2>3 DEF Structure, IInv, Places, InFill, InDirect, WaitPlaces, RecvPlaces, FillPlaces
  <2>4. CASE x = Buffer
    BY <2>4 DEF Structure, IInv, Stopping, InFill, InDirect, WaitPlaces, RecvPlaces, FillPlaces
  <2>5. QED
    BY <2>1, <2>2, <2>3, <2>4 DEF Threads, Users
<1>2. QED
  BY <1>1, ThreadAssumption

-----------------------------------------------------------------------------
(* Reads past the read buffer *)

\* m_readBuffer changes where a block is put into it or taken from it.
LEMMA BufferMoves ==
    ASSUME Structure, NEW t \in Threads, UserStep(t)
    PROVE  /\ pc[t] # "out"
           /\ pc[t] \notin {"push", "rtake"} => buffer' = buffer
           /\ Past(t)' =>
                 Past(t) \/ (pc[t] = "rsize" /\ buffer = <<>>) \/ pc[t] = "rtake"
           /\ pc[t] = "raw" /\ mode[t] = "direct" /\ status # "CONNECTED" => pc'[t] = "rsize"
           /\ pc[t] = "push" => InFill(t)
<1> USE DEF Move, Enter, Past, locals
<1>0. /\ pc \in [Threads -> ThreadStates] /\ mode \in [Threads -> CallModes]
  BY DEF Structure, TypeOK, CallModes
<1>1. CASE TestPipe(t) \/ MakePipe(t) \/ NewPipe(t) \/ FlagPipe(t)
  BY <1>0, <1>1 DEF TestPipe, MakePipe, NewPipe, FlagPipe
<1>2. CASE Poll(t) \/ Wake(t)
  <2>1. pc'[t] \notin {"rtop", "rstatus", "rmore", "rthread"}
    BY <1>0, <1>2 DEF Poll, Wake, AfterPoll, AfterWait, Structure, Modes, WaitPlaces
  <2>2. QED
    BY <1>0, <1>2, <2>1 DEF Poll, Wake
<1>3. CASE RawTest(t)
  BY <1>0, <1>3 DEF RawTest, Structure, Modes, RecvPlaces
<1>4. CASE Recv(t) \/ RecvWakes(t)
  BY <1>0, <1>4 DEF Recv, RecvWakes, RecvReturns
<1>5. CASE MakeBlock(t) \/ FillTest(t) \/ Push(t) \/ Misuse(t)
  BY <1>0, <1>5 DEF MakeBlock, FillTest, Push, Misuse, InFill, FillPlaces, Structure, Modes
<1>6. CASE ReadSize(t) \/ ReadTest(t) \/ ReadStatus(t) \/ TakeBuffered(t) \/ ReadMore(t)
  <2>1. CASE ReadSize(t)
    BY <1>0, <2>1 DEF ReadSize
  <2>2. CASE ReadTest(t) \/ ReadStatus(t)
    BY <1>0, <2>2 DEF ReadTest, ReadStatus
  <2>3. CASE TakeBuffered(t) \/ ReadMore(t)
    BY <1>0, <2>3 DEF TakeBuffered, ReadMore
  <2>4. QED
    BY <1>6, <2>1, <2>2, <2>3
<1>7. CASE ReadThread(t)
  BY <1>0, <1>7 DEF ReadThread
<1>8. CASE WaitStatus(t) \/ WaitBuffer(t) \/ WaitThread(t) \/ WaitDone(t)
  BY <1>0, <1>8 DEF WaitStatus, WaitBuffer, WaitThread, WaitDone, AfterWait
<1>9. QED
  BY <1>1, <1>2, <1>3, <1>4, <1>5, <1>6, <1>7, <1>8
     DEF UserStep, RawEventStep, RawReadStep, FillStep, ReadStep, EventStep

\* The first bytes of s, and the others.
Divided(s, first, others) == s = first \o others

\* What TakeBuffered takes, and what it leaves.
LEMMA Taking ==
    ASSUME TypeOK, NEW t \in Threads, TakeBuffered(t)
    PROVE  \E got \in Seq(Bytes) :
              /\ buffer' \in Seq(Bytes) /\ Divided(buffer, got, buffer')
              /\ consumed' = consumed \o got
              /\ Len(taken'[t]) < ReadLength => buffer' = <<>>
              /\ UNCHANGED <<sent, inbox, raw>>
<1> DEFINE room == ReadLength - Len(taken[t])
           n == IF Len(buffer) < room THEN Len(buffer) ELSE room
           got == SubSeq(buffer, 1, n)
<1>1. /\ buffer \in Seq(Bytes) /\ Len(buffer) \in Nat
      /\ taken \in [Threads -> Seq(Bytes)]
      /\ taken[t] \in Seq(Bytes) /\ Len(taken[t]) \in Nat /\ Len(taken[t]) <= ReadLength
  BY Lengths DEF TypeOK
<1>2. n \in 0 .. Len(buffer) /\ Len(taken[t]) + n <= ReadLength
      /\ (Len(taken[t]) + n < ReadLength => n = Len(buffer))
  BY <1>1, ParameterAssumption
<1>3. /\ buffer' = SubSeq(buffer, n + 1, Len(buffer))
      /\ taken' = [taken EXCEPT ![t] = @ \o got]
      /\ consumed' = consumed \o got
      /\ UNCHANGED <<sent, inbox, raw>>
  BY DEF TakeBuffered, peer
<1> HIDE DEF n
<1>4. got \in Seq(Bytes) /\ Len(got) = n
      /\ buffer' \in Seq(Bytes) /\ Len(buffer') = Len(buffer) - n
  BY <1>1, <1>2, <1>3, SplitAt
<1>5. buffer = got \o buffer'
  BY <1>1, <1>2, <1>3, Parted
<1> HIDE DEF got
<1>6. Len(taken'[t]) = Len(taken[t]) + n
  <2>1. taken'[t] = taken[t] \o got
    BY <1>1, <1>3
  <2>2. QED
    BY <1>1, <1>4, <2>1, Joined
<1>7. Len(taken'[t]) < ReadLength => buffer' = <<>>
  <2> SUFFICES ASSUME Len(taken'[t]) < ReadLength PROVE buffer' = <<>>
    OBVIOUS
  <2>1. n = Len(buffer)
    BY <1>2, <1>6
  <2>2. Len(buffer') = 0
    BY <1>1, <1>4, <2>1
  <2>3. QED
    BY <1>4, <2>2, Lengths
<1>8. QED
  BY <1>3, <1>4, <1>5, <1>7 DEF Divided

LEMMA DirectReadsUser ==
    ASSUME Structure, Alone, DirectReads, NEW t \in Threads, UserStep(t)
    PROVE  DirectReads'
<1>0. /\ pc \in [Threads -> ThreadStates] /\ mode \in [Threads -> CallModes]
      /\ Readers \subseteq Threads
      /\ t \notin Readers => pc[t] \notin ReadPlaces
  BY DEF Structure, TypeOK, CallModes, Threads, Users, Modes, IInv, Places, BufferPlaces,
         WaitPlaces, RecvPlaces, FillPlaces, ReadPlaces
<1>1. FALSE \notin MayBuffer => \A r \in Readers : pc'[r] # "out" => flags'.buffer
  BY <1>0, UserElsewhere, BufferMoves DEF DirectReads
<1>2. "disable" \notin Calls /\ pc'[Owner] # "out" =>
          mode'[Owner] = "close" /\ status' # "CONNECTED"
  <2>1. CASE t = Owner
    <3>1. FALSE
      BY <2>1, BufferMoves
         DEF UserStep, RawEventStep, RawReadStep, FillStep, ReadStep, EventStep, WaitPlaces,
             RecvPlaces, FillPlaces, ReadPlaces, EventPlaces, Structure, IInv, Places
    <3>2. QED
      BY <3>1
  <2>2. CASE t # Owner
    BY <2>2, Apart, UserElsewhere DEF DirectReads
  <2>3. QED
    BY <2>1, <2>2
<1>3. ~AutoBuffer /\ "enable" \notin Calls => ~thread'
  BY UserElsewhere DEF DirectReads
<1>4. ASSUME NEW r \in Readers, InDirect(r)'
      PROVE  ~flags'.buffer /\ (buffer' = <<>> \/ (pc'[r] = "raw" /\ status' # "CONNECTED"))
  <2>1. CASE t = r /\ InDirect(r)
    <3>1. pc[r] \notin {"push", "rtake"} /\ mode[r] = "direct"
      BY <2>1 DEF InDirect, WaitPlaces, RecvPlaces
    <3>2. buffer' = buffer /\ flags' = flags
      BY <2>1, <3>1, BufferMoves, UserElsewhere
    <3>3. pc[r] = "raw" => status = "CONNECTED"
      BY <1>4, <2>1, <3>1, BufferMoves DEF InDirect, WaitPlaces, RecvPlaces
    <3>4. QED
      BY <2>1, <3>2, <3>3 DEF DirectReads
  <2>2. CASE t = r /\ ~InDirect(r)
    <3>1. pc[r] = "rthread" /\ pc'[r] = "raw" /\ ~thread /\ ~flags.buffer
      BY <1>4, <2>2, UserMoves
    <3>2. buffer' = buffer /\ flags' = flags
      BY <2>2, <3>1, BufferMoves, UserElsewhere
    <3>3. buffer = <<>> \/ status # "CONNECTED"
      BY <3>1 DEF DirectReads, Past
    <3>4. status # "CONNECTED" => status' # "CONNECTED"
      BY UserElsewhere
    <3>5. QED
      BY <3>1, <3>2, <3>3, <3>4
  <2>3. CASE t # r
    <3>1. r \in Threads \ {t} /\ InDirect(r) /\ t \notin Readers /\ pc'[r] = pc[r]
      BY <1>0, <1>4, <2>3, UserElsewhere, ThreadAssumption DEF InDirect
    <3>2. ~InFill(t)
      BY <1>0, <2>3, <3>1, OneAtATime
    <3>3. buffer' = buffer
      BY <1>0, <3>1, <3>2, BufferMoves DEF ReadPlaces
    <3>4. QED
      BY <3>1, <3>3, UserElsewhere DEF DirectReads
  <2>4. QED
    BY <2>1, <2>2, <2>3
<1>5. ASSUME NEW r \in Readers, Past(r)', ~flags'.buffer
      PROVE  thread' \/ buffer' = <<>> \/ status' # "CONNECTED"
  <2>1. CASE t = r /\ pc[r] = "rsize" /\ buffer = <<>>
    BY <2>1, BufferMoves
  <2>2. CASE t = r /\ pc[r] = "rtake"
    <3>1. TakeBuffered(r)
      BY <2>2 DEF UserStep, RawEventStep, RawReadStep, FillStep, ReadStep, EventStep,
            WaitPlaces, RecvPlaces, FillPlaces, EventPlaces, ReadSize, ReadTest, ReadStatus,
            ReadMore, ReadThread, Move, Enter
    <3>2. pc'[r] = "rmore"
      BY <1>0, <3>1 DEF TakeBuffered, Move
    <3>3. Len(taken'[r]) < ReadLength
      BY <1>5, <3>2 DEF Past
    <3>4. QED
      BY <1>0, <3>1, <3>3, Taking DEF Structure
  <2>3. CASE t = r /\ Past(r)
    <3>1. pc[r] \notin {"push", "rtake"}
      BY <2>3 DEF Past
    <3>2. buffer' = buffer
      BY <2>3, <3>1, BufferMoves
    <3>3. UNCHANGED <<thread, flags>> /\ (status # "CONNECTED" => status' # "CONNECTED")
      BY UserElsewhere
    <3>4. thread \/ buffer = <<>> \/ status # "CONNECTED"
      BY <1>5, <2>3, <3>3 DEF DirectReads
    <3>5. QED
      BY <3>2, <3>3, <3>4
  <2>4. CASE t # r
    <3>0. /\ r \in Threads \ {t} /\ t \notin Readers
          /\ pc'[r] = pc[r] /\ taken'[r] = taken[r] /\ found' = found /\ flags' = flags
      BY <1>0, <2>4, UserElsewhere, ThreadAssumption
    <3>1. Past(r) /\ ~flags.buffer
      BY <1>5, <3>0 DEF Past
    <3>2. thread \/ buffer = <<>> \/ status # "CONNECTED"
      BY <3>1 DEF DirectReads
    <3>3. CASE InFill(t)
      <4>1. thread
        BY <1>0, <2>4, <3>0, <3>3
           DEF Structure, Modes, IInv, Places, Stopping, InFill, Threads, Users, WaitPlaces,
               RecvPlaces, FillPlaces
      <4>2. QED
        BY <4>1, UserElsewhere
    <3>4. CASE ~InFill(t)
      <4>1. buffer' = buffer
        BY <1>0, <3>0, <3>4, BufferMoves DEF ReadPlaces
      <4>2. QED
        BY <3>2, <4>1, UserElsewhere
    <3>5. QED
      BY <3>3, <3>4
  <2>5. QED
    BY <1>5, <2>1, <2>2, <2>3, <2>4, BufferMoves
<1>6. QED
  BY <1>1, <1>2, <1>3, <1>4, <1>5 DEF DirectReads

LEMMA DirectReadsOwner ==
    ASSUME Structure, DirectReads, NeverSwitchedOff, OwnerStep \/ Disable \/ CloseSocket
    PROVE  DirectReads'
<1>0. /\ pc \in [Threads -> ThreadStates] /\ mode \in [Threads -> CallModes]
      /\ Readers \subseteq Threads \ {Owner} /\ Owner \in Threads
  BY Apart DEF Structure, TypeOK, CallModes, Users
<1>1. /\ \A s \in Threads \ {Owner} : pc'[s] = pc[s] /\ mode'[s] = mode[s]
      /\ thread' => thread
      /\ UNCHANGED <<flags, found, taken>>
  BY OwnerMoves
<1>2. FALSE \notin MayBuffer => \A r \in Readers : pc'[r] # "out" => flags'.buffer
  BY <1>0, <1>1 DEF DirectReads
<1>3. "disable" \notin Calls /\ pc'[Owner] # "out" =>
          mode'[Owner] = "close" /\ status' # "CONNECTED"
  <2>1. CASE Disable
    BY <2>1 DEF Disable
  <2>2. CASE CloseSocket
    BY <1>0, <2>2 DEF CloseSocket, Move, Enter
  <2>3. CASE OwnerStep
    <3>1. pc[Owner] # "out" /\ UNCHANGED <<mode, status>>
      BY <2>3 DEF OwnerStep, StopThread, Join, ForgetThread, TellWaiters, ClosePipe,
                  ClearPipeFlag, CloseThread, CloseFd, ClearBuffer, DeleteBlock, Move
    <3>2. QED
      BY <3>1 DEF DirectReads
  <2>4. QED
    BY <2>1, <2>2, <2>3
<1>4. ~AutoBuffer /\ "enable" \notin Calls => ~thread'
  BY <1>1 DEF DirectReads
<1>5. /\ buffer' = buffer \/ buffer' = <<>>
      /\ status # "CONNECTED" => status' # "CONNECTED"
  BY DEF OwnerStep, StopThread, Join, ForgetThread, TellWaiters, ClosePipe, ClearPipeFlag,
         CloseThread, CloseFd, ClearBuffer, DeleteBlock, Disable, CloseSocket
<1>6. \A r \in Readers : InDirect(r)' =>
          ~flags'.buffer /\ (buffer' = <<>> \/ (pc'[r] = "raw" /\ status' # "CONNECTED"))
  BY <1>0, <1>1, <1>5 DEF DirectReads, InDirect
<1>7. ASSUME NEW r \in Readers, Past(r)', ~flags'.buffer
      PROVE  thread' \/ buffer' = <<>> \/ status' # "CONNECTED"
  <2>1. pc[r] # "out" /\ Past(r) /\ ~flags.buffer
    BY <1>0, <1>1, <1>7 DEF Past
  <2>2. thread \/ buffer = <<>> \/ status # "CONNECTED"
    BY <2>1 DEF DirectReads
  <2>3. CASE ForgetThread
    <3>1. pc[Owner] = "forget" /\ thread
      BY <2>3 DEF ForgetThread, Move, Structure, IInv, Stopping
    <3>2. status # "CONNECTED"
      BY <2>1, <3>1 DEF NeverSwitchedOff, DirectReads
    <3>3. QED
      BY <1>5, <3>2
  <2>4. CASE ~ForgetThread
    <3>1. thread' = thread
      BY <2>4 DEF OwnerStep, StopThread, Join, TellWaiters, ClosePipe, ClearPipeFlag,
                  CloseThread, CloseFd, ClearBuffer, DeleteBlock, Disable, CloseSocket
    <3>2. QED
      BY <1>5, <2>2, <3>1
  <2>5. QED
    BY <2>3, <2>4
<1>8. QED
  BY <1>2, <1>3, <1>4, <1>6, <1>7 DEF DirectReads

LEMMA DirectReadsStep ==
    Structure /\ Alone /\ DirectReads /\ NeverSwitchedOff /\ [Next]_vars => DirectReads'
<1> SUFFICES ASSUME Structure, Alone, DirectReads, NeverSwitchedOff, [Next]_vars
             PROVE  DirectReads'
  OBVIOUS
<1> USE Apart
<1>0. /\ pc \in [Threads -> ThreadStates] /\ mode \in [Threads -> CallModes]
      /\ Readers \subseteq Users
  BY DEF Structure, TypeOK, CallModes, Users
<1>1. CASE UNCHANGED vars
  BY <1>1 DEF vars, locals, DirectReads, Past, InDirect
<1>2. CASE PeerSend \/ PeerClose
  <2>1. UNCHANGED <<pc, mode, thread, status, buffer, flags, found, taken>>
    BY <1>2 DEF PeerSend, PeerClose, locals
  <2>2. QED
    BY <2>1 DEF DirectReads, Past, InDirect
<1>3. ASSUME NEW u \in Users, Read(u) PROVE DirectReads'
  <2>1. /\ u \in Readers /\ flags' \in [just : MayJustRead, buffer : MayBuffer]
        /\ \A s \in Threads \ {u} : pc'[s] = pc[s] /\ mode'[s] = mode[s]
        /\ pc'[u] = "rsize" \/ (pc'[u] = "block" /\ mode'[u] = "fillNow")
        /\ UNCHANGED <<thread, status, buffer>>
    BY <1>0, <1>3 DEF Read, Move, Enter
  <2>2. \A r \in Readers : r = u
    BY <2>1, ThreadAssumption
  <2>3. FALSE \notin MayBuffer => flags'.buffer
    BY <2>1, ParameterAssumption
  <2>4. ~InDirect(u)' /\ ~Past(u)' /\ pc'[Owner] = pc[Owner] /\ mode'[Owner] = mode[Owner]
    BY <2>1 DEF InDirect, Past, WaitPlaces, RecvPlaces
  <2>5. QED
    BY <2>1, <2>2, <2>3, <2>4 DEF DirectReads
<1>4. ASSUME NEW w \in Users, WaitForSocketEvent(w) PROVE DirectReads'
  <2>1. /\ w \notin Readers
        /\ \A s \in Threads \ {w} : pc'[s] = pc[s] /\ mode'[s] = mode[s]
        /\ UNCHANGED <<thread, status, buffer, flags, found, taken>>
    BY <1>0, <1>4, ThreadAssumption DEF WaitForSocketEvent, Move, Enter, locals
  <2>2. QED
    BY <1>0, <2>1 DEF DirectReads, Past, InDirect
<1>5. CASE BufferLoop \/ SignalDone
  <2>1. /\ \A s \in Threads \ {Buffer} : pc'[s] = pc[s] /\ mode'[s] = mode[s]
        /\ UNCHANGED <<thread, status, buffer, flags, found, taken>>
    BY <1>0, <1>5 DEF BufferLoop, SignalDone, Move, Enter, locals
  <2>2. QED
    BY <1>0, <2>1 DEF DirectReads, Past, InDirect
<1>6. CASE Enable
  <2>1. /\ UNCHANGED <<mode, status, buffer, flags, found, taken>>
        /\ \A s \in Threads \ {Buffer} : pc'[s] = pc[s]
        /\ \A u \in Users : pc[u] = "out"
        /\ "enable" \in Calls
    BY <1>0, <1>6 DEF Enable, locals
  <2>2. \A r \in Readers : pc'[r] = "out"
    BY <1>0, <2>1
  <2>3. QED
    BY <2>1, <2>2 DEF DirectReads, Past, InDirect, WaitPlaces, RecvPlaces
<1>7. CASE OwnerStep \/ Disable \/ CloseSocket
  BY <1>7, DirectReadsOwner
<1>8. QED
  BY <1>1, <1>2, <1>3, <1>4, <1>5, <1>6, <1>7, DirectReadsUser DEF Next, BufferStep, OwnerCall

-----------------------------------------------------------------------------
(* The order of the bytes *)

\* Bytes that follow one another, in two parts and put together.
LEMMA FollowsSplit ==
    ASSUME NEW s \in Seq(Bytes), NEW k \in 0 .. Len(s), NEW first \in Int, Follows(s, first)
    PROVE  /\ Follows(SubSeq(s, 1, k), first)
           /\ Follows(SubSeq(s, k + 1, Len(s)), first + k)
<1> DEFINE a == SubSeq(s, 1, k)
           b == SubSeq(s, k + 1, Len(s))
<1>1. /\ Len(s) \in Nat /\ k \in Nat /\ k <= Len(s)
      /\ Len(a) = k /\ \A i \in 1 .. k : a[i] = s[i]
      /\ Len(b) = Len(s) - k /\ \A i \in 1 .. Len(s) - k : b[i] = s[k + i]
  BY SplitAt, Lengths
<1> HIDE DEF a, b
<1>2. ASSUME NEW i \in 1 .. k PROVE a[i] = first + i
  BY <1>1 DEF Follows
<1>3. ASSUME NEW i \in 1 .. Len(s) - k PROVE b[i] = (first + k) + i
  <2>1. k + i \in 1 .. Len(s)
    BY <1>1
  <2>2. s[k + i] = first + (k + i)
    BY <2>1 DEF Follows
  <2>3. QED
    BY <1>1, <2>2
<1>4. Follows(a, first) /\ Follows(b, first + k)
  BY <1>1, <1>2, <1>3 DEF Follows
<1>5. QED
  BY <1>4 DEF a, b

LEMMA FollowsJoin ==
    ASSUME NEW s \in Seq(Bytes), NEW t \in Seq(Bytes), NEW first \in Int,
           Follows(s, first), Follows(t, first + Len(s))
    PROVE  Follows(s \o t, first)
<1>1. /\ Len(s) \in Nat /\ Len(t) \in Nat /\ Len(s \o t) = Len(s) + Len(t)
      /\ \A i \in 1 .. Len(s) : (s \o t)[i] = s[i]
      /\ \A i \in Len(s) + 1 .. Len(s) + Len(t) : (s \o t)[i] = t[i - Len(s)]
  BY Joined, Lengths
<1>2. ASSUME NEW i \in 1 .. Len(s) PROVE (s \o t)[i] = first + i
  BY <1>1 DEF Follows
<1>3. ASSUME NEW i \in Len(s) + 1 .. Len(s) + Len(t) PROVE (s \o t)[i] = first + i
  <2>1. i - Len(s) \in 1 .. Len(t)
    BY <1>1
  <2>2. t[i - Len(s)] = (first + Len(s)) + (i - Len(s))
    BY <2>1 DEF Follows
  <2>3. (first + Len(s)) + (i - Len(s)) = first + i
    BY <1>1
  <2>4. QED
    BY <1>1, <2>2, <2>3
<1>4. \A i \in 1 .. Len(s) + Len(t) : i \in 1 .. Len(s) \/ i \in Len(s) + 1 .. Len(s) + Len(t)
  BY <1>1
<1>5. QED
  BY <1>1, <1>2, <1>3, <1>4 DEF Follows

LEMMA FollowsParts ==
    ASSUME NEW s \in Seq(Bytes), NEW t \in Seq(Bytes), NEW first \in Int,
           Follows(s \o t, first)
    PROVE  Follows(s, first) /\ Follows(t, first + Len(s))
<1>1. /\ Len(s) \in Nat /\ Len(t) \in Nat /\ Len(s \o t) = Len(s) + Len(t)
      /\ \A i \in 1 .. Len(s) : (s \o t)[i] = s[i]
      /\ \A i \in Len(s) + 1 .. Len(s) + Len(t) : (s \o t)[i] = t[i - Len(s)]
  BY Joined, Lengths
<1>2. \A i \in 1 .. Len(s) + Len(t) : (s \o t)[i] = first + i
  BY <1>1 DEF Follows
<1>3. ASSUME NEW i \in 1 .. Len(t) PROVE t[i] = first + Len(s) + i
  <2>1. Len(s) + i \in Len(s) + 1 .. Len(s) + Len(t) /\ Len(s) + i \in 1 .. Len(s) + Len(t)
    BY <1>1
  <2>2. (Len(s) + i) - Len(s) = i
    BY <1>1
  <2>3. (s \o t)[Len(s) + i] = t[(Len(s) + i) - Len(s)]
    BY <1>1, <2>1
  <2>4. (s \o t)[Len(s) + i] = first + (Len(s) + i)
    BY <1>2, <2>1
  <2>5. t[i] = first + (Len(s) + i)
    BY <2>2, <2>3, <2>4
  <2>6. QED
    BY <1>1, <2>5
<1>4. QED
  BY <1>1, <1>2, <1>3 DEF Follows

LEMMA Extended ==
    ASSUME NEW s \in Seq(Bytes), NEW t \in Seq(Bytes), Follows(s, 0), Follows(t, Len(s))
    PROVE  s \o t \in Seq(Bytes) /\ Len(s \o t) = Len(s) + Len(t) /\ Follows(s \o t, 0)
<1>1. 0 + Len(s) = Len(s)
  BY Lengths
<1>2. QED
  BY <1>1, Joined, FollowsJoin

LEMMA Counted ==
    ASSUME NEW s \in Seq(Bytes), NEW n \in Nat, Len(s) = n, Follows(s, 0)
    PROVE  s = [i \in 1 .. n |-> i]
BY DEF Follows

LEMMA FollowsNothing == \A first \in Int : Follows(<<>>, first)
BY DEF Follows

\* Bytes that come after all that has been consumed are consumed.
LEMMA Consumed ==
    ASSUME NEW con \in Seq(Bytes), NEW s \in Seq(Bytes), NEW handed \in Nat,
           InOrder(con), \A i \in 1 .. Len(con) : con[i] <= handed, Follows(s, handed)
    PROVE  /\ InOrder(con \o s)
           /\ \A i \in 1 .. Len(con \o s) : (con \o s)[i] <= handed + Len(s)
<1>1. /\ con \o s \in Seq(Bytes) /\ Len(con \o s) = Len(con) + Len(s)
      /\ \A i \in 1 .. Len(con) : (con \o s)[i] = con[i]
      /\ \A i \in Len(con) + 1 .. Len(con) + Len(s) : (con \o s)[i] = s[i - Len(con)]
  BY Joined
<1>2. Len(con) \in Nat /\ Len(s) \in Nat /\ \A i \in 1 .. Len(con) : con[i] \in Int
  BY Lengths, ParameterAssumption DEF Bytes
<1>3. \A i \in Len(con) + 1 .. Len(con) + Len(s) : (con \o s)[i] = handed + (i - Len(con))
  BY <1>1, <1>2 DEF Follows
<1>4. ASSUME NEW i \in 1 .. Len(con \o s) - 1
      PROVE  (con \o s)[i] < (con \o s)[i + 1]
  <2>1. CASE i < Len(con)
    BY <1>1, <1>2, <2>1 DEF InOrder
  <2>2. CASE i = Len(con)
    BY <1>1, <1>2, <1>3, <2>2
  <2>3. CASE i > Len(con)
    BY <1>1, <1>2, <1>3, <2>3
  <2>4. QED
    BY <1>2, <2>1, <2>2, <2>3
<1>5. \A i \in 1 .. Len(con \o s) : (con \o s)[i] <= handed + Len(s)
  BY <1>1, <1>2, <1>3
<1>6. QED
  BY <1>4, <1>5 DEF InOrder

\* The peer sends one more.
LEMMA LinkSend ==
    ASSUME NEW h \in Nat, NEW con \in Seq(Bytes), NEW buf \in Seq(Bytes),
           NEW hand \in Seq(Bytes), NEW inb \in Seq(Bytes), NEW n \in Nat,
           NEW whole,
           Linked(h, con, buf, hand, inb, n, whole), n + 1 \in Bytes
    PROVE  Linked(h, con, buf, hand, Append(inb, n + 1), n + 1, whole)
<1> DEFINE more == Append(inb, n + 1)
<1>1. /\ more \in Seq(Bytes) /\ Len(more) = Len(inb) + 1
      /\ \A i \in 1 .. Len(inb) : more[i] = inb[i]
      /\ more[Len(inb) + 1] = n + 1
  BY Appended
<1>2. Len(inb) \in Nat /\ Len(buf) \in Nat /\ Len(hand) \in Nat
  BY Lengths
<1>3. /\ n = h + Len(buf) + Len(hand) + Len(inb)
      /\ \A i \in 1 .. Len(inb) : inb[i] = h + Len(buf) + Len(hand) + i
  BY DEF Linked, Follows
<1> HIDE DEF more
<1>4. Follows(more, h + Len(buf) + Len(hand))
  <2>1. \A i \in 1 .. Len(inb) : more[i] = h + Len(buf) + Len(hand) + i
    BY <1>1, <1>3
  <2>2. more[Len(inb) + 1] = h + Len(buf) + Len(hand) + (Len(inb) + 1)
    BY <1>1, <1>2, <1>3
  <2>3. \A i \in 1 .. Len(more) : i \in 1 .. Len(inb) \/ i = Len(inb) + 1
    BY <1>1, <1>2
  <2>4. QED
    BY <2>1, <2>2, <2>3 DEF Follows
<1>5. n + 1 = h + Len(buf) + Len(hand) + Len(more)
  BY <1>1, <1>2, <1>3
<1>6. Linked(h, con, buf, hand, more, n + 1, whole)
  BY <1>4, <1>5 DEF Linked
<1>7. QED
  BY <1>6 DEF more

\* recv() puts k bytes into m_socketReadBuffer.
LEMMA LinkFill ==
    ASSUME NEW h \in Nat, NEW con \in Seq(Bytes), NEW buf \in Seq(Bytes),
           NEW hand \in Seq(Bytes), NEW inb \in Seq(Bytes), NEW n \in Nat,
           NEW whole,
           Linked(h, con, buf, hand, inb, n, whole), NEW k \in 0 .. Len(inb)
    PROVE  Linked(h, con, buf, hand \o SubSeq(inb, 1, k), SubSeq(inb, k + 1, Len(inb)), n,
                  whole)
<1> DEFINE got  == SubSeq(inb, 1, k)
           left == SubSeq(inb, k + 1, Len(inb))
           all  == hand \o got
<1>1. /\ got \in Seq(Bytes) /\ Len(got) = k
      /\ left \in Seq(Bytes) /\ Len(left) = Len(inb) - k
  BY SplitAt
<1>2. Len(inb) \in Nat /\ Len(buf) \in Nat /\ Len(hand) \in Nat /\ k \in Nat
  BY Lengths
<1>3. /\ n = h + Len(buf) + Len(hand) + Len(inb)
      /\ Follows(inb, h + Len(buf) + Len(hand)) /\ Follows(hand, h + Len(buf))
  BY DEF Linked
<1>4. Follows(got, h + Len(buf) + Len(hand)) /\ Follows(left, h + Len(buf) + Len(hand) + k)
  <2>1. h + Len(buf) + Len(hand) \in Int
    BY <1>2
  <2>2. QED
    BY <1>3, <2>1, FollowsSplit
<1> HIDE DEF got, left
<1>5. Len(all) = Len(hand) + k
  BY <1>1, Joined
<1>6. Follows(all, h + Len(buf))
  <2>1. h + Len(buf) \in Int
    BY <1>2
  <2>2. QED
    BY <1>1, <1>3, <1>4, <2>1, FollowsJoin
<1> HIDE DEF all
<1>7. /\ h + Len(buf) + Len(all) = h + Len(buf) + Len(hand) + k
      /\ n = h + Len(buf) + Len(all) + Len(left)
  BY <1>1, <1>2, <1>3, <1>5
<1>8. Linked(h, con, buf, all, left, n, whole)
  BY <1>4, <1>6, <1>7 DEF Linked
<1>9. QED
  BY <1>8 DEF all, got, left

\* The block goes to m_readBuffer.
LEMMA LinkPush ==
    ASSUME NEW h \in Nat, NEW con \in Seq(Bytes), NEW buf \in Seq(Bytes),
           NEW hand \in Seq(Bytes), NEW inb \in Seq(Bytes), NEW n \in Nat,
           NEW whole,
           Linked(h, con, buf, hand, inb, n, whole)
    PROVE  Linked(h, con, buf \o hand, <<>>, inb, n, whole)
<1> DEFINE all == buf \o hand
<1>1. Len(inb) \in Nat /\ Len(buf) \in Nat /\ Len(hand) \in Nat
  BY Lengths
<1>2. Len(all) = Len(buf) + Len(hand) /\ Len(<<>>) = 0
  BY Joined
<1>3. /\ n = h + Len(buf) + Len(hand) + Len(inb)
      /\ Follows(inb, h + Len(buf) + Len(hand))
      /\ Follows(buf, h) /\ Follows(hand, h + Len(buf))
  BY DEF Linked
<1>4. Follows(all, h)
  BY <1>3, FollowsJoin
<1> HIDE DEF all
<1>5. /\ h + Len(all) + Len(<<>>) = h + Len(buf) + Len(hand)
      /\ n = h + Len(all) + Len(<<>>) + Len(inb)
      /\ h + Len(all) \in Int
  BY <1>1, <1>2, <1>3
<1>6. Linked(h, con, all, <<>>, inb, n, whole)
  BY <1>3, <1>4, <1>5, FollowsNothing DEF Linked
<1>7. QED
  BY <1>6 DEF all

\* read() takes the first bytes from m_readBuffer.
LEMMA LinkTake ==
    ASSUME NEW h \in Nat, NEW con \in Seq(Bytes), NEW got \in Seq(Bytes),
           NEW left \in Seq(Bytes), NEW hand \in Seq(Bytes), NEW inb \in Seq(Bytes),
           NEW n \in Nat, NEW whole,
           NEW buf, Divided(buf, got, left), Linked(h, con, buf, hand, inb, n, whole)
    PROVE  Linked(h + Len(got), con \o got, left, hand, inb, n, whole)
<1> DEFINE all == con \o got
           k   == Len(got)
<1>0. buf = got \o left
  BY DEF Divided
<1>1. Len(buf) = k + Len(left) /\ Len(all) = Len(con) + k
  BY <1>0, Joined
<1>2. /\ Len(inb) \in Nat /\ Len(left) \in Nat /\ Len(hand) \in Nat /\ Len(con) \in Nat
      /\ k \in Nat
  BY Lengths
<1>3. /\ n = h + Len(buf) + Len(hand) + Len(inb)
      /\ Follows(buf, h) /\ Follows(hand, h + Len(buf))
      /\ Follows(inb, h + Len(buf) + Len(hand))
      /\ InOrder(con) /\ \A i \in 1 .. Len(con) : con[i] <= h
      /\ whole => Len(con) = h /\ Follows(con, 0)
  BY DEF Linked
<1>4. Follows(got, h) /\ Follows(left, h + k)
  BY <1>0, <1>3, FollowsParts
<1>5. InOrder(all) /\ \A i \in 1 .. Len(all) : all[i] <= h + k
  BY <1>3, <1>4, Consumed
<1>6. whole => Len(all) = h + k /\ Follows(all, 0)
  <2> SUFFICES ASSUME whole PROVE Len(all) = h + k /\ Follows(all, 0)
    OBVIOUS
  <2>1. Len(con) = h /\ Follows(con, 0) /\ 0 + Len(con) = h
    BY <1>2, <1>3
  <2>2. QED
    BY <1>1, <1>4, <2>1, FollowsJoin
<1> HIDE DEF all, k
<1>7. /\ h + k + Len(left) = h + Len(buf)
      /\ h + k + Len(left) + Len(hand) = h + Len(buf) + Len(hand)
      /\ n = h + k + Len(left) + Len(hand) + Len(inb)
  BY <1>1, <1>2, <1>3
<1>8. Linked(h + k, all, left, hand, inb, n, whole)
  BY <1>3, <1>4, <1>5, <1>6, <1>7 DEF Linked
<1>9. QED
  BY <1>8 DEF all, k

\* rawRead() puts k bytes into the user's memory, past two empty buffers.
LEMMA LinkDirect ==
    ASSUME NEW h \in Nat, NEW con \in Seq(Bytes), NEW inb \in Seq(Bytes), NEW n \in Nat,
           NEW whole,
           Linked(h, con, <<>>, <<>>, inb, n, whole), NEW k \in 0 .. Len(inb)
    PROVE  Linked(h + k, con \o SubSeq(inb, 1, k), <<>>, <<>>, SubSeq(inb, k + 1, Len(inb)), n,
                  whole)
<1> DEFINE got  == SubSeq(inb, 1, k)
           left == SubSeq(inb, k + 1, Len(inb))
           all  == con \o got
<1>1. /\ got \in Seq(Bytes) /\ Len(got) = k
      /\ left \in Seq(Bytes) /\ Len(left) = Len(inb) - k
  BY SplitAt
<1>2. /\ Len(inb) \in Nat /\ Len(con) \in Nat /\ k \in Nat
      /\ Len(<<>>) = 0 /\ h + 0 = h /\ h + k + 0 = h + k /\ h + k \in Int
  BY Lengths
<1>3. /\ n = h + Len(inb) /\ Follows(inb, h)
      /\ InOrder(con) /\ \A i \in 1 .. Len(con) : con[i] <= h
      /\ whole => Len(con) = h /\ Follows(con, 0)
  BY <1>2 DEF Linked
<1>4. Follows(got, h) /\ Follows(left, h + k)
  BY <1>3, FollowsSplit
<1> HIDE DEF got, left
<1>5. Len(all) = Len(con) + k
  BY <1>1, Joined
<1>6. InOrder(all) /\ \A i \in 1 .. Len(all) : all[i] <= h + k
  BY <1>1, <1>3, <1>4, Consumed
<1>7. whole => Len(all) = h + k /\ Follows(all, 0)
  <2> SUFFICES ASSUME whole PROVE Len(all) = h + k /\ Follows(all, 0)
    OBVIOUS
  <2>1. Len(con) = h /\ Follows(con, 0) /\ 0 + Len(con) = h
    BY <1>2, <1>3
  <2>2. QED
    BY <1>1, <1>4, <1>5, <2>1, FollowsJoin
<1> HIDE DEF all
<1>8. n = h + k + Len(left)
  BY <1>1, <1>2, <1>3
<1>9. Linked(h + k, all, <<>>, <<>>, left, n, whole)
  BY <1>2, <1>4, <1>6, <1>7, <1>8, FollowsNothing DEF Linked
<1>10. QED
  BY <1>9 DEF all, got, left

\* closeSocket() drops what is buffered.
LEMMA LinkDrop ==
    ASSUME NEW h \in Nat, NEW con \in Seq(Bytes), NEW buf \in Seq(Bytes),
           NEW hand \in Seq(Bytes), NEW inb \in Seq(Bytes), NEW n \in Nat,
           NEW whole,
           Linked(h, con, buf, hand, inb, n, whole)
    PROVE  Linked(h + Len(buf), con, <<>>, hand, inb, n, FALSE)
<1>1. Len(inb) \in Nat /\ Len(buf) \in Nat /\ Len(hand) \in Nat /\ Len(con) \in Nat
  BY Lengths
<1>2. /\ n = h + Len(buf) + Len(hand) + Len(inb)
      /\ Follows(hand, h + Len(buf))
      /\ Follows(inb, h + Len(buf) + Len(hand))
      /\ InOrder(con) /\ \A i \in 1 .. Len(con) : con[i] <= h
  BY DEF Linked
<1>3. \A i \in 1 .. Len(con) : con[i] \in Int
  BY ParameterAssumption DEF Bytes
<1>4. \A i \in 1 .. Len(con) : con[i] <= h + Len(buf)
  BY <1>1, <1>2, <1>3
<1>5. Len(<<>>) = 0 /\ h + Len(buf) + 0 = h + Len(buf) /\ h + Len(buf) \in Int
  BY <1>1
<1>6. QED
  BY <1>2, <1>4, <1>5, FollowsNothing DEF Linked

-----------------------------------------------------------------------------
(* The steps that move bytes *)

LEMMA ChainTypes ==
    ASSUME Structure
    PROVE  /\ consumed \in Seq(Bytes) /\ buffer \in Seq(Bytes) /\ inbox \in Seq(Bytes)
           /\ raw \in [Threads -> Seq(Bytes)] /\ sent \in Nat
BY ParameterAssumption DEF Structure, TypeOK

\* Where the chain goes through does not matter if that buffer is empty.
LEMMA ChainAt ==
    ASSUME ByteChain, NEW t \in Threads, OnlyFiller(t)
    PROVE  Chain(t)
<1>1. PICK u \in Threads : OnlyFiller(u) /\ Chain(u)
  BY DEF ByteChain
<1>2. raw[u] = raw[t]
  BY <1>1 DEF OnlyFiller
<1>3. QED
  BY <1>1, <1>2 DEF Chain

\* Steps that move no bytes.
LEMMA ChainKept ==
    ASSUME ByteChain, UNCHANGED <<sent, inbox, raw, buffer, consumed>>,
           Undropped' => Undropped
    PROVE  ByteChain'
<1>1. PICK t \in Threads : OnlyFiller(t) /\ Chain(t)
  BY DEF ByteChain
<1>2. PICK h \in Nat :
         Linked(h, consumed, buffer, raw[t], inbox, sent, Undropped)
  BY <1>1 DEF Chain
<1>3. Linked(h, consumed, buffer, raw[t], inbox, sent, Undropped')
  BY <1>2 DEF Linked
<1>4. Chain(t)' /\ OnlyFiller(t)'
  BY <1>1, <1>3 DEF Chain, OnlyFiller
<1>5. QED
  BY <1>4 DEF ByteChain

\* The only steps of a thread that move bytes.
LEMMA ByteMoves ==
    ASSUME Structure, NEW t \in Threads, UserStep(t)
    PROVE  \/ UNCHANGED <<inbox, raw, buffer, consumed>>
           \/ GetBytes(t) /\ pc[t] \in {"recv", "recving"} /\ UNCHANGED buffer
           \/ Push(t)
           \/ TakeBuffered(t)
<1> USE DEF peer, locals
<1>1. CASE \/ TestPipe(t) \/ MakePipe(t) \/ NewPipe(t) \/ FlagPipe(t) \/ Poll(t) \/ Wake(t)
           \/ RawTest(t) \/ MakeBlock(t) \/ FillTest(t) \/ Misuse(t)
  BY <1>1 DEF TestPipe, MakePipe, NewPipe, FlagPipe, Poll, Wake, RawTest, MakeBlock, FillTest,
              Misuse
<1>2. CASE Recv(t) \/ RecvWakes(t)
  <2>1. ASSUME NEW from, NEW isOpen, RecvReturns(t, from, isOpen), from \in {"recv", "recving"}
        PROVE  \/ UNCHANGED <<inbox, raw, consumed>>
               \/ GetBytes(t) /\ pc[t] \in {"recv", "recving"}
    BY <2>1 DEF RecvReturns, Move
  <2>2. CASE Recv(t)
    BY <2>1, <2>2 DEF Recv
  <2>3. CASE RecvWakes(t)
    BY <2>1, <2>3 DEF RecvWakes
  <2>4. QED
    BY <1>2, <2>2, <2>3
<1>3. CASE ReadSize(t) \/ ReadTest(t) \/ ReadStatus(t) \/ ReadMore(t) \/ ReadThread(t)
           \/ EventStep(t)
  BY <1>3 DEF ReadSize, ReadTest, ReadStatus, ReadMore, ReadThread, EventStep, WaitStatus,
              WaitBuffer, WaitThread, WaitDone
<1>4. QED
  BY <1>1, <1>2, <1>3 DEF UserStep, RawEventStep, RawReadStep, FillStep, ReadStep, EventStep

\* What recv() takes, and where it puts it.
LEMMA Getting ==
    ASSUME TypeOK, NEW t \in Threads, GetBytes(t)
    PROVE  \E k \in 0 .. Len(inbox) :
              /\ inbox' = SubSeq(inbox, k + 1, Len(inbox))
              /\ IF mode[t] = "direct"
                 THEN consumed' = consumed \o SubSeq(inbox, 1, k) /\ raw' = raw
                 ELSE /\ raw' = [raw EXCEPT ![t] = @ \o SubSeq(inbox, 1, k)]
                      /\ consumed' = consumed
<1> DEFINE k == IF mode[t] = "direct" /\ Len(inbox) > ReadLength - Len(taken[t])
                THEN ReadLength - Len(taken[t]) ELSE Len(inbox)
<1>1. Len(inbox) \in Nat /\ Len(taken[t]) \in Nat /\ Len(taken[t]) <= ReadLength
  <2>1. inbox \in Seq(Bytes) /\ taken[t] \in Seq(Bytes) /\ Len(taken[t]) <= ReadLength
    BY DEF TypeOK
  <2>2. QED
    BY <2>1, Lengths
<1>2. k \in 0 .. Len(inbox)
  BY <1>1, ParameterAssumption
<1>3. /\ inbox' = SubSeq(inbox, k + 1, Len(inbox))
      /\ IF mode[t] = "direct"
         THEN consumed' = consumed \o SubSeq(inbox, 1, k) /\ raw' = raw
         ELSE /\ raw' = [raw EXCEPT ![t] = @ \o SubSeq(inbox, 1, k)]
              /\ consumed' = consumed
  BY DEF GetBytes
<1> HIDE DEF k
<1>4. QED
  BY <1>2, <1>3

\* A thread inside rawRead() is the one the bytes in m_socketReadBuffer are of.
LEMMA FillerInside ==
    ASSUME Structure, Alone, NEW t \in Threads, InFill(t) \/ InDirect(t)
    PROVE  OnlyFiller(t)
BY OneAtATime DEF Alone, OnlyFiller, Holding

\* A chain through t after a step that changed no other thread's block.
LEMMA ChainThrough ==
    ASSUME NEW t \in Threads, OnlyFiller(t), Chain(t)',
           \A s \in Threads \ {t} : raw'[s] = raw[s]
    PROVE  ByteChain'
BY DEF OnlyFiller, ByteChain

LEMMA ChainRecv ==
    ASSUME Structure, Alone, DirectReads, ByteChain, NEW t \in Threads, t # Owner,
           GetBytes(t), pc[t] \in {"recv", "recving"},
           UNCHANGED <<buffer, sent>>, pc'[Owner] = pc[Owner]
    PROVE  ByteChain'
<1> DEFINE whole == Undropped
<1>1. mode[t] \in {"fill", "fillNow", "direct"} /\ (InFill(t) \/ InDirect(t))
  BY DEF Structure, Modes, RecvPlaces, InFill, InDirect
<1>2. OnlyFiller(t) /\ Chain(t)
  BY <1>1, FillerInside, ChainAt
<1>3. PICK h \in Nat : Linked(h, consumed, buffer, raw[t], inbox, sent, whole)
  BY <1>2 DEF Chain
<1>4. PICK k \in 0 .. Len(inbox) :
         /\ inbox' = SubSeq(inbox, k + 1, Len(inbox))
         /\ IF mode[t] = "direct"
            THEN consumed' = consumed \o SubSeq(inbox, 1, k) /\ raw' = raw
            ELSE /\ raw' = [raw EXCEPT ![t] = @ \o SubSeq(inbox, 1, k)]
                 /\ consumed' = consumed
  BY Getting DEF Structure
<1>5. whole' = whole
  BY DEF Undropped
<1> HIDE DEF whole
<1>6. CASE mode[t] = "direct"
  <2>1. t \in Readers /\ InDirect(t) /\ ~InFill(t)
    BY <1>1, <1>6
       DEF InFill, Structure, Modes, IInv, Places, WaitPlaces, Threads, Users
  <2>2. buffer = <<>> /\ raw[t] = <<>>
    BY <2>1 DEF DirectReads, Alone, Holding
  <2>3. Linked(h, consumed, <<>>, <<>>, inbox, sent, whole)
    BY <1>3, <2>2
  <2>4. Linked(h + k, consumed', <<>>, <<>>, inbox', sent, whole)
    BY <1>4, <1>5, <1>6, <2>3, ChainTypes, LinkDirect
  <2>5. h + k \in Nat /\ buffer' = <<>> /\ raw'[t] = <<>>
    BY <1>4, <1>6, <2>2, ChainTypes, Lengths
  <2>6. Chain(t)'
    BY <1>5, <2>4, <2>5 DEF Chain, whole
  <2>7. QED
    BY <1>2, <1>4, <1>6, <2>6, ChainThrough
<1>7. CASE mode[t] # "direct"
  <2>1. /\ raw'[t] = raw[t] \o SubSeq(inbox, 1, k) /\ raw[t] \in Seq(Bytes)
        /\ \A s \in Threads \ {t} : raw'[s] = raw[s]
        /\ consumed' = consumed
    BY <1>4, <1>7, ChainTypes
  <2>2. Linked(h, consumed, buffer, raw'[t], inbox', sent, whole)
    BY <1>3, <1>4, <1>5, <2>1, ChainTypes, LinkFill
  <2>3. Chain(t)'
    BY <1>5, <2>1, <2>2 DEF Chain, whole
  <2>4. QED
    BY <1>2, <2>1, <2>3, ChainThrough
<1>8. QED
  BY <1>6, <1>7

LEMMA ChainPush ==
    ASSUME Structure, Alone, ByteChain, NEW t \in Threads, Push(t),
           UNCHANGED sent, pc'[Owner] = pc[Owner]
    PROVE  ByteChain'
<1> DEFINE whole == Undropped
<1>1. InFill(t)
  BY DEF Push, Move, InFill, FillPlaces, Structure, Modes
<1>2. OnlyFiller(t) /\ Chain(t)
  BY <1>1, FillerInside, ChainAt
<1>3. PICK h \in Nat : Linked(h, consumed, buffer, raw[t], inbox, sent, whole)
  BY <1>2 DEF Chain
<1>4. /\ buffer' = buffer \o raw[t] /\ raw' = [raw EXCEPT ![t] = <<>>]
      /\ inbox' = inbox /\ consumed' = consumed
  BY DEF Push, peer
<1>5. /\ raw[t] \in Seq(Bytes) /\ raw'[t] = <<>>
      /\ \A s \in Threads \ {t} : raw'[s] = raw[s]
  BY <1>4, ChainTypes
<1>6. whole' = whole
  BY DEF Undropped
<1> HIDE DEF whole
<1>7. Linked(h, consumed, buffer', <<>>, inbox, sent, whole)
  BY <1>3, <1>4, <1>5, <1>6, ChainTypes, LinkPush
<1>8. Chain(t)'
  BY <1>4, <1>5, <1>6, <1>7 DEF Chain, whole
<1>9. QED
  BY <1>2, <1>5, <1>8, ChainThrough

LEMMA ChainTake ==
    ASSUME Structure, ByteChain, NEW t \in Threads, TakeBuffered(t), pc'[Owner] = pc[Owner]
    PROVE  ByteChain'
<1> DEFINE whole == Undropped
<1>1. PICK u \in Threads : OnlyFiller(u) /\ Chain(u)
  BY DEF ByteChain
<1>2. PICK h \in Nat : Linked(h, consumed, buffer, raw[u], inbox, sent, whole)
  BY <1>1 DEF Chain
<1>3. PICK got \in Seq(Bytes) :
         /\ buffer' \in Seq(Bytes) /\ Divided(buffer, got, buffer')
         /\ consumed' = consumed \o got
         /\ UNCHANGED <<sent, inbox, raw>>
  BY Taking DEF Structure
<1>4. whole' = whole
  BY DEF Undropped
<1> HIDE DEF whole
<1>5. raw[u] \in Seq(Bytes) /\ h + Len(got) \in Nat
  BY ChainTypes, Lengths
<1>6. Linked(h + Len(got), consumed', buffer', raw[u], inbox, sent, whole)
  <2>1. /\ consumed \in Seq(Bytes) /\ inbox \in Seq(Bytes) /\ sent \in Nat
        /\ raw[u] \in Seq(Bytes) /\ h \in Nat
        /\ got \in Seq(Bytes) /\ buffer' \in Seq(Bytes)
    BY <1>3, <1>4, <1>5, ChainTypes
  <2>2. Divided(buffer, got, buffer') /\ Linked(h, consumed, buffer, raw[u], inbox, sent, whole)
    BY <1>2, <1>3
  <2>3. Linked(h + Len(got), consumed \o got, buffer', raw[u], inbox, sent, whole)
    BY <2>1, <2>2, LinkTake, Zenon
  <2>4. QED
    BY <1>3, <2>3
<1>7. Chain(u)'
  BY <1>3, <1>4, <1>5, <1>6 DEF Chain, whole
<1>8. QED
  BY <1>1, <1>3, <1>7, ChainThrough

LEMMA ChainUser ==
    ASSUME Structure, Alone, DirectReads, ByteChain, NEW t \in Threads, t # Owner, UserStep(t)
    PROVE  ByteChain'
<1>1. UNCHANGED sent /\ pc'[Owner] = pc[Owner]
  BY Apart, UserElsewhere
<1>2. CASE UNCHANGED <<inbox, raw, buffer, consumed>>
  BY <1>1, <1>2, ChainKept DEF Undropped
<1>3. CASE GetBytes(t) /\ pc[t] \in {"recv", "recving"} /\ UNCHANGED buffer
  BY <1>1, <1>3, ChainRecv
<1>4. CASE Push(t)
  BY <1>1, <1>4, ChainPush
<1>5. CASE TakeBuffered(t)
  BY <1>1, <1>5, ChainTake
<1>6. QED
  BY <1>2, <1>3, <1>4, <1>5, ByteMoves

LEMMA ChainSend ==
    ASSUME Structure, ByteChain, PeerSend
    PROVE  ByteChain'
<1> DEFINE whole == Undropped
<1>1. PICK t \in Threads : OnlyFiller(t) /\ Chain(t)
  BY DEF ByteChain
<1>2. PICK h \in Nat : Linked(h, consumed, buffer, raw[t], inbox, sent, whole)
  BY <1>1 DEF Chain
<1>3. /\ sent' = sent + 1 /\ inbox' = Append(inbox, sent + 1) /\ sent + 1 \in Bytes
      /\ UNCHANGED <<buffer, raw, consumed, pc>>
  BY ChainTypes, ParameterAssumption DEF PeerSend, locals, Bytes, Structure, TypeOK
<1>4. raw[t] \in Seq(Bytes) /\ whole' = whole
  BY <1>3, ChainTypes DEF Undropped
<1> HIDE DEF whole
<1>5. Linked(h, consumed, buffer, raw[t], Append(inbox, sent + 1), sent + 1, whole)
  BY <1>2, <1>3, <1>4, ChainTypes, LinkSend
<1>6. Chain(t)'
  BY <1>3, <1>4, <1>5 DEF Chain, whole
<1>7. QED
  BY <1>1, <1>3, <1>6, ChainThrough

LEMMA ChainClear ==
    ASSUME Structure, ByteChain, ClearBuffer
    PROVE  ByteChain'
<1>1. PICK t \in Threads : OnlyFiller(t) /\ Chain(t)
  BY DEF ByteChain
<1>2. PICK h \in Nat :
         Linked(h, consumed, buffer, raw[t], inbox, sent, Undropped)
  BY <1>1 DEF Chain
<1>3. /\ buffer' = <<>> /\ pc'[Owner] = "cdelete"
      /\ UNCHANGED <<sent, inbox, raw, consumed>>
  BY Apart DEF ClearBuffer, Move, peer, locals, Structure, TypeOK
<1>4. raw[t] \in Seq(Bytes) /\ h + Len(buffer) \in Nat
  BY ChainTypes, Lengths
<1>5. Linked(h + Len(buffer), consumed, <<>>, raw[t], inbox, sent, FALSE)
  BY <1>2, <1>4, ChainTypes, LinkDrop
<1>6. Linked(h + Len(buffer), consumed', buffer', raw'[t], inbox', sent', Undropped')
  <2>1. Undropped' = FALSE
    BY <1>3 DEF Undropped
  <2>2. QED
    BY <1>3, <1>5, <2>1
<1>7. Chain(t)'
  BY <1>4, <1>6 DEF Chain
<1>8. QED
  BY <1>1, <1>3, <1>7, ChainThrough

LEMMA ByteChainStep ==
    Structure /\ Alone /\ DirectReads /\ ByteChain /\ [Next]_vars => ByteChain'
<1> SUFFICES ASSUME Structure, Alone, DirectReads, ByteChain, [Next]_vars
             PROVE  ByteChain'
  OBVIOUS
<1> USE Apart
<1>0. pc \in [Threads -> ThreadStates]
  BY DEF Structure, TypeOK
<1>1. CASE UNCHANGED vars
  BY <1>1, ChainKept DEF vars, peer, locals, Undropped
<1>2. CASE PeerSend
  BY <1>2, ChainSend
<1>3. CASE PeerClose
  BY <1>3, ChainKept DEF PeerClose, locals, Undropped
<1>4. ASSUME NEW u \in Users, Read(u) \/ WaitForSocketEvent(u) PROVE ByteChain'
  <2>1. pc'[Owner] = pc[Owner] /\ buffer' = buffer
    BY <1>0, <1>4 DEF Read, WaitForSocketEvent, Move, Enter
  <2>2. QED
    BY <1>4, <2>1, OthersElsewhere, ChainKept DEF Undropped
<1>5. CASE BufferLoop \/ SignalDone
  <2>1. pc'[Owner] = pc[Owner] /\ buffer' = buffer
    BY <1>0, <1>5 DEF BufferLoop, SignalDone, Move, Enter
  <2>2. QED
    BY <1>5, <2>1, OthersElsewhere, ChainKept DEF Undropped
<1>6. CASE ClearBuffer
  BY <1>6, ChainClear
<1>7. CASE OwnerCall \/ (OwnerStep /\ ~ClearBuffer)
  <2>1. (Undropped' => Undropped) /\ buffer' = buffer
    BY <1>0, <1>7
       DEF OwnerCall, OwnerStep, Enable, Disable, CloseSocket, StopThread, Join, ForgetThread,
           TellWaiters, ClosePipe, ClearPipeFlag, CloseThread, CloseFd, DeleteBlock, Move,
           Enter, Undropped
  <2>2. QED
    BY <1>7, <2>1, OthersElsewhere, ChainKept
<1>8. QED
  BY <1>1, <1>2, <1>3, <1>4, <1>5, <1>6, <1>7, ChainUser DEF Next, BufferStep

-----------------------------------------------------------------------------
(* The invariants hold *)

LEMMA ChainInit == Init => Structure /\ Alone /\ DirectReads /\ ByteChain
<1> SUFFICES ASSUME Init PROVE Structure /\ Alone /\ DirectReads /\ ByteChain
  OBVIOUS
<1> USE Apart
<1>1. /\ \A t \in Threads : pc[t] = IF t = Buffer /\ AutoBuffer THEN "loop" ELSE "out"
      /\ \A t \in Threads : mode[t] = "none" /\ raw[t] = <<>>
      /\ thread = AutoBuffer /\ buffer = <<>> /\ consumed = <<>> /\ inbox = <<>> /\ sent = 0
  BY DEF Init
<1>2. Readers \subseteq Users /\ Waiters \subseteq Users
  BY DEF Users
<1>3. TypeOK /\ IInv
  BY TypeInit, Initially, ParameterAssumption
<1>4. Modes
  BY <1>1, <1>2 DEF Modes, WaitPlaces, RecvPlaces
<1>5. Alone
  BY <1>1, <1>2 DEF Alone, Holding, InFill, InDirect
<1>6. DirectReads
  BY <1>1, <1>2 DEF DirectReads, Past, InDirect
<1>7. Linked(0, <<>>, <<>>, <<>>, <<>>, 0, TRUE)
  <2>1. Len(<<>>) = 0
    OBVIOUS
  <2>2. InOrder(<<>>)
    BY <2>1 DEF InOrder
  <2>3. \A i \in 1 .. Len(<<>>) : <<>>[i] <= 0
    BY <2>1
  <2>4. QED
    BY <2>1, <2>2, <2>3, FollowsNothing DEF Linked
<1>8. ByteChain
  <2>1. OnlyFiller(Owner) /\ raw[Owner] = <<>>
    BY <1>1 DEF OnlyFiller
  <2>2. Linked(0, consumed, buffer, raw[Owner], inbox, sent, Undropped)
    <3>1. Undropped = TRUE
      BY <1>1 DEF Undropped
    <3>2. QED
      BY <1>1, <1>7, <2>1, <3>1
  <2>3. QED
    BY <2>1, <2>2 DEF ByteChain, Chain
<1>9. QED
  BY <1>3, <1>4, <1>5, <1>6, <1>8 DEF Structure

LEMMA StructureStep == Structure /\ [Next]_vars => Structure'
BY TypeStep, ModesStep, IInvStep DEF Structure, IInv

(***************************************************************************)
(* Every variable of the socket and of the threads in it keeps to its      *)
(* values, and no read() gets more than the ReadLength bytes its caller    *)
(* has room for, whatever its recv() and its look into the buffer return.  *)
(***************************************************************************)
THEOREM TypeCorrect == SafeSpec => []TypeOK
<1>1. Init => Structure
  BY ChainInit
<1>2. Structure => TypeOK
  BY DEF Structure
<1>3. QED
  BY <1>1, <1>2, StructureStep, PTL DEF SafeSpec

\* A chain without gaps is all that the peer has sent.
LEMMA WholeChain ==
    ASSUME Structure, ByteChain
    PROVE  BytesInOrder
<1>1. PICK t \in Threads : OnlyFiller(t) /\ Chain(t)
  BY DEF ByteChain
<1>2. PICK h \in Nat :
         Linked(h, consumed, buffer, raw[t], inbox, sent, Undropped)
  BY <1>1 DEF Chain
<1>3. InOrder(consumed)
  BY <1>2 DEF Linked
<1>4. ASSUME Undropped
      PROVE  consumed \o buffer \o raw[t] \o inbox = [i \in 1 .. sent |-> i]
  <2> DEFINE two   == consumed \o buffer
             three == two \o raw[t]
             four  == three \o inbox
  <2>1. /\ consumed \in Seq(Bytes) /\ buffer \in Seq(Bytes) /\ inbox \in Seq(Bytes)
        /\ raw[t] \in Seq(Bytes) /\ sent \in Nat
    BY ChainTypes
  <2>2. /\ sent = h + Len(buffer) + Len(raw[t]) + Len(inbox)
        /\ Follows(buffer, h) /\ Follows(raw[t], h + Len(buffer))
        /\ Follows(inbox, h + Len(buffer) + Len(raw[t]))
        /\ Len(consumed) = h /\ Follows(consumed, 0)
    BY <1>2, <1>4 DEF Linked
  <2>3. two \in Seq(Bytes) /\ Len(two) = h + Len(buffer) /\ Follows(two, 0)
    BY <2>1, <2>2, Extended
  <2> HIDE DEF two
  <2>4. three \in Seq(Bytes) /\ Len(three) = h + Len(buffer) + Len(raw[t])
        /\ Follows(three, 0)
    <3>1. Follows(raw[t], Len(two))
      BY <2>2, <2>3
    <3>2. /\ three \in Seq(Bytes) /\ Len(three) = Len(two) + Len(raw[t])
          /\ Follows(three, 0)
      BY <2>1, <2>3, <3>1, Extended
    <3> HIDE DEF three
    <3>3. QED
      BY <2>3, <3>2
  <2> HIDE DEF three
  <2>5. four \in Seq(Bytes) /\ Len(four) = sent /\ Follows(four, 0)
    <3>1. Follows(inbox, Len(three))
      BY <2>2, <2>4
    <3>2. /\ four \in Seq(Bytes) /\ Len(four) = Len(three) + Len(inbox)
          /\ Follows(four, 0)
      BY <2>1, <2>4, <3>1, Extended
    <3>3. QED
      BY <2>2, <2>4, <3>2
  <2> HIDE DEF four
  <2>6. four = [i \in 1 .. sent |-> i]
    BY <2>1, <2>5, Counted
  <2>7. QED
    BY <2>6 DEF two, three, four
<1>5. QED
  BY <1>1, <1>3, <1>4 DEF BytesInOrder

(***************************************************************************)
(* read() gets the bytes in the order the peer sent them, each once, on    *)
(* every way from the socket, if NeverSwitchedOff: without that a read()   *)
(* that goes past m_readBuffer can overtake what the auto-buffer thread    *)
(* left in it.                                                             *)
(***************************************************************************)
THEOREM BytesInOrderHolds == ASSUME NeverSwitchedOff PROVE SafeSpec => []BytesInOrder
<1> DEFINE Inv == Structure /\ Alone /\ DirectReads /\ ByteChain
<1>1. Init => Inv
  BY ChainInit
<1>2. Inv /\ [Next]_vars => Inv'
  BY StructureStep, AloneStep, DirectReadsStep, ByteChainStep
<1>3. Inv => BytesInOrder
  BY WholeChain
<1>4. QED
  BY <1>1, <1>2, <1>3, PTL DEF SafeSpec
=============================================================================
