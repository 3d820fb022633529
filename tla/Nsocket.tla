------------------------------ MODULE Nsocket ------------------------------
(***************************************************************************)
(* A connected Nsocket (src/src/nsocket.cxx): its peer, the thread of      *)
(* setAutoReadBuffering(), threads inside read() and waitForSocketEvent(), *)
(* and the thread that owns the socket, switches buffering and closes it.  *)
(*                                                                         *)
(* A step is one test or one change of what the threads share; m_status,   *)
(* the pipe's descriptors and m_autoBufferThread have no lock.  What is    *)
(* done under m_readbufferOwner is one step.  No call has a timeout.       *)
(* Bytes are numbered in the order the peer sends them.                    *)
(***************************************************************************)
EXTENDS Integers, Sequences

CONSTANTS
    Readers,        \* threads that call read()
    Waiters,        \* threads that call waitForSocketEvent()
    Owner,          \* the thread that calls the other methods
    Buffer,         \* the auto-buffer thread
    AutoBuffer,     \* whether that thread runs in Init
    Calls,          \* what Owner may call: "enable", "disable", "close"
    ReadLength,     \* theLength of every read()
    MayJustRead,    \* what its theJustReadAvailableFlag may be
    MayBuffer,      \* what its theBufferReadsFlag may be
    MaxBytes,       \* BOUND: how many bytes the peer sends
    MaxDone         \* BOUND: m_threadDoneUpdate counts no further than this

Users == Readers \cup Waiters
Threads == Users \cup {Owner, Buffer}

ASSUME ThreadAssumption ==
    /\ Readers \cap Waiters = {}
    /\ Owner \notin Users /\ Buffer \notin Users /\ Owner # Buffer
    /\ \A r, s \in Readers : r = s    \* m_socketReadBuffer serves one reader
ASSUME ParameterAssumption ==
    /\ AutoBuffer \in BOOLEAN /\ MayJustRead \subseteq BOOLEAN /\ MayBuffer \subseteq BOOLEAN
    /\ ReadLength \in Nat /\ MaxBytes \in Nat /\ MaxDone \in Nat \ {0}

VARIABLES
    peerOpen, sent, inbox, \* the peer, and the bytes the kernel has for us
    status,                \* m_status
    fdOpen,                \* m_socket is an open descriptor
    pipeFlag, pipeNo,      \* m_closePipeCreatedFlag; which pipe m_closePipe is
    closedPipes,           \* the pipes that are not open
    buffer,                \* m_readBuffer
    thread,                \* m_autoBufferThread # NULL
    stop, done,            \* m_autoBufferThreadStop, m_threadDoneUpdate
    pc, mode,              \* where a thread is, and which call brought it there
    polled,                \* polled[t]: the pipe t polls, 0 if it does not
    raw,                   \* raw[t]: what t's rawRead() has put in m_socketReadBuffer
    block,                 \* m_socketReadBuffer itself
    flags,                 \* the two flags of the reader's present call
    found,                 \* whether its buffSize is not 0
    taken,                 \* taken[t]: `length', what t's read() has got so far
    consumed               \* all that read() calls have got, in order

peer   == <<peerOpen, sent, inbox>>
pipe   == <<pipeFlag, pipeNo, closedPipes>>
locals == <<polled, raw, block, flags, found, taken, consumed>>
vars   == <<peer, status, fdOpen, pipe, buffer, thread, stop, done, pc, mode, locals>>

Bytes == 1 .. MaxBytes

ThreadStates ==
    {"out",
     "block", "fill", "pipe", "mkpipe", "newpipe", "flagpipe", "poll", "polling",
     "raw", "recv", "recving", "push", "loop", "signal",
     "rsize", "rtop", "rstatus", "rtake", "rmore", "rthread",
     "wstatus", "wbuffer", "wthread", "wevent",
     "cpipe", "cflag", "cthread", "stop", "join", "forget", "tell", "cfd", "cclear",
     "cdelete", "closed"}

\* "none": NULL, its size not known; "there"; "deleted": NULL again; "locked": NULL
\* with m_socketReadbufferOwner locked for good; "misused": used after its end.
BlockStates == {"none", "there", "deleted", "locked", "misused"}

TypeOK ==
    /\ peerOpen \in BOOLEAN /\ fdOpen \in BOOLEAN /\ pipeFlag \in BOOLEAN
    /\ thread \in BOOLEAN /\ stop \in BOOLEAN /\ found \in BOOLEAN
    /\ block \in BlockStates
    /\ flags \in [just : BOOLEAN, buffer : BOOLEAN]
    /\ sent \in 0 .. MaxBytes
    /\ {inbox, buffer, consumed} \subseteq Seq(Bytes)
    /\ status \in {"CONNECTED", "REMOTE_CLOSED", "CLOSED"}
    /\ pipeNo \in Nat /\ closedPipes \subseteq 0 .. pipeNo
    /\ done \in 0 .. MaxDone
    /\ mode \in [Threads -> {"none", "fill", "fillNow", "direct", "wait", "close"}]
    /\ polled \in [Threads -> 0 .. pipeNo]
    /\ raw \in [Threads -> Seq(Bytes)]
    /\ taken \in [Threads -> Seq(Bytes)]
    /\ \A t \in Threads : Len(taken[t]) <= ReadLength
    /\ pc \in [Threads -> ThreadStates]

Init ==
    /\ peerOpen = TRUE /\ sent = 0 /\ inbox = <<>>
    /\ status = "CONNECTED" /\ fdOpen = TRUE
    /\ pipeFlag = FALSE /\ pipeNo = 0 /\ closedPipes = {0}
    /\ buffer = <<>>
    /\ thread = AutoBuffer /\ stop = FALSE /\ done = 0
    /\ pc = [t \in Threads |-> IF t = Buffer /\ AutoBuffer THEN "loop" ELSE "out"]
    /\ mode = [t \in Threads |-> "none"]
    /\ polled = [t \in Threads |-> 0]
    /\ raw = [t \in Threads |-> <<>>]
    /\ block = "none" /\ found = FALSE
    /\ flags = [just |-> FALSE, buffer |-> FALSE]
    /\ taken = [t \in Threads |-> <<>>]
    /\ consumed = <<>>

Move(t, from, to) ==
    /\ pc[t] = from
    /\ pc' = [pc EXCEPT ![t] = to]

Enter(t, from, to, m) ==
    /\ Move(t, from, to)
    /\ mode' = [mode EXCEPT ![t] = m]

-----------------------------------------------------------------------------
(* The peer *)

PeerSend ==
    /\ peerOpen /\ sent < MaxBytes
    /\ sent' = sent + 1
    /\ inbox' = Append(inbox, sent')
    /\ UNCHANGED <<peerOpen, status, fdOpen, pipe, buffer, thread, stop, done, pc, mode,
                   locals>>

PeerClose ==
    /\ peerOpen
    /\ peerOpen' = FALSE
    /\ UNCHANGED <<sent, inbox, status, fdOpen, pipe, buffer, thread, stop, done, pc, mode,
                   locals>>

\* What makes poll() and recv() return.
Readable == inbox # <<>> \/ ~peerOpen

-----------------------------------------------------------------------------
(* waitForRawSocketEvent() *)

TestPipe(t) ==
    /\ Move(t, "pipe", IF pipeFlag THEN "poll" ELSE "mkpipe")
    /\ UNCHANGED <<peer, status, fdOpen, pipe, buffer, thread, stop, done, mode, locals>>

\* createClosePipe() tests the flag again.
MakePipe(t) ==
    /\ Move(t, "mkpipe", IF pipeFlag THEN "poll" ELSE "newpipe")
    /\ UNCHANGED <<peer, status, fdOpen, pipe, buffer, thread, stop, done, mode, locals>>

\* pipe( m_closePipe )
NewPipe(t) ==
    /\ Move(t, "newpipe", "flagpipe")
    /\ pipeNo' = pipeNo + 1
    /\ UNCHANGED <<pipeFlag, closedPipes, peer, status, fdOpen, buffer, thread, stop, done,
                   mode, locals>>

FlagPipe(t) ==
    /\ Move(t, "flagpipe", "poll")
    /\ pipeFlag' = TRUE
    /\ UNCHANGED <<pipeNo, closedPipes, peer, status, fdOpen, buffer, thread, stop, done,
                   mode, locals>>

\* Where waitForRawSocketEvent() returns to.
AfterWait(t) == IF t \in Readers THEN "rsize" ELSE "out"

AfterPoll(t) ==
    CASE mode[t] = "fill"   -> "raw"
      [] mode[t] = "direct" -> "recv"
      [] mode[t] = "wait"   -> AfterWait(t)

\* poll(): a descriptor that is closed already makes it return at once.
Poll(t) ==
    /\ IF fdOpen /\ pipeNo \notin closedPipes
       THEN Move(t, "poll", "polling") /\ polled' = [polled EXCEPT ![t] = pipeNo]
       ELSE Move(t, "poll", AfterPoll(t)) /\ UNCHANGED polled
    /\ UNCHANGED <<peer, status, fdOpen, pipe, buffer, thread, stop, done, mode,
                   raw, block, flags, found, taken, consumed>>

\* A poll() of the socket alone.
WakeBySocket(t) ==
    /\ Move(t, "polling", AfterPoll(t))
    /\ Readable
    /\ polled' = [polled EXCEPT ![t] = 0]
    /\ UNCHANGED <<peer, status, fdOpen, pipe, buffer, thread, stop, done, mode,
                   raw, block, flags, found, taken, consumed>>

\* poll() returns for data, for the peer's end, and when the pipe it watches is
\* closed, but not when another thread closes the socket.
Wake(t) ==
    /\ Move(t, "polling", AfterPoll(t))
    /\ Readable \/ polled[t] \in closedPipes
    /\ polled' = [polled EXCEPT ![t] = 0]
    /\ UNCHANGED <<peer, status, fdOpen, pipe, buffer, thread, stop, done, mode,
                   raw, block, flags, found, taken, consumed>>

-----------------------------------------------------------------------------
(* rawRead() and updateReadBuffer() *)

\* socketDataAvailable()
Available == status = "CONNECTED" /\ (~fdOpen \/ Readable)

\* The loop test of rawRead(), for m_socketReadBuffer or for the user's buffer.
RawTest(t) ==
    /\ pc[t] = "raw"
    /\ LET justAvailable == mode[t] # "direct" \/ flags.just
           wanted == mode[t] = "direct" => Len(taken[t]) < ReadLength
       IN pc' = [pc EXCEPT ![t] =
                   IF wanted /\ status = "CONNECTED" /\ (justAvailable => Available)
                   THEN IF justAvailable \/ Available THEN "recv" ELSE "pipe"
                   ELSE CASE mode[t] = "fill"    -> "fill"
                          [] mode[t] = "fillNow" -> "push"
                          [] mode[t] = "direct"  -> "rsize"]
    /\ UNCHANGED <<peer, status, fdOpen, pipe, buffer, thread, stop, done, mode, locals>>

\* A recv() that leaves the bytes where they are (MSG_PEEK).
PeekBytes(t) ==
    /\ IF mode[t] = "direct"
       THEN /\ taken' = [taken EXCEPT ![t] = <<Head(inbox)>>]
            /\ consumed' = Append(consumed, Head(inbox))
            /\ UNCHANGED raw
       ELSE raw' = [raw EXCEPT ![t] = inbox] /\ UNCHANGED <<taken, consumed>>
    /\ UNCHANGED <<inbox, status>>

\* A recv() that finds bytes returns all it has room for.
GetBytes(t) ==
    LET n == IF mode[t] = "direct" /\ Len(inbox) > ReadLength - Len(taken[t])
             THEN ReadLength - Len(taken[t]) ELSE Len(inbox)
        bytes == SubSeq(inbox, 1, n)
    IN /\ inbox' = SubSeq(inbox, n + 1, Len(inbox))
       /\ IF mode[t] = "direct"
          THEN /\ taken' = [taken EXCEPT ![t] = @ \o bytes]
               /\ consumed' = consumed \o bytes
               /\ UNCHANGED raw
          ELSE /\ raw' = [raw EXCEPT ![t] = @ \o bytes]
               /\ UNCHANGED <<taken, consumed>>
       /\ UNCHANGED status

\* A recv() whose 0 or error nobody notices.
RecvIgnoringEnd(t, from, isOpen) ==
    /\ Move(t, from, "raw")
    /\ \/ isOpen /\ inbox # <<>> /\ GetBytes(t)
       \/ /\ isOpen => inbox = <<>> /\ ~peerOpen
          /\ UNCHANGED <<status, inbox, raw, taken, consumed>>

\* recv(): 0 or an error counts as the peer's end.
RecvReturns(t, from, isOpen) ==
    /\ Move(t, from, "raw")
    /\ \/ isOpen /\ inbox # <<>> /\ GetBytes(t)
       \/ /\ isOpen => inbox = <<>> /\ ~peerOpen
          /\ status' = "REMOTE_CLOSED"
          /\ UNCHANGED <<inbox, raw, taken, consumed>>

Recv(t) ==
    /\ IF ~fdOpen \/ Readable
       THEN RecvReturns(t, "recv", fdOpen)
       ELSE Move(t, "recv", "recving") /\ UNCHANGED <<inbox, status, raw, taken, consumed>>
    /\ UNCHANGED <<peerOpen, sent, fdOpen, pipe, buffer, thread, stop, done, mode, polled,
                   block, flags, found>>

\* A recv() that blocked keeps the socket open, whoever calls close().
RecvWakes(t) ==
    /\ Readable
    /\ RecvReturns(t, "recving", TRUE)
    /\ UNCHANGED <<peerOpen, sent, fdOpen, pipe, buffer, thread, stop, done, mode, polled,
                   block, flags, found>>

\* updateReadBuffer() makes the buffer if there is none.  Of a closed socket whose
\* buffer was never made, getsockopt() cannot tell the size: an error, which leaves
\* createSocketReadBuffer() with its mutex locked.
MakeBlock(t) ==
    /\ pc[t] = "block"
    /\ block # "locked"
    /\ IF block = "none" /\ ~fdOpen
       THEN /\ pc' = [pc EXCEPT ![t] = "out"]
            /\ block' = "locked"
       ELSE /\ pc' = [pc EXCEPT ![t] = IF mode[t] = "fill" THEN "fill" ELSE "raw"]
            /\ block' = "there"
    /\ UNCHANGED <<peer, status, fdOpen, pipe, buffer, thread, stop, done, mode,
                   polled, raw, flags, found, taken, consumed>>

\* The loop of updateReadBuffer( true ).
FillTest(t) ==
    /\ Move(t, "fill", IF status = "CONNECTED" /\ raw[t] = <<>> THEN "pipe" ELSE "push")
    /\ UNCHANGED <<peer, status, fdOpen, pipe, buffer, thread, stop, done, mode, locals>>

\* A push of the block that leaves `length' as it is.
PushAgain(t) ==
    /\ Move(t, "push", IF t = Buffer THEN "signal" ELSE "rsize")
    /\ buffer' = buffer \o raw[t]
    /\ UNCHANGED <<peer, status, fdOpen, pipe, thread, stop, done, mode, locals>>

\* The end of updateReadBuffer(): the block goes to m_readBuffer.
Push(t) ==
    /\ raw[t] # <<>> => block = "there"
    /\ Move(t, "push", IF t = Buffer THEN "signal" ELSE "rsize")
    /\ buffer' = buffer \o raw[t]
    /\ raw' = [raw EXCEPT ![t] = <<>>]
    /\ UNCHANGED <<peer, status, fdOpen, pipe, thread, stop, done, mode,
                   polled, block, flags, found, taken, consumed>>

\* The block is deleted already: NULL is read from, and nothing is said of the
\* program after that.  (Nobody is in recv() with a deleted block: RawTest polls
\* first, so recv() does not wait, and after close() it fails.)
Misuse(t) ==
    /\ pc[t] = "push" /\ raw[t] # <<>> /\ block # "there"
    /\ block' = "misused"
    /\ UNCHANGED <<peer, status, fdOpen, pipe, buffer, thread, stop, done, pc, mode,
                   polled, raw, flags, found, taken, consumed>>

-----------------------------------------------------------------------------
(* autoBufferProc() *)

\* A thread that leaves the event that stopped it signalled.
KeepStop ==
    /\ IF stop THEN Move(Buffer, "loop", "out") /\ UNCHANGED mode
               ELSE Enter(Buffer, "loop", "block", "fill")
    /\ UNCHANGED <<peer, status, fdOpen, pipe, buffer, thread, stop, done, locals>>

\* while ( !m_autoBufferThreadStop.currentState() )
BufferLoop ==
    /\ IF stop THEN Move(Buffer, "loop", "out") /\ UNCHANGED mode
               ELSE Enter(Buffer, "loop", "block", "fill")
    /\ stop' = FALSE
    /\ UNCHANGED <<peer, status, fdOpen, pipe, buffer, thread, done, locals>>

CountDone == done' = IF done < MaxDone THEN done + 1 ELSE done

\* A thread that only reports what it read itself.
SignalIfConnected ==
    /\ Move(Buffer, "signal", "loop")
    /\ IF status = "CONNECTED" THEN CountDone ELSE UNCHANGED done
    /\ UNCHANGED <<peer, status, fdOpen, pipe, buffer, thread, stop, mode, locals>>

\* A thread that reads one block, as if its loop were an if.
SignalAndLeave ==
    /\ Move(Buffer, "signal", "out")
    /\ CountDone
    /\ UNCHANGED <<peer, status, fdOpen, pipe, buffer, thread, stop, mode, locals>>

\* m_threadDoneUpdate.signal()
SignalDone ==
    /\ Move(Buffer, "signal", "loop")
    /\ CountDone
    /\ UNCHANGED <<peer, status, fdOpen, pipe, buffer, thread, stop, mode, locals>>

-----------------------------------------------------------------------------
(* read() and waitForSocketEvent() *)

Read(r) ==
    /\ r \in Readers
    /\ flags' \in [just : MayJustRead, buffer : MayBuffer]
    /\ IF flags'.buffer /\ ~thread THEN Enter(r, "out", "block", "fillNow")
                                   ELSE Move(r, "out", "rsize") /\ UNCHANGED mode
    /\ taken' = [taken EXCEPT ![r] = <<>>]
    /\ UNCHANGED <<peer, status, fdOpen, pipe, buffer, thread, stop, done,
                   polled, raw, block, found, consumed>>

\* buffSize = m_readBuffer.size()
ReadSize(r) ==
    /\ Move(r, "rsize", "rtop")
    /\ found' = (buffer # <<>>)
    /\ UNCHANGED <<peer, status, fdOpen, pipe, buffer, thread, stop, done, mode,
                   polled, raw, block, flags, taken, consumed>>

\* The loop test of read(), up to the socket's status.
ReadTest(r) ==
    /\ Move(r, "rtop",
            IF /\ Len(taken[r]) < ReadLength
               /\ flags.just => found \/ Available
            THEN "rstatus" ELSE "out")
    /\ UNCHANGED <<peer, status, fdOpen, pipe, buffer, thread, stop, done, mode, locals>>

\* The rest of it: from the buffer first, otherwise from the socket.
ReadStatus(r) ==
    /\ Move(r, "rstatus",
            IF status = "CONNECTED" \/ (status = "REMOTE_CLOSED" /\ found)
            THEN IF found THEN "rtake" ELSE "rmore"
            ELSE "out")
    /\ UNCHANGED <<peer, status, fdOpen, pipe, buffer, thread, stop, done, mode, locals>>

\* All that is buffered, whatever the caller has room for.
TakeAll(r) ==
    /\ Move(r, "rtake", "rmore")
    /\ taken' = [taken EXCEPT ![r] = @ \o buffer]
    /\ consumed' = consumed \o buffer
    /\ buffer' = <<>>
    /\ done' = IF done > 0 THEN done - 1 ELSE done
    /\ UNCHANGED <<peer, status, fdOpen, pipe, thread, stop, mode, polled, raw,
                   block, flags, found>>

\* Under m_readbufferOwner; m_threadDoneUpdate loses one count, not all.
TakeBuffered(r) ==
    /\ Move(r, "rtake", "rmore")
    /\ LET room == ReadLength - Len(taken[r])
           n == IF Len(buffer) < room THEN Len(buffer) ELSE room
           bytes == SubSeq(buffer, 1, n)
       IN /\ buffer' = SubSeq(buffer, n + 1, Len(buffer))
          /\ taken' = [taken EXCEPT ![r] = @ \o bytes]
          /\ consumed' = consumed \o bytes
    /\ done' = IF buffer' = <<>> /\ done > 0 THEN done - 1 ELSE done
    /\ found' = (buffer' # <<>>)
    /\ UNCHANGED <<peer, status, fdOpen, pipe, thread, stop, mode, polled, raw,
                   block, flags>>

\* More is wanted,
ReadMore(r) ==
    /\ Move(r, "rmore", IF Len(taken[r]) < ReadLength /\ (flags.just => Available)
                        THEN "rthread" ELSE "rsize")
    /\ UNCHANGED <<peer, status, fdOpen, pipe, buffer, thread, stop, done, mode, locals>>

\* from the auto-buffer thread, or from the socket itself.
ReadThread(r) ==
    /\ IF thread THEN Enter(r, "rthread", "wstatus", "wait")
       ELSE IF ~flags.buffer THEN Enter(r, "rthread", "raw", "direct")
       ELSE Enter(r, "rthread", "block", IF flags.just THEN "fillNow" ELSE "fill")
    /\ UNCHANGED <<peer, status, fdOpen, pipe, buffer, thread, stop, done, locals>>

WaitForSocketEvent(w) ==
    /\ w \in Waiters
    /\ Enter(w, "out", "wstatus", "wait")
    /\ UNCHANGED <<peer, status, fdOpen, pipe, buffer, thread, stop, done, locals>>

\* A closed socket is an error, which leaves read() as well.
WaitStatus(t) ==
    /\ Move(t, "wstatus", IF status = "CLOSED" THEN "out" ELSE "wbuffer")
    /\ UNCHANGED <<peer, status, fdOpen, pipe, buffer, thread, stop, done, mode, locals>>

WaitBuffer(t) ==
    /\ Move(t, "wbuffer", IF buffer # <<>> THEN AfterWait(t) ELSE "wthread")
    /\ UNCHANGED <<peer, status, fdOpen, pipe, buffer, thread, stop, done, mode, locals>>

WaitThread(t) ==
    /\ Move(t, "wthread", IF thread THEN "wevent" ELSE "pipe")
    /\ UNCHANGED <<peer, status, fdOpen, pipe, buffer, thread, stop, done, mode, locals>>

\* m_threadDoneUpdate.wait()
WaitDone(t) ==
    /\ Move(t, "wevent", AfterWait(t))
    /\ done > 0
    /\ done' = done - 1
    /\ UNCHANGED <<peer, status, fdOpen, pipe, buffer, thread, stop, mode, locals>>

-----------------------------------------------------------------------------
(* setAutoReadBuffering() and closeSocket() *)

\* Starting the thread while another one reads m_socketReadBuffer's data is the
\* owner's mistake to avoid; a socket that is not connected is refused.
Enable ==
    /\ "enable" \in Calls
    /\ status = "CONNECTED" /\ ~thread
    /\ pc[Owner] = "out" /\ \A u \in Users : pc[u] = "out"
    /\ done' = IF done > 0 THEN done - 1 ELSE 0
    /\ thread' = TRUE
    /\ pc' = [pc EXCEPT ![Buffer] = "loop"]
    /\ UNCHANGED <<peer, status, fdOpen, pipe, buffer, stop, mode, locals>>

Disable ==
    /\ "disable" \in Calls
    /\ thread
    /\ Enter(Owner, "out", "stop", "none")
    /\ UNCHANGED <<peer, status, fdOpen, pipe, buffer, thread, stop, done, locals>>

StopThread ==
    /\ Move(Owner, "stop", "join")
    /\ stop' = TRUE
    /\ UNCHANGED <<peer, status, fdOpen, pipe, buffer, thread, done, mode, locals>>

\* getReturnValue()
Join ==
    /\ Move(Owner, "join", "forget")
    /\ pc[Buffer] = "out"
    /\ UNCHANGED <<peer, status, fdOpen, pipe, buffer, thread, stop, done, mode, locals>>

\* m_autoBufferThread = NULL
ForgetThread ==
    /\ Move(Owner, "forget", "tell")
    /\ thread' = FALSE
    /\ UNCHANGED <<peer, status, fdOpen, pipe, buffer, stop, done, mode, locals>>

\* m_threadDoneUpdate.signal(), and back to the caller
TellWaiters ==
    /\ Move(Owner, "tell", IF mode[Owner] = "close" THEN "cfd" ELSE "out")
    /\ CountDone
    /\ UNCHANGED <<peer, status, fdOpen, pipe, buffer, thread, stop, mode, locals>>

CloseSocket ==
    /\ "close" \in Calls
    /\ Enter(Owner, "out", "cpipe", "close")
    /\ status' = "CLOSED"
    /\ UNCHANGED <<peer, fdOpen, pipe, buffer, thread, stop, done, locals>>

ClosePipe ==
    /\ Move(Owner, "cpipe", IF pipeFlag THEN "cflag" ELSE "cthread")
    /\ closedPipes' = IF pipeFlag THEN closedPipes \cup {pipeNo} ELSE closedPipes
    /\ UNCHANGED <<peer, status, fdOpen, pipeFlag, pipeNo, buffer, thread, stop, done, mode,
                   locals>>

ClearPipeFlag ==
    /\ Move(Owner, "cflag", "cthread")
    /\ pipeFlag' = FALSE
    /\ UNCHANGED <<peer, status, fdOpen, pipeNo, closedPipes, buffer, thread, stop, done,
                   mode, locals>>

CloseThread ==
    /\ Move(Owner, "cthread", IF thread THEN "stop" ELSE "cfd")
    /\ UNCHANGED <<peer, status, fdOpen, pipe, buffer, thread, stop, done, mode, locals>>

CloseFd ==
    /\ Move(Owner, "cfd", "cclear")
    /\ fdOpen' = FALSE
    /\ UNCHANGED <<peer, status, pipe, buffer, thread, stop, done, mode, locals>>

\* Unread data is dropped,
ClearBuffer ==
    /\ Move(Owner, "cclear", "cdelete")
    /\ buffer' = <<>>
    /\ UNCHANGED <<peer, status, fdOpen, pipe, thread, stop, done, mode, locals>>

\* and m_socketReadBuffer deleted, whoever uses it.
DeleteBlock ==
    /\ Move(Owner, "cdelete", "closed")
    /\ block' = IF block = "there" THEN "deleted" ELSE block
    /\ UNCHANGED <<peer, status, fdOpen, pipe, buffer, thread, stop, done, mode,
                   polled, raw, flags, found, taken, consumed>>

-----------------------------------------------------------------------------
WaitPlaces == {"pipe", "mkpipe", "newpipe", "flagpipe", "poll", "polling"}
RecvPlaces == {"raw", "recv", "recving"}
FillPlaces == {"block", "fill", "push"}
ReadPlaces == {"rsize", "rtop", "rstatus", "rtake", "rmore", "rthread"}
EventPlaces == {"wstatus", "wbuffer", "wthread", "wevent"}

\* waitForRawSocketEvent(), createClosePipe()
RawEventStep(t) ==
    /\ pc[t] \in WaitPlaces
    /\ TestPipe(t) \/ MakePipe(t) \/ NewPipe(t) \/ FlagPipe(t) \/ Poll(t) \/ Wake(t)

\* rawRead()
RawReadStep(t) ==
    /\ pc[t] \in RecvPlaces
    /\ RawTest(t) \/ Recv(t) \/ RecvWakes(t)

\* updateReadBuffer(), createSocketReadBuffer()
FillStep(t) ==
    /\ pc[t] \in FillPlaces
    /\ MakeBlock(t) \/ FillTest(t) \/ Push(t) \/ Misuse(t)

\* read()
ReadStep(t) ==
    /\ pc[t] \in ReadPlaces
    /\ \/ ReadSize(t)
       \/ ReadTest(t)
       \/ ReadStatus(t)
       \/ TakeBuffered(t)
       \/ ReadMore(t)
       \/ ReadThread(t)

\* waitForSocketEvent()
EventStep(t) ==
    /\ pc[t] \in EventPlaces
    /\ WaitStatus(t) \/ WaitBuffer(t) \/ WaitThread(t) \/ WaitDone(t)

UserStep(t) ==
    RawEventStep(t) \/ RawReadStep(t) \/ FillStep(t) \/ ReadStep(t) \/ EventStep(t)

BufferStep ==
    /\ pc[Buffer] # "out"
    /\ BufferLoop \/ SignalDone \/ UserStep(Buffer)

OwnerStep ==
    /\ pc[Owner] \notin {"out", "closed"}
    /\ \/ StopThread
       \/ Join
       \/ ForgetThread
       \/ TellWaiters
       \/ ClosePipe
       \/ ClearPipeFlag
       \/ CloseThread
       \/ CloseFd
       \/ ClearBuffer
       \/ DeleteBlock

OwnerCall == Enable \/ Disable \/ CloseSocket

\* What a program does after undefined behaviour is not modelled.
Running == block # "misused"

Next ==
    /\ Running
    /\ \/ PeerSend
       \/ PeerClose
       \/ \E u \in Users : UserStep(u) \/ Read(u) \/ WaitForSocketEvent(u)
       \/ BufferStep
       \/ OwnerStep
       \/ OwnerCall

(***************************************************************************)
(* Threads that can run do; nobody has to call anything, and the peer need *)
(* neither send nor close.                                                 *)
(***************************************************************************)
Fairness ==
    /\ \A u \in Users : WF_vars(Running /\ UserStep(u))
    /\ WF_vars(Running /\ BufferStep)
    /\ WF_vars(Running /\ OwnerStep)

SafeSpec == Init /\ [][Next]_vars

Spec == SafeSpec /\ Fairness

-----------------------------------------------------------------------------
InOrder(s) == \A i \in 1 .. Len(s) - 1 : s[i] < s[i + 1]

\* closeSocket() has not dropped what was buffered.
Undropped == pc[Owner] \notin {"cdelete", "closed"}

\* The only thread that can have bytes in m_socketReadBuffer.
OnlyFiller(t) == \A s \in Threads \ {t} : raw[s] = <<>>

(***************************************************************************)
(* No byte is lost, duplicated or overtaken on its way from the socket,    *)
(* through m_socketReadBuffer and m_readBuffer, to the callers of read(),  *)
(* until closeSocket() drops what was not read; and there are bytes of one *)
(* thread at most in m_socketReadBuffer, which has no lock.                *)
(***************************************************************************)
BytesInOrder ==
    /\ InOrder(consumed)
    /\ Undropped =>
         \E t \in Threads :
            /\ OnlyFiller(t)
            /\ consumed \o buffer \o raw[t] \o inbox = [i \in 1 .. sent |-> i]

(***************************************************************************)
(* When m_autoBufferThread is NULL, its thread has left autoBufferProc()   *)
(* and taken the request to stop with it: nothing uses the socket after    *)
(* closeSocket() closes it, and the next thread is not stopped at once.    *)
(***************************************************************************)
NoThreadLeftBehind == ~thread => pc[Buffer] = "out" /\ ~stop

\* read() cannot return: it waits for m_socketReadbufferOwner, left locked by an
\* error, or has used m_socketReadBuffer after closeSocket() deleted it.
Cursed(r) == ~Running \/ (pc[r] = "block" /\ block = "locked")

(***************************************************************************)
(* Once the peer has closed, a read() ends, whatever the auto-buffer       *)
(* thread and the owner of the socket do meanwhile, unless it meets one of *)
(* the two faults of closing a socket under a buffered read() (Cursed).    *)
(***************************************************************************)
ReadEndsWithPeer ==
    \A r \in Readers : ~peerOpen /\ pc[r] # "out" ~> pc[r] = "out" \/ Cursed(r)

(***************************************************************************)
(* While the thread runs, the socket's own buffer does not stay full.      *)
(***************************************************************************)
KeepsUp == inbox # <<>> ~> inbox = <<>> \/ ~thread

(***************************************************************************)
(* closeSocket() returns if the auto-buffer thread was in poll() when it   *)
(* began: the close pipe wakes it, and it is joined.                       *)
(***************************************************************************)
SettledCloseReturns ==
    pc[Owner] = "cpipe" /\ pc[Buffer] = "polling" ~> pc[Owner] = "closed"

-----------------------------------------------------------------------------
(* What the documentation says and the code does not do *)

(***************************************************************************)
(* closeSocket() returns (nsocket.cxx:441, 801-806).                       *)
(***************************************************************************)
CloseReturns == pc[Owner] = "cpipe" ~> pc[Owner] = "closed"

(***************************************************************************)
(* Threads that wait for m_threadDoneUpdate are not left waiting when the  *)
(* auto-buffer thread is gone: its signal is there to "prevent any other   *)
(* threads blocking forever" (nsocket.cxx:606), but releases only one.     *)
(***************************************************************************)
WaitersReleased == \A u \in Users : pc[u] = "wevent" /\ ~thread ~> pc[u] # "wevent"

(***************************************************************************)
(* m_socketReadBuffer is used only while it is there, and its mutex is     *)
(* unlocked again (nsocket.h:227, 234).                                    *)
(***************************************************************************)
ReadBufferUsable == block \notin {"misused", "locked"}

(***************************************************************************)
(* After closeSocket(), the status is CLOSED (nsocket.h:26).               *)
(***************************************************************************)
ClosedStaysClosed == pc[Owner] = "closed" => status = "CLOSED"

(***************************************************************************)
(* waitForSocketEvent() returns only if a read of one byte would not block *)
(* or the socket was closed meanwhile (nsocket.h:174-179).                 *)
(***************************************************************************)
WaitReturnsForReason ==
    [][\A w \in Waiters : pc[w] = "wevent" /\ pc'[w] = "out"
           => buffer # <<>> \/ Readable \/ status # "CONNECTED"]_vars

(***************************************************************************)
(* A read() that was told to just read what is available does not block    *)
(* (nsocket.h:90-91), so it ends even if the peer is silent.               *)
(***************************************************************************)
JustAvailableEnds ==
    \A r \in Readers : flags.just /\ pc[r] # "out" ~> pc[r] = "out"

(***************************************************************************)
(* A read() that waits for ReadLength bytes returns with fewer, because    *)
(* the peer has closed, only if fewer have been received (nsocket.h:91-95).*)
(***************************************************************************)
ShortReadMeansEnd ==
    [][\A r \in Readers :
           /\ pc[r] \in {"rtop", "rstatus"} /\ pc'[r] = "out"
           /\ status = "REMOTE_CLOSED" /\ ~flags.just
           => Len(taken[r]) = ReadLength \/ \A t \in Threads : raw[t] = <<>>]_vars
=============================================================================
