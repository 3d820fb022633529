---------------------------- MODULE NtcpServer ----------------------------
(***************************************************************************)
(* NtcpServer (src/src/ntcpServer.cxx): the thread in start(), the garbage *)
(* collector, a thread for each client, and threads that call stop().      *)
(*                                                                         *)
(* The listening socket is here with its status, its descriptor and its    *)
(* close pipe, which stop() closes step by step while start() is on its    *)
(* way to poll().  These, m_clientList.size() and imDoneFlag are also read *)
(* without a lock, each in a step of its own.  Of a client's socket there  *)
(* is the status alone, and its closeSocket() is one step, which throws if *)
(* it is closed already: what happens inside is module Nsocket's.          *)
(***************************************************************************)
EXTENDS Integers, Sequences, SequencesExt

CONSTANTS
    Stoppers,   \* the threads that call stop(), once each
    Server,     \* the thread that calls start()
    Collector,  \* the thread m_garbageCollector
    MaxPeers    \* BOUND: how many connections peers ask for

\* The contexts start() makes, in their order, each with a connection and a thread;
\* one more is made for an accept() that fails.
Clients == 1 .. MaxPeers + 1

Threads == Clients \cup Stoppers \cup {Server, Collector}

Free == "free"

ASSUME ThreadAssumption ==
    /\ MaxPeers \in Nat
    /\ Clients \cap Stoppers = {}
    /\ Server # Collector
    /\ {Server, Collector} \cap (Clients \cup Stoppers) = {}
    /\ Free \notin Stoppers \cup {Server, Collector}

VARIABLES
    status,     \* m_serverSocket: its m_status,
    fdOpen,     \*   whether m_socket is an open descriptor,
    pipeFlag,   \*   m_closePipeCreatedFlag,
    pipeOpen,   \*   and whether the pipe m_closePipe is open
    knocking,   \*   and how many connections wait to be accepted
    socketOwner,\* who holds m_serverSocketOwner
    list,       \* m_clientList
    listOwner,  \* who holds m_clientListOwner
    collect,    \* m_collectGarbage
    socket,     \* socket[c]: the status of context c's clientSocket
    done,       \* the contexts with imDoneFlag
    reaped,     \* the contexts that have been deleted
    newest,     \* start()'s `context', or 0
    index,      \* index[t]: t's place in m_clientList, less 1 in the code
    pc,
    exited      \* an exception has left a client thread: NERROR_HANDLER ends the process

server == <<status, fdOpen, pipeFlag, pipeOpen, knocking, socketOwner>>
vars == <<server, list, listOwner, collect, socket, done, reaped, newest, index, pc, exited>>

TypeOK ==
    /\ status \in {"LISTENING", "CLOSED"}
    /\ {fdOpen, pipeFlag, pipeOpen} \subseteq BOOLEAN
    /\ knocking \in 0 .. MaxPeers /\ socketOwner \in {Free} \cup Stoppers
    /\ list \in Seq(Clients)
    /\ listOwner \in {Free, Server, Collector} \cup Stoppers
    /\ collect \in BOOLEAN /\ exited \in BOOLEAN
    /\ socket \in [Clients -> {"CONNECTED", "CLOSED"}]
    /\ done \subseteq Clients /\ reaped \subseteq Clients
    /\ newest \in Clients \cup {0}
    /\ index \in [Threads -> Nat]
    /\ pc \in [Threads ->
           {"out", "wait", "pipe", "poll", "polling", "available", "query", "accept", "lock",
            "push", "loop", "join", "test", "status", "scan", "accepted", "proc",
            "close", "cpipe", "cfd", "done", "signal", "size", "closing",
            "returned", "threw", "ended"}]

Init ==
    /\ status = "CLOSED" /\ fdOpen = FALSE /\ pipeFlag = FALSE /\ pipeOpen = FALSE
    /\ knocking = 0 /\ socketOwner = Free
    /\ list = <<>> /\ listOwner = Free /\ collect = FALSE
    /\ socket = [c \in Clients |-> "CLOSED"]
    /\ done = {} /\ reaped = {} /\ newest = 0
    /\ index = [t \in Threads |-> 0]
    /\ pc = [t \in Threads |-> "out"]
    /\ exited = FALSE

Move(t, from, to) ==
    /\ pc[t] = from
    /\ pc' = [pc EXCEPT ![t] = to]

Lock(t, from, to) ==
    /\ Move(t, from, to)
    /\ listOwner = Free
    /\ listOwner' = t

Made == {c \in Clients : pc[c] # "out"}

-----------------------------------------------------------------------------
(* start() *)

Listen ==
    /\ pc[Server] = "out"
    /\ status' = "LISTENING" /\ fdOpen' = TRUE
    /\ pc' = [pc EXCEPT ![Server] = "wait", ![Collector] = "test"]
    /\ UNCHANGED <<pipeFlag, pipeOpen, knocking, socketOwner, list, listOwner, collect, socket, done,
                   reaped, newest, index, exited>>

\* A peer asks for a connection, which counts from when start() can see it.  A
\* poll() keeps a descriptor that is closed under it listening.
Knock ==
    /\ pc[Server] = "polling" \/ (pc[Server] = "query" /\ fdOpen)
    /\ knocking + Cardinality(Made) < MaxPeers
    /\ knocking' = knocking + 1
    /\ UNCHANGED <<status, fdOpen, pipeFlag, pipeOpen, socketOwner, list, listOwner, collect,
                   socket, done, reaped, newest, index, pc, exited>>

\* A listening socket has no data and no auto-buffer thread.
WaitForSocketEvent ==
    /\ Move(Server, "wait", IF status = "CLOSED" THEN "threw" ELSE "pipe")
    /\ UNCHANGED <<server, list, listOwner, collect, socket, done, reaped, newest, index, exited>>

\* Only this thread creates a pipe, so createClosePipe() finds the flag as it was.
CreateClosePipe ==
    /\ Move(Server, "pipe", "poll")
    /\ pipeFlag' = TRUE
    /\ pipeOpen' = IF pipeFlag THEN pipeOpen ELSE TRUE
    /\ UNCHANGED <<status, fdOpen, knocking, socketOwner, list, listOwner, collect, socket, done, reaped,
                   newest, index, exited>>

\* poll(): a descriptor that is closed already makes it return at once.
Poll ==
    /\ Move(Server, "poll", IF fdOpen /\ pipeOpen THEN "polling" ELSE "available")
    /\ UNCHANGED <<server, list, listOwner, collect, socket, done, reaped, newest, index, exited>>

\* A poll() of the socket alone.
WakeBySocket ==
    /\ Move(Server, "polling", "available")
    /\ knocking > 0
    /\ UNCHANGED <<server, list, listOwner, collect, socket, done, reaped, newest, index, exited>>

\* A peer wakes it and the end of its pipe, but not that of the socket.
Wake ==
    /\ Move(Server, "polling", "available")
    /\ knocking > 0 \/ ~pipeOpen
    /\ UNCHANGED <<server, list, listOwner, collect, socket, done, reaped, newest, index, exited>>

\* The poll() of a closed descriptor reports an event.
AcceptIsAvailable ==
    /\ \/ Move(Server, "available", IF status # "LISTENING" THEN "threw" ELSE "query")
       \/ Move(Server, "query", IF knocking > 0 \/ ~fdOpen THEN "accept" ELSE "loop")
    /\ UNCHANGED <<server, list, listOwner, collect, socket, done, reaped, newest, index, exited>>

\* If the socket has been closed, accept() throws, and start() goes on with a
\* context whose socket is not connected.
Accept(c) ==
    /\ pc[Server] = "accept"
    /\ socketOwner = Free
    /\ pc[c] = "out" /\ \A d \in Clients : d < c => pc[d] # "out"
    /\ pc' = [pc EXCEPT ![Server] = "lock", ![c] = "accepted"]
    /\ newest' = c
    /\ IF status = "LISTENING"
       THEN /\ knocking' = knocking - 1
            /\ socket' = [socket EXCEPT ![c] = "CONNECTED"]
       ELSE UNCHANGED <<knocking, socket>>
    /\ UNCHANGED <<status, fdOpen, pipeFlag, pipeOpen, socketOwner, list, listOwner, collect,
                   done, reaped, index, exited>>

\* The client's thread starts with the list locked.
CreateThread ==
    /\ pc[Server] = "lock"
    /\ listOwner = Free
    /\ listOwner' = Server
    /\ pc' = [pc EXCEPT ![Server] = "push", ![newest] = "proc"]
    /\ UNCHANGED <<server, list, collect, socket, done, reaped, newest, index, exited>>

Push ==
    /\ Move(Server, "push", "loop")
    /\ list' = Append(list, newest)
    /\ newest' = 0
    /\ listOwner' = Free
    /\ UNCHANGED <<server, collect, socket, done, reaped, index, exited>>

Again ==
    /\ Move(Server, "loop", IF status = "LISTENING" THEN "wait" ELSE "join")
    /\ UNCHANGED <<server, list, listOwner, collect, socket, done, reaped, newest, index, exited>>

JoinCollector ==
    /\ pc[Collector] = "ended"
    /\ Move(Server, "join", "returned")
    /\ UNCHANGED <<server, list, listOwner, collect, socket, done, reaped, newest, index, exited>>

StartStep ==
    \/ WaitForSocketEvent
    \/ CreateClosePipe
    \/ Poll
    \/ Wake
    \/ AcceptIsAvailable
    \/ \E c \in Clients : Accept(c)
    \/ CreateThread
    \/ Push
    \/ Again
    \/ JoinCollector

-----------------------------------------------------------------------------
(* The garbage collector *)

\* The loop's test: the size first, and then the status if there is nothing.
Collect ==
    /\ \/ Move(Collector, "test", IF list # <<>> THEN "wait" ELSE "status") /\ UNCHANGED collect
       \/ /\ Move(Collector, "status", IF status # "CLOSED" THEN "wait" ELSE "ended")
          /\ UNCHANGED collect
       \/ Move(Collector, "wait", "lock") /\ collect /\ collect' = FALSE
    /\ UNCHANGED <<server, list, listOwner, socket, done, reaped, newest, index, exited>>

CollectLock ==
    /\ Lock(Collector, "lock", "scan")
    /\ index' = [index EXCEPT ![Collector] = 1]
    /\ UNCHANGED <<server, list, collect, socket, done, reaped, newest, exited>>

\* A collector that deletes a context without waiting for its thread.
ReapUnjoined(i) ==
    /\ reaped' = reaped \cup {list[i]}
    /\ list' = RemoveAt(list, i)
    /\ UNCHANGED index

\* getReturnValue() blocks until the thread has ended.
Reap(i) ==
    /\ pc[list[i]] = "ended"
    /\ reaped' = reaped \cup {list[i]}
    /\ list' = RemoveAt(list, i)
    /\ UNCHANGED index

Scan ==
    /\ pc[Collector] = "scan"
    /\ LET i == index[Collector]
       IN  \/ /\ i > Len(list)
              /\ Move(Collector, "scan", "test")
              /\ listOwner' = Free
              /\ index' = [index EXCEPT ![Collector] = 0]
              /\ UNCHANGED <<list, reaped>>
           \/ /\ i <= Len(list) /\ list[i] \notin done
              /\ index' = [index EXCEPT ![Collector] = i + 1]
              /\ UNCHANGED <<pc, listOwner, list, reaped>>
           \/ /\ i <= Len(list) /\ list[i] \in done
              /\ Reap(i)
              /\ UNCHANGED <<pc, listOwner>>
    /\ UNCHANGED <<server, collect, socket, done, newest, exited>>

CollectorStep == Collect \/ CollectLock \/ Scan

-----------------------------------------------------------------------------
(* A client's thread *)

\* m_clientProcess() closes its socket and returns, or it just returns, and the
\* socket is tested.
ProcReturns(c) ==
    /\ \/ /\ Move(c, "proc", "done")
          /\ socket' = [socket EXCEPT ![c] = "CLOSED"]
       \/ /\ Move(c, "proc", IF socket[c] # "CLOSED" THEN "close" ELSE "done")
          /\ UNCHANGED socket
    /\ UNCHANGED <<server, list, listOwner, collect, done, reaped, newest, index, exited>>

\* closeSocket() throws if stop() has closed the socket since it was tested.
CloseClient(c) ==
    /\ Move(c, "close", "done")
    /\ socket' = [socket EXCEPT ![c] = "CLOSED"]
    /\ exited' = (socket[c] = "CLOSED")
    /\ UNCHANGED <<server, list, listOwner, collect, done, reaped, newest, index>>

\* The collector is told before there is anything to collect.
SignalFirst(c) ==
    /\ \/ Move(c, "done", "signal") /\ collect' = TRUE /\ UNCHANGED done
       \/ Move(c, "signal", "ended") /\ done' = done \cup {c} /\ UNCHANGED collect
    /\ UNCHANGED <<server, list, listOwner, socket, reaped, newest, index, exited>>

FinishClient(c) ==
    /\ \/ Move(c, "done", "signal") /\ done' = done \cup {c} /\ UNCHANGED collect
       \/ Move(c, "signal", "ended") /\ collect' = TRUE /\ UNCHANGED done
    /\ UNCHANGED <<server, list, listOwner, socket, reaped, newest, index, exited>>

ClientStep(c) == ProcReturns(c) \/ CloseClient(c) \/ FinishClient(c)

-----------------------------------------------------------------------------
(* stop() *)

Stop(s) ==
    /\ Move(s, "out", IF status = "LISTENING" THEN "close" ELSE "returned")
    /\ UNCHANGED <<server, list, listOwner, collect, socket, done, reaped, newest, index, exited>>

\* closeSocket(), with m_serverSocketOwner
StopClose(s) ==
    /\ Move(s, "close", "cpipe")
    /\ socketOwner = Free
    /\ socketOwner' = s
    /\ status' = "CLOSED"
    /\ UNCHANGED <<fdOpen, pipeFlag, pipeOpen, knocking, list, listOwner, collect, socket, done, reaped,
                   newest, index, exited>>

\* A start() that sees the flag before it is cleared polls the closed pipe, as one
\* does that saw it before the pipe was closed.
ClosePipe(s) ==
    /\ Move(s, "cpipe", "cfd")
    /\ pipeOpen' = (pipeOpen /\ ~pipeFlag)
    /\ pipeFlag' = FALSE
    /\ UNCHANGED <<status, fdOpen, knocking, socketOwner, list, listOwner, collect, socket, done, reaped,
                   newest, index, exited>>

\* A descriptor that is closed already makes closeSocket() throw, and the
\* mutex stays locked.
CloseFd(s) ==
    /\ Move(s, "cfd", IF fdOpen THEN "size" ELSE "threw")
    /\ socketOwner' = IF fdOpen THEN Free ELSE socketOwner
    /\ fdOpen' = FALSE
    /\ UNCHANGED <<status, pipeFlag, pipeOpen, knocking, list, listOwner, collect, socket, done, reaped,
                   newest, index, exited>>

\* Nobody tells a collector that has nothing to collect.
StopQuietly(s) ==
    /\ Move(s, "size", IF list = <<>> THEN "returned" ELSE "lock")
    /\ UNCHANGED <<server, list, listOwner, collect, socket, done, reaped, newest, index, exited>>

StopSize(s) ==
    /\ Move(s, "size", IF list = <<>> THEN "signal" ELSE "lock")
    /\ UNCHANGED <<server, list, listOwner, collect, socket, done, reaped, newest, index, exited>>

StopSignal(s) ==
    /\ Move(s, "signal", "returned")
    /\ collect' = TRUE
    /\ UNCHANGED <<server, list, listOwner, socket, done, reaped, newest, index, exited>>

StopLock(s) ==
    /\ Lock(s, "lock", "closing")
    /\ index' = [index EXCEPT ![s] = 1]
    /\ UNCHANGED <<server, list, collect, socket, done, reaped, newest, exited>>

\* closeSocket() of a client whose socket is closed throws, and the list stays locked.
StopCloseClients(s) ==
    /\ pc[s] = "closing"
    /\ LET i == index[s]
       IN  \/ /\ i > Len(list)
              /\ Move(s, "closing", "returned")
              /\ listOwner' = Free
              /\ index' = [index EXCEPT ![s] = 0]
              /\ UNCHANGED socket
           \/ /\ i <= Len(list) /\ socket[list[i]] = "CLOSED"
              /\ Move(s, "closing", "threw")
              /\ UNCHANGED <<listOwner, socket, index>>
           \/ /\ i <= Len(list) /\ socket[list[i]] # "CLOSED"
              /\ socket' = [socket EXCEPT ![list[i]] = "CLOSED"]
              /\ index' = [index EXCEPT ![s] = i + 1]
              /\ UNCHANGED <<pc, listOwner>>
    /\ UNCHANGED <<server, list, collect, done, reaped, newest, exited>>

StopStep(s) ==
    \/ StopClose(s)
    \/ ClosePipe(s)
    \/ CloseFd(s)
    \/ StopSize(s)
    \/ StopSignal(s)
    \/ StopLock(s)
    \/ StopCloseClients(s)

-----------------------------------------------------------------------------
\* What the threads do by themselves, once they have been called.
Run ==
    \/ StartStep
    \/ CollectorStep
    \/ \E c \in Clients : ClientStep(c)
    \/ \E s \in Stoppers : StopStep(s)

Next ==
    /\ ~exited
    /\ \/ Listen
       \/ Knock
       \/ Run
       \/ \E s \in Stoppers : Stop(s)

(***************************************************************************)
(* As long as a thread can run, one of them does, and a user's client      *)
(* process returns: less than a scheduler grants, and enough, for a thread *)
(* takes finitely many steps for each peer.  No peer has to come and       *)
(* nobody has to stop the server.                                          *)
(***************************************************************************)
Fairness == WF_vars(~exited /\ Run)

SafeSpec == Init /\ [][Next]_vars

Spec == SafeSpec /\ Fairness

-----------------------------------------------------------------------------
\* An exception has left stop(), or ended the process.
Failed == exited \/ \E s \in Stoppers : pc[s] = "threw"

(***************************************************************************)
(* Every client's thread and context is in the hands of exactly one: of    *)
(* start() until it is listed, of the list once, until the collector has   *)
(* deleted it, which is not before its thread has ended                    *)
(* (ntcpServer.cxx:44, 124, 126).                                          *)
(***************************************************************************)
ClientsAccounted ==
    /\ IsInjective(list)
    /\ \A c \in Clients :
           /\ c \in ToSet(list) => c \notin reaped /\ newest # c
           /\ c \in reaped => pc[c] = "ended" /\ newest # c
           /\ pc[c] # "out" => c \in ToSet(list) \cup reaped \cup {newest}

(***************************************************************************)
(* The thread and the context of a client that has finished are given back *)
(* while the collector lasts, whatever comes, goes or is closed meanwhile  *)
(* (ntcpServer.cxx:76).                                                    *)
(***************************************************************************)
FinishedAreReaped ==
    \A c \in Clients : c \in done ~> c \in reaped \/ pc[Collector] = "ended" \/ Failed

(***************************************************************************)
(* After stop(), the collector ends: whether the list was empty or not, it *)
(* hears of it (ntcpServer.cxx:151).                                       *)
(***************************************************************************)
StopEndsCollector ==
    (\E s \in Stoppers : pc[s] = "size") ~> pc[Collector] = "ended" \/ Failed

Left == pc[Server] \in {"returned", "threw"}

(***************************************************************************)
(* After stop(), start() ends (ntcpServer.h:70-71, 80-81), unless stop()   *)
(* finds it between waitForSocketEvent()'s test of the status and its      *)
(* poll().                                                                 *)
(***************************************************************************)
StopEndsStart ==
    (\E s \in Stoppers : pc[s] = "cpipe") /\ pc[Server] # "pipe" ~> Left \/ Failed

-----------------------------------------------------------------------------
(* What the documentation says and the code does not do *)

(***************************************************************************)
(* After stop(), start() ends (ntcpServer.h:70-71, 80-81).                 *)
(***************************************************************************)
StartReturns == (\E s \in Stoppers : pc[s] = "cpipe") ~> Left \/ Failed

(***************************************************************************)
(* start() returns after every client's thread has ended (ntcpServer.h:20) *)
(* and its context has been deleted.                                       *)
(***************************************************************************)
NoneLeftBehind ==
    pc[Server] = "returned" =>
        \A c \in Clients : pc[c] = "out" \/ c \in reaped
=============================================================================
