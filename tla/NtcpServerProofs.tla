-------------------------- MODULE NtcpServerProofs --------------------------
(***************************************************************************)
(* Proofs about module NtcpServer, for any number of clients and any       *)
(* threads that call stop().                                               *)
(***************************************************************************)
EXTENDS NtcpServer, TLAPS

ServerTypes ==
    /\ list \in Seq(Clients)
    /\ reaped \subseteq Clients
    /\ newest \in Clients \cup {0}
    /\ DOMAIN pc = Threads
    /\ DOMAIN index = Threads /\ index[Collector] \in Nat

\* start() holds a context from accept() until it has been listed.
Newest ==
    /\ newest # 0 => pc[Server] \in {"lock", "push"}
    /\ pc[Server] \in {"lock", "push"} => newest \in Clients

\* A context that start() has not accepted yet is nobody's.
Unaccepted ==
    \A c \in Clients :
        pc[c] = "out" => c \notin ToSet(list) \cup reaped \cup {newest}

\* The collector's places in the list begin with the first.
Scanning == pc[Collector] = "scan" => index[Collector] # 0

ServerInv == ServerTypes /\ Newest /\ Unaccepted /\ Scanning /\ ClientsAccounted

-----------------------------------------------------------------------------
(* The list *)

LEMMA ListOf ==
    ASSUME NEW s \in Seq(Clients)
    PROVE  /\ ToSet(s) = {s[i] : i \in 1 .. Len(s)}
           /\ IsInjective(s) <=> \A i, j \in 1 .. Len(s) : s[i] = s[j] => i = j
BY DEF ToSet, IsInjective

\* push_back() of a context that is not in the list.
LEMMA ListPush ==
    ASSUME NEW s \in Seq(Clients), NEW c \in Clients, IsInjective(s), c \notin ToSet(s)
    PROVE  /\ Append(s, c) \in Seq(Clients)
           /\ IsInjective(Append(s, c))
           /\ ToSet(Append(s, c)) = ToSet(s) \cup {c}
<1>1. /\ Append(s, c) \in Seq(Clients) /\ Len(Append(s, c)) = Len(s) + 1
      /\ Append(s, c)[Len(s) + 1] = c
      /\ \A i \in 1 .. Len(s) : Append(s, c)[i] = s[i]
      OBVIOUS
<1>2. \A i \in 1 .. Len(s) : s[i] # c BY ListOf
<1>3. IsInjective(Append(s, c))
  <2> SUFFICES ASSUME NEW i \in 1 .. Len(s) + 1, NEW j \in 1 .. Len(s) + 1,
                      Append(s, c)[i] = Append(s, c)[j]
               PROVE  i = j
      BY <1>1, ListOf
  <2>1. CASE i = Len(s) + 1 BY <1>1, <1>2, <2>1
  <2>2. CASE j = Len(s) + 1 BY <1>1, <1>2, <2>2
  <2>3. CASE i \in 1 .. Len(s) /\ j \in 1 .. Len(s) BY <1>1, <2>3, ListOf
  <2> QED BY <2>1, <2>2, <2>3
<1>4. ToSet(Append(s, c)) = {Append(s, c)[i] : i \in 1 .. Len(s) + 1} BY <1>1, ListOf
<1>5. ToSet(Append(s, c)) = ToSet(s) \cup {c} BY <1>1, <1>4, ListOf
<1> QED BY <1>1, <1>3, <1>5

\* erase() takes out what it is told to, and nothing else.
LEMMA ListErase ==
    ASSUME NEW s \in Seq(Clients), IsInjective(s), NEW k \in 1 .. Len(s)
    PROVE  /\ RemoveAt(s, k) \in Seq(Clients)
           /\ IsInjective(RemoveAt(s, k))
           /\ ToSet(RemoveAt(s, k)) = ToSet(s) \ {s[k]}
<1> DEFINE r == RemoveAt(s, k)
<1>1. /\ r \in Seq(Clients) /\ Len(r) = Len(s) - 1
      /\ \A i \in 1 .. Len(s) - 1 : r[i] = IF i < k THEN s[i] ELSE s[i + 1]
  <2> DEFINE a == SubSeq(s, 1, k - 1)
             b == SubSeq(s, k + 1, Len(s))
  <2>1. /\ a \in Seq(Clients) /\ Len(a) = k - 1
        /\ \A i \in 1 .. k - 1 : a[i] = s[i]
        OBVIOUS
  <2>2. /\ b \in Seq(Clients) /\ Len(b) = Len(s) - k
        /\ \A i \in 1 .. Len(s) - k : b[i] = s[k + i]
        OBVIOUS
  <2>3. r = a \o b BY DEF RemoveAt
  <2> HIDE DEF a, b, r
  <2>4. r \in Seq(Clients) /\ Len(r) = Len(s) - 1 BY <2>1, <2>2, <2>3
  <2>5. ASSUME NEW i \in 1 .. Len(s) - 1
        PROVE  r[i] = IF i < k THEN s[i] ELSE s[i + 1]
    <3>1. CASE i < k BY <2>1, <2>2, <2>3, <3>1
    <3>2. CASE i >= k
      <4>1. i - (k - 1) \in 1 .. Len(s) - k /\ k + (i - (k - 1)) = i + 1 BY <3>2
      <4>2. r[i] = b[i - (k - 1)] BY <2>1, <2>2, <2>3, <3>2
      <4> QED BY <2>2, <3>2, <4>1, <4>2
    <3> QED BY <3>1, <3>2
  <2> QED BY <2>4, <2>5
<1> HIDE DEF r
<1>2. \A i, j \in 1 .. Len(s) : s[i] = s[j] => i = j BY ListOf
<1>3. IsInjective(r)
  <2>1. \A i, j \in 1 .. Len(r) : r[i] = r[j] => i = j
        BY <1>1, <1>2
  <2> QED BY <1>1, <2>1, ListOf
<1>4. ToSet(r) \subseteq ToSet(s) \ {s[k]}
  <2> SUFFICES ASSUME NEW i \in 1 .. Len(r) PROVE r[i] \in ToSet(s) \ {s[k]}
      BY <1>1, ListOf
  <2>1. PICK j \in 1 .. Len(s) : j # k /\ r[i] = s[j] BY <1>1
  <2> QED BY <1>2, <2>1, ListOf
<1>5. ToSet(s) \ {s[k]} \subseteq ToSet(r)
  <2> SUFFICES ASSUME NEW j \in 1 .. Len(s), j # k PROVE s[j] \in ToSet(r)
      BY ListOf
  <2>1. CASE j < k
    <3>1. j \in 1 .. Len(r) /\ r[j] = s[j] BY <1>1, <2>1
    <3> QED BY <1>1, <3>1, ListOf
  <2>2. CASE j > k
    <3>1. j - 1 \in 1 .. Len(r) /\ r[j - 1] = s[j] BY <1>1, <2>2
    <3> QED BY <1>1, <3>1, ListOf
  <2> QED BY <2>1, <2>2
<1> QED BY <1>1, <1>3, <1>4, <1>5 DEF r

-----------------------------------------------------------------------------
(* The steps *)

LEMMA Apart ==
    /\ \A c \in Clients : c # Server /\ c # Collector /\ c \notin Stoppers /\ c # 0
    /\ Server # Collector /\ Server \notin Stoppers /\ Collector \notin Stoppers
    /\ Clients \cup Stoppers \cup {Server, Collector} = Threads
BY ThreadAssumption DEF Threads, Clients

LEMMA ServerInitInv == Init => ServerInv
<1> SUFFICES ASSUME Init PROVE ServerInv OBVIOUS
<1>1. list = <<>> /\ list \in Seq(Clients) /\ Len(list) = 0 BY DEF Init
<1>2. ToSet(list) = {} /\ IsInjective(list) BY <1>1 DEF ToSet, IsInjective
<1>3. ServerTypes BY <1>1, Apart DEF Init, ServerTypes
<1>4. \A t \in Threads : pc[t] = "out" BY DEF Init
<1>5. Newest BY <1>4, Apart DEF Init, Newest
<1>6. Unaccepted BY <1>2, Apart DEF Init, Unaccepted
<1>7. ClientsAccounted BY <1>2, <1>4, Apart DEF Init, ClientsAccounted
<1>8. Scanning BY <1>4, Apart DEF Scanning
<1> QED BY <1>3, <1>5, <1>6, <1>7, <1>8 DEF ServerInv

\* A step of a thread that is not a client's, and of start() only between the
\* states in which it holds no context.
LEMMA QuietStep ==
    ASSUME ServerInv, NEW t \in Threads \ Clients, NEW to,
           t = Server => pc[t] \notin {"lock", "push"} /\ to \notin {"lock", "push"},
           pc' = pc \/ pc' = [pc EXCEPT ![t] = to],
           DOMAIN index' = Threads, index'[Collector] \in Nat,
           Scanning',
           UNCHANGED <<list, reaped, newest>>
    PROVE  ServerInv'
<1>1. \A c \in Clients : pc'[c] = pc[c] BY Apart DEF ServerInv, ServerTypes
<1>2. ServerTypes' BY DEF ServerInv, ServerTypes
<1>3. Newest' BY Apart DEF ServerInv, ServerTypes, Newest
<1>4. Unaccepted' BY <1>1 DEF ServerInv, Unaccepted
<1>5. ClientsAccounted' BY <1>1 DEF ServerInv, ClientsAccounted
<1> QED BY <1>2, <1>3, <1>4, <1>5 DEF ServerInv

\* A step of a client's thread: it never returns to where it was not accepted.
LEMMA ClientMoves ==
    ASSUME ServerInv, NEW c \in Clients, NEW to,
           pc' = [pc EXCEPT ![c] = to],
           pc[c] # "ended",
           pc[c] # "out", to # "out",
           UNCHANGED <<list, reaped, newest, index>>
    PROVE  ServerInv'
<1>1. /\ pc'[c] = to /\ pc'[Server] = pc[Server] /\ pc'[Collector] = pc[Collector]
      /\ \A d \in Clients \ {c} : pc'[d] = pc[d]
      BY Apart DEF ServerInv, ServerTypes
<1>2. ServerTypes' BY DEF ServerInv, ServerTypes
<1>3. Newest' BY <1>1 DEF ServerInv, Newest
<1>4. Unaccepted' BY <1>1 DEF ServerInv, Unaccepted
<1>5. ClientsAccounted' BY <1>1 DEF ServerInv, ClientsAccounted
<1>6. Scanning' BY <1>1 DEF ServerInv, Scanning
<1> QED BY <1>2, <1>3, <1>4, <1>5, <1>6 DEF ServerInv

LEMMA AcceptInv == ASSUME ServerInv, NEW c \in Clients, Accept(c) PROVE ServerInv'
<1>1. /\ pc[Server] = "accept" /\ pc[c] = "out"
      /\ pc' = [pc EXCEPT ![Server] = "lock", ![c] = "accepted"]
      /\ newest' = c
      /\ UNCHANGED <<list, reaped, index>>
      BY DEF Accept
<1>2. /\ pc'[Server] = "lock" /\ pc'[c] = "accepted"
      /\ \A d \in Clients \ {c} : pc'[d] = pc[d]
      BY <1>1, Apart DEF ServerInv, ServerTypes
<1>3. newest = 0 BY <1>1 DEF ServerInv, Newest
<1>4. c \notin ToSet(list) \cup reaped BY <1>1 DEF ServerInv, Unaccepted
<1>5. ServerTypes' BY <1>1 DEF ServerInv, ServerTypes
<1>6. Newest' BY <1>1, <1>2 DEF Newest
<1>7. Unaccepted' BY <1>1, <1>2 DEF ServerInv, Unaccepted
<1>8. ClientsAccounted'
      BY <1>1, <1>2, <1>3, <1>4, Apart DEF ServerInv, ClientsAccounted
<1>9. Scanning' BY <1>1, <1>2, Apart DEF ServerInv, ServerTypes, Scanning
<1> QED BY <1>5, <1>6, <1>7, <1>8, <1>9 DEF ServerInv

LEMMA CreateThreadInv == ASSUME ServerInv, CreateThread PROVE ServerInv'
<1>1. /\ pc[Server] = "lock"
      /\ pc' = [pc EXCEPT ![Server] = "push", ![newest] = "proc"]
      /\ UNCHANGED <<list, reaped, newest, index>>
      BY DEF CreateThread
<1>2. newest \in Clients BY <1>1 DEF ServerInv, Newest
<1>3. /\ pc'[Server] = "push" /\ pc'[newest] = "proc"
      /\ \A d \in Clients \ {newest} : pc'[d] = pc[d]
      BY <1>1, <1>2, Apart DEF ServerInv, ServerTypes
<1>4. newest \notin reaped /\ newest \notin ToSet(list)
      BY <1>2 DEF ServerInv, ClientsAccounted
<1>5. ServerTypes' BY <1>1 DEF ServerInv, ServerTypes
<1>6. Newest' BY <1>1, <1>2, <1>3 DEF Newest
<1>7. Unaccepted' BY <1>1, <1>3 DEF ServerInv, Unaccepted
<1>8. ClientsAccounted'
      BY <1>1, <1>2, <1>3, <1>4 DEF ServerInv, ClientsAccounted
<1>9. Scanning' BY <1>1, <1>2, Apart DEF ServerInv, ServerTypes, Scanning
<1> QED BY <1>5, <1>6, <1>7, <1>8, <1>9 DEF ServerInv

LEMMA PushInv == ASSUME ServerInv, Push PROVE ServerInv'
<1>1. /\ pc[Server] = "push"
      /\ pc' = [pc EXCEPT ![Server] = "loop"]
      /\ list' = Append(list, newest)
      /\ newest' = 0
      /\ UNCHANGED <<reaped, index>>
      BY DEF Push, Move
<1>2. newest \in Clients BY <1>1 DEF ServerInv, Newest
<1>3. pc'[Server] = "loop" /\ \A d \in Clients : pc'[d] = pc[d]
      BY <1>1, Apart DEF ServerInv, ServerTypes
<1>4. newest \notin reaped /\ newest \notin ToSet(list) /\ IsInjective(list)
      BY <1>2 DEF ServerInv, ClientsAccounted
<1>5. /\ list' \in Seq(Clients) /\ IsInjective(list')
      /\ ToSet(list') = ToSet(list) \cup {newest}
      BY <1>1, <1>2, <1>4, ListPush DEF ServerInv, ServerTypes
<1>6. ServerTypes' BY <1>1, <1>5 DEF ServerInv, ServerTypes
<1>7. Newest' BY <1>1, <1>3 DEF Newest
<1>8. Unaccepted' BY <1>1, <1>3, <1>5, Apart DEF ServerInv, Unaccepted
<1>9. ClientsAccounted'
      BY <1>1, <1>3, <1>4, <1>5, Apart DEF ServerInv, ClientsAccounted
<1>10. Scanning' BY <1>1, <1>2, Apart DEF ServerInv, ServerTypes, Scanning
<1> QED BY <1>6, <1>7, <1>8, <1>9, <1>10 DEF ServerInv

LEMMA StartStepInv == ASSUME ServerInv, StartStep PROVE ServerInv'
<1>1. CASE \/ WaitForSocketEvent \/ CreateClosePipe \/ Poll \/ Wake \/ AcceptIsAvailable
           \/ Again \/ JoinCollector
  <2>1. UNCHANGED <<list, reaped, newest, index>> /\ pc[Server] \notin {"lock", "push"}
        BY <1>1 DEF WaitForSocketEvent, CreateClosePipe, Poll, Wake, AcceptIsAvailable, Again,
               JoinCollector, Move
  <2>2. PICK to : to \notin {"lock", "push"} /\ pc' = [pc EXCEPT ![Server] = to]
        BY <1>1 DEF WaitForSocketEvent, CreateClosePipe, Poll, Wake, AcceptIsAvailable, Again,
               JoinCollector, Move
  <2>3. Scanning' BY <2>1, <2>2, Apart DEF ServerInv, ServerTypes, Scanning
  <2> QED BY <2>1, <2>2, <2>3, QuietStep, Apart DEF ServerInv, ServerTypes
<1>2. CASE \E c \in Clients : Accept(c) BY <1>2, AcceptInv
<1>3. CASE CreateThread BY <1>3, CreateThreadInv
<1>4. CASE Push BY <1>4, PushInv
<1> QED BY <1>1, <1>2, <1>3, <1>4 DEF StartStep

\* Only a context whose thread has ended is deleted, and it was in the list.
LEMMA ScanInv == ASSUME ServerInv, Scan PROVE ServerInv'
<1> DEFINE i == index[Collector]
<1>0. /\ i \in Nat /\ i # 0 /\ Collector \in Threads \ Clients /\ Collector # Server
      /\ UNCHANGED newest
      BY Apart DEF ServerInv, ServerTypes, Scan, Scanning
<1>1. CASE /\ Move(Collector, "scan", "test")
           /\ index' = [index EXCEPT ![Collector] = 0]
           /\ UNCHANGED <<list, reaped>>
  <2>1. Scanning' BY <1>0, <1>1 DEF Move, ServerInv, ServerTypes, Scanning
  <2> QED BY <1>0, <1>1, <2>1, QuietStep DEF Move, ServerInv, ServerTypes
<1>2. CASE /\ index' = [index EXCEPT ![Collector] = i + 1]
           /\ UNCHANGED <<pc, list, reaped>>
  <2>1. DOMAIN index' = Threads /\ index'[Collector] \in Nat /\ Scanning'
        BY <1>0, <1>2 DEF ServerInv, ServerTypes, Scanning
  <2> QED BY <1>0, <1>2, <2>1, QuietStep
<1>3. CASE i <= Len(list) /\ Reap(i) /\ UNCHANGED pc
  <2>1. /\ pc[list[i]] = "ended" /\ reaped' = reaped \cup {list[i]}
        /\ list' = RemoveAt(list, i) /\ UNCHANGED index
        BY <1>3 DEF Reap
  <2>2. i \in 1 .. Len(list) BY <1>0, <1>3 DEF ServerInv, ServerTypes
  <2>3. /\ list' \in Seq(Clients) /\ IsInjective(list')
        /\ ToSet(list') = ToSet(list) \ {list[i]}
        BY <2>1, <2>2, ListErase DEF ServerInv, ServerTypes, ClientsAccounted
  <2>4. list[i] \in Clients /\ list[i] \in ToSet(list)
        BY <2>2, ListOf DEF ServerInv, ServerTypes
  <2>5. list[i] # newest BY <2>4 DEF ServerInv, ClientsAccounted
  <2>6. ServerTypes' BY <1>0, <1>3, <2>1, <2>3, <2>4 DEF ServerInv, ServerTypes
  <2>7. Newest' BY <1>0, <1>3 DEF ServerInv, Newest
  <2>8. Unaccepted' BY <1>0, <1>3, <2>1, <2>3, <2>4 DEF ServerInv, Unaccepted
  <2>9. Scanning' BY <1>3, <2>1 DEF ServerInv, Scanning
  <2>10. ClientsAccounted'
        BY <1>0, <1>3, <2>1, <2>3, <2>4, <2>5 DEF ServerInv, ClientsAccounted
  <2> QED BY <2>6, <2>7, <2>8, <2>9, <2>10 DEF ServerInv
<1> QED BY <1>1, <1>2, <1>3 DEF Scan

LEMMA CollectorStepInv == ASSUME ServerInv, CollectorStep PROVE ServerInv'
<1>0. Collector \in Threads \ Clients /\ Collector # Server BY Apart
<1>1. CASE Collect
  <2>1. PICK to : to # "scan" /\ pc' = [pc EXCEPT ![Collector] = to]
        BY <1>1 DEF Collect, Move
  <2>2. UNCHANGED <<list, reaped, newest, index>> BY <1>1 DEF Collect
  <2>3. Scanning' BY <1>0, <2>1 DEF ServerInv, ServerTypes, Scanning
  <2> QED BY <1>0, <2>1, <2>2, <2>3, QuietStep DEF ServerInv, ServerTypes
<1>2. CASE CollectLock
  <2>1. /\ pc' = [pc EXCEPT ![Collector] = "scan"]
        /\ index' = [index EXCEPT ![Collector] = 1]
        /\ UNCHANGED <<list, reaped, newest>>
        BY <1>2 DEF CollectLock, Lock, Move
  <2>2. DOMAIN index' = Threads /\ index'[Collector] = 1 /\ Scanning'
        BY <1>0, <2>1 DEF ServerInv, ServerTypes, Scanning
  <2> QED BY <1>0, <2>1, <2>2, QuietStep
<1>3. CASE Scan BY <1>3, ScanInv
<1> QED BY <1>1, <1>2, <1>3 DEF CollectorStep

LEMMA ClientInv ==
    ASSUME ServerInv, NEW c \in Clients, ClientStep(c) PROVE ServerInv'
<1>1. CASE ProcReturns(c) BY <1>1, ClientMoves DEF ProcReturns, Move
<1>2. CASE CloseClient(c) BY <1>2, ClientMoves DEF CloseClient, Move
<1>3. CASE FinishClient(c) BY <1>3, ClientMoves DEF FinishClient, Move
<1> QED BY <1>1, <1>2, <1>3 DEF ClientStep

LEMMA StopInv ==
    ASSUME ServerInv, NEW s \in Stoppers, Stop(s) \/ StopStep(s) PROVE ServerInv'
<1>0. s \in Threads \ Clients /\ s # Server /\ s # Collector BY Apart
<1>1. UNCHANGED <<list, reaped, newest>>
      BY DEF Stop, StopStep, StopClose, ClosePipe, CloseFd, StopSize, StopSignal, StopLock,
         StopCloseClients
<1>2. \E to : pc' = pc \/ pc' = [pc EXCEPT ![s] = to]
      BY DEF Stop, StopStep, StopClose, ClosePipe, CloseFd, StopSize, StopSignal, StopLock,
         StopCloseClients, Lock, Move
<1>3. index' = index \/ \E k : index' = [index EXCEPT ![s] = k]
      BY DEF Stop, StopStep, StopClose, ClosePipe, CloseFd, StopSize, StopSignal, StopLock,
         StopCloseClients
<1>4. DOMAIN index' = Threads /\ index'[Collector] = index[Collector]
  <2>1. DOMAIN index = Threads BY DEF ServerInv, ServerTypes
  <2>2. ASSUME NEW k, index' = [index EXCEPT ![s] = k]
        PROVE  DOMAIN index' = Threads /\ index'[Collector] = index[Collector]
        BY <1>0, <2>1, <2>2, Apart
  <2> QED BY <1>3, <2>1, <2>2
<1>5. Scanning'
  <2>1. DOMAIN pc = Threads BY DEF ServerInv, ServerTypes
  <2>2. ASSUME NEW to, pc' = [pc EXCEPT ![s] = to] PROVE pc'[Collector] = pc[Collector]
        BY <1>0, <2>1, <2>2, Apart
  <2> QED BY <1>2, <1>4, <2>2 DEF ServerInv, Scanning
<1> QED BY <1>0, <1>1, <1>2, <1>4, <1>5, QuietStep DEF ServerInv, ServerTypes

LEMMA ListenInv == ASSUME ServerInv, Listen PROVE ServerInv'
<1>1. /\ pc[Server] = "out"
      /\ pc' = [pc EXCEPT ![Server] = "wait", ![Collector] = "test"]
      /\ UNCHANGED <<list, reaped, newest, index>>
      BY DEF Listen
<1>2. /\ pc'[Server] = "wait" /\ pc'[Collector] = "test"
      /\ \A c \in Clients : pc'[c] = pc[c]
      BY <1>1, Apart DEF ServerInv, ServerTypes
<1>3. ServerTypes' BY <1>1 DEF ServerInv, ServerTypes
<1>4. Newest' BY <1>1, <1>2 DEF ServerInv, Newest
<1>5. Unaccepted' BY <1>1, <1>2 DEF ServerInv, Unaccepted
<1>6. Scanning' BY <1>2 DEF Scanning
<1>7. ClientsAccounted' BY <1>1, <1>2 DEF ServerInv, ClientsAccounted
<1> QED BY <1>3, <1>4, <1>5, <1>6, <1>7 DEF ServerInv

-----------------------------------------------------------------------------
(***************************************************************************)
(* The inductive invariant: between accept() and push_back() start() is    *)
(* the one that holds the context, and a peer's connection that has not    *)
(* been accepted is nobody's.                                              *)
(***************************************************************************)
THEOREM ServerInvHolds == SafeSpec => []ServerInv
<1>1. Init => ServerInv BY ServerInitInv
<1>2. ServerInv /\ [Next]_vars => ServerInv'
  <2> SUFFICES ASSUME ServerInv, [Next]_vars PROVE ServerInv' OBVIOUS
  <2>1. CASE UNCHANGED vars
        BY <2>1 DEF vars, ServerInv, ServerTypes, Newest, Unaccepted, Scanning, ClientsAccounted
  <2>2. CASE Listen BY <2>2, ListenInv
  <2>3. CASE StartStep BY <2>3, StartStepInv
  <2>4. CASE CollectorStep BY <2>4, CollectorStepInv
  <2>5. ASSUME NEW c \in Clients, ClientStep(c) PROVE ServerInv' BY <2>5, ClientInv
  <2>6. ASSUME NEW s \in Stoppers, Stop(s) \/ StopStep(s) PROVE ServerInv'
        BY <2>6, StopInv
  <2>7. CASE Knock
        BY <2>7 DEF Knock, ServerInv, ServerTypes, Newest, Unaccepted, Scanning, ClientsAccounted
  <2> QED BY <2>1, <2>2, <2>3, <2>4, <2>5, <2>6, <2>7 DEF Next, Run
<1> QED BY <1>1, <1>2, PTL DEF SafeSpec

(***************************************************************************)
(* Every client's thread and context is in the hands of exactly one, until *)
(* it is deleted, after its thread has ended (ntcpServer.cxx:44, 124,      *)
(* 126): property ClientsAccounted.                                        *)
(***************************************************************************)
THEOREM ClientsAccountedHolds == Spec => []ClientsAccounted
<1>1. ServerInv => ClientsAccounted BY DEF ServerInv
<1> QED BY <1>1, ServerInvHolds, PTL DEF Spec
=============================================================================
