------------------------------ MODULE Nthread ------------------------------
(***************************************************************************)
(* Nthread (src/src/nthread.cxx): an object that starts a thread, the      *)
(* thread, the owner that joins and destroys, and another caller of        *)
(* getTid().  A step is one call of pthreads or one write of what the two  *)
(* threads share; m_tidGot is an Nevent (module Nevent) with manual reset. *)
(* A CORE_AFFINITY, which is an Nbinary, and the integer that it holds are *)
(* the set of the positions of the 1 bits.                                 *)
(* m_created is TRUE in every object that gets as far as its destructor.   *)
(***************************************************************************)
EXTENDS Integers, FiniteSets

CONSTANTS
    Owner, Another,   \* the callers
    Cores,          \* the cores there are: 0 .. n - 1
    MaskBits,       \* BOUND: the positions of the bits of a CORE_AFFINITY
    SetSize,        \* CPU_SETSIZE
    Priorities      \* BOUND: the priorities asked for; 1 .. 99 are real-time ones

Callers == {Owner, Another}
Models == {"DEFAULT", "BATCH", "IDLE", "FIFO", "ROUND_ROBIN", "DEADLINE"}
RealTime == {"FIFO", "ROUND_ROBIN"}
AllCores == Cores                       \* CORE_AFFINITY_ALL

ASSUME CoresAssumption ==
    /\ SetSize \in Nat /\ Cores \subseteq 0 .. SetSize - 1 /\ Cores # {}
    /\ MaskBits \subseteq Nat

VARIABLES
    object,     \* "none"; being "alive" or in its "destructor"; "destroyed"; or "lost":
                \* its constructor threw when the thread had been created
    detached, joined, tid, tidGot, \* m_detached, m_joined, m_tid (0: not set), m_tidGot
    run,        \* where the thread is
    storage,    \* the kernel's thread: "none", "joinable", "detached" or "reclaimed"
    callerAt,   \* where each caller is
    told,       \* told[c]: what the caller's last getTid() returned, or Unasked
    stray,      \* whether the thread has written to an object that is no more
    kernel,     \* the thread's policy, priority and cores
    adjusted    \* what the last setters that returned were asked for

object_ == <<object, detached, joined>>
thread_ == <<tid, tidGot, run, stray>>
attributes == <<kernel, adjusted>>
threadvars == <<object_, thread_, storage, callerAt, told, attributes>>

Tid == 1
Unasked == -1

Default == [model |-> "DEFAULT", priority |-> 0, cores |-> AllCores]

ThreadInit ==
    /\ object = "none" /\ detached = FALSE /\ joined = FALSE
    /\ tid = 0 /\ tidGot = FALSE /\ run = "none" /\ stray = FALSE
    /\ storage = "none"
    /\ callerAt = [c \in Callers |-> "out"]
    /\ told = [c \in Callers |-> Unasked]
    /\ kernel = [model |-> "DEFAULT", priority |-> 0, cores |-> Cores]
    /\ adjusted = Default

Go(c, from, to) ==
    /\ callerAt[c] = from
    /\ callerAt' = [callerAt EXCEPT ![c] = to]

-----------------------------------------------------------------------------
(* The constructor, and the thread *)

\* pthread_create(); then pthread_setname_np() refuses a name that is too long.
Create(createDetached, nameFails) ==
    /\ object = "none"
    /\ object' = IF nameFails THEN "lost" ELSE "alive"
    /\ detached' = createDetached
    /\ run' = "start"
    /\ storage' = IF createDetached THEN "detached" ELSE "joinable"
    /\ UNCHANGED <<joined, tid, tidGot, stray, callerAt, told, attributes>>

Exists == object \in {"alive", "destructor"}

getTidAndCall ==
    /\ \/ run = "start" /\ run' = "signal" /\ tid' = Tid /\ UNCHANGED tidGot
       \/ run = "signal" /\ run' = "proc" /\ tidGot' = TRUE /\ UNCHANGED tid
    /\ stray' = (stray \/ ~Exists)
    /\ UNCHANGED <<object_, storage, callerAt, told, attributes>>

\* The thread procedure returns; pthreads frees a detached thread.
ThreadEnds ==
    /\ run = "proc"
    /\ run' = "ended"
    /\ storage' = IF storage = "detached" THEN "reclaimed" ELSE storage
    /\ UNCHANGED <<object_, tid, tidGot, stray, callerAt, told, attributes>>

-----------------------------------------------------------------------------
(* getTid() and getReturnValue() *)

\* m_tidGot stays signalled.
WaitForTid(c) == tidGot /\ Go(c, "tid", "out") /\ UNCHANGED tidGot

GetTid(c) ==
    /\ \/ object = "alive" /\ Go(c, "out", "tid") /\ UNCHANGED <<told, tidGot>>
       \/ WaitForTid(c) /\ told' = [told EXCEPT ![c] = tid]
    /\ UNCHANGED <<object_, tid, run, stray, storage, attributes>>

\* pthread_join() of a detached thread is an error, and nothing changes.
GetReturnValue ==
    /\ \/ /\ object = "alive" /\ ~detached /\ ~joined
          /\ Go(Owner, "out", "join")
          /\ UNCHANGED <<joined, storage>>
       \/ /\ run = "ended"
          /\ Go(Owner, "join", "out")
          /\ joined' = TRUE
          /\ storage' = "reclaimed"
    /\ UNCHANGED <<object, detached, thread_, told, attributes>>

-----------------------------------------------------------------------------
(* The destructor: killThread() *)

\* Nobody else uses the object any more.
Destroy ==
    /\ object = "alive" /\ callerAt[Another] = "out"
    /\ IF ~joined /\ ~detached
       THEN object' = "destructor" /\ Go(Owner, "out", "timedjoin")
       ELSE object' = "destroyed" /\ Go(Owner, "out", "out")
    /\ UNCHANGED <<detached, joined, thread_, storage, told, attributes>>

JoinInTime ==
    /\ run = "ended"
    /\ Go(Owner, "timedjoin", "out")
    /\ joined' = TRUE
    /\ storage' = "reclaimed"
    /\ object' = "destroyed"
    /\ UNCHANGED <<detached, thread_, told, attributes>>

\* DEATH_WAIT_TIME_MS is over.
JoinTimesOut ==
    /\ Go(Owner, "timedjoin", "detach")
    /\ UNCHANGED <<object_, thread_, storage, told, attributes>>

\* A thread that has just ended is left as it is.
DetachRunning ==
    /\ Go(Owner, "detach", "out")
    /\ storage' = IF run = "ended" THEN storage ELSE "detached"
    /\ object' = "destroyed"
    /\ UNCHANGED <<detached, joined, thread_, told, attributes>>

Detach ==
    /\ Go(Owner, "detach", "out")
    /\ storage' = IF run = "ended" THEN "reclaimed" ELSE "detached"
    /\ object' = "destroyed"
    /\ UNCHANGED <<detached, joined, thread_, told, attributes>>

-----------------------------------------------------------------------------
(* What the kernel keeps about the thread *)

\* The cores of the 1 bits of a mask.
Bits(flags) == {c \in 0 .. SetSize - 1 : c \in flags}

\* Core 0 is written first.
AffinityTextReversed == [i \in 1 .. SetSize |-> IF i - 1 \in kernel.cores THEN 1 ELSE 0]

\* getThreadAffinity()'s text, a digit for each core of a cpu_set_t; and the
\* Nbinary it is stored in, whose last digit is at position 0.
AffinityText == [i \in 1 .. SetSize |-> IF SetSize - i \in kernel.cores THEN 1 ELSE 0]
getThreadAffinity == {SetSize - i : i \in {j \in 1 .. SetSize : AffinityText[j] = 1}}

\* The kernel takes the cores there are, and refuses if there is none of them.
SetThreadAffinity(flags) ==
    LET mask == IF flags = {} THEN AllCores ELSE flags
        cores == Bits(mask) \cap Cores
    IN  IF cores = {} THEN UNCHANGED attributes
        ELSE /\ kernel' = [kernel EXCEPT !.cores = cores]
             /\ adjusted' = [adjusted EXCEPT !.cores = mask]

Legal(model, priority) == IF model \in RealTime THEN priority \in 1 .. 99 ELSE priority = 0

\* pthread_setschedparam() has no deadlines to give.
SetSchedulingModel(model, thePriority) ==
    LET priority == IF model \in {"DEFAULT", "BATCH", "IDLE"} THEN 0 ELSE thePriority
    IN  IF model = "DEADLINE" \/ ~Legal(model, priority) THEN UNCHANGED attributes
        ELSE /\ kernel' = [kernel EXCEPT !.model = model, !.priority = priority]
             /\ adjusted' = [adjusted EXCEPT !.model = model, !.priority = priority]

\* pthread_setschedprio(): of the policy the thread has.
SetSchedulingPriority(priority) ==
    IF ~Legal(kernel.model, priority) THEN UNCHANGED attributes
    ELSE /\ kernel' = [kernel EXCEPT !.priority = priority]
         /\ adjusted' = [adjusted EXCEPT !.priority = priority]

Adjust ==
    /\ object = "alive" /\ callerAt[Owner] = "out" /\ run # "ended"
    /\ \/ \E flags \in SUBSET MaskBits : SetThreadAffinity(flags)
       \/ \E m \in Models, p \in Priorities : SetSchedulingModel(m, p)
       \/ \E p \in Priorities : SetSchedulingPriority(p)
    /\ UNCHANGED <<object_, thread_, storage, callerAt, told>>

-----------------------------------------------------------------------------
ThreadNext ==
    \/ \E d, n \in BOOLEAN : Create(d, n)
    \/ getTidAndCall
    \/ ThreadEnds
    \/ \E c \in Callers : GetTid(c)
    \/ GetReturnValue
    \/ Destroy \/ JoinInTime \/ JoinTimesOut \/ Detach
    \/ Adjust

(***************************************************************************)
(* The thread gets as far as its procedure, which need not return; a       *)
(* second passes; and a caller that can go on does.                        *)
(***************************************************************************)
ThreadFairness ==
    /\ WF_threadvars(getTidAndCall)
    /\ WF_threadvars(JoinTimesOut \/ JoinInTime)
    /\ WF_threadvars(Detach)
    /\ \A c \in Callers : WF_threadvars(tidGot /\ GetTid(c))

ThreadSpec == ThreadInit /\ [][ThreadNext]_threadvars /\ ThreadFairness

-----------------------------------------------------------------------------
(***************************************************************************)
(* Once its owner has given a thread up, the thread's storage is reclaimed *)
(* when it ends, also if it ends while killThread() turns from waiting to  *)
(* detaching (nthread.cxx:350-354).  An object whose constructor threw is  *)
(* not given up by anybody (README, "Further disagreements").              *)
(***************************************************************************)
NoZombies == object = "destroyed" /\ run = "ended" => storage = "reclaimed"

(***************************************************************************)
(* getTid() returns the thread's id (nthread.h:53).  The thread writes to  *)
(* the object on its own time; an owner that has joined it, or knows that  *)
(* somebody has been told the id, can destroy the object without the       *)
(* thread writing to it any more (nthread.cxx:35-36).                      *)
(***************************************************************************)
TidIsKnown ==
    /\ \A c \in Callers : told[c] # Unasked => told[c] = Tid /\ run \in {"proc", "ended"}
    /\ stray => object = "lost" \/ (~joined /\ \A c \in Callers : told[c] = Unasked)

(***************************************************************************)
(* A thread is accounted for: it is not left behind as a zombie, what is   *)
(* said of it is true, and it does not touch an object whose owner had     *)
(* reason to think it would not.                                           *)
(***************************************************************************)
ThreadAccounted == NoZombies /\ TidIsKnown

(***************************************************************************)
(* Everybody who asks for the thread's id gets it, and the destructor      *)
(* returns although the thread may run for ever (nthread.cxx:100-105,      *)
(* 340-355).                                                               *)
(***************************************************************************)
ThreadCallsEnd ==
    /\ \A c \in Callers : callerAt[c] = "tid" ~> callerAt[c] = "out"
    /\ object = "destructor" ~> object = "destroyed"

(***************************************************************************)
(* The getters tell what the setters that returned were asked for, as far  *)
(* as there are such cores, whichever calls failed (nthread.h:60-88).      *)
(***************************************************************************)
AttributesAsAsked ==
    /\ getThreadAffinity = adjusted.cores \cap Cores
    /\ kernel.model = adjusted.model /\ kernel.priority = adjusted.priority
=============================================================================
