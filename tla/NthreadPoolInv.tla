-------------------------- MODULE NthreadPoolInv --------------------------
(***************************************************************************)
(* The inductive invariant behind the safety properties of NthreadPool.    *)
(***************************************************************************)
EXTENDS NthreadPool

LockStates ==
    {"probe", "await", "scan", "unlock", "wloop", "wawait", "wresignal", "wunlock"}

SubmitStates == {"lock", "probe", "await", "scan", "unlock", "assign", "start"}

DestroyStates == {"dcount", "dsignal", "djoin", "destroyed"}

\* m_poolOwner is held by the one caller that is between lock and unlock.
LockHeld == \A c \in Callers : cpc[c] \in LockStates <=> owner = c

\* The destructor's thread only destroys, no other thread does, and the pool
\* closes when the destructor begins.
Roles ==
    /\ closing <=> cpc[Destroyer] # "out"
    /\ cpc[Destroyer] \notin SubmitStates
    /\ \A c \in Callers \ {Destroyer} : cpc[c] \notin DestroyStates

\* Threads that are not in m_pool yet do nothing; only closing ends one.
PoolShape ==
    /\ \A w \in Workers : w > size =>
          wpc[w] = "absent" /\ ~idle[w] /\ ~started[w]
    /\ \A w \in Workers : w <= size => wpc[w] # "absent"
    /\ \A w \in Workers : wpc[w] = "exited" => closing
    /\ \A w \in Workers : wpc[w] = "freed" => ~Intact
    /\ poolSize <= size
    /\ \A c \in Callers : got[c] <= size

Structure == TypeOK /\ LockHeld /\ Roles /\ PoolShape

-----------------------------------------------------------------------------
\* A thread that has not got past startThread.wait() for its next job.
AtRest(w) == wpc[w] \in {"marked", "loop", "waiting", "exited"}

\* A caller has been given w and has not started it yet.
Holds(c, w) == cpc[c] \in {"unlock", "assign", "start"} /\ got[c] = w

(***************************************************************************)
(* A thread is idle, or handed to one caller, or told to start, or past    *)
(* that: never two of these.                                               *)
(***************************************************************************)
OneUse ==
    Intact =>
        /\ \A w \in Workers : idle[w] => AtRest(w) /\ ~started[w]
        /\ \A w \in Workers : started[w] => AtRest(w)
        /\ \A c \in Callers, w \in Workers : Holds(c, w) =>
              ~idle[w] /\ ~started[w] /\ AtRest(w)
        /\ \A c, d \in Callers, w \in Workers :
              Holds(c, w) /\ Holds(d, w) => c = d

\* Whoever is past getIdleThread() has a thread of the pool, and idleThread is
\* NULL until the scan finds one.
HeldExists ==
    /\ \A c \in Callers : cpc[c] \in {"assign", "start"} => got[c] # NoWorker
    /\ \A c \in Callers : cpc[c] = "scan" => got[c] = NoWorker

(***************************************************************************)
(* Threads marked idle behind the scan's back are counted again: so there  *)
(* is still one that the scan has not passed.                              *)
(***************************************************************************)
PassedWorkers(c) == {w \in Workers : idle[w] /\ w < at[c]}

ScanCovers ==
    Intact => \A c \in Callers : cpc[c] = "scan" =>
        Cardinality(PassedWorkers(c)) <= idleCount + Cardinality(MarkedWorkers)

ThreadFound ==
    Intact => \A c \in Callers : cpc[c] = "unlock" => got[c] # NoWorker

Handout ==
    /\ OneUse
    /\ HeldExists
    /\ IdleAccounting
    /\ ScanCovers
    /\ ThreadFound
    /\ IdleThreadFound

-----------------------------------------------------------------------------
\* Each submitJob() in progress is about a job of its own.
OpenCalls ==
    /\ \A c \in Callers : cpc[c] \in SubmitStates =>
          cjob[c] \in Jobs /\ call[cjob[c]] = "open"
    /\ \A c, d \in Callers :
          /\ cpc[c] \in SubmitStates
          /\ cpc[d] \in SubmitStates
          /\ cjob[c] = cjob[d]
          => c = d

\* A worker that is going to call userProc.
Pending(w) == started[w] \/ wpc[w] = "woken"

JobsKept ==
    /\ \A j \in Jobs : runs[j] \in {0, 1}
    /\ \A j \in Jobs : runs[j] = 1 => call[j] = "returned"
    /\ ~closing =>
          /\ \A c \in Callers : cpc[c] = "start" => job[got[c]] = cjob[c]
          /\ \A w \in Workers : Pending(w) =>
                /\ job[w] \in Jobs
                /\ call[job[w]] = "returned"
                /\ runs[job[w]] = 0
          /\ \A v, w \in Workers :
                Pending(v) /\ Pending(w) /\ job[v] = job[w] => v = w
          /\ \A j \in Jobs : call[j] = "returned" /\ runs[j] = 0 =>
                \E w \in Workers : job[w] = j /\ Pending(w)

(***************************************************************************)
(* A job runs on one worker, once, and nobody is given that worker: so the *)
(* job it runs stays the one in its context, destroyed pool or not.        *)
(***************************************************************************)
RunningKept ==
    /\ \A w \in Workers : wpc[w] = "running" =>
          /\ job[w] \in Jobs
          /\ runs[job[w]] = 1
          /\ ~idle[w]
          /\ \A c \in Callers : ~Holds(c, w)
    /\ \A v, w \in Workers :
          wpc[v] = "running" /\ wpc[w] = "running" /\ job[v] = job[w] => v = w

-----------------------------------------------------------------------------
\* Jobs that have been past m_idleCountEvent, or past extendPool().
Queued(j) == \E c \in Callers : cpc[c] \in {"lock", "probe", "await"} /\ cjob[c] = j

PlacedJobs == {j \in Jobs : call[j] # "none" /\ ~Queued(j)}

(***************************************************************************)
(* A pool that grows does so once for a job at most, so a job that is not  *)
(* placed yet finds room for one more thread, or a count that stays there. *)
(***************************************************************************)
Growth ==
    MaxPoolSize = 0 =>
        /\ size <= Cardinality(PlacedJobs)
        /\ GrowingPoolNeverWaits

IInv == Structure /\ Handout /\ OpenCalls /\ JobsKept /\ RunningKept
=============================================================================
