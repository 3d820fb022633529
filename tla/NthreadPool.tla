---------------------------- MODULE NthreadPool ----------------------------
(***************************************************************************)
(* NthreadPool (src/src/nthreadPool.cxx): worker threads that each wait    *)
(* for a startThread event of their own, callers of submitJob() and        *)
(* waitForIdle(), and the thread that destroys the pool.  A job runs on a  *)
(* worker and may itself call submitJob() or waitForIdle().                *)
(*                                                                         *)
(* Events behave as Nevent is shown to (EventContract): startThread is a   *)
(* boolean auto-reset event, m_idleCountEvent a counting auto-reset one,   *)
(* so wait() is one step, enabled while the event is signalled.            *)
(*                                                                         *)
(* Core affinity is left out.  The constructor has finished in Init.       *)
(***************************************************************************)
EXTENDS Integers, FiniteSets

CONSTANTS
    Clients,      \* threads outside the pool that call it
    Destroyer,    \* the thread that runs ~NthreadPool()
    Jobs,         \* one per call of submitJob()
    NoJob,        \* userProc of a worker that was never given a job
    MaxPoolSize,  \* m_poolMaxSize, 0 for a pool that grows
    MaxThreads,   \* BOUND: how far a pool that grows does grow
    Submitters,   \* the callers that call submitJob()
    IdleWaiters,  \* the callers that call waitForIdle(), each once (BOUND)
    MayDestroy    \* whether the pool is ever destroyed

Workers == 1 .. MaxThreads      \* m_pool[i] is worker i + 1
Callers == Clients \cup Workers \cup {Destroyer}
NoWorker == 0                   \* idleThread == NULL
NoCaller == 0                   \* m_poolOwner is free

ASSUME SizeAssumption ==
    /\ MaxPoolSize \in Nat
    /\ MaxThreads \in Nat
    /\ MaxPoolSize <= MaxThreads
    /\ MaxPoolSize # 0 => MaxThreads = MaxPoolSize

ASSUME CallerAssumption ==
    /\ Destroyer \notin Clients
    /\ (Clients \cup {Destroyer}) \cap Int = {}
    /\ Submitters \subseteq Clients \cup Workers
    /\ IdleWaiters \subseteq Clients \cup Workers
    /\ MayDestroy \in BOOLEAN

ASSUME JobAssumption == NoJob \notin Jobs

VARIABLES
    closing,    \* m_closing
    owner,      \* the caller that holds m_poolOwner
    size,       \* m_pool.size(): the pool is workers 1 .. size
    idleCount,  \* m_idleCountEvent
    idle,       \* idle[w], started[w], job[w]: the idle flag, the startThread
    started,    \*   event and the userProc/userParams of w's THREAD_CONTEXT
    job,
    wpc,        \* where worker w is in threadProc()
    cpc,        \* where caller c is in submitJob(), waitForIdle(), ~NthreadPool()
    at,         \* at[c]: the loop index i of the loop c is in
    got,        \* got[c]: idleThread, what getIdleThread() found for c
    cjob,       \* cjob[c]: the job c is submitting
    call,       \* call[j]: what became of the submitJob() call for job j
    runs,       \* runs[j]: how often userProc was called for job j
    waited,     \* the IdleWaiters that have called waitForIdle()
    poolSize    \* poolSize of ~NthreadPool()

shared   == <<closing, owner, size, idleCount>>
contexts == <<idle, started, job>>
callVars == <<cpc, at, got, cjob, call, waited, poolSize>>
vars == <<closing, owner, size, idleCount, idle, started, job, wpc,
          cpc, at, got, cjob, call, runs, waited, poolSize>>

WorkerStates ==
    {"absent", "loop", "waiting", "woken", "running", "done", "marked",
     "exited", "freed"}

CallerStates ==
    {"out",
     "lock", "probe", "await", "scan", "unlock", "assign", "start",
     "wlock", "wloop", "wawait", "wresignal", "wunlock",
     "dcount", "dsignal", "djoin", "destroyed"}

TypeOK ==
    /\ closing \in BOOLEAN
    /\ owner \in Callers \cup {NoCaller}
    /\ size \in 0 .. MaxThreads
    /\ idleCount \in Nat
    /\ idle \in [Workers -> BOOLEAN]
    /\ started \in [Workers -> BOOLEAN]
    /\ job \in [Workers -> Jobs \cup {NoJob}]
    /\ wpc \in [Workers -> WorkerStates]
    /\ cpc \in [Callers -> CallerStates]
    /\ at \in [Callers -> Nat \ {0}]
    /\ got \in [Callers -> Workers \cup {NoWorker}]
    /\ cjob \in [Callers -> Jobs \cup {NoJob}]
    /\ call \in [Jobs -> {"none", "open", "returned", "refused", "noThread"}]
    /\ runs \in [Jobs -> Nat]
    /\ waited \subseteq IdleWaiters
    /\ poolSize \in 0 .. MaxThreads

\* The constructor: MaxPoolSize workers, each marked idle and counted.
Init ==
    /\ closing = FALSE
    /\ owner = NoCaller
    /\ size = MaxPoolSize
    /\ idleCount = MaxPoolSize
    /\ idle = [w \in Workers |-> w <= MaxPoolSize]
    /\ started = [w \in Workers |-> FALSE]
    /\ job = [w \in Workers |-> NoJob]
    /\ wpc = [w \in Workers |-> IF w <= MaxPoolSize THEN "loop" ELSE "absent"]
    /\ cpc = [c \in Callers |-> "out"]
    /\ at = [c \in Callers |-> 1]
    /\ got = [c \in Callers |-> NoWorker]
    /\ cjob = [c \in Callers |-> NoJob]
    /\ call = [j \in Jobs |-> "none"]
    /\ runs = [j \in Jobs |-> 0]
    /\ waited = {}
    /\ poolSize = 0

-----------------------------------------------------------------------------
(* threadProc() *)

MoveWorker(w, from, to) ==
    /\ wpc[w] = from
    /\ wpc' = [wpc EXCEPT ![w] = to]

\* while( !closing )
LoopTest(w) ==
    /\ MoveWorker(w, "loop", IF closing THEN "exited" ELSE "waiting")
    /\ UNCHANGED <<shared, contexts, callVars, runs>>

\* A startThread that is manually reset, and never reset.
TakeStartManual(w) ==
    /\ MoveWorker(w, "waiting", "woken")
    /\ started[w]
    /\ UNCHANGED <<shared, contexts, callVars, runs>>

\* startThread.wait()
TakeStart(w) ==
    /\ MoveWorker(w, "waiting", "woken")
    /\ started[w]
    /\ started' = [started EXCEPT ![w] = FALSE]
    /\ UNCHANGED <<shared, idle, job, callVars, runs>>

\* Call userProc, unless the pool is closing by now.
BeginJob(w) ==
    /\ MoveWorker(w, "woken", IF closing THEN "done" ELSE "running")
    /\ runs' = IF closing THEN runs ELSE [runs EXCEPT ![job[w]] = @ + 1]
    /\ UNCHANGED <<shared, contexts, callVars>>

\* userProc returns; whatever it called has returned before.
EndJob(w) ==
    /\ MoveWorker(w, "running", "done")
    /\ cpc[w] = "out"
    /\ UNCHANGED <<shared, contexts, callVars, runs>>

\* A worker that counts itself idle and leaves its flag alone.
MarkNothing(w) ==
    /\ MoveWorker(w, "done", "marked")
    /\ UNCHANGED <<shared, contexts, callVars, runs>>

\* idle = true
MarkIdle(w) ==
    /\ MoveWorker(w, "done", "marked")
    /\ idle' = [idle EXCEPT ![w] = TRUE]
    /\ UNCHANGED <<shared, started, job, callVars, runs>>

\* idleCountEvent->signal()
CountIdle(w) ==
    /\ MoveWorker(w, "marked", "loop")
    /\ idleCount' = idleCount + 1
    /\ UNCHANGED <<closing, owner, size, contexts, callVars, runs>>

-----------------------------------------------------------------------------
(* submitJob() and getIdleThread() *)

MoveCaller(c, from, to) ==
    /\ cpc[c] = from
    /\ cpc' = [cpc EXCEPT ![c] = to]

\* A job on worker c can make calls while it runs; a client until the pool's
\* owner destroys it.
CanCall(c) == IF c \in Workers THEN wpc[c] = "running" ELSE ~closing

\* submitJob() refuses the job if the destructor has begun.
SubmitJob(c, j) ==
    /\ c \in Submitters
    /\ CanCall(c)
    /\ call[j] = "none"
    /\ IF closing
       THEN /\ MoveCaller(c, "out", "out")
            /\ call' = [call EXCEPT ![j] = "refused"]
            /\ UNCHANGED cjob
       ELSE /\ MoveCaller(c, "out", "lock")
            /\ call' = [call EXCEPT ![j] = "open"]
            /\ cjob' = [cjob EXCEPT ![c] = j]
    /\ UNCHANGED <<shared, contexts, wpc, at, got, runs, waited, poolSize>>

\* A getIdleThread() that runs without m_poolOwner.
LockNothing(c) ==
    /\ MoveCaller(c, "lock", "probe")
    /\ UNCHANGED <<shared, contexts, wpc, at, got, cjob, call, runs, waited, poolSize>>

\* m_poolOwner.lock()
Lock(c) ==
    /\ MoveCaller(c, "lock", "probe")
    /\ owner = NoCaller
    /\ owner' = c
    /\ UNCHANGED <<closing, size, idleCount, contexts, wpc,
                   at, got, cjob, call, runs, waited, poolSize>>

\* m_poolMaxSize allows another thread; a pool that grows does so up to MaxThreads.
CanGrow ==
    IF MaxPoolSize = 0 THEN size < MaxThreads ELSE size < MaxPoolSize

\* extendPool(): a new worker that only c knows of.
ExtendPool(c, w) ==
    /\ w = size + 1
    /\ size' = w
    /\ idle' = [idle EXCEPT ![w] = FALSE]
    /\ wpc' = [wpc EXCEPT ![w] = "loop"]
    /\ got' = [got EXCEPT ![c] = w]

\* Nothing idle and room to grow: extend the pool.  Otherwise wait.
Probe(c) ==
    /\ IF idleCount = 0 /\ CanGrow
       THEN /\ MoveCaller(c, "probe", "unlock")
            /\ \E w \in Workers : ExtendPool(c, w)
       ELSE /\ MoveCaller(c, "probe", "await")
            /\ UNCHANGED <<size, idle, wpc, got>>
    /\ UNCHANGED <<closing, owner, idleCount, started, job,
                   at, cjob, call, runs, waited, poolSize>>

\* A wait() with a timeout whose result is not looked at.
AwaitIdleUnchecked(c) ==
    /\ MoveCaller(c, "await", "scan")
    /\ idleCount' = idleCount - 1
    /\ at' = [at EXCEPT ![c] = 1]
    /\ got' = [got EXCEPT ![c] = NoWorker]
    /\ UNCHANGED <<closing, owner, size, contexts, wpc,
                   cjob, call, runs, waited, poolSize>>

\* m_idleCountEvent.wait(), with m_poolOwner held
AwaitIdle(c) ==
    /\ MoveCaller(c, "await", "scan")
    /\ idleCount > 0
    /\ idleCount' = idleCount - 1
    /\ at' = [at EXCEPT ![c] = 1]
    /\ got' = [got EXCEPT ![c] = NoWorker]
    /\ UNCHANGED <<closing, owner, size, contexts, wpc, cjob, call, runs, waited, poolSize>>

\* A scan that finds an idle thread and forgets to mark it as taken.
ScanWithoutTaking(c) ==
    /\ cpc[c] = "scan"
    /\ IF at[c] > size \/ idle[at[c]]
       THEN /\ cpc' = [cpc EXCEPT ![c] = "unlock"]
            /\ got' = [got EXCEPT ![c] = IF at[c] > size THEN NoWorker ELSE at[c]]
            /\ UNCHANGED at
       ELSE /\ at' = [at EXCEPT ![c] = @ + 1]
            /\ UNCHANGED <<cpc, got>>
    /\ UNCHANGED <<shared, contexts, wpc, cjob, call, runs, waited, poolSize>>

\* A loop that stays at one thread until that one is idle.
ScanInPlace(c) ==
    /\ MoveCaller(c, "scan", IF idle[at[c]] THEN "unlock" ELSE "scan")
    /\ got' = IF idle[at[c]] THEN [got EXCEPT ![c] = at[c]] ELSE got
    /\ idle' = [idle EXCEPT ![at[c]] = FALSE]
    /\ UNCHANGED <<shared, started, job, wpc, at, cjob, call, runs, waited, poolSize>>

\* One turn of the loop that looks for a thread marked idle and takes it.
Scan(c) ==
    /\ cpc[c] = "scan"
    /\ IF at[c] > size
       THEN /\ cpc' = [cpc EXCEPT ![c] = "unlock"]
            /\ UNCHANGED <<idle, at, got>>
       ELSE IF idle[at[c]]
       THEN /\ cpc' = [cpc EXCEPT ![c] = "unlock"]
            /\ got' = [got EXCEPT ![c] = at[c]]
            /\ idle' = [idle EXCEPT ![at[c]] = FALSE]
            /\ UNCHANGED at
       ELSE /\ at' = [at EXCEPT ![c] = @ + 1]
            /\ UNCHANGED <<cpc, idle, got>>
    /\ UNCHANGED <<shared, started, job, wpc, cjob, call, runs, waited, poolSize>>

\* m_poolOwner.unlock() and the return of getIdleThread(): NULL is an error.
Unlock(c) ==
    /\ IF got[c] = NoWorker
       THEN /\ MoveCaller(c, "unlock", "out")
            /\ call' = [call EXCEPT ![cjob[c]] = "noThread"]
       ELSE /\ MoveCaller(c, "unlock", "assign")
            /\ UNCHANGED call
    /\ owner' = NoCaller
    /\ UNCHANGED <<closing, size, idleCount, contexts, wpc,
                   at, got, cjob, runs, waited, poolSize>>

\* userProc = theThreadProc, userParams = theThreadParam
Assign(c) ==
    /\ MoveCaller(c, "assign", "start")
    /\ job' = [job EXCEPT ![got[c]] = cjob[c]]
    /\ UNCHANGED <<shared, idle, started, wpc, at, got, cjob, call, runs, waited, poolSize>>

\* startThread.signal(), and submitJob() returns
StartJob(c) ==
    /\ MoveCaller(c, "start", "out")
    /\ started' = [started EXCEPT ![got[c]] = TRUE]
    /\ call' = [call EXCEPT ![cjob[c]] = "returned"]
    /\ UNCHANGED <<shared, idle, job, wpc, at, got, cjob, runs, waited, poolSize>>

-----------------------------------------------------------------------------
(* waitForIdle() *)

WaitForIdle(c) ==
    /\ c \in IdleWaiters \ waited
    /\ CanCall(c)
    /\ MoveCaller(c, "out", "wlock")
    /\ waited' = waited \cup {c}
    /\ UNCHANGED <<shared, contexts, wpc, at, got, cjob, call, runs, poolSize>>

LockToWait(c) ==
    /\ MoveCaller(c, "wlock", "wloop")
    /\ owner = NoCaller
    /\ owner' = c
    /\ at' = [at EXCEPT ![c] = 1]
    /\ UNCHANGED <<closing, size, idleCount, contexts, wpc,
                   got, cjob, call, runs, waited, poolSize>>

\* for ( i = 0; i < m_pool.size(); i++ )
WaitLoop(c) ==
    /\ MoveCaller(c, "wloop", IF at[c] > size THEN "wunlock" ELSE "wawait")
    /\ UNCHANGED <<shared, contexts, wpc, at, got, cjob, call, runs, waited, poolSize>>

\* m_idleCountEvent.wait()
WaitIdle(c) ==
    /\ MoveCaller(c, "wawait", "wresignal")
    /\ idleCount > 0
    /\ idleCount' = idleCount - 1
    /\ UNCHANGED <<closing, owner, size, contexts, wpc,
                   at, got, cjob, call, runs, waited, poolSize>>

\* A waitForIdle() that consumes the event.
KeepIdle(c) ==
    /\ MoveCaller(c, "wresignal", "wloop")
    /\ at' = [at EXCEPT ![c] = @ + 1]
    /\ UNCHANGED <<shared, contexts, wpc, got, cjob, call, runs, waited, poolSize>>

\* A waitForIdle() that loops until it finds no event to wait for.
ResignalAgain(c) ==
    /\ MoveCaller(c, "wresignal", "wloop")
    /\ idleCount' = idleCount + 1
    /\ UNCHANGED <<closing, owner, size, contexts, wpc,
                   at, got, cjob, call, runs, waited, poolSize>>

\* m_idleCountEvent.signal(), the end of the loop's body
ResignalIdle(c) ==
    /\ MoveCaller(c, "wresignal", "wloop")
    /\ idleCount' = idleCount + 1
    /\ at' = [at EXCEPT ![c] = @ + 1]
    /\ UNCHANGED <<closing, owner, size, contexts, wpc,
                   got, cjob, call, runs, waited, poolSize>>

\* The return of waitForIdle(), to the destructor if that called it.
UnlockToReturn(c) ==
    /\ MoveCaller(c, "wunlock", IF c = Destroyer THEN "dcount" ELSE "out")
    /\ owner' = NoCaller
    /\ at' = [at EXCEPT ![c] = 1]
    /\ UNCHANGED <<closing, size, idleCount, contexts, wpc,
                   got, cjob, call, runs, waited, poolSize>>

-----------------------------------------------------------------------------
(* ~NthreadPool() *)

\* m_closing = true, then waitForIdle().  No client is in a call: destroying
\* an object others use is theirs to prevent.  Jobs may be in one.
BeginDestroy ==
    /\ MayDestroy
    /\ \A c \in Clients : cpc[c] = "out"
    /\ MoveCaller(Destroyer, "out", "wlock")
    /\ closing' = TRUE
    /\ UNCHANGED <<owner, size, idleCount, contexts, wpc,
                   at, got, cjob, call, runs, waited, poolSize>>

\* poolSize = m_pool.size()
CountThreads ==
    /\ MoveCaller(Destroyer, "dcount", "dsignal")
    /\ poolSize' = size
    /\ UNCHANGED <<shared, contexts, wpc, at, got, cjob, call, runs, waited>>

\* A destructor that joins the threads without waking them first.
SkipSignals ==
    /\ MoveCaller(Destroyer, "dsignal", "djoin")
    /\ UNCHANGED <<shared, contexts, wpc, at, got, cjob, call, runs, waited, poolSize>>

\* m_pool[i]->startThread.signal(), for each thread
SignalAll ==
    /\ IF at[Destroyer] > poolSize
       THEN /\ MoveCaller(Destroyer, "dsignal", "djoin")
            /\ at' = [at EXCEPT ![Destroyer] = 1]
            /\ UNCHANGED started
       ELSE /\ cpc[Destroyer] = "dsignal"
            /\ started' = [started EXCEPT ![at[Destroyer]] = TRUE]
            /\ at' = [at EXCEPT ![Destroyer] = @ + 1]
            /\ UNCHANGED cpc
    /\ UNCHANGED <<shared, idle, job, wpc, got, cjob, call, runs, waited, poolSize>>

\* getReturnValue() joins the thread; then it and its context are deleted.
JoinAndFree ==
    /\ IF at[Destroyer] > poolSize
       THEN /\ MoveCaller(Destroyer, "djoin", "destroyed")
            /\ UNCHANGED <<wpc, at>>
       ELSE /\ cpc[Destroyer] = "djoin"
            /\ MoveWorker(at[Destroyer], "exited", "freed")
            /\ at' = [at EXCEPT ![Destroyer] = @ + 1]
            /\ UNCHANGED cpc
    /\ UNCHANGED <<shared, contexts, got, cjob, call, runs, waited, poolSize>>

-----------------------------------------------------------------------------
WorkerStep(w) ==
    \/ LoopTest(w)
    \/ TakeStart(w)
    \/ BeginJob(w)
    \/ EndJob(w)
    \/ MarkIdle(w)
    \/ CountIdle(w)

\* A step of a call that has begun.
CallStep(c) ==
    \/ Lock(c)
    \/ Probe(c)
    \/ AwaitIdle(c)
    \/ Scan(c)
    \/ Unlock(c)
    \/ Assign(c)
    \/ StartJob(c)
    \/ LockToWait(c)
    \/ WaitLoop(c)
    \/ WaitIdle(c)
    \/ ResignalIdle(c)
    \/ UnlockToReturn(c)

DestroyStep == CountThreads \/ SignalAll \/ JoinAndFree

\* Nothing is left to do: every call has been made and has returned, and the
\* workers have run what they were given, or the pool is gone.
Finished ==
    /\ \A c \in Callers \ {Destroyer} : cpc[c] = "out"
    /\ \/ cpc[Destroyer] = "destroyed"
       \/ /\ cpc[Destroyer] = "out"
          /\ ~MayDestroy
          /\ \A w \in Workers : wpc[w] \in {"absent", "waiting"} /\ ~started[w]
    /\ UNCHANGED vars

Next ==
    \/ \E w \in Workers : WorkerStep(w)
    \/ \E c \in Callers :
          \/ CallStep(c)
          \/ WaitForIdle(c)
          \/ \E j \in Jobs : SubmitJob(c, j)
    \/ BeginDestroy
    \/ DestroyStep
    \/ Finished

(***************************************************************************)
(* Threads are scheduled, user jobs come to an end, and events keep the    *)
(* liveness of EventContract.  Weak fairness is enough for m_poolOwner:    *)
(* there are only finitely many calls to compete with.  Nobody has to call *)
(* submitJob(), waitForIdle() or the destructor.                           *)
(***************************************************************************)
Fairness ==
    /\ \A w \in Workers : WF_vars(WorkerStep(w))
    /\ \A c \in Callers : WF_vars(CallStep(c))
    /\ WF_vars(DestroyStep)

SafeSpec == Init /\ [][Next]_vars

Spec == SafeSpec /\ Fairness

-----------------------------------------------------------------------------
(* Properties *)

IdleWorkers   == {w \in Workers : idle[w]}
MarkedWorkers == {w \in Workers : wpc[w] = "marked"}

\* 1 while the caller that holds m_poolOwner has taken a count from
\* m_idleCountEvent and not yet taken an idle thread for it or given it back.
Debt ==
    IF owner # NoCaller /\ cpc[owner] \in {"scan", "wresignal"} THEN 1 ELSE 0

\* The destructor has not started to wake the threads (line 63) yet.  After
\* that a thread that is idle marks itself idle, and counts itself, again.
Intact == cpc[Destroyer] \notin {"dsignal", "djoin", "destroyed"}

(***************************************************************************)
(* The idle flags and m_idleCountEvent agree: each thread marked idle is   *)
(* counted, about to be counted (nthreadPool.cxx:87-88), or paid for by    *)
(* the caller that holds m_poolOwner (149-155, 231-232).                   *)
(***************************************************************************)
IdleAccounting ==
    Intact =>
        Cardinality(IdleWorkers)
            = idleCount + Cardinality(MarkedWorkers) + Debt

(***************************************************************************)
(* submitJob() does not fail with "No idle thread to submit job to."       *)
(* (nthreadPool.cxx:194-195): whoever got a count finds a thread marked    *)
(* idle, although flags change while the loop of lines 151-163 runs.       *)
(***************************************************************************)
IdleThreadFound == Intact => \A j \in Jobs : call[j] # "noThread"

\* Callers that have been given a thread and have not yet started it.
Holders ==
    {c \in Callers : /\ cpc[c] \in {"unlock", "assign", "start"}
                     /\ got[c] # NoWorker}

(***************************************************************************)
(* A thread is handed to one caller at a time and has no job then, so      *)
(* lines 197-199, which run without m_poolOwner, overwrite nobody's        *)
(* userProc and set no startThread that is set already.                    *)
(***************************************************************************)
ExclusiveHandout ==
    ~closing =>
        \A c \in Holders :
            /\ ~started[got[c]]
            /\ wpc[got[c]] \in {"marked", "loop", "waiting"}
            /\ \A d \in Holders : got[d] = got[c] => d = c

(***************************************************************************)
(* A job whose submitJob() has returned and that has not been called yet   *)
(* is in the context of a worker that has been told to start: until the    *)
(* pool is destroyed no job is lost, and no job is called twice.           *)
(***************************************************************************)
AcceptedJobKept ==
    \A j \in Jobs :
        /\ runs[j] \in {0, 1}
        /\ ~closing /\ call[j] = "returned" /\ runs[j] = 0 =>
               \E w \in Workers : job[w] = j /\ (started[w] \/ wpc[w] = "woken")

(***************************************************************************)
(* nthreadPool.h:37 and 55 as far as the event goes: in a pool that grows, *)
(* submitJob() never finds m_idleCountEvent unsignalled at line 149,       *)
(* because nobody can take the count it saw at line 136.                   *)
(***************************************************************************)
GrowingPoolNeverWaits ==
    MaxPoolSize = 0 => \A c \in Callers : cpc[c] = "await" => idleCount > 0

\* How far the pool is with job j, in the terms of JobExecutor.
Status(j) ==
    IF call[j] = "refused" THEN "refused"
    ELSE IF \E w \in Workers : wpc[w] = "running" /\ job[w] = j THEN "running"
    ELSE IF runs[j] > 0 THEN "done"
    ELSE IF call[j] = "returned" THEN "accepted"
    ELSE "new"

Executor == INSTANCE JobExecutor
                WITH Limit <- MaxPoolSize, status <- [j \in Jobs |-> Status(j)]

(***************************************************************************)
(* Until it is destroyed the pool is a JobExecutor: each accepted job is   *)
(* run once, to its end, on at most MaxPoolSize threads at a time.         *)
(***************************************************************************)
ImplementsExecutor == Executor!Spec

(***************************************************************************)
(* A pool that may be destroyed at any time still runs jobs at most once,  *)
(* none that it refused, and never too many at a time.                     *)
(***************************************************************************)
ImplementsExecutorSafely == Executor!SafeSpec

(***************************************************************************)
(* submitJob() and waitForIdle() return: nobody waits for ever for         *)
(* m_poolOwner or for a count of m_idleCountEvent.                         *)
(***************************************************************************)
CallsReturn ==
    \A c \in Callers \ {Destroyer} : (cpc[c] # "out") ~> (cpc[c] = "out")

(***************************************************************************)
(* ~NthreadPool() ends, every thread has left threadProc() and is joined   *)
(* (nthreadPool.cxx:54-73), if it begins when each thread that has been    *)
(* told to start waits for it at line 82 and no job is in submitJob().     *)
(***************************************************************************)
SettledDestructorCompletes ==
    (/\ cpc[Destroyer] = "wlock"
     /\ \A w \in Workers : started[w] => wpc[w] = "waiting"
     /\ \A c \in Callers \ {Destroyer} : cpc[c] = "out")
    ~> (cpc[Destroyer] = "destroyed")

-----------------------------------------------------------------------------
(* What the documentation says and the code does not do *)

(***************************************************************************)
(* nthreadPool.h:68: waitForIdle() returns only when all threads are idle, *)
(* with no job that had been submitted before still active.                *)
(***************************************************************************)
WaitForIdleWaitsForAll ==
    \A c \in Callers : cpc[c] = "wunlock" =>
        \A w \in 1 .. size : wpc[w] # "running" /\ ~started[w]

(***************************************************************************)
(* nthreadPool.h:42: the destructor waits for the user's jobs to complete, *)
(* so a job whose submitJob() returned before it began has been run when   *)
(* it ends.                                                                *)
(***************************************************************************)
DestructorRunsJobs ==
    cpc[Destroyer] = "destroyed" =>
        \A j \in Jobs : call[j] = "returned" => runs[j] = 1

(***************************************************************************)
(* nthreadPool.h:42: the destructor waits for the pool to be idle before   *)
(* it completes, so it does complete.                                      *)
(***************************************************************************)
DestructorCompletes == closing ~> (cpc[Destroyer] = "destroyed")

(***************************************************************************)
(* nthreadPool.h:42: the destructor waits for the user's jobs to complete, *)
(* so it deletes no context that a job, inside submitJob(), still writes   *)
(* its own job to (nthreadPool.cxx:71 and 197-199).                        *)
(***************************************************************************)
NoContextFreedInUse ==
    \A c \in Callers : cpc[c] \in {"assign", "start"} => wpc[got[c]] # "freed"

(***************************************************************************)
(* nthreadPool.h:37: submitJob() of a pool of size 0 never blocks, so it   *)
(* returns, whoever else is calling the pool.                              *)
(***************************************************************************)
SubmitReturns == \A j \in Jobs : (call[j] = "open") ~> (call[j] # "open")
=============================================================================
