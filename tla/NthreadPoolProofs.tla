------------------------- MODULE NthreadPoolProofs -------------------------
(***************************************************************************)
(* Proofs about NthreadPool for every set of clients and jobs, every pool  *)
(* size, and every choice of who submits, waits and destroys: who holds    *)
(* the lock and the threads; that no accepted job is lost or called twice; *)
(* that the pool implements the safe part of JobExecutor; and that a pool  *)
(* that can still grow makes nobody wait.                                  *)
(***************************************************************************)
EXTENDS NthreadPoolInv, FiniteSetTheorems, TLAPS

\* Workers are numbers and the other callers are not, so the names of callers
\* are told apart and none is NoCaller.
LEMMA CallerNames ==
    /\ Destroyer \in Callers
    /\ Destroyer \notin Workers
    /\ Destroyer \notin Submitters
    /\ Destroyer \notin IdleWaiters
    /\ NoCaller \notin Callers
    /\ NoWorker \notin Workers
    /\ Workers \subseteq Callers
BY SizeAssumption, CallerAssumption DEF Callers, Workers, NoCaller, NoWorker

LEMMA StructureInit == Init => Structure
<1> SUFFICES ASSUME Init PROVE Structure
  OBVIOUS
<1> USE CallerNames, SizeAssumption DEF Init
<1>1. TypeOK
  <2>1. idle \in [Workers -> BOOLEAN]
    OBVIOUS
  <2>2. wpc \in [Workers -> WorkerStates]
    BY DEF WorkerStates
  <2>3. size \in 0 .. MaxThreads /\ idleCount \in Nat
    OBVIOUS
  <2>4. closing \in BOOLEAN /\ started \in [Workers -> BOOLEAN]
    OBVIOUS
  <2>5. owner \in Callers \cup {NoCaller} /\ poolSize \in 0 .. MaxThreads
    OBVIOUS
  <2>6. /\ cpc \in [Callers -> CallerStates]
        /\ at \in [Callers -> Nat \ {0}]
        /\ got \in [Callers -> Workers \cup {NoWorker}]
        /\ cjob \in [Callers -> Jobs \cup {NoJob}]
    BY DEF CallerStates
  <2>7. /\ job \in [Workers -> Jobs \cup {NoJob}]
        /\ call \in [Jobs -> {"none", "open", "returned", "refused", "noThread"}]
        /\ runs \in [Jobs -> Nat]
        /\ waited \subseteq IdleWaiters
    OBVIOUS
  <2>8. QED
    BY <2>1, <2>2, <2>3, <2>4, <2>5, <2>6, <2>7 DEF TypeOK
<1>2. LockHeld
  BY DEF LockHeld, LockStates
<1>3. Roles
  <2>1. ~closing /\ \A c \in Callers : cpc[c] = "out"
    OBVIOUS
  <2>2. QED
    BY <2>1 DEF Roles, SubmitStates, DestroyStates
<1>4. PoolShape
  <2>1. \A w \in Workers : ~started[w] /\ (idle[w] <=> w <= size)
    OBVIOUS
  <2>2. \A w \in Workers : wpc[w] = IF w <= size THEN "loop" ELSE "absent"
    OBVIOUS
  <2>3. size \in Nat /\ poolSize = 0
    OBVIOUS
  <2>4. QED
    BY <2>1, <2>2, <2>3 DEF PoolShape, Workers, NoWorker
<1>5. QED
  BY <1>1, <1>2, <1>3, <1>4 DEF Structure

LEMMA StructureWorker ==
    ASSUME Structure, NEW w \in Workers, WorkerStep(w)
    PROVE  Structure'
<1> USE CallerNames, SizeAssumption
    DEF Structure, TypeOK, LockHeld, Roles, PoolShape, WorkerStates, CallerStates,
        Intact, MoveWorker, shared, contexts, callVars
<1>1. CASE LoopTest(w)
  BY <1>1 DEF LoopTest
<1>2. CASE TakeStart(w)
  BY <1>2 DEF TakeStart
<1>3. CASE BeginJob(w)
  <2>1. TypeOK'
    <3>1. CASE closing
      BY <1>3, <3>1 DEF BeginJob
    <3>2. CASE ~closing
      <4>1. runs' \in [Jobs -> Nat]
        <5>1. runs' = [runs EXCEPT ![job[w]] = runs[job[w]] + 1]
          BY <1>3, <3>2 DEF BeginJob
        <5>2. runs \in [Jobs -> Nat]
          OBVIOUS
        <5>3. CASE job[w] \in Jobs
          BY <5>1, <5>2, <5>3
        <5>4. CASE job[w] \notin Jobs
          <6>1. runs' = [j \in Jobs |-> runs[j]]
            BY ONLY <5>1, <5>2, <5>4
          <6>2. QED
            BY <5>2, <6>1
        <5>5. QED
          BY <5>3, <5>4
      <4>2. wpc' \in [Workers -> WorkerStates]
        BY <1>3, <3>2 DEF BeginJob
      <4>3. UNCHANGED <<closing, owner, size, idleCount, idle, started, job,
                        cpc, at, got, cjob, call, waited, poolSize>>
        BY <1>3 DEF BeginJob
      <4>4. QED
        BY <4>1, <4>2, <4>3
    <3>3. QED
      BY <3>1, <3>2
  <2>2. LockHeld'
    BY <1>3 DEF BeginJob
  <2>3. Roles'
    BY <1>3 DEF BeginJob
  <2>4. PoolShape'
    BY <1>3 DEF BeginJob
  <2>5. QED
    BY <2>1, <2>2, <2>3, <2>4
<1>4. CASE EndJob(w)
  BY <1>4 DEF EndJob
<1>5. CASE MarkIdle(w)
  BY <1>5 DEF MarkIdle
<1>6. CASE CountIdle(w)
  BY <1>6 DEF CountIdle
<1>7. QED
  BY <1>1, <1>2, <1>3, <1>4, <1>5, <1>6 DEF WorkerStep

LEMMA StructureCall ==
    ASSUME Structure, NEW c \in Callers,
           \/ CallStep(c)
           \/ WaitForIdle(c)
           \/ \E j \in Jobs : SubmitJob(c, j)
    PROVE  Structure'
<1> USE CallerNames, SizeAssumption
    DEF Structure, TypeOK, LockHeld, Roles, PoolShape, LockStates, SubmitStates,
        DestroyStates, WorkerStates, CallerStates, Intact, MoveCaller,
        shared, contexts, callVars
<1>1. CASE \E j \in Jobs : SubmitJob(c, j)
  BY <1>1 DEF SubmitJob
<1>2. CASE Lock(c)
  BY <1>2 DEF Lock
<1>3. CASE Probe(c)
  <2>1. TypeOK'
    <3>1. CASE idleCount = 0 /\ CanGrow
      <4>1. PICK w \in Workers : ExtendPool(c, w)
        BY <1>3, <3>1 DEF Probe
      <4>2. size' \in 0 .. MaxThreads
        BY <4>1 DEF ExtendPool, Workers
      <4>3. idle' \in [Workers -> BOOLEAN]
        BY <4>1 DEF ExtendPool
      <4>4. wpc' \in [Workers -> WorkerStates] /\ got' \in [Callers -> Workers \cup {NoWorker}]
        BY <4>1 DEF ExtendPool
      <4>5. cpc' \in [Callers -> CallerStates]
        BY <1>3, <3>1 DEF Probe
      <4>6. QED
        BY <1>3, <4>2, <4>3, <4>4, <4>5 DEF Probe
    <3>2. CASE ~(idleCount = 0 /\ CanGrow)
      BY <1>3, <3>2 DEF Probe
    <3>3. QED
      BY <3>1, <3>2
  <2>2. LockHeld'
    BY <1>3 DEF Probe, ExtendPool, CanGrow, Workers
  <2>3. Roles'
    BY <1>3 DEF Probe, ExtendPool, CanGrow, Workers
  <2>4. PoolShape'
    <3>1. CASE idleCount = 0 /\ CanGrow
      <4>1. PICK w \in Workers : ExtendPool(c, w)
        BY <1>3, <3>1 DEF Probe
      <4>2. \A v \in Workers : wpc'[v] = IF v = w THEN "loop" ELSE wpc[v]
        BY <4>1 DEF ExtendPool
      <4>3. \A v \in Workers : v > size' => ~idle'[v] /\ ~started'[v]
        <5>1. /\ idle' = [idle EXCEPT ![w] = FALSE] /\ started' = started
              /\ size' = size + 1
          BY <1>3, <3>1, <4>1 DEF Probe, ExtendPool
        <5>2. \A v \in Workers : v > size => ~idle[v] /\ ~started[v]
          OBVIOUS
        <5>3. /\ idle \in [Workers -> BOOLEAN] /\ size \in Int
              /\ \A v \in Workers : v \in Int
          BY DEF Workers
        <5>4. QED
          BY ONLY <5>1, <5>2, <5>3
      <4>4. Intact' <=> Intact
        BY <1>3, <3>1 DEF Probe
      <4>5. QED
        <5>1. size' = w /\ w = size + 1 /\ size \in Nat /\ w \in Nat
          BY <4>1 DEF ExtendPool, Workers
        <5>2. poolSize' <= size'
          BY <1>3, <5>1 DEF Probe
        <5>3. \A v \in Workers : v > size' => wpc'[v] = "absent"
          BY <4>2, <5>1 DEF Workers
        <5>4. \A v \in Workers : v <= size' => wpc'[v] # "absent"
          <6>1. \A v \in Workers : v <= size' => v = w \/ v <= size
            BY <5>1 DEF Workers
          <6>2. QED
            BY <4>2, <6>1
        <5>5. closing' = closing
          BY <1>3 DEF Probe
        <5>6. \A d \in Callers : got'[d] <= size'
          <6>1. \A d \in Callers : got'[d] = IF d = c THEN w ELSE got[d]
            BY <4>1 DEF ExtendPool
          <6>2. \A d \in Callers : got[d] \in Int /\ got[d] <= size
            BY DEF Workers, NoWorker
          <6>3. QED
            BY <5>1, <6>1, <6>2
        <5>7. QED
          BY <4>2, <4>3, <4>4, <5>2, <5>3, <5>4, <5>5, <5>6
    <3>2. CASE ~(idleCount = 0 /\ CanGrow)
      BY <1>3, <3>2 DEF Probe
    <3>3. QED
      BY <3>1, <3>2
  <2>5. QED
    BY <2>1, <2>2, <2>3, <2>4
<1>4. CASE AwaitIdle(c)
  BY <1>4 DEF AwaitIdle, NoWorker
<1>5. CASE Scan(c)
  <2>1. TypeOK'
    <3>1. CASE at[c] > size
      BY <1>5, <3>1 DEF Scan
    <3>2. CASE ~(at[c] > size) /\ idle[at[c]]
      <4>1. at[c] \in Workers
        BY <3>2 DEF Workers
      <4>2. /\ cpc' = [cpc EXCEPT ![c] = "unlock"]
            /\ got' = [got EXCEPT ![c] = at[c]]
            /\ idle' = [idle EXCEPT ![at[c]] = FALSE]
            /\ UNCHANGED at
        BY <1>5, <3>2 DEF Scan
      <4>3. /\ UNCHANGED <<closing, owner, size, idleCount, started, job, wpc>>
            /\ UNCHANGED <<cjob, call, runs, waited, poolSize>>
        BY <1>5 DEF Scan
      <4>4. QED
        BY <4>1, <4>2, <4>3
    <3>3. CASE ~(at[c] > size) /\ ~idle[at[c]]
      BY <1>5, <3>3 DEF Scan
    <3>4. QED
      BY <3>1, <3>2, <3>3
  <2>2. LockHeld'
    BY <1>5 DEF Scan, Workers
  <2>3. Roles'
    BY <1>5 DEF Scan, Workers
  <2>4. PoolShape'
    <3>1. \A w \in Workers : w > size => ~idle'[w]
      <4>1. idle' = idle \/ idle' = [idle EXCEPT ![at[c]] = FALSE]
        BY <1>5 DEF Scan
      <4>2. /\ idle \in [Workers -> BOOLEAN]
            /\ \A w \in Workers : w > size => ~idle[w]
        OBVIOUS
      <4>3. QED
        BY ONLY <4>1, <4>2
    <3>2. \A d \in Callers : got'[d] <= size
      <4>1. \A d \in Callers : got'[d] = got[d] \/ (got'[d] = at[c] /\ ~(at[c] > size))
        BY <1>5 DEF Scan
      <4>2. at[c] \in Int /\ size \in Int
        OBVIOUS
      <4>3. QED
        BY <4>1, <4>2
    <3>3. UNCHANGED <<size, wpc, started, closing, poolSize>> /\ (Intact' <=> Intact)
      BY <1>5 DEF Scan
    <3>4. QED
      BY <3>1, <3>2, <3>3
  <2>5. QED
    BY <2>1, <2>2, <2>3, <2>4
<1>6. CASE Unlock(c)
  BY <1>6 DEF Unlock
<1>7. CASE Assign(c)
  <2>1. TypeOK'
    BY <1>7 DEF Assign
  <2>2. LockHeld'
    BY <1>7 DEF Assign
  <2>3. Roles'
    BY <1>7 DEF Assign
  <2>4. PoolShape'
    <3>1. UNCHANGED <<size, wpc, idle, started, closing, poolSize, got>>
      BY <1>7 DEF Assign
    <3>2. Intact' <=> Intact
      BY <1>7 DEF Assign
    <3>3. QED
      BY <3>1, <3>2
  <2>5. QED
    BY <2>1, <2>2, <2>3, <2>4
<1>8. CASE StartJob(c)
  <2>1. TypeOK'
    BY <1>8 DEF StartJob
  <2>2. LockHeld'
    BY <1>8 DEF StartJob
  <2>3. Roles'
    BY <1>8 DEF StartJob
  <2>4. PoolShape'
    <3>1. \A w \in Workers : w > size => started'[w] = started[w]
      BY <1>8 DEF StartJob, Workers
    <3>2. Intact' <=> Intact
      BY <1>8 DEF StartJob
    <3>3. QED
      BY <1>8, <3>1, <3>2 DEF StartJob
  <2>5. QED
    BY <2>1, <2>2, <2>3, <2>4
<1>9. CASE WaitForIdle(c)
  BY <1>9 DEF WaitForIdle
<1>10. CASE LockToWait(c)
  BY <1>10 DEF LockToWait
<1>11. CASE WaitLoop(c)
  BY <1>11 DEF WaitLoop
<1>12. CASE WaitIdle(c)
  BY <1>12 DEF WaitIdle
<1>13. CASE ResignalIdle(c)
  BY <1>13 DEF ResignalIdle
<1>14. CASE UnlockToReturn(c)
  BY <1>14 DEF UnlockToReturn
<1>15. QED
  BY <1>1, <1>2, <1>3, <1>4, <1>5, <1>6, <1>7, <1>8, <1>9, <1>10, <1>11, <1>12,
     <1>13, <1>14 DEF CallStep

LEMMA StructureDestroy ==
    ASSUME Structure, BeginDestroy \/ DestroyStep
    PROVE  Structure'
<1> USE CallerNames, SizeAssumption
    DEF Structure, TypeOK, LockHeld, Roles, PoolShape, LockStates, SubmitStates,
        DestroyStates, WorkerStates, CallerStates, Intact, MoveCaller, MoveWorker,
        shared, contexts, callVars
<1>1. CASE BeginDestroy
  BY <1>1 DEF BeginDestroy
<1>2. CASE CountThreads
  BY <1>2 DEF CountThreads
<1>3. CASE SignalAll
  <2>1. TypeOK'
    <3>1. started' \in [Workers -> BOOLEAN]
      BY <1>3 DEF SignalAll
    <3>2. at' \in [Callers -> Nat \ {0}] /\ cpc' \in [Callers -> CallerStates]
      BY <1>3 DEF SignalAll
    <3>3. QED
      BY <1>3, <3>1, <3>2 DEF SignalAll
  <2>2. LockHeld'
    BY <1>3 DEF SignalAll, Workers
  <2>3. Roles'
    BY <1>3 DEF SignalAll, Workers
  <2>4. PoolShape'
    <3>1. \A w \in Workers : w > size => started'[w] = started[w]
      BY <1>3 DEF SignalAll, Workers
    <3>2. ~Intact'
      BY <1>3 DEF SignalAll
    <3>3. QED
      BY <1>3, <3>1, <3>2 DEF SignalAll
  <2>5. QED
    BY <2>1, <2>2, <2>3, <2>4
<1>4. CASE JoinAndFree
  <2>1. TypeOK'
    <3>1. at' \in [Callers -> Nat \ {0}] /\ cpc' \in [Callers -> CallerStates]
      BY <1>4 DEF JoinAndFree
    <3>2. wpc' \in [Workers -> WorkerStates]
      BY <1>4 DEF JoinAndFree
    <3>3. QED
      BY <1>4, <3>1, <3>2 DEF JoinAndFree
  <2>2. LockHeld'
    BY <1>4 DEF JoinAndFree, Workers
  <2>3. Roles'
    BY <1>4 DEF JoinAndFree, Workers
  <2>4. PoolShape'
    BY <1>4 DEF JoinAndFree, Workers
  <2>5. QED
    BY <2>1, <2>2, <2>3, <2>4
<1>5. QED
  BY <1>1, <1>2, <1>3, <1>4 DEF DestroyStep

LEMMA StructureStep == Structure /\ [Next]_vars => Structure'
<1> SUFFICES ASSUME Structure, [Next]_vars PROVE Structure'
  OBVIOUS
<1>1. CASE UNCHANGED vars
  BY <1>1 DEF vars, Structure, TypeOK, LockHeld, Roles, PoolShape, Intact
<1>2. CASE Finished
  BY <1>1, <1>2 DEF Finished
<1>3. QED
  BY <1>1, <1>2, StructureWorker, StructureCall, StructureDestroy DEF Next

(***************************************************************************)
(* The lock, the roles of the threads and the shape of m_pool are as the   *)
(* code keeps them, in every behaviour.                                    *)
(***************************************************************************)
THEOREM StructureHolds == Spec => []Structure
<1>1. Init => Structure
  BY StructureInit
<1>2. Structure /\ [Next]_vars => Structure'
  BY StructureStep
<1>3. QED
  BY <1>1, <1>2, PTL DEF Spec, SafeSpec

(***************************************************************************)
(* Type correctness of NthreadPool.                                        *)
(***************************************************************************)
THEOREM TypeCorrect == Spec => []TypeOK
<1>1. Structure => TypeOK
  BY DEF Structure
<1>2. QED
  BY <1>1, StructureHolds, PTL

-----------------------------------------------------------------------------
(* Who has which thread *)

LEMMA OneUseWorker ==
    ASSUME Structure, OneUse, NEW w \in Workers, WorkerStep(w)
    PROVE  OneUse'
<1> USE DEF Structure, TypeOK, WorkerStates, Intact, OneUse, AtRest, Holds,
            MoveWorker, shared, contexts, callVars
<1>1. CASE LoopTest(w)
  BY <1>1 DEF LoopTest
<1>2. CASE TakeStart(w)
  BY <1>2 DEF TakeStart
<1>3. CASE BeginJob(w)
  BY <1>3 DEF BeginJob
<1>4. CASE EndJob(w)
  BY <1>4 DEF EndJob
<1>5. CASE MarkIdle(w)
  BY <1>5 DEF MarkIdle
<1>6. CASE CountIdle(w)
  BY <1>6 DEF CountIdle
<1>7. QED
  BY <1>1, <1>2, <1>3, <1>4, <1>5, <1>6 DEF WorkerStep

LEMMA OneUseCall ==
    ASSUME Structure, OneUse, HeldExists, NEW c \in Callers,
           \/ CallStep(c)
           \/ WaitForIdle(c)
           \/ \E j \in Jobs : SubmitJob(c, j)
    PROVE  OneUse'
<1> USE CallerNames
    DEF Structure, TypeOK, CallerStates, Intact, OneUse, AtRest, Holds,
        HeldExists, MoveCaller, shared, contexts, callVars
<1>1. CASE \E j \in Jobs : SubmitJob(c, j)
  BY <1>1 DEF SubmitJob
<1>2. CASE Lock(c)
  BY <1>2 DEF Lock
<1>3. CASE Probe(c)
  <2>1. CASE idleCount = 0 /\ CanGrow
    <3>1. PICK w \in Workers : ExtendPool(c, w)
      BY <1>3, <2>1 DEF Probe
    <3>a. w > size /\ w \in Int /\ size \in Int
      BY <3>1 DEF ExtendPool, Workers
    <3>2. wpc[w] = "absent" /\ ~idle[w] /\ ~started[w]
      BY <3>a DEF PoolShape
    <3>3. \A d \in Callers : got[d] # w
      BY <3>a DEF PoolShape
    <3>4. \A d \in Callers : got'[d] = IF d = c THEN w ELSE got[d]
      BY <3>1 DEF ExtendPool
    <3>5. \A v \in Workers : /\ idle'[v] <=> idle[v]
                            /\ wpc'[v] = IF v = w THEN "loop" ELSE wpc[v]
      BY <3>1, <3>2 DEF ExtendPool
    <3>6. \A d \in Callers : cpc'[d] = IF d = c THEN "unlock" ELSE cpc[d]
      BY <1>3, <2>1 DEF Probe
    <3>7. started' = started
      BY <1>3 DEF Probe
    <3>8. Intact' => Intact
      <4>1. cpc[c] = "probe"
        BY <1>3 DEF Probe
      <4>2. QED
        BY <3>6, <4>1
    <3>9. ASSUME Intact PROVE \A v \in Workers : idle'[v] => AtRest(v)' /\ ~started'[v]
      BY <3>2, <3>5, <3>7, <3>9
    <3>10. ASSUME Intact PROVE \A v \in Workers : started'[v] => AtRest(v)'
      BY <3>2, <3>5, <3>7, <3>10
    <3>11. \A d \in Callers, v \in Workers :
              Holds(d, v)' => (d = c /\ v = w) \/ (v # w /\ Holds(d, v))
      BY <3>3, <3>4, <3>6
    <3>12. ASSUME Intact
           PROVE \A d \in Callers, v \in Workers :
                    Holds(d, v)' => ~idle'[v] /\ ~started'[v] /\ AtRest(v)'
      <4> HIDE DEF Holds
      <4>1. \A d \in Callers, v \in Workers : Holds(d, v) =>
                ~idle[v] /\ ~started[v] /\ AtRest(v)
        BY <3>12
      <4>2. QED
        BY <3>2, <3>5, <3>7, <3>11, <4>1
    <3>13. ASSUME Intact
           PROVE \A d, e \in Callers, v \in Workers :
                    Holds(d, v)' /\ Holds(e, v)' => d = e
      <4> HIDE DEF Holds
      <4>1. \A d, e \in Callers, v \in Workers : Holds(d, v) /\ Holds(e, v) => d = e
        BY <3>13
      <4>2. QED
        BY <3>11, <4>1
    <3>14. QED
      BY <3>8, <3>9, <3>10, <3>12, <3>13
  <2>2. CASE ~(idleCount = 0 /\ CanGrow)
    BY <1>3, <2>2 DEF Probe
  <2>3. QED
    BY <2>1, <2>2
<1>4. CASE AwaitIdle(c)
  BY <1>4 DEF AwaitIdle
<1>5. CASE Scan(c)
  <2>1. CASE at[c] > size
    BY <1>5, <2>1 DEF Scan
  <2>2. CASE ~(at[c] > size) /\ idle[at[c]]
    <3>a. at[c] \in Nat \ {0} /\ size \in 0 .. MaxThreads
      OBVIOUS
    <3>1. at[c] \in Workers
      BY <2>2, <3>a, SizeAssumption DEF Workers
    <3>2. \A d \in Callers : /\ got'[d] = IF d = c THEN at[c] ELSE got[d]
                            /\ cpc'[d] = IF d = c THEN "unlock" ELSE cpc[d]
      BY <1>5, <2>2 DEF Scan
    <3>3. \A v \in Workers : idle'[v] <=> (idle[v] /\ v # at[c])
      BY <1>5, <2>2 DEF Scan
    <3>4. UNCHANGED <<wpc, started>>
      BY <1>5 DEF Scan
    <3>5. Intact' => Intact
      <4>1. cpc[c] = "scan"
        BY <1>5 DEF Scan
      <4>2. QED
        BY <3>2, <4>1
    <3>6. \A d \in Callers, v \in Workers :
              Holds(d, v)' => (d = c /\ v = at[c]) \/ Holds(d, v)
      BY <3>2
    <3>7. ASSUME Intact
          PROVE \A d \in Callers, v \in Workers :
                    Holds(d, v)' => ~idle'[v] /\ ~started'[v] /\ AtRest(v)'
      <4> HIDE DEF Holds
      <4>1. \A d \in Callers, v \in Workers : Holds(d, v) =>
                ~idle[v] /\ ~started[v] /\ AtRest(v)
        BY <3>7
      <4>2. ~started[at[c]] /\ AtRest(at[c])
        BY <2>2, <3>1, <3>7
      <4>3. QED
        BY <3>1, <3>3, <3>4, <3>6, <4>1, <4>2
    <3>8. ASSUME Intact
          PROVE \A d, e \in Callers, v \in Workers :
                    Holds(d, v)' /\ Holds(e, v)' => d = e
      <4> HIDE DEF Holds
      <4>1. \A d, e \in Callers, v \in Workers : Holds(d, v) /\ Holds(e, v) => d = e
        BY <3>8
      <4>2. \A d \in Callers : ~Holds(d, at[c])
        BY <2>2, <3>1, <3>8
      <4>3. QED
        BY <3>6, <4>1, <4>2
    <3>9. ASSUME Intact PROVE \A v \in Workers : idle'[v] => AtRest(v)' /\ ~started'[v]
      BY <3>3, <3>4, <3>9
    <3>10. ASSUME Intact PROVE \A v \in Workers : started'[v] => AtRest(v)'
      BY <3>4, <3>10
    <3>11. QED
      BY <3>5, <3>7, <3>8, <3>9, <3>10
  <2>3. CASE ~(at[c] > size) /\ ~idle[at[c]]
    BY <1>5, <2>3 DEF Scan
  <2>4. QED
    BY <2>1, <2>2, <2>3
<1>6. CASE Unlock(c)
  <2>1. UNCHANGED <<idle, started, wpc, got>>
    BY <1>6 DEF Unlock
  <2>2. \A d \in Callers, v \in Workers : Holds(d, v)' => Holds(d, v)
    BY <1>6 DEF Unlock
  <2>3. Intact' => Intact
    BY <1>6 DEF Unlock
  <2>4. QED
    BY <2>1, <2>2, <2>3
<1>7. CASE Assign(c)
  BY <1>7 DEF Assign
<1>8. CASE StartJob(c)
  BY <1>8 DEF StartJob
<1>9. CASE WaitForIdle(c)
  BY <1>9 DEF WaitForIdle
<1>10. CASE LockToWait(c)
  BY <1>10 DEF LockToWait
<1>11. CASE WaitLoop(c)
  BY <1>11 DEF WaitLoop
<1>12. CASE WaitIdle(c)
  BY <1>12 DEF WaitIdle
<1>13. CASE ResignalIdle(c)
  BY <1>13 DEF ResignalIdle
<1>14. CASE UnlockToReturn(c)
  BY <1>14 DEF UnlockToReturn, Roles
<1>15. QED
  BY <1>1, <1>2, <1>3, <1>4, <1>5, <1>6, <1>7, <1>8, <1>9, <1>10, <1>11, <1>12,
     <1>13, <1>14 DEF CallStep

LEMMA OneUseDestroy ==
    ASSUME Structure, OneUse, BeginDestroy \/ DestroyStep
    PROVE  OneUse'
<1> USE CallerNames
    DEF Structure, TypeOK, CallerStates, Intact, OneUse, AtRest, Holds,
        MoveCaller, MoveWorker, shared, contexts, callVars
<1>1. CASE BeginDestroy
  BY <1>1 DEF BeginDestroy
<1>2. CASE CountThreads
  BY <1>2 DEF CountThreads
<1>3. CASE SignalAll
  BY <1>3 DEF SignalAll
<1>4. CASE JoinAndFree
  BY <1>4 DEF JoinAndFree
<1>5. QED
  BY <1>1, <1>2, <1>3, <1>4 DEF DestroyStep

LEMMA OneUseStep == Structure /\ OneUse /\ HeldExists /\ [Next]_vars => OneUse'
<1> SUFFICES ASSUME Structure, OneUse, HeldExists, [Next]_vars PROVE OneUse'
  OBVIOUS
<1>1. CASE UNCHANGED vars
  BY <1>1 DEF vars, OneUse, AtRest, Holds, Intact
<1>2. CASE Finished
  BY <1>1, <1>2 DEF Finished
<1>3. QED
  BY <1>1, <1>2, OneUseWorker, OneUseCall, OneUseDestroy DEF Next

LEMMA HeldExistsStep == Structure /\ HeldExists /\ [Next]_vars => HeldExists'
<1> SUFFICES ASSUME Structure, HeldExists, [Next]_vars PROVE HeldExists'
  OBVIOUS
<1> USE CallerNames DEF Structure, TypeOK, CallerStates, HeldExists, MoveCaller
<1>1. CASE UNCHANGED vars
  BY <1>1 DEF vars
<1>2. ASSUME NEW w \in Workers, WorkerStep(w) PROVE HeldExists'
  BY <1>2 DEF WorkerStep, LoopTest, TakeStart, BeginJob, EndJob, MarkIdle, CountIdle,
              callVars
<1>3. ASSUME NEW c \in Callers,
             WaitForIdle(c) \/ \E j \in Jobs : SubmitJob(c, j)
      PROVE  HeldExists'
  BY <1>3 DEF WaitForIdle, SubmitJob
<1>4. ASSUME NEW c \in Callers, CallStep(c) PROVE HeldExists'
  <2>1. CASE Lock(c) \/ AwaitIdle(c) \/ Unlock(c) \/ Assign(c) \/ StartJob(c)
    BY <2>1 DEF Lock, AwaitIdle, Unlock, Assign, StartJob
  <2>2. CASE Probe(c)
    BY <2>2 DEF Probe, ExtendPool
  <2>3. CASE Scan(c)
    BY <2>3 DEF Scan
  <2>4. CASE LockToWait(c) \/ WaitLoop(c) \/ WaitIdle(c) \/ ResignalIdle(c)
             \/ UnlockToReturn(c)
    BY <2>4 DEF LockToWait, WaitLoop, WaitIdle, ResignalIdle, UnlockToReturn
  <2>5. QED
    BY <1>4, <2>1, <2>2, <2>3, <2>4 DEF CallStep
<1>5. CASE BeginDestroy \/ DestroyStep
  BY <1>5 DEF BeginDestroy, DestroyStep, CountThreads, SignalAll, JoinAndFree
<1>6. CASE Finished
  BY <1>1, <1>6 DEF Finished
<1>7. QED
  BY <1>1, <1>2, <1>3, <1>4, <1>5, <1>6 DEF Next

-----------------------------------------------------------------------------
(* How many threads are idle *)

LEMMA WorkerSets ==
    ASSUME NEW S \in SUBSET Workers
    PROVE  /\ IsFiniteSet(S)
           /\ Cardinality(S) \in Nat
           /\ \A x \in Workers \ S : Cardinality(S \cup {x}) = Cardinality(S) + 1
           /\ \A x \in S : Cardinality(S \ {x}) = Cardinality(S) - 1
           /\ \A T \in SUBSET S : Cardinality(T) <= Cardinality(S)
<1>1. IsFiniteSet(Workers)
  BY SizeAssumption, FS_Interval DEF Workers
<1>2. IsFiniteSet(S)
  BY <1>1, FS_Subset
<1>3. QED
  BY <1>2, FS_CardinalityType, FS_AddElement, FS_RemoveElement, FS_Subset

LEMMA SetTypes ==
    /\ IdleWorkers \in SUBSET Workers
    /\ MarkedWorkers \in SUBSET Workers
    /\ IdleWorkers' \in SUBSET Workers
    /\ MarkedWorkers' \in SUBSET Workers
    /\ \A c : PassedWorkers(c) \in SUBSET Workers
    /\ \A c : PassedWorkers(c)' \in SUBSET Workers
BY DEF IdleWorkers, MarkedWorkers, PassedWorkers

\* Steps that touch neither the flags nor the counts.
LEMMA AccountingKept ==
    ASSUME IdleAccounting, ScanCovers,
           Intact' => Intact, idle' = idle, idleCount' = idleCount, Debt' = Debt,
           MarkedWorkers' = MarkedWorkers,
           \A c \in Callers : cpc'[c] = "scan" => cpc[c] = "scan" /\ at'[c] = at[c]
    PROVE  IdleAccounting' /\ ScanCovers'
<1>1. IdleWorkers' = IdleWorkers
  BY DEF IdleWorkers
<1>2. \A c \in Callers : cpc'[c] = "scan" => PassedWorkers(c)' = PassedWorkers(c)
  BY DEF PassedWorkers
<1>3. IdleAccounting'
  BY <1>1 DEF IdleAccounting
<1>4. ScanCovers'
  BY <1>2 DEF ScanCovers
<1>5. QED
  BY <1>3, <1>4

LEMMA AccountingWorker ==
    ASSUME Structure, OneUse, IdleAccounting, ScanCovers,
           NEW w \in Workers, WorkerStep(w)
    PROVE  IdleAccounting' /\ ScanCovers'
<1> USE DEF MoveWorker, shared, contexts, callVars
<1>1. /\ UNCHANGED <<cpc, at, owner>>
      /\ Debt' = Debt
      /\ Intact' <=> Intact
  BY DEF WorkerStep, LoopTest, TakeStart, BeginJob, EndJob, MarkIdle, CountIdle,
         Debt, Intact
<1>2. wpc \in [Workers -> WorkerStates] /\ idle \in [Workers -> BOOLEAN] /\ idleCount \in Nat
  BY DEF Structure, TypeOK
<1>3. CASE LoopTest(w) \/ TakeStart(w) \/ BeginJob(w) \/ EndJob(w)
  <2>1. UNCHANGED <<idle, idleCount>> /\ wpc[w] # "marked" /\ wpc'[w] # "marked"
    BY <1>2, <1>3 DEF LoopTest, TakeStart, BeginJob, EndJob
  <2>2. \A v \in Workers : v # w => wpc'[v] = wpc[v]
    BY <1>2, <1>3 DEF LoopTest, TakeStart, BeginJob, EndJob
  <2>3. MarkedWorkers' = MarkedWorkers
    BY <2>1, <2>2 DEF MarkedWorkers
  <2>4. QED
    BY <1>1, <2>1, <2>3, AccountingKept
<1>4. CASE MarkIdle(w)
  <2>1. /\ idleCount' = idleCount
        /\ wpc[w] = "done"
        /\ wpc' = [wpc EXCEPT ![w] = "marked"]
        /\ idle' = [idle EXCEPT ![w] = TRUE]
    BY <1>4 DEF MarkIdle
  <2>2. MarkedWorkers' = MarkedWorkers \cup {w} /\ w \notin MarkedWorkers
    BY <1>2, <2>1 DEF MarkedWorkers
  <2>3. Intact => w \notin IdleWorkers
    BY <2>1 DEF IdleWorkers, OneUse, AtRest
  <2>4. IdleWorkers' = IdleWorkers \cup {w}
    BY <1>2, <2>1 DEF IdleWorkers
  <2>5. Cardinality(MarkedWorkers') = Cardinality(MarkedWorkers) + 1
    BY <2>2, SetTypes, WorkerSets
  <2>6. Intact => Cardinality(IdleWorkers') = Cardinality(IdleWorkers) + 1
    BY <2>3, <2>4, SetTypes, WorkerSets
  <2>7. IdleAccounting'
    BY <1>1, <1>2, <2>1, <2>5, <2>6, SetTypes, WorkerSets DEF IdleAccounting, Debt
  <2>8. \A c \in Callers :
           Cardinality(PassedWorkers(c)') <= Cardinality(PassedWorkers(c)) + 1
    <3>1. TAKE c \in Callers
    <3>2. PassedWorkers(c)' \in SUBSET (PassedWorkers(c) \cup {w})
      BY <1>1, <1>2, <2>1 DEF PassedWorkers
    <3>3. Cardinality(PassedWorkers(c) \cup {w}) <= Cardinality(PassedWorkers(c)) + 1
      <4>1. CASE w \in PassedWorkers(c)
        <5>1. PassedWorkers(c) \cup {w} = PassedWorkers(c)
          BY <4>1
        <5>2. QED
          BY <5>1, SetTypes, WorkerSets
      <4>2. CASE w \notin PassedWorkers(c)
        BY <4>2, SetTypes, WorkerSets
      <4>3. QED
        BY <4>1, <4>2
    <3>4. Cardinality(PassedWorkers(c)') <= Cardinality(PassedWorkers(c) \cup {w})
      <4>1. PassedWorkers(c) \cup {w} \in SUBSET Workers
        BY SetTypes
      <4>2. QED
        BY <3>2, <4>1, WorkerSets
    <3>5. QED
      <4>1. /\ Cardinality(PassedWorkers(c)) \in Nat
            /\ Cardinality(PassedWorkers(c)') \in Nat
            /\ Cardinality(PassedWorkers(c) \cup {w}) \in Nat
        BY SetTypes, WorkerSets
      <4>2. QED
        BY <3>3, <3>4, <4>1
  <2>9. ScanCovers'
    <3>1. \A c \in Callers : /\ Cardinality(PassedWorkers(c)) \in Nat
                            /\ Cardinality(PassedWorkers(c)') \in Nat
      BY SetTypes, WorkerSets
    <3>2. Cardinality(MarkedWorkers) \in Nat
      BY SetTypes, WorkerSets
    <3>3. QED
      BY <1>1, <1>2, <2>1, <2>5, <2>8, <3>1, <3>2 DEF ScanCovers
  <2>10. QED
    BY <2>7, <2>9
<1>5. CASE CountIdle(w)
  <2>1. /\ idleCount' = idleCount + 1
        /\ wpc[w] = "marked"
        /\ wpc' = [wpc EXCEPT ![w] = "loop"]
        /\ idle' = idle
    BY <1>5 DEF CountIdle
  <2>2. MarkedWorkers' = MarkedWorkers \ {w} /\ w \in MarkedWorkers
    BY <1>2, <2>1 DEF MarkedWorkers
  <2>3. IdleWorkers' = IdleWorkers /\ \A c : PassedWorkers(c)' = PassedWorkers(c)
    BY <1>1, <2>1 DEF IdleWorkers, PassedWorkers
  <2>4. Cardinality(MarkedWorkers') = Cardinality(MarkedWorkers) - 1
    BY <2>2, SetTypes, WorkerSets
  <2>5. Cardinality(MarkedWorkers) \in Nat /\ Cardinality(IdleWorkers) \in Nat
    BY SetTypes, WorkerSets
  <2>6. idleCount' + Cardinality(MarkedWorkers') = idleCount + Cardinality(MarkedWorkers)
    BY <1>2, <2>1, <2>4, <2>5
  <2>7. IdleAccounting'
    BY <1>1, <2>3, <2>6 DEF IdleAccounting
  <2>8. ScanCovers'
    BY <1>1, <2>3, <2>6 DEF ScanCovers
  <2>9. QED
    BY <2>7, <2>8
<1>6. QED
  BY <1>3, <1>4, <1>5 DEF WorkerStep

\* While the pool is intact the scan does not run past the last thread.
LEMMA ScanFinds ==
    ASSUME Structure, IdleAccounting, ScanCovers, Intact,
           NEW c \in Callers, cpc[c] = "scan"
    PROVE  ~(at[c] > size)
<1> SUFFICES ASSUME at[c] > size PROVE FALSE
  OBVIOUS
<1>1. owner = c /\ Debt = 1
  BY CallerNames DEF Structure, LockHeld, LockStates, Debt
<1>2. IdleWorkers = PassedWorkers(c)
  <2>1. \A w \in Workers : idle[w] => w < at[c]
    <3>1. at[c] \in Int /\ size \in Int
      BY DEF Structure, TypeOK
    <3>2. \A w \in Workers : idle[w] => w <= size
      BY <3>1 DEF Structure, PoolShape, Workers
    <3>3. QED
      BY <3>1, <3>2 DEF Workers
  <2>2. QED
    BY <2>1 DEF IdleWorkers, PassedWorkers
<1>3. Cardinality(IdleWorkers) \in Nat /\ Cardinality(MarkedWorkers) \in Nat /\ idleCount \in Nat
  BY SetTypes, WorkerSets DEF Structure, TypeOK
<1>4. QED
  BY <1>1, <1>2, <1>3 DEF IdleAccounting, ScanCovers

\* Steps of a caller that takes no count and no thread.
LEMMA AccountingElsewhere ==
    ASSUME Structure, IdleAccounting, ScanCovers, NEW c \in Callers,
           NEW s \in CallerStates \ {"scan", "wresignal"},
           cpc[c] \notin {"scan", "wresignal", "dsignal", "djoin", "destroyed"},
           cpc' = [cpc EXCEPT ![c] = s],
           owner' = owner \/ (owner = NoCaller /\ owner' = c)
               \/ (owner = c /\ owner' = NoCaller),
           UNCHANGED <<idle, idleCount>>,
           MarkedWorkers' = MarkedWorkers,
           \A d \in Callers : d # c => at'[d] = at[d]
    PROVE  IdleAccounting' /\ ScanCovers'
<1>1. cpc \in [Callers -> CallerStates] /\ owner \in Callers \cup {NoCaller}
  BY DEF Structure, TypeOK
<1>2. Intact' => Intact
  BY <1>1, CallerNames DEF Intact
<1>3. Debt' = Debt
  <2>1. cpc[c] \notin {"scan", "wresignal"} /\ cpc'[c] \notin {"scan", "wresignal"}
    BY <1>1
  <2>2. \A d \in Callers : d # c => cpc'[d] = cpc[d]
    BY <1>1
  <2>3. QED
    BY <1>1, <2>1, <2>2, CallerNames DEF Debt
<1>4. \A d \in Callers : cpc'[d] = "scan" => cpc[d] = "scan" /\ at'[d] = at[d]
  BY <1>1
<1>5. QED
  BY <1>2, <1>3, <1>4, AccountingKept

LEMMA AccountingCall ==
    ASSUME Structure, OneUse, IdleAccounting, ScanCovers, NEW c \in Callers,
           \/ CallStep(c)
           \/ WaitForIdle(c)
           \/ \E j \in Jobs : SubmitJob(c, j)
    PROVE  IdleAccounting' /\ ScanCovers'
<1> USE CallerNames DEF MoveCaller, shared, contexts, callVars
<1>0. /\ cpc \in [Callers -> CallerStates]
      /\ at \in [Callers -> Nat \ {0}]
      /\ wpc \in [Workers -> WorkerStates]
      /\ idle \in [Workers -> BOOLEAN]
      /\ idleCount \in Nat
      /\ size \in 0 .. MaxThreads
      /\ owner \in Callers \cup {NoCaller}
      /\ Cardinality(IdleWorkers) \in Nat
      /\ Cardinality(MarkedWorkers) \in Nat
  BY SetTypes, WorkerSets DEF Structure, TypeOK
<1>1. CASE \E j \in Jobs : SubmitJob(c, j)
  <2>1. cpc[c] = "out" /\ \E s \in {"lock", "out"} : cpc' = [cpc EXCEPT ![c] = s]
    BY <1>1 DEF SubmitJob
  <2>2. UNCHANGED <<idle, idleCount, owner, at, wpc>>
    BY <1>1 DEF SubmitJob
  <2>3. MarkedWorkers' = MarkedWorkers
    BY <2>2 DEF MarkedWorkers
  <2>4. QED
    BY <2>1, <2>2, <2>3, AccountingElsewhere DEF CallerStates
<1>2. CASE Lock(c)
  <2>1. MarkedWorkers' = MarkedWorkers
    BY <1>2 DEF Lock, MarkedWorkers
  <2>2. QED
    BY <1>2, <2>1, AccountingElsewhere DEF Lock, CallerStates
<1>3. CASE Probe(c)
  <2>1. idle' = idle /\ MarkedWorkers' = MarkedWorkers
    <3>1. CASE idleCount = 0 /\ CanGrow
      <4>1. PICK w \in Workers : ExtendPool(c, w)
        BY <1>3, <3>1 DEF Probe
      <4>2. ~idle[w] /\ wpc[w] = "absent"
        BY <1>0, <4>1 DEF ExtendPool, Structure, PoolShape, Workers
      <4>3. idle' = idle
        BY <1>0, <4>1, <4>2 DEF ExtendPool
      <4>4. \A v \in Workers : wpc'[v] = "marked" <=> wpc[v] = "marked"
        BY <1>0, <4>1, <4>2 DEF ExtendPool
      <4>5. QED
        BY <4>3, <4>4 DEF MarkedWorkers
    <3>2. CASE ~(idleCount = 0 /\ CanGrow)
      BY <1>3, <3>2 DEF Probe, MarkedWorkers
    <3>3. QED
      BY <3>1, <3>2
  <2>2. cpc[c] = "probe" /\ \E s \in {"unlock", "await"} : cpc' = [cpc EXCEPT ![c] = s]
    BY <1>3 DEF Probe
  <2>3. UNCHANGED <<idleCount, owner, at>>
    BY <1>3 DEF Probe
  <2>4. QED
    BY <2>1, <2>2, <2>3, AccountingElsewhere DEF CallerStates
<1>4. CASE AwaitIdle(c)
  <2>1. /\ idleCount' = idleCount - 1
        /\ UNCHANGED <<owner, idle, wpc>>
        /\ cpc' = [cpc EXCEPT ![c] = "scan"]
        /\ at' = [at EXCEPT ![c] = 1]
        /\ cpc[c] = "await"
        /\ idleCount > 0
    BY <1>4 DEF AwaitIdle
  <2>2. owner = c /\ Debt = 0
    BY <2>1 DEF Structure, LockHeld, LockStates, Debt
  <2>3. Debt' = 1
    BY <1>0, <2>1, <2>2 DEF Debt
  <2>4. IdleWorkers' = IdleWorkers /\ MarkedWorkers' = MarkedWorkers
    BY <2>1 DEF IdleWorkers, MarkedWorkers
  <2>5. Intact' => Intact
    BY <1>0, <2>1 DEF Intact
  <2>6. IdleAccounting'
    BY <1>0, <2>1, <2>2, <2>3, <2>4, <2>5 DEF IdleAccounting
  <2>7. \A d \in Callers : cpc'[d] = "scan" => d = c
    BY <1>0, <2>1, <2>2 DEF Structure, LockHeld, LockStates
  <2>8. Cardinality(PassedWorkers(c)') = 0
    <3>1. PassedWorkers(c)' = {}
      BY <1>0, <2>1 DEF PassedWorkers, Workers
    <3>2. QED
      BY <3>1, FS_EmptySet
  <2>9. ScanCovers'
    BY <1>0, <2>1, <2>4, <2>7, <2>8 DEF ScanCovers
  <2>10. QED
    BY <2>6, <2>9
<1>5. CASE Scan(c)
  <2>1. cpc[c] = "scan" /\ UNCHANGED <<owner, idleCount, wpc, size>>
    BY <1>5 DEF Scan
  <2>2. owner = c /\ Debt = 1
    BY <2>1 DEF Structure, LockHeld, LockStates, Debt
  <2>3. \A d \in Callers : cpc'[d] = "scan" => d = c
    BY <1>0, <1>5, <2>2 DEF Scan, Structure, LockHeld, LockStates
  <2>4. MarkedWorkers' = MarkedWorkers
    BY <2>1 DEF MarkedWorkers
  <2>5. Intact' => Intact
    BY <1>0, <1>5 DEF Intact, Scan
  <2>6. CASE at[c] > size
    <3>1. ~Intact
      BY <2>1, <2>6, ScanFinds
    <3>2. QED
      BY <2>5, <3>1 DEF IdleAccounting, ScanCovers
  <2>7. CASE ~(at[c] > size) /\ idle[at[c]]
    <3>1. at[c] \in Workers
      BY <1>0, <2>7, SizeAssumption DEF Workers
    <3>2. idle' = [idle EXCEPT ![at[c]] = FALSE] /\ cpc' = [cpc EXCEPT ![c] = "unlock"]
      BY <1>5, <2>7 DEF Scan
    <3>3. IdleWorkers' = IdleWorkers \ {at[c]} /\ at[c] \in IdleWorkers
      BY <1>0, <2>7, <3>1, <3>2 DEF IdleWorkers
    <3>4. Cardinality(IdleWorkers') = Cardinality(IdleWorkers) - 1
      BY <3>3, SetTypes, WorkerSets
    <3>5. Debt' = 0
      BY <1>0, <2>1, <2>2, <3>2 DEF Debt
    <3>6. IdleAccounting'
      BY <1>0, <2>1, <2>2, <2>4, <2>5, <3>4, <3>5 DEF IdleAccounting
    <3>7. \A d \in Callers : cpc'[d] # "scan"
      BY <1>0, <2>3, <3>2
    <3>8. QED
      BY <3>6, <3>7 DEF ScanCovers
  <2>8. CASE ~(at[c] > size) /\ ~idle[at[c]]
    <3>1. UNCHANGED <<cpc, idle>> /\ at' = [at EXCEPT ![c] = at[c] + 1]
      BY <1>5, <2>8 DEF Scan
    <3>2. IdleWorkers' = IdleWorkers /\ Debt' = Debt
      BY <2>1, <3>1 DEF IdleWorkers, Debt
    <3>3. IdleAccounting'
      BY <2>1, <2>4, <2>5, <3>2 DEF IdleAccounting
    <3>4. PassedWorkers(c)' = PassedWorkers(c)
      <4>1. \A w \in Workers : idle[w] => (w < at[c] + 1 <=> w < at[c])
        BY <1>0, <2>8 DEF Workers
      <4>2. at'[c] = at[c] + 1
        BY <1>0, <3>1
      <4>3. QED
        BY <3>1, <4>1, <4>2 DEF PassedWorkers
    <3>5. ScanCovers'
      BY <2>1, <2>3, <2>4, <2>5, <3>1, <3>4 DEF ScanCovers
    <3>6. QED
      BY <3>3, <3>5
  <2>9. QED
    BY <2>6, <2>7, <2>8
<1>6. CASE Unlock(c)
  <2>1. MarkedWorkers' = MarkedWorkers
    BY <1>6 DEF Unlock, MarkedWorkers
  <2>2. cpc[c] = "unlock" /\ \E s \in {"out", "assign"} : cpc' = [cpc EXCEPT ![c] = s]
    BY <1>6 DEF Unlock
  <2>3. owner = c /\ owner' = NoCaller /\ UNCHANGED <<idle, idleCount, at>>
    BY <1>6, <2>2 DEF Unlock, Structure, LockHeld, LockStates
  <2>4. QED
    BY <2>1, <2>2, <2>3, AccountingElsewhere DEF CallerStates
<1>7. CASE Assign(c) \/ StartJob(c) \/ WaitForIdle(c)
  <2>1. MarkedWorkers' = MarkedWorkers
    BY <1>7 DEF Assign, StartJob, WaitForIdle, MarkedWorkers
  <2>2. cpc[c] \in {"assign", "start", "out"}
        /\ \E s \in {"start", "out", "wlock"} : cpc' = [cpc EXCEPT ![c] = s]
    BY <1>7 DEF Assign, StartJob, WaitForIdle
  <2>3. UNCHANGED <<owner, idle, idleCount, at>>
    BY <1>7 DEF Assign, StartJob, WaitForIdle
  <2>4. QED
    BY <2>1, <2>2, <2>3, AccountingElsewhere DEF CallerStates
<1>8. CASE LockToWait(c)
  <2>1. MarkedWorkers' = MarkedWorkers
    BY <1>8 DEF LockToWait, MarkedWorkers
  <2>2. \A d \in Callers : d # c => at'[d] = at[d]
    BY <1>0, <1>8 DEF LockToWait
  <2>3. QED
    BY <1>8, <2>1, <2>2, AccountingElsewhere DEF LockToWait, CallerStates
<1>9. CASE WaitLoop(c)
  <2>1. MarkedWorkers' = MarkedWorkers
    BY <1>9 DEF WaitLoop, MarkedWorkers
  <2>2. cpc[c] = "wloop" /\ \E s \in {"wunlock", "wawait"} : cpc' = [cpc EXCEPT ![c] = s]
    BY <1>9 DEF WaitLoop
  <2>3. UNCHANGED <<owner, idle, idleCount, at>>
    BY <1>9 DEF WaitLoop
  <2>4. QED
    BY <2>1, <2>2, <2>3, AccountingElsewhere DEF CallerStates
<1>10. CASE WaitIdle(c) \/ ResignalIdle(c)
  <2>1. UNCHANGED <<owner, idle, wpc>> /\ cpc[c] \in {"wawait", "wresignal"}
    BY <1>10 DEF WaitIdle, ResignalIdle
  <2>2. owner = c
    BY <2>1 DEF Structure, LockHeld, LockStates
  <2>3. idleCount' + Cardinality(MarkedWorkers) + Debt'
          = idleCount + Cardinality(MarkedWorkers) + Debt
    <3>1. CASE WaitIdle(c)
      <4>1. Debt = 0 /\ Debt' = 1 /\ idleCount' = idleCount - 1
        BY <1>0, <2>2, <3>1 DEF WaitIdle, Debt
      <4>2. QED
        BY <1>0, <4>1
    <3>2. CASE ResignalIdle(c)
      <4>1. Debt = 1 /\ Debt' = 0 /\ idleCount' = idleCount + 1
        BY <1>0, <2>2, <3>2 DEF ResignalIdle, Debt
      <4>2. QED
        BY <1>0, <4>1
    <3>3. QED
      BY <1>10, <3>1, <3>2
  <2>4. IdleWorkers' = IdleWorkers /\ MarkedWorkers' = MarkedWorkers
    BY <2>1 DEF IdleWorkers, MarkedWorkers
  <2>5. Intact' => Intact
    BY <1>0, <1>10 DEF Intact, WaitIdle, ResignalIdle
  <2>6. IdleAccounting'
    BY <2>3, <2>4, <2>5 DEF IdleAccounting
  <2>7. \A d \in Callers : cpc'[d] # "scan"
    BY <1>0, <1>10, <2>2 DEF WaitIdle, ResignalIdle, Structure, LockHeld, LockStates
  <2>8. QED
    BY <2>6, <2>7 DEF ScanCovers
<1>11. CASE UnlockToReturn(c)
  <2>1. MarkedWorkers' = MarkedWorkers
    BY <1>11 DEF UnlockToReturn, MarkedWorkers
  <2>2. cpc[c] = "wunlock" /\ \E s \in {"dcount", "out"} : cpc' = [cpc EXCEPT ![c] = s]
    BY <1>11 DEF UnlockToReturn
  <2>3. owner = c /\ owner' = NoCaller /\ UNCHANGED <<idle, idleCount>>
    BY <1>11, <2>2 DEF UnlockToReturn, Structure, LockHeld, LockStates
  <2>4. \A d \in Callers : d # c => at'[d] = at[d]
    BY <1>0, <1>11 DEF UnlockToReturn
  <2>5. QED
    BY <2>1, <2>2, <2>3, <2>4, AccountingElsewhere DEF CallerStates
<1>12. QED
  BY <1>1, <1>2, <1>3, <1>4, <1>5, <1>6, <1>7, <1>8, <1>9, <1>10, <1>11 DEF CallStep

LEMMA AccountingDestroy ==
    ASSUME Structure, IdleAccounting, ScanCovers, BeginDestroy \/ DestroyStep
    PROVE  IdleAccounting' /\ ScanCovers'
<1>1. cpc \in [Callers -> CallerStates]
  BY DEF Structure, TypeOK
<1>2. CASE BeginDestroy
  <2>1. MarkedWorkers' = MarkedWorkers
    BY <1>2 DEF BeginDestroy, MarkedWorkers, contexts
  <2>2. QED
    BY <1>2, <2>1, CallerNames, AccountingElsewhere
    DEF BeginDestroy, MoveCaller, CallerStates, contexts
<1>3. CASE DestroyStep
  <2>1. ~Intact'
    BY <1>1, <1>3, CallerNames
    DEF DestroyStep, CountThreads, SignalAll, JoinAndFree, Intact, MoveCaller
  <2>2. QED
    BY <2>1 DEF IdleAccounting, ScanCovers
<1>4. QED
  BY <1>2, <1>3

LEMMA AccountingStep ==
    Structure /\ OneUse /\ IdleAccounting /\ ScanCovers /\ [Next]_vars
        => IdleAccounting' /\ ScanCovers'
<1> SUFFICES ASSUME Structure, OneUse, IdleAccounting, ScanCovers, [Next]_vars
             PROVE  IdleAccounting' /\ ScanCovers'
  OBVIOUS
<1>1. CASE UNCHANGED vars
  BY <1>1 DEF vars, IdleAccounting, ScanCovers, Intact, Debt, IdleWorkers,
              MarkedWorkers, PassedWorkers
<1>2. CASE Finished
  BY <1>1, <1>2 DEF Finished
<1>3. QED
  BY <1>1, <1>2, AccountingWorker, AccountingCall, AccountingDestroy DEF Next

-----------------------------------------------------------------------------
(* No caller goes without a thread, and none shares one *)

LEMMA FoundStep ==
    /\ Structure /\ IdleAccounting /\ ScanCovers /\ ThreadFound /\ IdleThreadFound
    /\ [Next]_vars
    => ThreadFound' /\ IdleThreadFound'
<1> SUFFICES ASSUME Structure, IdleAccounting, ScanCovers, ThreadFound,
                    IdleThreadFound, [Next]_vars
             PROVE  ThreadFound' /\ IdleThreadFound'
  OBVIOUS
<1>0. /\ cpc \in [Callers -> CallerStates]
      /\ got \in [Callers -> Workers \cup {NoWorker}]
      /\ call \in [Jobs -> {"none", "open", "returned", "refused", "noThread"}]
      /\ size \in 0 .. MaxThreads
      /\ at \in [Callers -> Nat \ {0}]
  BY DEF Structure, TypeOK
<1> USE CallerNames DEF ThreadFound, IdleThreadFound, Intact, MoveCaller
<1>1. CASE UNCHANGED vars
  BY <1>1 DEF vars
<1>2. ASSUME NEW w \in Workers, WorkerStep(w) PROVE ThreadFound' /\ IdleThreadFound'
  BY <1>2 DEF WorkerStep, LoopTest, TakeStart, BeginJob, EndJob, MarkIdle, CountIdle,
              callVars
<1>3. ASSUME NEW c \in Callers,
             WaitForIdle(c) \/ \E j \in Jobs : SubmitJob(c, j)
      PROVE  ThreadFound' /\ IdleThreadFound'
  BY <1>0, <1>3 DEF WaitForIdle, SubmitJob
<1>4. ASSUME NEW c \in Callers, CallStep(c) PROVE ThreadFound' /\ IdleThreadFound'
  <2>1. CASE Lock(c) \/ AwaitIdle(c) \/ Assign(c) \/ StartJob(c)
    BY <1>0, <2>1 DEF Lock, AwaitIdle, Assign, StartJob
  <2>2. CASE Probe(c)
    BY <1>0, <2>2 DEF Probe, ExtendPool
  <2>3. CASE Scan(c)
    <3>1. CASE at[c] > size
      <4>1. ~Intact
        BY <2>3, <3>1, ScanFinds DEF Scan
      <4>2. Intact' => Intact
        BY <1>0, <2>3 DEF Scan
      <4>3. QED
        BY <4>1, <4>2
    <3>2. CASE ~(at[c] > size)
      <4>1. at[c] # NoWorker
        BY <1>0 DEF NoWorker
      <4>2. QED
        BY <1>0, <2>3, <3>2, <4>1 DEF Scan
    <3>3. QED
      BY <3>1, <3>2
  <2>4. CASE Unlock(c)
    BY <1>0, <2>4 DEF Unlock
  <2>5. CASE LockToWait(c) \/ WaitLoop(c) \/ WaitIdle(c) \/ ResignalIdle(c)
             \/ UnlockToReturn(c)
    BY <1>0, <2>5 DEF LockToWait, WaitLoop, WaitIdle, ResignalIdle, UnlockToReturn
  <2>6. QED
    BY <1>4, <2>1, <2>2, <2>3, <2>4, <2>5 DEF CallStep
<1>5. CASE BeginDestroy \/ DestroyStep
  BY <1>0, <1>5 DEF BeginDestroy, DestroyStep, CountThreads, SignalAll, JoinAndFree
<1>6. CASE Finished
  BY <1>1, <1>6 DEF Finished
<1>7. QED
  BY <1>1, <1>2, <1>3, <1>4, <1>5, <1>6 DEF Next

LEMMA HandoutInit == Init => Handout
<1> SUFFICES ASSUME Init PROVE Handout
  OBVIOUS
<1> USE CallerNames, SizeAssumption DEF Init
<1>1. OneUse /\ HeldExists /\ ThreadFound /\ IdleThreadFound
  BY DEF OneUse, HeldExists, ThreadFound, IdleThreadFound, AtRest, Holds
<1>2. ScanCovers
  BY DEF ScanCovers
<1>3. IdleAccounting
  <2>1. IdleWorkers = 1 .. MaxPoolSize
    <3>1. \A w \in Workers : idle[w] <=> w <= MaxPoolSize
      OBVIOUS
    <3>2. \A w : w \in IdleWorkers <=> w \in Workers /\ w <= MaxPoolSize
      BY ONLY <3>1 DEF IdleWorkers
    <3>3. \A w : w \in 1 .. MaxPoolSize <=> w \in Workers /\ w <= MaxPoolSize
      BY ONLY SizeAssumption DEF Workers
    <3>4. QED
      BY ONLY <3>2, <3>3
  <2>2. Cardinality(1 .. MaxPoolSize) = MaxPoolSize
    BY FS_Interval
  <2>3. MarkedWorkers = {}
    BY DEF MarkedWorkers
  <2>4. Cardinality(MarkedWorkers) = 0
    BY <2>3, FS_EmptySet
  <2>5. Debt = 0
    BY DEF Debt
  <2>6. QED
    BY <2>1, <2>2, <2>4, <2>5 DEF IdleAccounting
<1>4. QED
  BY <1>1, <1>2, <1>3 DEF Handout

LEMMA HandoutHolds == Spec => [](Structure /\ Handout)
<1>1. Init => Structure /\ Handout
  BY StructureInit, HandoutInit
<1>2. Structure /\ Handout /\ [Next]_vars => (Structure /\ Handout)'
  BY StructureStep, OneUseStep, HeldExistsStep, AccountingStep, FoundStep DEF Handout
<1>3. QED
  BY <1>1, <1>2, PTL DEF Spec, SafeSpec

(***************************************************************************)
(* The idle flags and m_idleCountEvent agree (nthreadPool.cxx:47-48,       *)
(* 87-88, 149-155, 231-232).                                               *)
(***************************************************************************)
THEOREM IdleAccountingHolds == Spec => []IdleAccounting
<1>1. Structure /\ Handout => IdleAccounting
  BY DEF Handout
<1>2. QED
  BY <1>1, HandoutHolds, PTL

(***************************************************************************)
(* The error of nthreadPool.cxx:195 is not reached before the destructor   *)
(* wakes the threads, however many callers compete for however many        *)
(* threads.                                                                *)
(***************************************************************************)
THEOREM IdleThreadFoundHolds == Spec => []IdleThreadFound
<1>1. Structure /\ Handout => IdleThreadFound
  BY DEF Handout
<1>2. QED
  BY <1>1, HandoutHolds, PTL

(***************************************************************************)
(* Until the pool closes, a thread is handed to one caller at a time and   *)
(* has no job then, so lines 197-199 overwrite nobody's job.               *)
(***************************************************************************)
THEOREM ExclusiveHandoutHolds == Spec => []ExclusiveHandout
<1>1. Structure /\ Handout => ExclusiveHandout
  <2> SUFFICES ASSUME Structure, Handout, ~closing, NEW c \in Holders
               PROVE  /\ ~started[got[c]]
                      /\ wpc[got[c]] \in {"marked", "loop", "waiting"}
                      /\ \A d \in Holders : got[d] = got[c] => d = c
    BY DEF ExclusiveHandout
  <2>1. Intact
    BY CallerNames DEF Structure, Roles, Intact
  <2>2. c \in Callers /\ got[c] \in Workers /\ Holds(c, got[c])
    BY DEF Holders, Holds, Structure, TypeOK
  <2>3. ~started[got[c]] /\ AtRest(got[c])
    BY <2>1, <2>2 DEF Handout, OneUse
  <2>4. wpc[got[c]] # "exited"
    BY <2>2 DEF Structure, PoolShape
  <2>5. \A d \in Holders : got[d] = got[c] => d = c
    BY <2>1, <2>2 DEF Handout, OneUse, Holders, Holds
  <2>6. QED
    BY <2>3, <2>4, <2>5 DEF AtRest
<1>2. QED
  BY <1>1, HandoutHolds, PTL

-----------------------------------------------------------------------------
(* Calls of submitJob() *)

\* A step that leaves submitJob() alone, or moves one call of it on.
LEMMA OpenCallsElsewhere ==
    ASSUME OpenCalls, UNCHANGED <<cjob, call>>,
           \A d \in Callers : cpc'[d] \in SubmitStates => cpc[d] \in SubmitStates
    PROVE  OpenCalls'
BY DEF OpenCalls

LEMMA OpenCallsCall ==
    ASSUME Structure, OpenCalls, NEW c \in Callers,
           \/ CallStep(c)
           \/ WaitForIdle(c)
           \/ \E j \in Jobs : SubmitJob(c, j)
    PROVE  OpenCalls'
<1> USE DEF MoveCaller, SubmitStates
<1>0. /\ cpc \in [Callers -> CallerStates]
      /\ cjob \in [Callers -> Jobs \cup {NoJob}]
      /\ call \in [Jobs -> {"none", "open", "returned", "refused", "noThread"}]
  BY DEF Structure, TypeOK
<1>1. ASSUME NEW j \in Jobs, SubmitJob(c, j) PROVE OpenCalls'
  <2>1. CASE closing
    BY <1>0, <1>1, <2>1 DEF SubmitJob, OpenCalls
  <2>2. CASE ~closing
    <3>1. /\ call[j] = "none" /\ call' = [call EXCEPT ![j] = "open"]
          /\ cjob' = [cjob EXCEPT ![c] = j]
          /\ cpc' = [cpc EXCEPT ![c] = "lock"] /\ cpc[c] = "out"
      BY <1>1, <2>2 DEF SubmitJob
    <3>2. QED
      BY <1>0, <3>1 DEF OpenCalls
  <2>3. QED
    BY <2>1, <2>2
<1>2. CASE WaitForIdle(c)
  BY <1>0, <1>2, OpenCallsElsewhere DEF WaitForIdle, shared, contexts
<1>3. CASE Unlock(c)
  BY <1>0, <1>3 DEF Unlock, OpenCalls
<1>4. CASE StartJob(c)
  BY <1>0, <1>4 DEF StartJob, OpenCalls
<1>5. CASE Lock(c) \/ AwaitIdle(c) \/ Assign(c)
  BY <1>0, <1>5, OpenCallsElsewhere DEF Lock, AwaitIdle, Assign
<1>6. CASE Probe(c)
  BY <1>0, <1>6, OpenCallsElsewhere DEF Probe, ExtendPool
<1>7. CASE Scan(c)
  BY <1>0, <1>7, OpenCallsElsewhere DEF Scan
<1>8. CASE LockToWait(c) \/ WaitLoop(c) \/ WaitIdle(c) \/ ResignalIdle(c)
           \/ UnlockToReturn(c)
  BY <1>0, <1>8, OpenCallsElsewhere
     DEF LockToWait, WaitLoop, WaitIdle, ResignalIdle, UnlockToReturn
<1>9. QED
  BY <1>1, <1>2, <1>3, <1>4, <1>5, <1>6, <1>7, <1>8 DEF CallStep

LEMMA OpenCallsStep == Structure /\ OpenCalls /\ [Next]_vars => OpenCalls'
<1> SUFFICES ASSUME Structure, OpenCalls, [Next]_vars PROVE OpenCalls'
  OBVIOUS
<1>0. cpc \in [Callers -> CallerStates]
  BY DEF Structure, TypeOK
<1>1. CASE UNCHANGED vars
  BY <1>1, OpenCallsElsewhere DEF vars
<1>2. ASSUME NEW w \in Workers, WorkerStep(w) PROVE OpenCalls'
  BY <1>2, OpenCallsElsewhere
     DEF WorkerStep, LoopTest, TakeStart, BeginJob, EndJob, MarkIdle, CountIdle, callVars
<1>3. CASE BeginDestroy \/ DestroyStep
  BY <1>0, <1>3, CallerNames, OpenCallsElsewhere
     DEF BeginDestroy, DestroyStep, CountThreads, SignalAll, JoinAndFree, MoveCaller,
         SubmitStates
<1>4. CASE Finished
  BY <1>1, <1>4 DEF Finished
<1>5. QED
  BY <1>1, <1>2, <1>3, <1>4, OpenCallsCall DEF Next

-----------------------------------------------------------------------------
(* Jobs on their way to userProc *)

\* A step that does not touch the jobs on their way.
LEMMA JobsKeptElsewhere ==
    ASSUME JobsKept, UNCHANGED <<call, runs, job, started>>, closing' \/ ~closing,
           \A w \in Workers : wpc'[w] = "woken" <=> wpc[w] = "woken",
           \A c \in Callers : cpc'[c] = "start" =>
               cpc[c] = "start" /\ got'[c] = got[c] /\ cjob'[c] = cjob[c]
    PROVE  JobsKept'
<1>1. \A w \in Workers : Pending(w)' <=> Pending(w)
  BY DEF Pending
<1>2. QED
  BY <1>1 DEF JobsKept

LEMMA JobsKeptWorker ==
    ASSUME Structure, OneUse, JobsKept, NEW w \in Workers, WorkerStep(w)
    PROVE  JobsKept'
<1> USE DEF MoveWorker, shared, contexts, callVars
<1>0. /\ wpc \in [Workers -> WorkerStates]
      /\ started \in [Workers -> BOOLEAN]
      /\ runs \in [Jobs -> Nat]
      /\ job \in [Workers -> Jobs \cup {NoJob}]
  BY DEF Structure, TypeOK
<1>1. CASE LoopTest(w) \/ EndJob(w) \/ MarkIdle(w) \/ CountIdle(w)
  BY <1>0, <1>1, JobsKeptElsewhere DEF LoopTest, EndJob, MarkIdle, CountIdle, WorkerStates
<1>2. CASE TakeStart(w)
  <2>1. \A v \in Workers : Pending(v)' <=> Pending(v)
    BY <1>0, <1>2 DEF TakeStart, Pending
  <2>2. UNCHANGED <<closing, call, runs, job, cpc, got, cjob>>
    BY <1>2 DEF TakeStart
  <2>3. QED
    BY <2>1, <2>2 DEF JobsKept
<1>3. CASE BeginJob(w)
  <2>1. CASE closing
    BY <1>3, <2>1 DEF BeginJob, JobsKept
  <2>2. CASE ~closing
    <3>1. Intact
      BY <2>2 DEF Structure, Roles, Intact
    <3>2. /\ wpc[w] = "woken" /\ wpc' = [wpc EXCEPT ![w] = "running"]
          /\ runs' = [runs EXCEPT ![job[w]] = @ + 1]
          /\ UNCHANGED <<closing, call, job, started, cpc, got, cjob>>
      BY <1>3, <2>2 DEF BeginJob
    <3>3. Pending(w) /\ ~started[w]
      BY <3>1, <3>2 DEF Pending, OneUse, AtRest
    <3>4. job[w] \in Jobs /\ call[job[w]] = "returned" /\ runs[job[w]] = 0
      BY <2>2, <3>3 DEF JobsKept
    <3>5. \A v \in Workers : Pending(v)' <=> Pending(v) /\ v # w
      BY <1>0, <3>2, <3>3 DEF Pending
    <3>6. \A v \in Workers : Pending(v) /\ v # w => job[v] # job[w]
      BY <2>2, <3>3 DEF JobsKept
    <3>7. runs'[job[w]] = 1 /\ \A j \in Jobs : j # job[w] => runs'[j] = runs[j]
      BY <1>0, <3>2, <3>4
    <3>8. QED
      BY <2>2, <3>2, <3>4, <3>5, <3>6, <3>7 DEF JobsKept
  <2>3. QED
    BY <2>1, <2>2
<1>4. QED
  BY <1>1, <1>2, <1>3 DEF WorkerStep

\* The thread a caller holds is not on its way to a job.
LEMMA HeldNotPending ==
    ASSUME Structure, OneUse, HeldExists, ~closing,
           NEW c \in Callers, cpc[c] \in {"assign", "start"}
    PROVE  /\ got[c] \in Workers
           /\ ~Pending(got[c])
           /\ \A d \in Callers : cpc[d] = "start" /\ got[d] = got[c] => d = c
<1>1. Intact
  BY DEF Structure, Roles, Intact
<1>2. got[c] \in Workers
  BY DEF Structure, TypeOK, HeldExists
<1>3. Holds(c, got[c]) /\ \A d \in Callers : cpc[d] = "start" => Holds(d, got[d])
  BY DEF Holds
<1>4. ~started[got[c]] /\ AtRest(got[c])
  BY <1>1, <1>2, <1>3 DEF OneUse
<1>5. QED
  BY <1>1, <1>2, <1>3, <1>4 DEF OneUse, Pending, AtRest

LEMMA JobsKeptCall ==
    ASSUME Structure, OneUse, HeldExists, OpenCalls, JobsKept, NEW c \in Callers,
           \/ CallStep(c)
           \/ WaitForIdle(c)
           \/ \E j \in Jobs : SubmitJob(c, j)
    PROVE  JobsKept'
<1> USE DEF MoveCaller
<1>0. /\ cpc \in [Callers -> CallerStates]
      /\ wpc \in [Workers -> WorkerStates]
      /\ started \in [Workers -> BOOLEAN]
      /\ got \in [Callers -> Workers \cup {NoWorker}]
      /\ cjob \in [Callers -> Jobs \cup {NoJob}]
      /\ job \in [Workers -> Jobs \cup {NoJob}]
      /\ call \in [Jobs -> {"none", "open", "returned", "refused", "noThread"}]
  BY DEF Structure, TypeOK
<1>1. ASSUME NEW j \in Jobs, SubmitJob(c, j) PROVE JobsKept'
  <2>1. /\ call[j] = "none"
        /\ \E s \in {"open", "refused"} : call' = [call EXCEPT ![j] = s]
        /\ UNCHANGED <<closing, runs, job, started, wpc, got>>
        /\ \A d \in Callers : cpc'[d] = "start" => cpc[d] = "start" /\ cjob'[d] = cjob[d]
    BY <1>0, <1>1 DEF SubmitJob, shared, contexts
  <2>2. \A i \in Jobs : call'[i] = "returned" <=> call[i] = "returned"
    BY <1>0, <2>1
  <2>3. \A w \in Workers : Pending(w)' <=> Pending(w)
    BY <2>1 DEF Pending
  <2>4. QED
    BY <2>1, <2>2, <2>3 DEF JobsKept
<1>2. CASE Unlock(c)
  <2>1. /\ UNCHANGED <<closing, runs, job, started, wpc, got, cjob>>
        /\ \A d \in Callers : cpc'[d] = "start" => cpc[d] = "start"
    BY <1>0, <1>2 DEF Unlock, contexts
  <2>2. cjob[c] \in Jobs /\ call[cjob[c]] = "open"
    BY <1>2 DEF Unlock, OpenCalls, SubmitStates
  <2>3. call' = call \/ call' = [call EXCEPT ![cjob[c]] = "noThread"]
    BY <1>2 DEF Unlock
  <2>4. \A i \in Jobs : call'[i] = "returned" <=> call[i] = "returned"
    BY <1>0, <2>2, <2>3
  <2>5. \A w \in Workers : Pending(w)' <=> Pending(w)
    BY <2>1 DEF Pending
  <2>6. QED
    BY <2>1, <2>4, <2>5 DEF JobsKept
<1>3. CASE Assign(c)
  <2>1. CASE closing
    BY <1>0, <1>3, <2>1 DEF Assign, JobsKept, shared
  <2>2. CASE ~closing
    <3>1. /\ cpc[c] = "assign" /\ cpc' = [cpc EXCEPT ![c] = "start"]
          /\ job' = [job EXCEPT ![got[c]] = cjob[c]]
          /\ UNCHANGED <<closing, call, runs, started, wpc, got, cjob>>
      BY <1>3 DEF Assign, shared
    <3>2. /\ got[c] \in Workers /\ ~Pending(got[c])
          /\ \A d \in Callers : cpc[d] = "start" /\ got[d] = got[c] => d = c
      BY <2>2, <3>1, HeldNotPending
    <3>3. \A w \in Workers : Pending(w)' <=> Pending(w)
      BY <3>1 DEF Pending
    <3>4. \A w \in Workers : Pending(w) => job'[w] = job[w]
      BY <1>0, <3>1, <3>2
    <3>5. \A d \in Callers : cpc'[d] = "start" => job'[got[d]] = cjob[d]
      BY <1>0, <2>2, <3>1, <3>2 DEF JobsKept
    <3>6. QED
      BY <2>2, <3>1, <3>3, <3>4, <3>5 DEF JobsKept
  <2>3. QED
    BY <2>1, <2>2
<1>4. CASE StartJob(c)
  <2>1. /\ cpc[c] = "start" /\ cpc' = [cpc EXCEPT ![c] = "out"]
        /\ started' = [started EXCEPT ![got[c]] = TRUE]
        /\ call' = [call EXCEPT ![cjob[c]] = "returned"]
        /\ UNCHANGED <<closing, runs, job, wpc, got, cjob>>
    BY <1>4 DEF StartJob, shared
  <2>2. cjob[c] \in Jobs /\ call[cjob[c]] = "open"
    BY <2>1 DEF OpenCalls, SubmitStates
  <2>3. runs[cjob[c]] = 0
    BY <2>2 DEF JobsKept
  <2>4. /\ call'[cjob[c]] = "returned"
        /\ \A i \in Jobs : i # cjob[c] => call'[i] = call[i]
    BY <1>0, <2>1, <2>2
  <2>5. CASE closing
    BY <2>1, <2>4, <2>5 DEF JobsKept
  <2>6. CASE ~closing
    <3>1. /\ got[c] \in Workers /\ ~Pending(got[c])
          /\ \A d \in Callers : cpc[d] = "start" /\ got[d] = got[c] => d = c
      BY <2>1, <2>6, HeldNotPending
    <3>2. job[got[c]] = cjob[c]
      BY <2>1, <2>6 DEF JobsKept
    <3>3. \A w \in Workers : Pending(w)' <=> Pending(w) \/ w = got[c]
      BY <1>0, <2>1, <3>1 DEF Pending
    <3>4. \A w \in Workers : Pending(w) => job[w] # cjob[c]
      BY <2>2, <2>6 DEF JobsKept
    <3>5. \A d \in Callers : cpc'[d] = "start" => cpc[d] = "start"
      BY <1>0, <2>1
    <3>6. \A i \in Jobs : runs[i] \in {0, 1} /\ (runs[i] = 1 => call'[i] = "returned")
      BY <2>4 DEF JobsKept
    <3>7. \A d \in Callers : cpc'[d] = "start" => job[got[d]] = cjob[d]
      BY <2>6, <3>5 DEF JobsKept
    <3>8. \A w \in Workers : Pending(w)' =>
             job[w] \in Jobs /\ call'[job[w]] = "returned" /\ runs[job[w]] = 0
      BY <2>2, <2>3, <2>4, <2>6, <3>2, <3>3, <3>4 DEF JobsKept
    <3>9. \A v, w \in Workers : Pending(v)' /\ Pending(w)' /\ job[v] = job[w] => v = w
      BY <2>6, <3>2, <3>3, <3>4 DEF JobsKept
    <3>10. \A i \in Jobs : call'[i] = "returned" /\ runs[i] = 0 =>
              \E w \in Workers : job[w] = i /\ Pending(w)'
      BY <2>4, <2>6, <3>1, <3>2, <3>3 DEF JobsKept
    <3>11. QED
      BY <2>1, <3>6, <3>7, <3>8, <3>9, <3>10 DEF JobsKept
  <2>7. QED
    BY <2>5, <2>6
<1>5. CASE Lock(c) \/ AwaitIdle(c) \/ Scan(c)
  <2>1. /\ cpc[c] # "start"
        /\ \E s \in {"probe", "scan", "unlock"} : cpc' = [cpc EXCEPT ![c] = s]
        /\ \E x : got' = [got EXCEPT ![c] = x]
    BY <1>0, <1>5 DEF Lock, AwaitIdle, Scan
  <2>2. \A d \in Callers : cpc'[d] = "start" => cpc[d] = "start" /\ got'[d] = got[d]
    BY <1>0, <2>1
  <2>3. UNCHANGED <<call, runs, job, started, closing, wpc, cjob>>
    BY <1>5 DEF Lock, AwaitIdle, Scan, shared, contexts
  <2>4. QED
    BY <2>2, <2>3, JobsKeptElsewhere
<1>6. CASE Probe(c)
  <2>1. CASE idleCount = 0 /\ CanGrow
    <3>1. PICK w \in Workers : ExtendPool(c, w)
      BY <1>6, <2>1 DEF Probe
    <3>2. wpc[w] = "absent"
      BY <3>1 DEF ExtendPool, Structure, TypeOK, PoolShape
    <3>3. QED
      BY <1>0, <1>6, <2>1, <3>1, <3>2, JobsKeptElsewhere DEF Probe, ExtendPool
  <2>2. CASE ~(idleCount = 0 /\ CanGrow)
    BY <1>0, <1>6, <2>2, JobsKeptElsewhere DEF Probe
  <2>3. QED
    BY <2>1, <2>2
<1>7. CASE LockToWait(c) \/ WaitLoop(c) \/ WaitIdle(c) \/ ResignalIdle(c)
           \/ UnlockToReturn(c) \/ WaitForIdle(c)
  BY <1>0, <1>7, JobsKeptElsewhere
     DEF LockToWait, WaitLoop, WaitIdle, ResignalIdle, UnlockToReturn, WaitForIdle,
         shared, contexts
<1>8. QED
  BY <1>1, <1>2, <1>3, <1>4, <1>5, <1>6, <1>7 DEF CallStep

LEMMA JobsKeptDestroy ==
    ASSUME Structure, JobsKept, BeginDestroy \/ DestroyStep
    PROVE  JobsKept'
<1>1. CASE BeginDestroy
  BY <1>1 DEF BeginDestroy, JobsKept, contexts
<1>2. CASE DestroyStep
  <2>1. closing
    BY <1>2, CallerNames
       DEF DestroyStep, CountThreads, SignalAll, JoinAndFree, MoveCaller, Structure, Roles
  <2>2. UNCHANGED <<closing, call, runs>>
    BY <1>2 DEF DestroyStep, CountThreads, SignalAll, JoinAndFree, shared
  <2>3. QED
    BY <2>1, <2>2 DEF JobsKept
<1>3. QED
  BY <1>1, <1>2

LEMMA JobsKeptStep ==
    Structure /\ OneUse /\ HeldExists /\ OpenCalls /\ JobsKept /\ [Next]_vars => JobsKept'
<1> SUFFICES ASSUME Structure, OneUse, HeldExists, OpenCalls, JobsKept, [Next]_vars
             PROVE  JobsKept'
  OBVIOUS
<1>1. CASE UNCHANGED vars
  BY <1>1, JobsKeptElsewhere DEF vars
<1>2. CASE Finished
  BY <1>1, <1>2 DEF Finished
<1>3. QED
  BY <1>1, <1>2, JobsKeptWorker, JobsKeptCall, JobsKeptDestroy DEF Next

-----------------------------------------------------------------------------
(* Jobs that run *)

\* A step that sends no worker to its job, marks no running worker idle, and
\* gives nobody a running worker.
LEMMA RunningKeptElsewhere ==
    ASSUME RunningKept,
           \A w \in Workers : wpc'[w] = "running" =>
               /\ wpc[w] = "running"
               /\ job'[w] = job[w]
               /\ runs'[job[w]] = runs[job[w]]
               /\ idle'[w] => idle[w]
               /\ \A c \in Callers : Holds(c, w)' => Holds(c, w)
    PROVE  RunningKept'
BY DEF RunningKept

LEMMA RunningKeptWorker ==
    ASSUME Structure, OneUse, JobsKept, RunningKept, NEW w \in Workers, WorkerStep(w)
    PROVE  RunningKept'
<1> USE DEF MoveWorker, shared, contexts, callVars
<1>0. /\ wpc \in [Workers -> WorkerStates]
      /\ idle \in [Workers -> BOOLEAN]
      /\ runs \in [Jobs -> Nat]
  BY DEF Structure, TypeOK
<1>1. UNCHANGED <<job, cpc, got>> /\ \A c \in Callers, v \in Workers : Holds(c, v)' <=> Holds(c, v)
  BY DEF WorkerStep, LoopTest, TakeStart, BeginJob, EndJob, MarkIdle, CountIdle, Holds
<1>2. CASE LoopTest(w) \/ TakeStart(w) \/ EndJob(w) \/ CountIdle(w) \/ MarkIdle(w)
  <2>1. /\ UNCHANGED runs
        /\ \A v \in Workers : wpc'[v] = "running" =>
              wpc[v] = "running" /\ (idle'[v] => idle[v])
    BY <1>0, <1>2 DEF LoopTest, TakeStart, EndJob, CountIdle, MarkIdle
  <2>2. QED
    BY <1>1, <2>1, RunningKeptElsewhere
<1>3. CASE BeginJob(w) /\ closing
  <2>1. UNCHANGED <<runs, idle>> /\ \A v \in Workers : wpc'[v] = "running" => wpc[v] = "running"
    BY <1>0, <1>3 DEF BeginJob
  <2>2. QED
    BY <1>1, <2>1, RunningKeptElsewhere
<1>4. CASE BeginJob(w) /\ ~closing
  <2>1. /\ wpc[w] = "woken" /\ wpc' = [wpc EXCEPT ![w] = "running"]
        /\ runs' = [runs EXCEPT ![job[w]] = @ + 1]
        /\ UNCHANGED idle
    BY <1>4 DEF BeginJob
  <2>2. Intact
    BY <1>4 DEF Structure, Roles, Intact
  <2>3. job[w] \in Jobs /\ runs[job[w]] = 0
    BY <1>4, <2>1 DEF JobsKept, Pending
  <2>4. ~idle[w] /\ \A c \in Callers : ~Holds(c, w)
    BY <2>1, <2>2 DEF OneUse, AtRest
  <2>5. \A v \in Workers : wpc[v] = "running" => v # w /\ job[v] # job[w]
    BY <2>1, <2>3 DEF RunningKept
  <2>6. runs'[job[w]] = 1 /\ \A j \in Jobs : j # job[w] => runs'[j] = runs[j]
    BY <1>0, <2>1, <2>3
  <2>7. \A v \in Workers : wpc'[v] = "running" <=> wpc[v] = "running" \/ v = w
    BY <1>0, <2>1
  <2>8. QED
    BY <1>1, <2>1, <2>3, <2>4, <2>5, <2>6, <2>7 DEF RunningKept
<1>5. QED
  BY <1>2, <1>3, <1>4 DEF WorkerStep

LEMMA RunningKeptCall ==
    ASSUME Structure, HeldExists, RunningKept, NEW c \in Callers,
           \/ CallStep(c)
           \/ WaitForIdle(c)
           \/ \E j \in Jobs : SubmitJob(c, j)
    PROVE  RunningKept'
<1> USE DEF MoveCaller, shared, contexts
<1>0. /\ cpc \in [Callers -> CallerStates]
      /\ wpc \in [Workers -> WorkerStates]
      /\ idle \in [Workers -> BOOLEAN]
      /\ got \in [Callers -> Workers \cup {NoWorker}]
      /\ job \in [Workers -> Jobs \cup {NoJob}]
  BY DEF Structure, TypeOK
<1>1. CASE Scan(c)
  <2>1. CASE at[c] <= size /\ idle[at[c]]
    <3>1. /\ got' = [got EXCEPT ![c] = at[c]] /\ idle' = [idle EXCEPT ![at[c]] = FALSE]
          /\ cpc' = [cpc EXCEPT ![c] = "unlock"]
          /\ UNCHANGED <<wpc, job, runs>>
      BY <1>1, <2>1 DEF Scan, Structure, TypeOK
    <3>2. at[c] \in Workers
      BY <2>1, SizeAssumption DEF Structure, TypeOK, Workers
    <3>3. wpc[at[c]] # "running"
      BY <2>1, <3>2 DEF RunningKept
    <3>4. \A d \in Callers, w \in Workers : Holds(d, w)' => Holds(d, w) \/ w = at[c]
      BY <1>0, <3>1 DEF Holds
    <3>5. \A w \in Workers : idle'[w] => idle[w]
      BY <1>0, <3>1
    <3>6. QED
      BY <3>1, <3>3, <3>4, <3>5, RunningKeptElsewhere
  <2>2. CASE ~(at[c] <= size /\ idle[at[c]])
    <3>1. /\ UNCHANGED <<idle, got, wpc, job, runs>>
          /\ cpc' = cpc \/ (cpc' = [cpc EXCEPT ![c] = "unlock"] /\ at[c] > size)
          /\ cpc[c] = "scan"
      BY <1>1, <2>2 DEF Scan, Structure, TypeOK
    <3>2. got[c] = NoWorker
      BY <3>1 DEF HeldExists
    <3>3. \A d \in Callers, w \in Workers : Holds(d, w)' => Holds(d, w)
      BY <1>0, <3>1, <3>2, CallerNames DEF Holds
    <3>4. QED
      BY <3>1, <3>3, RunningKeptElsewhere
  <2>3. QED
    BY <2>1, <2>2
<1>2. CASE Probe(c)
  <2>1. CASE idleCount = 0 /\ CanGrow
    <3>1. PICK w \in Workers : ExtendPool(c, w)
      BY <1>2, <2>1 DEF Probe
    <3>2. wpc[w] = "absent" /\ wpc'[w] = "loop"
      BY <1>0, <3>1 DEF ExtendPool, Structure, TypeOK, PoolShape
    <3>3. /\ UNCHANGED <<job, runs>> /\ cpc' = [cpc EXCEPT ![c] = "unlock"]
          /\ wpc' = [wpc EXCEPT ![w] = "loop"]
          /\ idle' = [idle EXCEPT ![w] = FALSE] /\ got' = [got EXCEPT ![c] = w]
      BY <1>2, <2>1, <3>1 DEF Probe, ExtendPool
    <3>4. \A d \in Callers, v \in Workers : Holds(d, v)' => Holds(d, v) \/ v = w
      BY <1>0, <3>3 DEF Holds
    <3>5. \A v \in Workers : wpc'[v] = "running" =>
             wpc[v] = "running" /\ v # w /\ (idle'[v] => idle[v])
      BY <1>0, <3>2, <3>3
    <3>6. QED
      BY <3>3, <3>4, <3>5, RunningKeptElsewhere
  <2>2. CASE ~(idleCount = 0 /\ CanGrow)
    <3>1. UNCHANGED <<wpc, job, runs, idle, got>> /\ cpc' = [cpc EXCEPT ![c] = "await"]
      BY <1>2, <2>2 DEF Probe
    <3>2. \A d \in Callers, v \in Workers : Holds(d, v)' => Holds(d, v)
      BY <1>0, <3>1 DEF Holds
    <3>3. QED
      BY <3>1, <3>2, RunningKeptElsewhere
  <2>3. QED
    BY <2>1, <2>2
<1>3. CASE Assign(c)
  <2>1. /\ cpc[c] = "assign" /\ cpc' = [cpc EXCEPT ![c] = "start"]
        /\ job' = [job EXCEPT ![got[c]] = cjob[c]]
        /\ UNCHANGED <<wpc, runs, idle, got>>
    BY <1>3 DEF Assign
  <2>2. \A w \in Workers : wpc[w] = "running" => got[c] # w
    BY <2>1 DEF RunningKept, Holds
  <2>3. \A d \in Callers, w \in Workers : Holds(d, w)' => Holds(d, w)
    BY <1>0, <2>1 DEF Holds
  <2>4. \A w \in Workers : wpc[w] = "running" => job'[w] = job[w]
    BY <1>0, <2>1, <2>2
  <2>5. QED
    BY <2>1, <2>3, <2>4, RunningKeptElsewhere
<1>4. CASE AwaitIdle(c)
  <2>1. /\ cpc' = [cpc EXCEPT ![c] = "scan"] /\ got' = [got EXCEPT ![c] = NoWorker]
        /\ UNCHANGED <<wpc, job, runs, idle>>
    BY <1>4 DEF AwaitIdle
  <2>2. \A d \in Callers, w \in Workers : Holds(d, w)' => Holds(d, w)
    BY <1>0, <2>1 DEF Holds
  <2>3. QED
    BY <2>1, <2>2, RunningKeptElsewhere
<1>5. CASE \/ Lock(c) \/ Unlock(c) \/ StartJob(c) \/ LockToWait(c) \/ WaitLoop(c)
           \/ WaitIdle(c) \/ ResignalIdle(c) \/ UnlockToReturn(c) \/ WaitForIdle(c)
           \/ \E j \in Jobs : SubmitJob(c, j)
  <2>1. UNCHANGED <<wpc, job, runs, idle, got>>
    BY <1>5 DEF Lock, Unlock, StartJob, LockToWait, WaitLoop, WaitIdle, ResignalIdle,
                UnlockToReturn, WaitForIdle, SubmitJob
  <2>2. \A d \in Callers : cpc'[d] \in {"unlock", "assign", "start"} =>
            cpc[d] \in {"unlock", "assign", "start"}
    BY <1>0, <1>5
       DEF Lock, Unlock, StartJob, LockToWait, WaitLoop, WaitIdle, ResignalIdle,
           UnlockToReturn, WaitForIdle, SubmitJob
  <2>3. QED
    BY <2>1, <2>2, RunningKeptElsewhere DEF Holds
<1>6. QED
  BY <1>1, <1>2, <1>3, <1>4, <1>5 DEF CallStep

LEMMA RunningKeptDestroy ==
    ASSUME Structure, RunningKept, BeginDestroy \/ DestroyStep
    PROVE  RunningKept'
<1>0. cpc \in [Callers -> CallerStates] /\ wpc \in [Workers -> WorkerStates]
  BY DEF Structure, TypeOK
<1>1. /\ UNCHANGED <<job, runs, idle, got>>
      /\ \A d \in Callers : cpc'[d] \in {"unlock", "assign", "start"} => cpc'[d] = cpc[d]
      /\ \A w \in Workers : wpc'[w] = "running" => wpc[w] = "running"
  BY <1>0, CallerNames
     DEF BeginDestroy, DestroyStep, CountThreads, SignalAll, JoinAndFree, MoveCaller,
         MoveWorker, shared, contexts
<1>2. QED
  BY <1>1, RunningKeptElsewhere DEF Holds

LEMMA RunningKeptStep ==
    Structure /\ OneUse /\ HeldExists /\ JobsKept /\ RunningKept /\ [Next]_vars => RunningKept'
<1> SUFFICES ASSUME Structure, OneUse, HeldExists, JobsKept, RunningKept, [Next]_vars
             PROVE  RunningKept'
  OBVIOUS
<1>1. CASE UNCHANGED vars
  BY <1>1, RunningKeptElsewhere DEF vars, Holds
<1>2. CASE Finished
  BY <1>1, <1>2 DEF Finished
<1>3. QED
  BY <1>1, <1>2, RunningKeptWorker, RunningKeptCall, RunningKeptDestroy DEF Next

-----------------------------------------------------------------------------
LEMMA JobsInit == Init => OpenCalls /\ JobsKept /\ RunningKept
BY DEF Init, OpenCalls, SubmitStates, JobsKept, Pending, RunningKept

(***************************************************************************)
(* IInv, the conjunction of everything above, is an invariant.             *)
(***************************************************************************)
THEOREM IInvHolds == Spec => []IInv
<1>1. Init => IInv
  BY StructureInit, HandoutInit, JobsInit DEF IInv
<1>2. IInv /\ [Next]_vars => IInv'
  BY StructureStep, OneUseStep, HeldExistsStep, AccountingStep, FoundStep,
     OpenCallsStep, JobsKeptStep, RunningKeptStep DEF IInv, Handout
<1>3. QED
  BY <1>1, <1>2, PTL DEF Spec, SafeSpec

(***************************************************************************)
(* Before the pool is destroyed each job whose submitJob() returned has    *)
(* been called, or waits with the thread that will call it; and no job is  *)
(* ever called twice, destroyed pool or not.                               *)
(***************************************************************************)
THEOREM AcceptedJobKeptHolds == Spec => []AcceptedJobKept
<1>1. IInv => AcceptedJobKept
  BY DEF IInv, JobsKept, Pending, AcceptedJobKept
<1>2. QED
  BY <1>1, IInvHolds, PTL
-----------------------------------------------------------------------------
(* The pool implements JobExecutor *)

LEMMA StatusMoves ==
    ASSUME NEW j \in Jobs, NEW from, NEW to,
           Status(j) = from, Status(j)' = to,
           \A i \in Jobs : i # j => Status(i)' = Status(i)
    PROVE  Executor!Move(j, from, to)
BY DEF Executor!Move

\* A step that moves no job on: what Status looks at stays the same.
LEMMA StatusStays ==
    ASSUME \A j \in Jobs :
               /\ call'[j] = "refused" <=> call[j] = "refused"
               /\ call'[j] = "returned" <=> call[j] = "returned",
           UNCHANGED runs,
           \A w \in Workers :
               /\ wpc'[w] = "running" <=> wpc[w] = "running"
               /\ wpc[w] = "running" => job'[w] = job[w]
    PROVE  UNCHANGED [j \in Jobs |-> Status(j)]
<1>1. \A j \in Jobs : Status(j)' = Status(j)
  BY DEF Status
<1>2. QED
  BY <1>1

\* A job whose submitJob() has not returned is not running and has not run.
LEMMA NewJob ==
    ASSUME JobsKept, RunningKept, NEW j \in Jobs, call[j] # "returned"
    PROVE  runs[j] = 0 /\ \A w \in Workers : wpc[w] = "running" => job[w] # j
BY DEF JobsKept, RunningKept

LEMMA ExecutorCall ==
    ASSUME IInv, NEW c \in Callers,
           \/ CallStep(c)
           \/ WaitForIdle(c)
           \/ \E j \in Jobs : SubmitJob(c, j)
    PROVE  [Executor!Next]_([j \in Jobs |-> Status(j)])
<1> USE DEF MoveCaller, shared, contexts
<1>0. /\ wpc \in [Workers -> WorkerStates]
      /\ job \in [Workers -> Jobs \cup {NoJob}]
      /\ call \in [Jobs -> {"none", "open", "returned", "refused", "noThread"}]
      /\ runs \in [Jobs -> Nat]
  BY DEF IInv, Structure, TypeOK
<1>1. CASE \E j \in Jobs : SubmitJob(c, j)
  <2>1. PICK j \in Jobs : SubmitJob(c, j)
    BY <1>1
  <2>2. call[j] = "none" /\ UNCHANGED <<runs, wpc, job>>
    BY <2>1 DEF SubmitJob
  <2>3. runs[j] = 0 /\ \A w \in Workers : wpc[w] = "running" => job[w] # j
    BY <2>2, NewJob DEF IInv
  <2>4. CASE closing
    <3>1. call' = [call EXCEPT ![j] = "refused"]
      BY <2>1, <2>4 DEF SubmitJob
    <3>2. Status(j) = "new" /\ Status(j)' = "refused"
      BY <1>0, <2>2, <2>3, <3>1 DEF Status
    <3>3. \A i \in Jobs : i # j => Status(i)' = Status(i)
      BY <1>0, <2>2, <3>1 DEF Status
    <3>4. Executor!Refuse(j)
      BY <3>2, <3>3, StatusMoves DEF Executor!Refuse
    <3>5. QED
      BY <3>4 DEF Executor!Next
  <2>5. CASE ~closing
    <3>1. call' = [call EXCEPT ![j] = "open"]
      BY <2>1, <2>5 DEF SubmitJob
    <3>2. UNCHANGED [i \in Jobs |-> Status(i)]
      BY <1>0, <2>2, <3>1, StatusStays
    <3>3. QED
      BY <3>2
  <2>6. QED
    BY <2>4, <2>5
<1>2. CASE StartJob(c)
  <2>1. /\ cpc[c] = "start" /\ call' = [call EXCEPT ![cjob[c]] = "returned"]
        /\ UNCHANGED <<runs, wpc, job>>
    BY <1>2 DEF StartJob
  <2>2. PICK j \in Jobs : j = cjob[c] /\ call[j] = "open"
    BY <2>1 DEF IInv, OpenCalls, SubmitStates
  <2>3. runs[j] = 0 /\ \A w \in Workers : wpc[w] = "running" => job[w] # j
    BY <2>2, NewJob DEF IInv
  <2>4. Status(j) = "new" /\ Status(j)' = "accepted"
    <3>1. call'[j] = "returned"
      BY <1>0, <2>1, <2>2
    <3>2. QED
      BY <2>1, <2>2, <2>3, <3>1 DEF Status
  <2>5. \A i \in Jobs : i # j => Status(i)' = Status(i)
    BY <1>0, <2>1, <2>2 DEF Status
  <2>6. Executor!Submit(j)
    BY <2>4, <2>5, StatusMoves DEF Executor!Submit
  <2>7. QED
    BY <2>6 DEF Executor!Next
<1>3. CASE Unlock(c)
  <2>1. UNCHANGED <<runs, wpc, job>> /\ cpc[c] = "unlock"
    BY <1>3 DEF Unlock
  <2>2. cjob[c] \in Jobs /\ call[cjob[c]] = "open"
    BY <2>1 DEF IInv, OpenCalls, SubmitStates
  <2>3. call' = call \/ call' = [call EXCEPT ![cjob[c]] = "noThread"]
    BY <1>3 DEF Unlock
  <2>4. UNCHANGED [i \in Jobs |-> Status(i)]
    BY <1>0, <2>1, <2>2, <2>3, StatusStays
  <2>5. QED
    BY <2>4
<1>4. CASE Assign(c)
  <2>1. UNCHANGED <<call, runs, wpc>> /\ job' = [job EXCEPT ![got[c]] = cjob[c]]
        /\ cpc[c] = "assign"
    BY <1>4 DEF Assign
  <2>2. \A w \in Workers : wpc[w] = "running" => got[c] # w
    BY <2>1 DEF IInv, RunningKept, Holds
  <2>3. \A w \in Workers : wpc[w] = "running" => job'[w] = job[w]
    BY <1>0, <2>1, <2>2
  <2>4. UNCHANGED [i \in Jobs |-> Status(i)]
    BY <2>1, <2>3, StatusStays
  <2>5. QED
    BY <2>4
<1>5. CASE Probe(c)
  <2>1. /\ UNCHANGED <<call, runs, job>>
        /\ \A w \in Workers : wpc'[w] = "running" <=> wpc[w] = "running"
    <3>1. CASE idleCount = 0 /\ CanGrow
      <4>1. PICK w \in Workers : ExtendPool(c, w)
        BY <1>5, <3>1 DEF Probe
      <4>2. wpc[w] = "absent" /\ wpc' = [wpc EXCEPT ![w] = "loop"]
        BY <4>1 DEF ExtendPool, IInv, Structure, TypeOK, PoolShape
      <4>3. QED
        BY <1>0, <1>5, <4>2 DEF Probe
    <3>2. CASE ~(idleCount = 0 /\ CanGrow)
      BY <1>5, <3>2 DEF Probe
    <3>3. QED
      BY <3>1, <3>2
  <2>2. UNCHANGED [i \in Jobs |-> Status(i)]
    BY <2>1, StatusStays
  <2>3. QED
    BY <2>2
<1>6. CASE \/ Lock(c) \/ AwaitIdle(c) \/ Scan(c) \/ LockToWait(c) \/ WaitLoop(c)
           \/ WaitIdle(c) \/ ResignalIdle(c) \/ UnlockToReturn(c) \/ WaitForIdle(c)
  <2>1. UNCHANGED <<call, runs, wpc, job>>
    BY <1>6 DEF Lock, AwaitIdle, Scan, LockToWait, WaitLoop, WaitIdle, ResignalIdle,
                UnlockToReturn, WaitForIdle
  <2>2. UNCHANGED [i \in Jobs |-> Status(i)]
    BY <2>1, StatusStays
  <2>3. QED
    BY <2>2
<1>7. QED
  BY <1>1, <1>2, <1>3, <1>4, <1>5, <1>6 DEF CallStep

\* There is room for one more job where a worker is free.
LEMMA RoomToRun ==
    ASSUME JobsKept, RunningKept, NEW w \in Workers, wpc[w] # "running", MaxPoolSize # 0
    PROVE  Cardinality(Executor!Running) < MaxPoolSize
<1> DEFINE busy == {v \in Workers : wpc[v] = "running"}
           on   == [v \in busy |-> job[v]]
<1>1. /\ IsFiniteSet(Workers \ {w})
      /\ Cardinality(Workers \ {w}) = MaxPoolSize - 1
  <2>1. IsFiniteSet(Workers) /\ Cardinality(Workers) = MaxPoolSize
    BY SizeAssumption, FS_Interval DEF Workers
  <2>2. QED
    BY <2>1, FS_RemoveElement
<1>2. IsFiniteSet(busy) /\ Cardinality(busy) <= MaxPoolSize - 1
  <2>1. busy \subseteq Workers \ {w}
    OBVIOUS
  <2>2. QED
    BY <1>1, <2>1, FS_Subset
<1>3. on \in Surjection(busy, Executor!Running)
  <2>1. \A j \in Executor!Running : \E v \in busy : job[v] = j
    BY DEF Status, Executor!Running
  <2>2. \A v \in busy : job[v] \in Executor!Running
    BY DEF RunningKept, JobsKept, Status, Executor!Running
  <2>3. on \in [busy -> Executor!Running] /\ \A v \in busy : on[v] = job[v]
    BY <2>2
  <2>4. QED
    BY <2>1, <2>3 DEF Surjection
<1>4. IsFiniteSet(Executor!Running) /\ Cardinality(Executor!Running) <= Cardinality(busy)
  BY <1>2, <1>3, FS_Surjection
<1>5. Cardinality(Executor!Running) \in Nat /\ Cardinality(busy) \in Nat
  BY <1>2, <1>4, FS_CardinalityType
<1>6. QED
  BY <1>2, <1>4, <1>5, SizeAssumption

LEMMA ExecutorWorker ==
    ASSUME IInv, NEW w \in Workers, WorkerStep(w)
    PROVE  [Executor!Next]_([j \in Jobs |-> Status(j)])
<1> USE DEF MoveWorker, shared, contexts, callVars
<1>0. /\ wpc \in [Workers -> WorkerStates]
      /\ job \in [Workers -> Jobs \cup {NoJob}]
      /\ runs \in [Jobs -> Nat]
  BY DEF IInv, Structure, TypeOK
<1>1. CASE BeginJob(w) /\ ~closing
  <2>1. /\ wpc[w] = "woken" /\ wpc' = [wpc EXCEPT ![w] = "running"]
        /\ runs' = [runs EXCEPT ![job[w]] = @ + 1]
        /\ UNCHANGED <<job, call>>
    BY <1>1 DEF BeginJob
  <2>2. PICK j \in Jobs : j = job[w] /\ call[j] = "returned" /\ runs[j] = 0
    BY <1>1, <2>1 DEF IInv, JobsKept, Pending
  <2>3. \A v \in Workers : wpc[v] = "running" => job[v] # j
    BY <2>2 DEF IInv, RunningKept
  <2>4. wpc'[w] = "running" /\ \A v \in Workers : v # w => wpc'[v] = wpc[v]
    BY <1>0, <2>1
  <2>5. Status(j) = "accepted" /\ Status(j)' = "running"
    BY <2>1, <2>2, <2>3, <2>4 DEF Status
  <2>6. \A i \in Jobs : i # j => Status(i)' = Status(i)
    <3>1. \A i \in Jobs : i # j => runs'[i] = runs[i]
      BY <1>0, <2>1, <2>2
    <3>2. \A i \in Jobs : i # j =>
             ((\E v \in Workers : wpc'[v] = "running" /\ job[v] = i)
                <=> (\E v \in Workers : wpc[v] = "running" /\ job[v] = i))
      BY <2>1, <2>2, <2>4
    <3>3. QED
      BY <2>1, <3>1, <3>2 DEF Status
  <2>7. MaxPoolSize # 0 => Cardinality(Executor!Running) < MaxPoolSize
    BY <2>1, RoomToRun DEF IInv
  <2>8. Executor!Start(j)
    <3>1. Executor!Move(j, "accepted", "running")
      BY <2>5, <2>6, StatusMoves
    <3>2. Executor!Cardinality(Executor!Running) = Cardinality(Executor!Running)
      BY DEF Executor!Cardinality, Cardinality
    <3>3. QED
      BY <2>7, <3>1, <3>2 DEF Executor!Start
  <2>9. QED
    BY <2>8 DEF Executor!Next
<1>2. CASE EndJob(w)
  <2>1. /\ wpc[w] = "running" /\ wpc' = [wpc EXCEPT ![w] = "done"]
        /\ UNCHANGED <<job, call, runs>>
    BY <1>2 DEF EndJob
  <2>2. PICK j \in Jobs : j = job[w] /\ runs[j] = 1 /\ call[j] = "returned"
    BY <2>1 DEF IInv, RunningKept, JobsKept
  <2>3. \A v \in Workers : wpc'[v] = "running" <=> wpc[v] = "running" /\ v # w
    BY <1>0, <2>1
  <2>4. \A v \in Workers : wpc[v] = "running" /\ job[v] = j => v = w
    BY <2>1, <2>2 DEF IInv, RunningKept
  <2>5. Status(j) = "running" /\ Status(j)' = "done"
    BY <2>1, <2>2, <2>3, <2>4 DEF Status
  <2>6. \A i \in Jobs : i # j => Status(i)' = Status(i)
    BY <2>1, <2>2, <2>3 DEF Status
  <2>7. Executor!Finish(j)
    BY <2>5, <2>6, StatusMoves DEF Executor!Finish
  <2>8. QED
    BY <2>7 DEF Executor!Next
<1>3. CASE \/ LoopTest(w) \/ TakeStart(w) \/ MarkIdle(w) \/ CountIdle(w)
           \/ (BeginJob(w) /\ closing)
  <2>1. /\ UNCHANGED <<job, call, runs>>
        /\ \A v \in Workers : wpc'[v] = "running" <=> wpc[v] = "running"
    BY <1>0, <1>3 DEF LoopTest, TakeStart, MarkIdle, CountIdle, BeginJob
  <2>2. UNCHANGED [i \in Jobs |-> Status(i)]
    BY <2>1, StatusStays
  <2>3. QED
    BY <2>2
<1>4. QED
  BY <1>1, <1>2, <1>3 DEF WorkerStep

(***************************************************************************)
(* A pool of any size, with any number of callers, that may be destroyed   *)
(* at any time and whose jobs may submit others, implements the safety     *)
(* part of JobExecutor: it runs each job it accepted at most once, none    *)
(* that it refused, and never more than MaxPoolSize at a time.             *)
(***************************************************************************)
THEOREM ImplementsExecutorSafelyHolds == Spec => ImplementsExecutorSafely
<1>1. Init => Executor!Init
  BY DEF Init, Executor!Init, Status
<1>2. IInv /\ [Next]_vars => [Executor!Next]_([j \in Jobs |-> Status(j)])
  <2> SUFFICES ASSUME IInv, [Next]_vars
               PROVE  [Executor!Next]_([j \in Jobs |-> Status(j)])
    OBVIOUS
  <2>1. CASE UNCHANGED vars \/ Finished
    <3>1. UNCHANGED <<call, runs, wpc, job>>
      BY <2>1 DEF vars, Finished
    <3>2. UNCHANGED [j \in Jobs |-> Status(j)]
      BY <3>1, StatusStays
    <3>3. QED
      BY <3>2
  <2>2. CASE BeginDestroy \/ DestroyStep
    <3>1. /\ UNCHANGED <<call, runs, job>>
          /\ \A w \in Workers : wpc'[w] = "running" <=> wpc[w] = "running"
      BY <2>2
         DEF BeginDestroy, DestroyStep, CountThreads, SignalAll, JoinAndFree, MoveCaller,
             MoveWorker, shared, contexts, IInv, Structure, TypeOK
    <3>2. UNCHANGED [j \in Jobs |-> Status(j)]
      BY <3>1, StatusStays
    <3>3. QED
      BY <3>2
  <2>3. QED
    BY <2>1, <2>2, ExecutorWorker, ExecutorCall DEF Next
<1>3. QED
  BY <1>1, <1>2, IInvHolds, PTL
     DEF Spec, SafeSpec, ImplementsExecutorSafely, Executor!SafeSpec

-----------------------------------------------------------------------------
(* Pools that grow *)

\* A step that takes no job out of PlacedJobs and does not extend the pool.
LEMMA PlacedJobsGrow ==
    ASSUME IsFiniteSet(Jobs), PlacedJobs \subseteq PlacedJobs'
    PROVE  /\ Cardinality(PlacedJobs) \in Nat
           /\ Cardinality(PlacedJobs') \in Nat
           /\ Cardinality(PlacedJobs) <= Cardinality(PlacedJobs')
<1>1. PlacedJobs' \subseteq Jobs
  BY DEF PlacedJobs
<1>2. IsFiniteSet(PlacedJobs') /\ IsFiniteSet(PlacedJobs)
  BY <1>1, FS_Subset
<1>3. QED
  BY <1>2, FS_Subset, FS_CardinalityType

LEMMA GrowthElsewhere ==
    ASSUME IsFiniteSet(Jobs), Structure, Growth,
           UNCHANGED size, idleCount' \in Nat,
           \A d \in Callers : cpc'[d] = "await" => cpc[d] = "await" /\ idleCount' >= idleCount,
           PlacedJobs \subseteq PlacedJobs'
    PROVE  Growth'
<1>1. /\ Cardinality(PlacedJobs) \in Nat
      /\ Cardinality(PlacedJobs') \in Nat
      /\ Cardinality(PlacedJobs) <= Cardinality(PlacedJobs')
  BY PlacedJobsGrow
<1>2. size \in Nat /\ idleCount \in Nat
  BY DEF Structure, TypeOK
<1>3. QED
  BY <1>1, <1>2 DEF Growth, GrowingPoolNeverWaits

\* A step of a caller whose job stays placed, or unplaced, leaves the others'.
LEMMA PlacedJobsKept ==
    ASSUME UNCHANGED cjob,
           \A j \in Jobs : call[j] # "none" => call'[j] # "none",
           \A d \in Callers : cpc'[d] \in {"lock", "probe", "await"} =>
               cpc[d] \in {"lock", "probe", "await"}
    PROVE  PlacedJobs \subseteq PlacedJobs'
BY DEF PlacedJobs, Queued

LEMMA GrowthCall ==
    ASSUME IsFiniteSet(Jobs), Cardinality(Jobs) <= MaxThreads,
           Structure, OpenCalls, Growth, NEW c \in Callers,
           \/ CallStep(c)
           \/ WaitForIdle(c)
           \/ \E j \in Jobs : SubmitJob(c, j)
    PROVE  Growth'
<1> USE DEF MoveCaller, shared, contexts
<1>0. /\ cpc \in [Callers -> CallerStates]
      /\ cjob \in [Callers -> Jobs \cup {NoJob}]
      /\ call \in [Jobs -> {"none", "open", "returned", "refused", "noThread"}]
      /\ size \in 0 .. MaxThreads
      /\ idleCount \in Nat
      /\ MaxThreads \in Nat
  BY SizeAssumption DEF Structure, TypeOK
<1>1. CASE \E j \in Jobs : SubmitJob(c, j)
  <2>1. PICK j \in Jobs : SubmitJob(c, j)
    BY <1>1
  <2>2. /\ call[j] = "none"
        /\ \E s \in {"open", "refused"} : call' = [call EXCEPT ![j] = s]
        /\ cpc[c] = "out"
        /\ \/ UNCHANGED <<cpc, cjob>>
           \/ cpc' = [cpc EXCEPT ![c] = "lock"] /\ cjob' = [cjob EXCEPT ![c] = j]
        /\ UNCHANGED <<size, idleCount>>
    BY <1>0, <2>1 DEF SubmitJob
  <2>3. PlacedJobs \subseteq PlacedJobs'
    <3> SUFFICES ASSUME NEW i \in PlacedJobs PROVE i \in PlacedJobs'
      OBVIOUS
    <3>1. i \in Jobs /\ call[i] # "none" /\ ~Queued(i) /\ i # j
      BY <2>2 DEF PlacedJobs
    <3>2. call'[i] # "none"
      BY <1>0, <2>2, <3>1
    <3>3. ~Queued(i)'
      BY <1>0, <2>2, <3>1 DEF Queued
    <3>4. QED
      BY <3>1, <3>2, <3>3 DEF PlacedJobs
  <2>4. \A d \in Callers : cpc'[d] = "await" => cpc[d] = "await"
    BY <1>0, <2>2
  <2>5. QED
    BY <1>0, <2>2, <2>3, <2>4, GrowthElsewhere
<1>2. CASE Probe(c) /\ MaxPoolSize = 0
  <2>1. cpc[c] = "probe" /\ UNCHANGED <<cjob, call, idleCount>>
    BY <1>2 DEF Probe
  <2>2. PICK j \in Jobs : j = cjob[c] /\ call[j] = "open"
    BY <2>1 DEF OpenCalls, SubmitStates
  <2>3. j \notin PlacedJobs
    BY <2>1, <2>2 DEF PlacedJobs, Queued
  <2>4. /\ IsFiniteSet(PlacedJobs) /\ Cardinality(PlacedJobs) \in Nat
        /\ IsFiniteSet(PlacedJobs \cup {j})
        /\ Cardinality(PlacedJobs \cup {j}) = Cardinality(PlacedJobs) + 1
        /\ Cardinality(PlacedJobs \cup {j}) <= Cardinality(Jobs)
    <3>1. PlacedJobs \cup {j} \subseteq Jobs
      BY DEF PlacedJobs
    <3>2. IsFiniteSet(PlacedJobs) /\ IsFiniteSet(PlacedJobs \cup {j})
      BY <3>1, FS_Subset
    <3>3. QED
      BY <2>3, <3>1, <3>2, FS_AddElement, FS_Subset, FS_CardinalityType
  <2>5. Cardinality(Jobs) \in Nat
    BY FS_CardinalityType
  <2>6. size < MaxThreads
    BY <1>0, <1>2, <2>4, <2>5 DEF Growth
  <2>7. CASE idleCount = 0
    <3>1. PICK w \in Workers : ExtendPool(c, w)
      BY <1>2, <2>6, <2>7 DEF Probe, CanGrow
    <3>2. size' = size + 1 /\ cpc' = [cpc EXCEPT ![c] = "unlock"]
      BY <1>2, <2>6, <2>7, <3>1 DEF Probe, CanGrow, ExtendPool
    <3>3. ~Queued(j)' /\ \A i \in Jobs : ~Queued(i) => ~Queued(i)'
      BY <1>0, <2>1, <2>2, <3>2 DEF Queued, OpenCalls, SubmitStates
    <3>4. PlacedJobs \cup {j} \subseteq PlacedJobs'
      BY <2>1, <2>2, <3>3 DEF PlacedJobs
    <3>5. PlacedJobs' \subseteq Jobs
      BY DEF PlacedJobs
    <3>6. IsFiniteSet(PlacedJobs') /\ Cardinality(PlacedJobs') \in Nat
      BY <3>5, FS_Subset, FS_CardinalityType
    <3>7. Cardinality(PlacedJobs \cup {j}) <= Cardinality(PlacedJobs')
      BY <3>4, <3>6, FS_Subset
    <3>8. size' <= Cardinality(PlacedJobs')
      BY <1>0, <1>2, <2>4, <3>2, <3>6, <3>7 DEF Growth
    <3>9. \A d \in Callers : cpc'[d] # "await"
      BY <1>0, <1>2, <2>7, <3>2 DEF Growth, GrowingPoolNeverWaits
    <3>10. QED
      BY <3>8, <3>9 DEF Growth, GrowingPoolNeverWaits
  <2>8. CASE idleCount > 0
    <3>1. cpc' = [cpc EXCEPT ![c] = "await"] /\ UNCHANGED size
      BY <1>2, <2>8 DEF Probe
    <3>2. PlacedJobs \subseteq PlacedJobs'
      BY <1>0, <2>1, <3>1, PlacedJobsKept
    <3>3. Cardinality(PlacedJobs) <= Cardinality(PlacedJobs') /\ Cardinality(PlacedJobs') \in Nat
      BY <3>2, PlacedJobsGrow
    <3>4. size' <= Cardinality(PlacedJobs')
      BY <1>0, <1>2, <2>4, <3>1, <3>3 DEF Growth
    <3>5. QED
      BY <2>1, <2>8, <3>4 DEF Growth, GrowingPoolNeverWaits
  <2>9. QED
    BY <1>0, <2>7, <2>8
<1>3. CASE Probe(c) /\ MaxPoolSize # 0
  BY <1>3 DEF Growth
<1>4. CASE AwaitIdle(c) \/ WaitIdle(c)
  <2>1. /\ idleCount' \in Nat /\ UNCHANGED <<size, cjob, call>>
        /\ \E s \in {"scan", "wresignal"} : cpc' = [cpc EXCEPT ![c] = s]
        /\ cpc[c] \in {"await", "wawait"}
    BY <1>0, <1>4 DEF AwaitIdle, WaitIdle
  <2>2. \A d \in Callers : d # c => cpc[d] # "await"
    BY <2>1, CallerNames DEF Structure, LockHeld, LockStates
  <2>3. \A d \in Callers : cpc'[d] # "await"
    BY <1>0, <2>1, <2>2
  <2>4. PlacedJobs \subseteq PlacedJobs'
    BY <1>0, <2>1, PlacedJobsKept
  <2>5. QED
    BY <2>1, <2>3, <2>4, GrowthElsewhere
<1>5. CASE \/ Lock(c) \/ Scan(c) \/ Unlock(c) \/ Assign(c) \/ StartJob(c) \/ LockToWait(c)
           \/ WaitLoop(c) \/ ResignalIdle(c) \/ UnlockToReturn(c) \/ WaitForIdle(c)
  <2>1. /\ UNCHANGED <<size, cjob>>
        /\ idleCount' = idleCount \/ idleCount' = idleCount + 1
        /\ \A j \in Jobs : call[j] # "none" => call'[j] # "none"
    BY <1>0, <1>5
       DEF Lock, Scan, Unlock, Assign, StartJob, LockToWait, WaitLoop, ResignalIdle,
           UnlockToReturn, WaitForIdle
  <2>2. \A d \in Callers :
           /\ cpc'[d] \in {"lock", "probe", "await"} => cpc[d] \in {"lock", "probe", "await"}
           /\ cpc'[d] = "await" => cpc[d] = "await"
    BY <1>0, <1>5
       DEF Lock, Scan, Unlock, Assign, StartJob, LockToWait, WaitLoop, ResignalIdle,
           UnlockToReturn, WaitForIdle
  <2>3. PlacedJobs \subseteq PlacedJobs'
    BY <2>1, <2>2, PlacedJobsKept
  <2>4. QED
    BY <1>0, <2>1, <2>2, <2>3, GrowthElsewhere
<1>6. QED
  BY <1>1, <1>2, <1>3, <1>4, <1>5 DEF CallStep

LEMMA GrowthStep ==
    ASSUME IsFiniteSet(Jobs), Cardinality(Jobs) <= MaxThreads,
           Structure, OpenCalls, Growth, [Next]_vars
    PROVE  Growth'
<1>0. /\ idleCount \in Nat
      /\ cpc \in [Callers -> CallerStates]
  BY DEF Structure, TypeOK
<1>1. CASE UNCHANGED vars \/ Finished
  <2>1. UNCHANGED <<cpc, cjob, call, size, idleCount>>
    BY <1>1 DEF vars, Finished
  <2>2. PlacedJobs \subseteq PlacedJobs'
    BY <2>1, PlacedJobsKept
  <2>3. QED
    BY <1>0, <2>1, <2>2, GrowthElsewhere
<1>2. ASSUME NEW w \in Workers, WorkerStep(w) PROVE Growth'
  <2>1. /\ UNCHANGED <<cpc, cjob, call, size>>
        /\ idleCount' = idleCount \/ idleCount' = idleCount + 1
    BY <1>2 DEF WorkerStep, LoopTest, TakeStart, BeginJob, EndJob, MarkIdle, CountIdle,
                shared, contexts, callVars
  <2>2. PlacedJobs \subseteq PlacedJobs'
    BY <2>1, PlacedJobsKept
  <2>3. QED
    BY <1>0, <2>1, <2>2, GrowthElsewhere
<1>3. CASE BeginDestroy \/ DestroyStep
  <2>1. /\ UNCHANGED <<cjob, call, size, idleCount>>
        /\ \A d \in Callers : cpc'[d] \in {"lock", "probe", "await"} => cpc'[d] = cpc[d]
    BY <1>0, <1>3 DEF BeginDestroy, DestroyStep, CountThreads, SignalAll, JoinAndFree,
                      MoveCaller, shared, contexts
  <2>2. PlacedJobs \subseteq PlacedJobs'
    BY <2>1, PlacedJobsKept
  <2>3. QED
    BY <1>0, <2>1, <2>2, GrowthElsewhere
<1>4. QED
  BY <1>1, <1>2, <1>3, GrowthCall DEF Next

(***************************************************************************)
(* In a pool that grows, submitJob() finds m_idleCountEvent signalled at   *)
(* nthreadPool.cxx:149.  The code puts no limit to how far such a pool     *)
(* grows; so that MaxThreads, the model's, is not reached, there are no    *)
(* more calls of submitJob() than it allows for.                           *)
(***************************************************************************)
THEOREM GrowingPoolNeverWaitsHolds ==
    ASSUME IsFiniteSet(Jobs), Cardinality(Jobs) <= MaxThreads
    PROVE  Spec => []GrowingPoolNeverWaits
<1>1. Init => Growth
  <2> SUFFICES ASSUME Init, MaxPoolSize = 0 PROVE Growth
    BY DEF Growth
  <2>1. size = 0 /\ PlacedJobs = {} /\ \A d \in Callers : cpc[d] # "await"
    BY DEF Init, PlacedJobs
  <2>2. QED
    BY <2>1, FS_EmptySet DEF Growth, GrowingPoolNeverWaits
<1>2. IInv /\ Growth /\ [Next]_vars => Growth'
  BY GrowthStep DEF IInv
<1>3. Growth => GrowingPoolNeverWaits
  BY DEF Growth, GrowingPoolNeverWaits
<1>4. QED
  BY <1>1, <1>2, <1>3, IInvHolds, PTL DEF Spec, SafeSpec
=============================================================================
