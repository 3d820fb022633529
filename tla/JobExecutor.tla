---------------------------- MODULE JobExecutor ----------------------------
(***************************************************************************)
(* What nthreadPool.h promises of submitJob() (lines 44-55): an accepted   *)
(* job is run once, by at most Limit threads at a time (Limit 0: as many   *)
(* as it takes); a pool that is being destroyed refuses jobs.              *)
(***************************************************************************)
EXTENDS Integers, FiniteSets

CONSTANTS Jobs, Limit

VARIABLES status   \* status[j]: how far the pool has got with job j

Init == status = [j \in Jobs |-> "new"]

Move(j, from, to) ==
    /\ status[j] = from
    /\ status' = [status EXCEPT ![j] = to]

Running == {j \in Jobs : status[j] = "running"}

Submit(j) == Move(j, "new", "accepted")

Refuse(j) == Move(j, "new", "refused")

Start(j) ==
    /\ Limit # 0 => Cardinality(Running) < Limit
    /\ Move(j, "accepted", "running")

Finish(j) == Move(j, "running", "done")

Next == \E j \in Jobs : Submit(j) \/ Refuse(j) \/ Start(j) \/ Finish(j)

\* Every accepted job is run to its end.
Fairness == \A j \in Jobs : WF_status(Start(j)) /\ WF_status(Finish(j))

SafeSpec == Init /\ [][Next]_status

Spec == SafeSpec /\ Fairness
=============================================================================
