--------------------------- MODULE MCNthreadPool ---------------------------
(***************************************************************************)
(* NthreadPool on small instances: pools of fixed size and ones that grow, *)
(* jobs that call the pool themselves, pools that are destroyed.           *)
(***************************************************************************)
EXTENDS NthreadPoolInv, TLC

\* Every job may submit another one.
JobsAndClients == Clients \cup Workers

NoCallers == {}
=============================================================================
