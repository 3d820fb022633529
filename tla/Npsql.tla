------------------------------- MODULE Npsql -------------------------------
(***************************************************************************)
(* Npsql (src/src/npsql.cxx) and NpsqlResult (src/src/npsqlResult.cxx):    *)
(* threads that each open a database of their own, one at a time because   *)
(* PQconnectdb() is not reentrant, and query it into an NpsqlResult they   *)
(* keep, or into none.  libpq is external: PQconnectdb() returns NULL or a *)
(* connection, PQexec() a result that is the caller's to PQclear().        *)
(***************************************************************************)
EXTENDS Integers

CONSTANTS
    Users,      \* the threads, each with an Npsql and an NpsqlResult
    MaxQueries, \* BOUND: how many queries a user makes
    Answers     \* what a PGresult may say: "ok", "copy", "empty", "badResponse", "nonfatal",
                \* "fatal" or "unknown"

VARIABLES
    m_notReentrant, \* who holds it, {} or one user
    at,         \* where each user is
    db,         \* "none", or what PQstatus() says of the user's connection
    held,       \* the PGresult in the user's NpsqlResult, 0 for NULL
    result,     \* that of the query under way, 0 when there is none
    kept,       \* whether the query under way was given the NpsqlResult
    says,       \* PQresultStatus() of the last result
    returned,   \* what the last query returned
    made, live, lost \* PGresults: how many, not cleared, left to nobody

psqlvars == <<m_notReentrant, at, db, held, result, kept, says, returned, made, live, lost>>
resultVars == <<held, result, kept, says, returned, made, live, lost>>

PsqlInit ==
    /\ m_notReentrant = {}
    /\ at = [u \in Users |-> "lock"] /\ db = [u \in Users |-> "none"]
    /\ held = [u \in Users |-> 0] /\ result = [u \in Users |-> 0]
    /\ kept = [u \in Users |-> FALSE]
    /\ says = [u \in Users |-> "ok"] /\ returned = [u \in Users |-> TRUE]
    /\ made = [u \in Users |-> 0]
    /\ live = [u \in Users |-> {}] /\ lost = [u \in Users |-> {}]

Goes(u, to) == at' = [at EXCEPT ![u] = to]

\* m_notReentrant.lock().
LockConnecting(u) ==
    /\ at[u] = "lock" /\ m_notReentrant = {}
    /\ m_notReentrant' = {u}
    /\ Goes(u, "connect")
    /\ UNCHANGED <<db, resultVars>>

\* PQconnectdb() returns, which takes as long as the server likes: `params' has no
\* timeout, and nobody else can connect meanwhile.
Connect(u) ==
    /\ at[u] = "connect"
    /\ \E c \in {"none", "waiting", "ok", "bad"} : db' = [db EXCEPT ![u] = c]
    /\ Goes(u, "unlock")
    /\ UNCHANGED <<m_notReentrant, resultVars>>

\* An unlock after the test of what PQconnectdb() returned.
UnlockAfterTest(u) ==
    /\ at[u] = "unlock"
    /\ m_notReentrant' = IF db[u] = "none" THEN m_notReentrant ELSE {}
    /\ Goes(u, IF db[u] = "none" THEN "thrown" ELSE "wait")
    /\ UNCHANGED <<db, resultVars>>

\* The unlock comes before the test of what PQconnectdb() returned.
UnlockConnecting(u) ==
    /\ at[u] = "unlock"
    /\ m_notReentrant' = {}
    /\ Goes(u, IF db[u] = "none" THEN "thrown" ELSE "wait")
    /\ UNCHANGED <<db, resultVars>>

\* waitForDb(), of the constructor and of the destructor: it sleeps for as long
\* as the connection is being made, which the server ends.
ServerAnswers(u) ==
    /\ db[u] = "waiting"
    /\ \E c \in {"ok", "bad"} : db' = [db EXCEPT ![u] = c]
    /\ UNCHANGED <<m_notReentrant, at, resultVars>>

waitForDb(u) ==
    /\ at[u] = "wait" /\ db[u] # "waiting"
    /\ Goes(u, IF db[u] = "ok" THEN "ready" ELSE "thrown")
    /\ UNCHANGED <<m_notReentrant, db, resultVars>>

\* query(), with an NpsqlResult or without: PQexec() returns, when the server has
\* answered, a new result, or NULL, which reads as a fatal error.
StartQuery(u, keep) ==
    /\ at[u] = "ready" /\ made[u] < MaxQueries
    /\ kept' = [kept EXCEPT ![u] = keep]
    /\ Goes(u, "exec")
    /\ UNCHANGED <<m_notReentrant, db, held, result, says, returned, made, live, lost>>

PQexec(u) ==
    /\ at[u] = "exec"
    /\ made' = [made EXCEPT ![u] = @ + 1]
    /\ \/ /\ \E s \in Answers : says' = [says EXCEPT ![u] = s]
          /\ result' = [result EXCEPT ![u] = made'[u]]
          /\ live' = [live EXCEPT ![u] = @ \cup {made'[u]}]
       \/ /\ says' = [says EXCEPT ![u] = "fatal"]
          /\ UNCHANGED <<result, live>>
    /\ Goes(u, "assign")
    /\ UNCHANGED <<m_notReentrant, db, held, kept, returned, lost>>

\* NpsqlResult::operator =, which clears what it held: a query that was given
\* the NpsqlResult hands the PGresult over to it.
closeResult(u) == IF kept[u] THEN {held[u]} ELSE {}

Assign(u) ==
    /\ at[u] = "assign"
    /\ live' = [live EXCEPT ![u] = @ \ closeResult(u)]
    /\ held' = [held EXCEPT ![u] = IF kept[u] THEN result[u] ELSE @]
    /\ Goes(u, "loop")
    /\ UNCHANGED <<m_notReentrant, db, result, kept, says, returned, made, lost>>

\* The loop on PQresultStatus().  A copy is waited for, and since nobody reads
\* or writes its data, and the status of a PGresult never changes, for ever.
Incomprehensible(u) == says[u] \in {"badResponse", "unknown"}
Done(u) == says[u] \notin {"copy"} /\ ~Incomprehensible(u)

Throw(u) ==
    /\ at[u] = "loop" /\ Incomprehensible(u)
    /\ lost' = [lost EXCEPT ![u] = IF kept[u] \/ result[u] = 0 THEN @ ELSE @ \cup {result[u]}]
    /\ result' = [result EXCEPT ![u] = 0]
    /\ Goes(u, "ready")
    /\ UNCHANGED <<m_notReentrant, db, held, kept, says, returned, made, live>>

\* A result that was not handed over is cleared, or, wrongly, every result.
ClearsAll(u) == {result[u]}
Clears(u) == IF kept[u] THEN {} ELSE {result[u]}

Conclude(u) ==
    /\ at[u] = "loop" /\ Done(u)
    /\ returned' = [returned EXCEPT ![u] = says[u] = "ok"]
    /\ live' = [live EXCEPT ![u] = @ \ Clears(u)]
    /\ result' = [result EXCEPT ![u] = 0]
    /\ Goes(u, "ready")
    /\ UNCHANGED <<m_notReentrant, db, held, kept, says, made, lost>>

\* ~Npsql() and ~NpsqlResult().
Finish(u) ==
    /\ at[u] = "ready" /\ db[u] # "waiting"
    /\ Goes(u, "gone")
    /\ db' = [db EXCEPT ![u] = "none"]
    /\ live' = [live EXCEPT ![u] = @ \ {held[u]}]
    /\ held' = [held EXCEPT ![u] = 0]
    /\ UNCHANGED <<m_notReentrant, result, kept, says, returned, made, lost>>

UserStep(u) ==
    LockConnecting(u) \/ UnlockConnecting(u) \/ waitForDb(u) \/ Assign(u) \/ Throw(u) \/ Conclude(u)

\* What happens only when the server answers.
ServerStep(u) == Connect(u) \/ ServerAnswers(u) \/ PQexec(u)

PsqlNext ==
    \E u \in Users :
        \/ UserStep(u) \/ ServerStep(u) \/ Finish(u)
        \/ \E keep \in BOOLEAN : StartQuery(u, keep)

\* Each user's calls go on; the server need not answer, and nobody has to query.
PsqlFairness == WF_psqlvars(\E u \in Users : UserStep(u))

PsqlSpec == PsqlInit /\ [][PsqlNext]_psqlvars /\ PsqlFairness

-----------------------------------------------------------------------------
(***************************************************************************)
(* Each PGresult has one owner that clears it once: what an NpsqlResult    *)
(* holds has not been cleared by the query that made it, and what has not  *)
(* been cleared is held, or in use by the query, or was dropped by the     *)
(* exception of a query that was given no NpsqlResult (npsql.cxx:141,160). *)
(***************************************************************************)
ResultsHaveAnOwner ==
    \A u \in Users :
        /\ held[u] # 0 => held[u] \in live[u]
        /\ result[u] # 0 => result[u] \in live[u]
        /\ live[u] \subseteq {held[u], result[u]} \cup lost[u]

\* The user waits for the server.
Unanswered(u) == at[u] \in {"connect", "exec"} \/ db[u] = "waiting"

(***************************************************************************)
(* If the servers answer sooner or later (PQconnectdb() and PQexec() have  *)
(* no timeout), every user that wants to connect does, or gets an          *)
(* exception, whatever becomes of the connections of the others            *)
(* (npsql.cxx:83-94); and every query returns or throws, if it is not a    *)
(* COPY, which npsql.cxx:130-134 wait for for ever.                        *)
(***************************************************************************)
PsqlCallsEnd ==
    (\A u \in Users : []<>~Unanswered(u)) =>
        \A u \in Users :
            /\ at[u] = "lock" ~> at[u] \in {"ready", "thrown"}
            /\ at[u] = "exec" ~> at[u] = "ready" \/ says[u] = "copy"

-----------------------------------------------------------------------------
(* What the code does not do *)

(***************************************************************************)
(* A user connects whatever becomes of the others' servers: one that never *)
(* answers keeps m_notReentrant locked (npsql.cxx:83-87).                  *)
(***************************************************************************)
ConnectsAlone ==
    \A u \in Users :
        ([]<>~Unanswered(u)) => (at[u] = "lock" ~> at[u] \in {"ready", "thrown"})
=============================================================================
