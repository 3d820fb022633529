------------------------------ MODULE Nsqlite ------------------------------
(***************************************************************************)
(* Nsqlite::query() (src/src/nsqlite.cxx) and the NsqliteResult it fills   *)
(* (src/src/nsqliteResult.cxx), on a database that another process uses    *)
(* too.  A text has one statement or more; each is "write", which adds a   *)
(* row to the table, "read", which returns all rows, or "bad".  SQLite is  *)
(* external: sqlite3_exec() runs the statements one by one, each of them   *)
(* on its own, and gives up at the first that is locked out or in error.   *)
(***************************************************************************)
EXTENDS Integers, Sequences, FiniteSets

CONSTANTS
    QueryTexts,      \* the texts of the queries
    MaxTable    \* BOUND: rows in the table when a query or the other process starts

Statements == {"write", "read", "bad"}

ASSUME QueryTextsAssumption == QueryTexts \subseteq Seq(Statements)

VARIABLES
    table,      \* how many rows the table has
    foreign,    \* whether the other process holds the database locked
    phase,      \* "out", in "exec", in "sleep" between two, or "answered"
    text, next, \* theQuery, and which statement of it is next
    results,    \* the NsqliteResult, which the caller keeps for all queries
    changes,    \* sqlite3_changes(): how many rows the last write added
    status,     \* what sqlite3_exec() returned, or query() then
    effects,    \* what this query's writes have added
    redone      \* whether statements of this query have run more than once

connection == <<phase, text, next, results, changes, status, effects, redone>>
sqlitevars == <<table, foreign, connection>>

NoResults == [names |-> FALSE, data |-> <<>>, affected |-> 0, error |-> FALSE]

SqliteInit ==
    /\ table = 0 /\ foreign = FALSE
    /\ phase = "out" /\ text = <<>> /\ next = 1
    /\ results = NoResults /\ changes = 0 /\ status = "OK"
    /\ effects = 0 /\ redone = FALSE

\* The other process takes the lock, and adds a row or not before it lets go.
Lock ==
    /\ ~foreign /\ table < MaxTable /\ foreign' = TRUE
    /\ UNCHANGED <<table, connection>>

Unlock ==
    /\ foreign /\ foreign' = FALSE /\ table' \in {table, table + 1}
    /\ UNCHANGED connection

\* NsqliteResult::clear(), and a query that leaves the old rows where they are.
ClearCounts == results' = [results EXCEPT !.affected = 0, !.error = FALSE]
Clear == results' = NoResults

Query(t) ==
    /\ phase = "out" /\ table + Len(t) <= MaxTable
    /\ phase' = "exec" /\ text' = t /\ next' = 1
    /\ Clear
    /\ status' = "OK" /\ effects' = 0 /\ redone' = FALSE
    /\ UNCHANGED <<table, foreign, changes>>

\* callback(), called for each row: the first row of all brings the names.
Deliver == results' = [results EXCEPT !.names = @ \/ table > 0,
                                      !.data = @ \o [i \in 1 .. table |-> i]]

\* sqlite3_exec() returns; a busy database is tried again a millisecond later.
Stop(why) ==
    /\ status' = why
    /\ phase' = IF why = "BUSY" THEN "sleep" ELSE "return"
    /\ UNCHANGED <<table, text, next, results, changes, effects>>

\* One statement of the text, or what is in its way.
Exec ==
    /\ phase = "exec"
    /\ IF next > Len(text) THEN Stop("OK") /\ UNCHANGED redone
       ELSE IF text[next] = "bad" THEN Stop("ERROR") /\ UNCHANGED redone
       ELSE IF foreign THEN Stop("BUSY") /\ redone' = (redone \/ next > 1)
       ELSE /\ next' = next + 1
            /\ IF text[next] = "read"
               THEN Deliver /\ UNCHANGED <<table, changes, effects>>
               ELSE /\ table' = table + 1 /\ changes' = 1 /\ effects' = effects + 1
                    /\ UNCHANGED results
            /\ UNCHANGED <<phase, text, status, redone>>
    /\ UNCHANGED foreign

\* The text is run again from its start.
Sleep ==
    /\ phase = "sleep"
    /\ phase' = "exec"
    /\ next' = 1
    /\ UNCHANGED <<table, foreign, text, results, changes, status, effects, redone>>

Answer ==
    /\ phase = "return"
    /\ phase' = "answered"
    /\ results' = [results EXCEPT !.affected = changes, !.error = (status # "OK")]
    /\ UNCHANGED <<table, foreign, text, next, changes, status, effects, redone>>

\* The caller has seen the results, and keeps the object.
Leave ==
    /\ phase = "answered"
    /\ phase' = "out"
    /\ UNCHANGED <<table, foreign, text, next, results, changes, status, effects, redone>>

QueryStep == Exec \/ Sleep \/ Answer

SqliteNext == Lock \/ Unlock \/ QueryStep \/ Leave \/ \E t \in QueryTexts : Query(t)

\* A thread that is in query() runs; of the other process nothing is assumed.
SqliteFairness == WF_sqlitevars(QueryStep)

SqliteSpec == SqliteInit /\ [][SqliteNext]_sqlitevars /\ SqliteFairness

-----------------------------------------------------------------------------
Count(kind) == Cardinality({i \in DOMAIN text : text[i] = kind})

(***************************************************************************)
(* A query that returns true has run all of its text, once: the results    *)
(* are the rows of this query and of no other, from one run of it, their   *)
(* columns have names, and each write has been done once - unless the      *)
(* database became busy in the middle of the text, and what was before     *)
(* that has been run again (nsqlite.cxx:49-60).  One that returns false    *)
(* says why.                                                               *)
(***************************************************************************)
QueryRunsOnce ==
    phase = "answered" =>
        /\ results.error <=> status # "OK"
        /\ status # "BUSY"
        /\ results.names <=> results.data # <<>>
        /\ ~redone /\ status = "OK" =>
               /\ effects = Count("write")
               /\ text # <<>> /\ text[Len(text)] = "write" => results.affected = 1
               /\ Count("read") = 0 => results.data = <<>>
               /\ Count("read") = 1 => \A i \in DOMAIN results.data : results.data[i] = i

(***************************************************************************)
(* A query that finds the database busy is retried until the other process *)
(* leaves it alone, and then returns: no retry is the last, and none is    *)
(* skipped on the word of an old status (nsqlite.cxx:48-58).               *)
(***************************************************************************)
QueryReturns == <>[]~foreign => (phase = "exec" ~> phase = "answered")
=============================================================================
