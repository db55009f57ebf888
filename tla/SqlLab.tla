------------------------------ MODULE SqlLab --------------------------------
(***************************************************************************)
(* One query of SQL Lab: the page that runs, polls, fetches and stops it   *)
(* (superset-frontend/src/SqlLab/actions/sqlLab.js, reducers/sqlLab.js,    *)
(* components/QueryAutoRefresh, components/ResultSet), the web server that *)
(* takes the stop (superset/daos/query.py) and the process that executes   *)
(* the blocks (superset/sql_lab.py): the request itself when "sync", a     *)
(* Celery worker when "async".                                             *)
(*                                                                         *)
(* Cancelling the statement in the database may fail, and a block may fail *)
(* at any time, cancelled or not.  Durations are not modelled.  The page   *)
(* shows the query in a ResultSet.  Stored results do not expire.          *)
(***************************************************************************)
EXTENDS Naturals

CONSTANT Blocks  \* blocks of the script

ASSUME BlocksAssumption == Blocks \in Nat \ {0}

VARIABLES
    mode,     \* "sync" or "async"
    store,    \* store_results
    aged,     \* started longer ago than MAX_QUERY_AGE_TO_POLL
    db,       \* status and results key of the query's row
    stored,   \* whether the results backend has the result
    worker,   \* the execution
    late,     \* history: blocks started while the row said STOPPED
    client,   \* the query in the page's store
    exec,     \* the page's execute request and its answer
    refresh,  \* the page's request for updated queries and its answer
    fetches,  \* requests for the stored result under way
    stop      \* the page's stop request, the server's handling, its answer

vars == <<mode, store, aged, db, stored, worker, late, client, exec, refresh,
          fetches, stop>>

serverVars == <<db, stored, worker, late>>
pageVars == <<client, exec, refresh, fetches, stop>>

QueryStatus == {"none", "pending", "running", "stopped", "failed", "success"}

\* runningQueryStateList, the states that occur.
RunningStates == {"pending", "running", "fetching"}

Row == [status: QueryStatus, key: BOOLEAN]
Worker == [at: {"none", "queued", "check", "starting", "executing", "finishing",
                "committing", "returning", "over", "dead", "refused"},
           block: 1..Blocks, key: BOOLEAN]
Shown == [state: QueryStatus \cup {"fetching", "gone"}, key: BOOLEAN, results: BOOLEAN]
Refresh == [at: {"idle", "sent", "answered"}, row: Row]
Stop == [at: {"idle", "sent", "cancelled", "ok", "refused"}, seen: QueryStatus]

TypeOK ==
    /\ mode \in {"sync", "async"}
    /\ store \in BOOLEAN
    /\ aged \in BOOLEAN
    /\ db \in Row
    /\ stored \in BOOLEAN
    /\ worker \in Worker
    /\ late \in 0..Blocks
    /\ client \in Shown
    /\ exec \in {"none", "sent", "success", "ignored", "failed"}
    /\ refresh \in Refresh
    /\ fetches \in Nat
    /\ stop \in Stop

NoRow == [status |-> "none", key |-> FALSE]
NoRefresh == [at |-> "idle", row |-> NoRow]
NoStop == [at |-> "idle", seen |-> "none"]

Init ==
    /\ mode \in {"sync", "async"}
    /\ store \in BOOLEAN
    /\ aged = FALSE
    /\ db = NoRow
    /\ stored = FALSE
    /\ worker = [at |-> "none", block |-> 1, key |-> FALSE]
    /\ late = 0
    /\ client = [state |-> "none", key |-> FALSE, results |-> FALSE]
    /\ exec = "none"
    /\ refresh = NoRefresh
    /\ fetches = 0
    /\ stop = NoStop

-----------------------------------------------------------------------------
(* The execution.                                                          *)

\* The end of the execution with a status in the row; a request answers.
Ends(place, row) ==
    /\ worker' = [worker EXCEPT !.at = place]
    /\ db' = row
    /\ UNCHANGED <<mode, store, aged, client, refresh, fetches, stop>>

Answers(status) == exec' = IF mode = "sync" /\ exec = "sent" THEN status ELSE exec

Moves(place) ==
    /\ worker' = [worker EXCEPT !.at = place]
    /\ UNCHANGED <<mode, store, aged, pageVars>>

\* SqlJsonExecutor.execute: the row is saved, and the task is sent.
Submit ==
    /\ exec = "sent"
    /\ worker.at = "none"
    /\ worker' = [worker EXCEPT !.at = "queued"]
    /\ db' = [db EXCEPT !.status = "pending"]
    /\ exec' = IF mode = "async" THEN "ignored" ELSE exec
    /\ UNCHANGED <<mode, store, aged, stored, late, client, refresh, fetches, stop>>

\* There is no such database, the query is refused, or the task cannot be sent.
\* The transaction takes the status FAILED back: there is no row, or it stays
\* as it was saved, and nothing will execute it.
SubmitFails ==
    /\ exec = "sent"
    /\ worker.at = "none"
    /\ \E row \in {db, [db EXCEPT !.status = "pending"]} : Ends("refused", row)
    /\ exec' = "failed"
    /\ UNCHANGED <<stored, late>>

\* The row says RUNNING whatever it said before.
Begin ==
    /\ worker.at = "queued"
    /\ Moves("check")
    /\ db' = [db EXCEPT !.status = "running"]
    /\ UNCHANGED <<stored, late>>

\* Faulty variant: the row is not read again before a block.
CheckNothing ==
    /\ worker.at = "check"
    /\ Moves("starting")
    /\ UNCHANGED <<db, stored, late>>

Check ==
    /\ worker.at = "check"
    /\ db.status # "stopped"
    /\ Moves("starting")
    /\ UNCHANGED <<db, stored, late>>

FindsStopped ==
    /\ worker.at = "check"
    /\ db.status = "stopped"
    /\ Ends("over", db)
    /\ Answers("ignored")
    /\ UNCHANGED <<stored, late>>

StartBlock ==
    /\ worker.at = "starting"
    /\ Moves("executing")
    /\ late' = IF db.status = "stopped" THEN late + 1 ELSE late
    /\ UNCHANGED <<db, stored>>

\* Faulty variant: one block too many.
BlockDoneOneMore ==
    /\ worker.at = "executing"
    /\ worker' = IF worker.block <= Blocks
                 THEN [worker EXCEPT !.at = "check", !.block = @ + 1]
                 ELSE [worker EXCEPT !.at = "finishing"]
    /\ UNCHANGED <<mode, store, aged, db, stored, late, pageVars>>

BlockDone ==
    /\ worker.at = "executing"
    /\ worker' = IF worker.block < Blocks
                 THEN [worker EXCEPT !.at = "check", !.block = @ + 1]
                 ELSE [worker EXCEPT !.at = "finishing"]
    /\ UNCHANGED <<mode, store, aged, db, stored, late, pageVars>>

\* The row is read again: a stopped query is expected to fail.
BlockFails ==
    /\ worker.at = "executing"
    /\ IF db.status = "stopped"
       THEN Ends("over", db) /\ Answers("ignored")
       ELSE Ends("over", [db EXCEPT !.status = "failed"]) /\ Answers("failed")
    /\ UNCHANGED <<stored, late>>

\* A time limit, a check of the script or of the payload's size: whatever the
\* session holds is committed with the failure.
Breaks ==
    /\ worker.at \in {"queued", "check", "starting", "executing", "finishing",
                     "committing", "returning"}
    /\ Ends("over", [status |-> "failed", key |-> worker.key])
    /\ Answers("failed")
    /\ UNCHANGED <<stored, late>>

StoreResult ==
    /\ worker.at = "finishing"
    /\ store
    /\ stored' = TRUE
    /\ worker' = [worker EXCEPT !.at = "committing", !.key = TRUE]
    /\ UNCHANGED <<mode, store, aged, db, late, pageVars>>

\* The write to the results backend fails.
StoreFails ==
    /\ worker.at = "finishing"
    /\ store
    /\ IF mode = "async"
       THEN Ends("over", [db EXCEPT !.status = "failed"]) /\ UNCHANGED exec
       ELSE Moves("committing") /\ UNCHANGED db
    /\ UNCHANGED <<stored, late>>

StoreNothing ==
    /\ worker.at = "finishing"
    /\ ~store
    /\ Moves("committing")
    /\ UNCHANGED <<db, stored, late>>

\* A stop since the last check is overwritten.
Succeeds ==
    /\ worker.at = "committing"
    /\ Ends(IF mode = "sync" THEN "returning" ELSE "over",
            [status |-> "success", key |-> worker.key])
    /\ UNCHANGED <<stored, late, exec>>

Returns ==
    /\ worker.at = "returning"
    /\ Ends("over", db)
    /\ Answers("success")
    /\ UNCHANGED <<stored, late>>

Dies ==
    /\ worker.at \in {"queued", "check", "starting", "executing", "finishing",
                     "committing", "returning"}
    /\ Ends("dead", db)
    /\ Answers("failed")
    /\ UNCHANGED <<stored, late>>

-----------------------------------------------------------------------------
(* The stop.                                                               *)

StopClicked ==
    /\ client.state \in RunningStates
    /\ stop.at = "idle"
    /\ stop' = [stop EXCEPT !.at = "sent"]
    /\ UNCHANGED <<mode, store, aged, serverVars, client, exec, refresh, fetches>>

StopSteps(to) ==
    /\ stop.at = "sent"
    /\ stop' = [at |-> to, seen |-> db.status]
    /\ UNCHANGED <<mode, store, aged, serverVars, client, exec, refresh, fetches>>

StopTooLate == db.status \in {"failed", "success"} /\ StopSteps("ok")

Cancel == db.status \in {"pending", "running", "stopped"} /\ StopSteps("cancelled")

\* No such query yet, no id to cancel by, or the database refuses.
CancelFails == db.status \notin {"failed", "success"} /\ StopSteps("refused")

\* The row is written if the status differs from the one that was read.
StopCommits ==
    /\ stop.at = "cancelled"
    /\ db' = [db EXCEPT !.status = IF stop.seen = "stopped" THEN @ ELSE "stopped"]
    /\ stop' = [stop EXCEPT !.at = "ok"]
    /\ UNCHANGED <<mode, store, aged, stored, worker, late, client, exec, refresh, fetches>>

\* STOP_QUERY.
StopAnswered ==
    /\ stop.at = "ok"
    /\ stop' = NoStop
    /\ client' = [client EXCEPT !.state = "stopped", !.results = FALSE]
    /\ UNCHANGED <<mode, store, aged, serverVars, exec, refresh, fetches>>

\* The stop was refused, or its answer is lost: a toast.
StopFailed ==
    /\ stop.at \in {"ok", "refused"}
    /\ stop' = NoStop
    /\ UNCHANGED <<mode, store, aged, serverVars, client, exec, refresh, fetches>>

-----------------------------------------------------------------------------
(* The page.                                                               *)

\* START_QUERY and the execute request.
RunQuery ==
    /\ client.state = "none"
    /\ client' = [client EXCEPT !.state = IF mode = "async" THEN "pending" ELSE "running"]
    /\ exec' = "sent"
    /\ UNCHANGED <<mode, store, aged, serverVars, refresh, fetches, stop>>

\* Faulty variant: the effect does not notice the key.
ShowsOnly(c, left) == client' = c /\ fetches' = left

\* The store after a change, and the effect of ResultSet: a results key that
\* was not there before is fetched (REQUEST_QUERY_RESULTS).
Shows(c, left) ==
    IF c.key /\ ~client.key
    THEN client' = [c EXCEPT !.state = "fetching"] /\ fetches' = left + 1
    ELSE client' = c /\ fetches' = left

\* The answer to a synchronous request: QUERY_SUCCESS or QUERY_FAILED.  Both
\* look at a copy of the query that was made before the request, so a query
\* stopped since is not spared.  The answer names a results key whenever the
\* result was to be stored, even if it could not be.
ExecAnswered ==
    /\ exec \in {"success", "ignored", "failed"}
    /\ exec' = "none"
    /\ \/ exec = "success"
          /\ Shows([state |-> "success", key |-> client.key \/ store, results |-> TRUE],
                   fetches)
       \/ exec = "ignored" /\ UNCHANGED <<client, fetches>>
       \/ exec = "failed" /\ Shows([client EXCEPT !.state = "failed"], fetches)
    /\ UNCHANGED <<mode, store, aged, serverVars, refresh, stop>>

\* The request fails on its way, or is given up by a proxy.
ExecLost ==
    /\ exec = "sent"
    /\ exec' = "none"
    /\ client' = [client EXCEPT !.state = "failed"]
    /\ UNCHANGED <<mode, store, aged, serverVars, refresh, fetches, stop>>

\* MAX_QUERY_AGE_TO_POLL has passed since the query was started, however far its
\* execution has come: the time limit of an asynchronous one is as long.
GrowsOld ==
    /\ client.state # "none"
    /\ aged' = TRUE
    /\ UNCHANGED <<mode, store, serverVars, pageVars>>

shouldCheckForQueries == client.state \in RunningStates /\ ~aged

\* One request at a time.
SendRefresh ==
    /\ refresh.at = "idle"
    /\ shouldCheckForQueries
    /\ refresh' = [refresh EXCEPT !.at = "sent"]
    /\ UNCHANGED <<mode, store, aged, serverVars, client, exec, fetches, stop>>

ReadRefresh ==
    /\ refresh.at = "sent"
    /\ refresh' = [at |-> "answered", row |-> db]
    /\ UNCHANGED <<mode, store, aged, serverVars, client, exec, fetches, stop>>

RefreshFails ==
    /\ refresh.at # "idle"
    /\ refresh' = NoRefresh
    /\ UNCHANGED <<mode, store, aged, serverVars, client, exec, fetches, stop>>

\* Faulty variant: the row's status is believed.
RefreshedStateBelieved(old, new) == new

\* REFRESH_QUERIES, of a query in the page's store.
RefreshedState(old, new) ==
    IF new = "success" /\ old \in {"fetching", "success", "running"} THEN old ELSE new

RefreshAnswered ==
    /\ refresh.at = "answered"
    /\ refresh.row.status # "none"
    /\ refresh' = NoRefresh
    /\ IF client.state \in {"stopped", "failed"}
       THEN UNCHANGED <<client, fetches>>
       ELSE Shows([client EXCEPT !.state = RefreshedState(@, refresh.row.status),
                                 !.key = refresh.row.key], fetches)
    /\ UNCHANGED <<mode, store, aged, serverVars, exec, stop>>

\* CLEAR_INACTIVE_QUERIES: a query without progress may be forgotten, one with
\* a key and results has the state of its results.
Cleared ==
    {IF client.key /\ client.results THEN [client EXCEPT !.state = "success"] ELSE client}
    \cup IF client.state \in {"pending", "running"}
         THEN {[state |-> "gone", key |-> FALSE, results |-> FALSE]} ELSE {}

\* After an answer without queries.
NothingToRefresh ==
    /\ refresh.at = "answered"
    /\ refresh.row.status = "none"
    /\ refresh' = NoRefresh
    /\ client' \in Cleared
    /\ UNCHANGED <<mode, store, aged, serverVars, exec, fetches, stop>>

\* When there is no query to check for.
ClearInactive ==
    /\ ~shouldCheckForQueries
    /\ client' \in Cleared
    /\ UNCHANGED <<mode, store, aged, serverVars, exec, refresh, fetches, stop>>

\* fetchQueryResults: QUERY_SUCCESS, or QUERY_FAILED.
FetchAnswered ==
    /\ fetches > 0
    /\ IF db.key /\ stored
       THEN Shows([state |-> "success", key |-> TRUE, results |-> TRUE], fetches - 1)
       ELSE Shows([client EXCEPT !.state = "failed"], fetches - 1)
    /\ UNCHANGED <<mode, store, aged, serverVars, exec, refresh, stop>>

FetchFails ==
    /\ fetches > 0
    /\ fetches' = fetches - 1
    /\ client' = [client EXCEPT !.state = "failed"]
    /\ UNCHANGED <<mode, store, aged, serverVars, exec, refresh, stop>>

-----------------------------------------------------------------------------
Execution ==
    Submit \/ SubmitFails \/ Begin \/ Check \/ FindsStopped \/ StartBlock
    \/ BlockDone \/ BlockFails \/ Breaks \/ StoreResult \/ StoreFails
    \/ StoreNothing \/ Succeeds \/ Returns \/ Dies

Stopping ==
    StopClicked \/ StopTooLate \/ Cancel \/ CancelFails \/ StopCommits
    \/ StopAnswered \/ StopFailed

Fetching == FetchAnswered \/ FetchFails

Page ==
    RunQuery \/ ExecAnswered \/ ExecLost \/ GrowsOld \/ SendRefresh \/ ReadRefresh
    \/ RefreshFails \/ RefreshAnswered \/ NothingToRefresh \/ ClearInactive \/ Fetching

Next == Execution \/ Stopping \/ Page

Spec == Init /\ [][Next]_vars

\* The page polls while the query is young enough, and is answered in the end.
Fairness ==
    /\ WF_vars(SendRefresh) /\ SF_vars(ReadRefresh)
    /\ SF_vars(RefreshAnswered \/ NothingToRefresh)
    /\ WF_vars(ExecAnswered) /\ WF_vars(Fetching)

FairSpec == Spec /\ Fairness

-----------------------------------------------------------------------------
\* A query that was stopped starts at most the block it had just checked for.
StopBoundsWork == late <= 1

\* A query that is shown as successful and has a stored result shows it.
SuccessShowsResults ==
    client.state = "success" /\ client.key => client.results

\* The page stops waiting for an execution that has ended, or was refused (and
\* is PENDING in the row for good), with two exceptions: it ended in success
\* without a stored result, or the query is too old to be polled, at six hours,
\* when the time limit of an asynchronous one ends it.  Even then a result that
\* is being fetched arrives.
PageCatchesUp ==
    (\/ worker.at = "refused"
     \/ worker.at = "over" /\ (db.status = "success" => db.key))
        ~> \/ client.state \notin RunningStates
           \/ aged /\ client.state # "fetching"
=============================================================================
