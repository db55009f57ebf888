--------------------------- MODULE SqlLabProofs ----------------------------
(***************************************************************************)
(* Proofs about SqlLab, for scripts of any length: type correctness, the   *)
(* bound on the work of a stopped query, that a success shows its result,  *)
(* that a refusal is shown although its row says PENDING, and that neither *)
(* a poll nor a fetch leaves the page waiting for ever.                    *)
(***************************************************************************)
EXTENDS SqlLab, TLAPS

\* Only the block whose check has passed can start late, and once it has, every
\* check finds the row stopped.
StopSeen ==
    /\ StopBoundsWork
    /\ worker.at \in {"none", "queued", "starting"} => late = 0
    /\ worker.at \in {"check", "executing"} /\ late = 1 => db.status = "stopped"

\* A row whose query has not ended has no results key.
KeyIsLate(row) == row.status \in {"none", "pending", "running"} => ~row.key

\* The key comes with the end of the execution, and the end with a status that
\* no poll takes for a running query.
EndSeen ==
    /\ KeyIsLate(db)
    /\ worker.at \notin {"returning", "over", "dead"} => ~db.key
    /\ worker.at = "over" => db.status \in {"stopped", "failed", "success"}
    /\ worker.at = "returning" => db.status \in {"stopped", "success"}

\* A page that shows c with n fetches under way: a success with a key shows its
\* result, a query that runs has no key, and one that is being fetched has a
\* fetch to wait for.
Sound(c, n) ==
    /\ c.state = "success" /\ c.key => c.results
    /\ c.state \in {"none", "pending", "running", "gone"} => ~c.key
    /\ c.state = "fetching" => n > 0

PageSound == Sound(client, fetches) /\ KeyIsLate(refresh.row)

\* A query whose submission was refused is shown as failed, unless the answer
\* that says so is still on its way, or a stop was answered after it.
RefusalShown ==
    worker.at = "refused" => exec = "failed" \/ client.state \in {"failed", "stopped"}

\* A query that no worker has taken has no key anywhere, and no answer but a
\* refusal; the page shows a query from the moment it sends the request.
RefusalSeen ==
    /\ RefusalShown
    /\ worker.at \in {"none", "refused"} =>
         /\ ~client.key /\ ~refresh.row.key /\ fetches = 0
         /\ exec \in {"none", "sent", "failed"}
    /\ client.state = "none" => worker.at = "none" /\ exec = "none"

IInv == TypeOK /\ StopSeen /\ EndSeen /\ PageSound /\ RefusalSeen

-----------------------------------------------------------------------------
(* The initial states.                                                     *)

LEMMA InitIInv == Init => IInv
<1> SUFFICES ASSUME Init PROVE IInv
  OBVIOUS
<1>1. TypeOK
  <2>1. db \in Row /\ client \in Shown
    BY DEF Init, NoRow, Row, QueryStatus, Shown
  <2>2. worker \in Worker /\ late \in 0..Blocks
    BY BlocksAssumption DEF Init, Worker
  <2>3. refresh \in Refresh /\ stop \in Stop
    BY DEF Init, NoRefresh, NoStop, NoRow, Refresh, Row, Stop, QueryStatus
  <2> QED
    BY <2>1, <2>2, <2>3 DEF Init, TypeOK
<1>2. StopSeen
  BY DEF Init, StopSeen, StopBoundsWork
<1>3. EndSeen /\ PageSound /\ RefusalSeen
  BY DEF Init, EndSeen, PageSound, Sound, KeyIsLate, RefusalSeen, RefusalShown, NoRow,
         NoRefresh
<1> QED
  BY <1>1, <1>2, <1>3 DEF IInv

-----------------------------------------------------------------------------
(* Who changes what.                                                       *)

LEMMA ExecutionFrame ==
    ASSUME Execution
    PROVE  UNCHANGED <<mode, store, aged, client, refresh, fetches, stop>>
BY DEF Execution, Submit, SubmitFails, Begin, Check, FindsStopped, StartBlock,
       BlockDone, BlockFails, Breaks, StoreResult, StoreFails, StoreNothing,
       Succeeds, Returns, Dies, Ends, Moves, pageVars

LEMMA StoppingFrame ==
    ASSUME Stopping
    PROVE  UNCHANGED <<mode, store, aged, stored, worker, late, exec, refresh, fetches>>
BY DEF Stopping, StopClicked, StopTooLate, Cancel, CancelFails, StopSteps,
       StopCommits, StopAnswered, StopFailed, serverVars

LEMMA PageFrame ==
    ASSUME Page
    PROVE  UNCHANGED <<mode, store, serverVars, stop>> /\ aged' \in {aged, TRUE}
BY DEF Page, RunQuery, ExecAnswered, ExecLost, GrowsOld, SendRefresh, ReadRefresh,
       RefreshFails, RefreshAnswered, NothingToRefresh, ClearInactive, Fetching,
       FetchAnswered, FetchFails, pageVars

-----------------------------------------------------------------------------
(* The execution.                                                          *)

\* What a step of the execution does to the row and to the count of late blocks.
ExecutionEffect ==
    \/ /\ \/ worker.at = "none" /\ worker'.at \in {"queued", "refused"}
          \/ worker.at = "queued" /\ worker'.at = "check"
       /\ db'.key = db.key /\ late' = late
    \/ /\ worker.at = "check" /\ worker'.at = "starting"
       /\ db.status # "stopped"
       /\ UNCHANGED <<db, late>>
    \/ /\ worker.at = "starting" /\ worker'.at = "executing"
       /\ late' = IF db.status = "stopped" THEN late + 1 ELSE late
       /\ UNCHANGED db
    \/ /\ \/ worker.at = "executing" /\ worker'.at \in {"check", "finishing"}
          \/ worker.at = "finishing" /\ worker'.at = "committing"
       /\ UNCHANGED <<db, late>>
    \/ /\ worker.at = "committing" /\ worker'.at \in {"returning", "over"}
       /\ db'.status = "success" /\ late' = late
    \/ /\ worker'.at = "over"
       /\ \/ db'.status = "failed"
          \/ db' = db /\ (db.status = "stopped" \/ worker.at = "returning")
       /\ late' = late
    \/ worker'.at = "dead" /\ UNCHANGED <<db, late>>

\* The execution moves to a place and leaves the number of its block.
LEMMA MovedWorker ==
    ASSUME TypeOK, NEW place \in {"queued", "check", "starting", "executing",
                                  "finishing", "committing", "returning",
                                  "over", "dead", "refused"}
    PROVE  /\ [worker EXCEPT !.at = place] \in Worker
           /\ [worker EXCEPT !.at = place].at = place
BY DEF TypeOK, Worker

\* The execution writes a status into the row.
LEMMA WrittenRow ==
    ASSUME TypeOK, NEW status \in QueryStatus
    PROVE  /\ [db EXCEPT !.status = status] \in Row
           /\ [db EXCEPT !.status = status].status = status
           /\ [db EXCEPT !.status = status].key = db.key
BY DEF TypeOK, Row

LEMMA ExecutionStep ==
    ASSUME TypeOK, Execution
    PROVE  ExecutionEffect /\ worker' \in Worker /\ db' \in Row
<1> USE DEF ExecutionEffect
<1>0. /\ worker \in Worker /\ db \in Row
      /\ {"pending", "running", "failed"} \subseteq QueryStatus
  BY DEF TypeOK, QueryStatus
<1>1. CASE Submit
  BY <1>0, <1>1, MovedWorker, WrittenRow DEF Submit
<1>2. CASE SubmitFails
  <2>1. PICK row \in {db, [db EXCEPT !.status = "pending"]} : Ends("refused", row)
    BY <1>2 DEF SubmitFails
  <2>2. row \in Row /\ row.key = db.key
    <3> DEFINE saved == [db EXCEPT !.status = "pending"]
    <3>1. saved \in Row /\ saved.key = db.key
      BY <1>0, WrittenRow
    <3>2. row \in {db, saved}
      BY <2>1
    <3> HIDE DEF saved
    <3> QED
      BY <1>0, <3>1, <3>2
  <2>3. worker' = [worker EXCEPT !.at = "refused"] /\ db' = row
    BY <2>1 DEF Ends
  <2>4. worker' \in Worker /\ worker'.at = "refused"
    BY <2>3, MovedWorker
  <2> QED
    BY <1>2, <2>2, <2>3, <2>4 DEF SubmitFails
<1>3. CASE Begin
  BY <1>0, <1>3, MovedWorker, WrittenRow DEF Begin, Moves
<1>4. CASE Check
  BY <1>0, <1>4, MovedWorker DEF Check, Moves
<1>5. CASE FindsStopped
  BY <1>0, <1>5, MovedWorker DEF FindsStopped, Ends
<1>6. CASE StartBlock
  BY <1>0, <1>6, MovedWorker DEF StartBlock, Moves
<1>7. CASE BlockDone
  <2>1. UNCHANGED <<db, late>> /\ worker.at = "executing"
    BY <1>7 DEF BlockDone
  <2>2. CASE worker.block < Blocks
    <3>1. worker.block + 1 \in 1..Blocks
      BY <1>0, <2>2, BlocksAssumption DEF Worker
    <3>2. [worker EXCEPT !.at = "check", !.block = @ + 1] \in Worker
          /\ [worker EXCEPT !.at = "check", !.block = @ + 1].at = "check"
      BY <1>0, <3>1 DEF Worker
    <3> QED
      BY <1>0, <1>7, <2>1, <2>2, <3>2 DEF BlockDone
  <2>3. CASE ~(worker.block < Blocks)
    BY <1>0, <1>7, <2>1, <2>3, MovedWorker DEF BlockDone
  <2> QED
    BY <2>2, <2>3
<1>8. CASE BlockFails
  <2>1. CASE db.status = "stopped"
    BY <1>0, <1>8, <2>1, MovedWorker DEF BlockFails, Ends
  <2>2. CASE db.status # "stopped"
    <3>1. Ends("over", [db EXCEPT !.status = "failed"])
      BY <1>8, <2>2 DEF BlockFails
    <3> QED
      BY <1>0, <1>8, <3>1, MovedWorker, WrittenRow DEF BlockFails, Ends
  <2> QED
    BY <2>1, <2>2
<1>9. CASE Breaks
  <2>1. [status |-> "failed", key |-> worker.key] \in Row
    BY <1>0 DEF Worker, Row
  <2> QED
    BY <1>9, <2>1, MovedWorker DEF Breaks, Ends
<1>10. CASE StoreResult
  <2>1. /\ [worker EXCEPT !.at = "committing", !.key = TRUE] \in Worker
        /\ [worker EXCEPT !.at = "committing", !.key = TRUE].at = "committing"
    BY <1>0 DEF Worker
  <2> QED
    BY <1>0, <1>10, <2>1 DEF StoreResult
<1>11. CASE StoreFails
  <2>1. CASE mode = "async"
    <3>1. Ends("over", [db EXCEPT !.status = "failed"])
      BY <1>11, <2>1 DEF StoreFails
    <3> QED
      BY <1>0, <1>11, <3>1, MovedWorker, WrittenRow DEF StoreFails, Ends
  <2>2. CASE mode # "async"
    BY <1>0, <1>11, <2>2, MovedWorker DEF StoreFails, Moves
  <2> QED
    BY <2>1, <2>2
<1>12. CASE StoreNothing
  BY <1>0, <1>12, MovedWorker DEF StoreNothing, Moves
<1>13. CASE Succeeds
  <2>1. [status |-> "success", key |-> worker.key] \in Row
    BY <1>0 DEF Worker, Row, QueryStatus
  <2> QED
    BY <1>13, <2>1, MovedWorker DEF Succeeds, Ends
<1>14. CASE Returns
  BY <1>0, <1>14, MovedWorker DEF Returns, Ends
<1>15. CASE Dies
  BY <1>0, <1>15, MovedWorker DEF Dies, Ends
<1> QED
  BY <1>1, <1>2, <1>3, <1>4, <1>5, <1>6, <1>7, <1>8, <1>9, <1>10, <1>11, <1>12,
     <1>13, <1>14, <1>15 DEF Execution

LEMMA ExecutionIInv ==
    ASSUME IInv, Execution
    PROVE  IInv'
<1>1. ExecutionEffect /\ worker' \in Worker /\ db' \in Row
  BY ExecutionStep DEF IInv
<1>2. UNCHANGED <<mode, store, aged, client, refresh, fetches, stop>>
  BY ExecutionFrame
<1>3. late' \in {late, late + 1} /\ (late' # late => worker.at = "starting")
  BY <1>1 DEF ExecutionEffect
<1>4. late' \in 0..Blocks
  BY <1>3, BlocksAssumption DEF IInv, StopSeen, TypeOK
<1>5. stored' \in BOOLEAN
      /\ exec' \in {"none", "sent", "success", "ignored", "failed"}
  <2>1. stored' \in BOOLEAN
    BY DEF IInv, TypeOK, Execution, Submit, SubmitFails, Begin, Check, FindsStopped,
           StartBlock, BlockDone, BlockFails, Breaks, StoreResult, StoreFails,
           StoreNothing, Succeeds, Returns, Dies
  <2>2. exec' \in {exec, "success", "ignored", "failed"}
    BY DEF Execution, Submit, SubmitFails, Begin, Check, FindsStopped, StartBlock,
           BlockDone, BlockFails, Breaks, StoreResult, StoreFails, StoreNothing,
           Succeeds, Returns, Dies, Answers, Moves, pageVars
  <2> QED
    BY <2>1, <2>2 DEF IInv, TypeOK
<1>6. TypeOK'
  BY <1>1, <1>2, <1>4, <1>5 DEF IInv, TypeOK
<1>7. StopSeen'
  BY <1>1 DEF IInv, TypeOK, StopSeen, StopBoundsWork, ExecutionEffect
<1>8. EndSeen'
  BY <1>1 DEF IInv, EndSeen, KeyIsLate, ExecutionEffect
<1>9. PageSound'
  BY <1>2 DEF IInv, PageSound
<1>10. RefusalSeen'
  <2>1. CASE Submit
    <3>1. worker'.at = "queued" /\ exec = "sent"
      BY <2>1, MovedWorker DEF IInv, Submit
    <3> QED
      BY <1>2, <3>1 DEF IInv, RefusalSeen, RefusalShown
  <2>2. CASE SubmitFails
    <3>1. worker.at = "none" /\ exec = "sent" /\ exec' = "failed"
      BY <2>2 DEF SubmitFails
    <3> QED
      BY <1>2, <3>1 DEF IInv, RefusalSeen, RefusalShown
  <2>3. CASE ~Submit /\ ~SubmitFails
    <3>1. worker.at \notin {"none", "refused"}
      BY <2>3 DEF Execution, Begin, Check, FindsStopped, StartBlock, BlockDone,
             BlockFails, Breaks, StoreResult, StoreFails, StoreNothing, Succeeds,
             Returns, Dies
    <3>2. worker'.at \notin {"none", "refused"}
      BY <1>1, <3>1 DEF ExecutionEffect
    <3> QED
      BY <1>2, <3>1, <3>2 DEF IInv, RefusalSeen, RefusalShown
  <2> QED
    BY <2>1, <2>2, <2>3
<1> QED
  BY <1>6, <1>7, <1>8, <1>9, <1>10 DEF IInv

-----------------------------------------------------------------------------
(* The stop.                                                               *)

\* A stop writes no status but STOPPED, to the row and to the page.
LEMMA StoppingStep ==
    ASSUME TypeOK, Stopping
    PROVE  /\ db' \in Row /\ db'.key = db.key
           /\ db'.status \in {db.status, "stopped"}
           /\ client' \in Shown
           /\ client' = client \/ client'.state = "stopped"
           /\ client'.key = client.key
           /\ stop' \in Stop
<1>0. client \in Shown /\ db \in Row /\ stop \in Stop /\ NoStop \in Stop
  BY DEF TypeOK, NoStop, Stop, QueryStatus
<1>1. CASE StopClicked
  <2>1. [stop EXCEPT !.at = "sent"] \in Stop
    BY <1>0 DEF Stop
  <2> QED
    BY <1>0, <1>1, <2>1 DEF StopClicked, serverVars
<1>2. CASE StopTooLate \/ Cancel \/ CancelFails
  <2>1. PICK to \in {"ok", "cancelled", "refused"} : StopSteps(to)
    BY <1>2 DEF StopTooLate, Cancel, CancelFails
  <2>2. [at |-> to, seen |-> db.status] \in Stop
    BY <1>0 DEF Row, Stop
  <2> QED
    BY <1>0, <2>1, <2>2 DEF StopSteps, serverVars
<1>3. CASE StopCommits
  <2>1. [stop EXCEPT !.at = "ok"] \in Stop
    BY <1>0 DEF Stop
  <2>2. PICK s \in {db.status, "stopped"} : db' = [db EXCEPT !.status = s]
    BY <1>3 DEF StopCommits
  <2>3. s \in QueryStatus
    BY <1>0, <2>2 DEF Row, QueryStatus
  <2> QED
    BY <1>0, <1>3, <2>1, <2>2, <2>3, WrittenRow DEF StopCommits
<1>4. CASE StopAnswered
  <2>1. /\ [client EXCEPT !.state = "stopped", !.results = FALSE] \in Shown
        /\ [client EXCEPT !.state = "stopped", !.results = FALSE].state = "stopped"
        /\ [client EXCEPT !.state = "stopped", !.results = FALSE].key = client.key
    BY <1>0 DEF Shown, QueryStatus
  <2> QED
    BY <1>0, <1>4, <2>1 DEF StopAnswered, serverVars
<1>5. CASE StopFailed
  BY <1>0, <1>5 DEF StopFailed, serverVars
<1> QED
  BY <1>1, <1>2, <1>3, <1>4, <1>5 DEF Stopping

LEMMA StoppingIInv ==
    ASSUME IInv, Stopping
    PROVE  IInv'
<1>1. /\ db' \in Row /\ db'.key = db.key
      /\ db'.status \in {db.status, "stopped"}
      /\ client' \in Shown
      /\ client' = client \/ client'.state = "stopped"
      /\ client'.key = client.key
      /\ stop' \in Stop
  BY StoppingStep DEF IInv
<1>2. UNCHANGED <<mode, store, aged, stored, worker, late, exec, refresh, fetches>>
  BY StoppingFrame
<1>3. TypeOK'
  BY <1>1, <1>2 DEF IInv, TypeOK
<1>4. StopSeen' /\ EndSeen'
  BY <1>1, <1>2 DEF IInv, StopSeen, StopBoundsWork, EndSeen, KeyIsLate
<1>5. PageSound'
  BY <1>1, <1>2 DEF IInv, PageSound, Sound
<1>6. RefusalSeen'
  BY <1>1, <1>2 DEF IInv, RefusalSeen, RefusalShown
<1> QED
  BY <1>3, <1>4, <1>5, <1>6 DEF IInv

-----------------------------------------------------------------------------
(* The page.                                                               *)

\* What the page shows after a change is sound if the changed query is, or if
\* the key that it has gained is fetched.
LEMMA ShowsSound ==
    ASSUME client \in Shown, NEW c \in Shown, NEW left \in Nat, Shows(c, left),
           (c.key /\ ~client.key) \/ Sound(c, left)
    PROVE  client' \in Shown /\ fetches' \in Nat /\ Sound(client', fetches')
<1>1. CASE c.key /\ ~client.key
  <2>1. client' = [c EXCEPT !.state = "fetching"] /\ fetches' = left + 1
    BY <1>1 DEF Shows
  <2>2. client' \in Shown /\ client'.state = "fetching"
    BY <2>1 DEF Shown
  <2> QED
    BY <2>1, <2>2 DEF Sound
<1>2. CASE ~(c.key /\ ~client.key)
  BY <1>2 DEF Shows
<1> QED
  BY <1>1, <1>2

\* A failed query has nothing to show and nothing to wait for.
LEMMA FailedSound ==
    ASSUME TypeOK, NEW left \in Nat
    PROVE  /\ [client EXCEPT !.state = "failed"] \in Shown
           /\ Sound([client EXCEPT !.state = "failed"], left)
BY DEF TypeOK, Shown, QueryStatus, Sound

\* A query that is forgotten or has the state of its results is sound.
LEMMA ClearedSound ==
    ASSUME TypeOK, PageSound, NEW c \in Cleared
    PROVE  c \in Shown /\ Sound(c, fetches)
<1>0. client \in Shown
  BY DEF TypeOK
<1>1. CASE c = client
  BY <1>0, <1>1 DEF PageSound
<1>2. CASE c = [client EXCEPT !.state = "success"] /\ client.results
  <2>1. c \in Shown /\ c.state = "success" /\ c.results
    BY <1>0, <1>2 DEF Shown, QueryStatus
  <2> QED
    BY <2>1 DEF Sound
<1>3. CASE c = [state |-> "gone", key |-> FALSE, results |-> FALSE]
  BY <1>3 DEF Shown, Sound
<1> QED
  BY <1>1, <1>2, <1>3 DEF Cleared

\* What a poll writes into the query of the page.
Refreshed ==
    [client EXCEPT !.state = RefreshedState(@, refresh.row.status),
                   !.key = refresh.row.key]

LEMMA RefreshedParts ==
    ASSUME TypeOK
    PROVE  /\ Refreshed \in Shown
           /\ Refreshed.state = RefreshedState(client.state, refresh.row.status)
           /\ Refreshed.key = refresh.row.key
           /\ Refreshed.results = client.results
BY DEF TypeOK, Refreshed, Shown, Refresh, Row, RefreshedState

\* A poll brings a key that is fetched, or changes nothing of a query with a
\* key that is not due to the end of its execution.
LEMMA RefreshedSound ==
    ASSUME TypeOK, PageSound, refresh.row.status # "none",
           client.state \notin {"stopped", "failed"}
    PROVE  (Refreshed.key /\ ~client.key) \/ Sound(Refreshed, fetches)
<1> SUFFICES ASSUME ~(Refreshed.key /\ ~client.key)
             PROVE  Sound(Refreshed, fetches)
  OBVIOUS
<1>0. /\ client \in Shown /\ refresh.row \in Row
      /\ Sound(client, fetches) /\ KeyIsLate(refresh.row)
  BY DEF TypeOK, Refresh, PageSound
<1>1. Refreshed.state = "success" /\ Refreshed.key => Refreshed.results
  BY <1>0, RefreshedParts DEF RefreshedState, Sound, Shown, QueryStatus
<1>2. Refreshed.state \in {"none", "pending", "running", "gone"} => ~Refreshed.key
  BY <1>0, RefreshedParts DEF RefreshedState, Sound, Row, QueryStatus, KeyIsLate
<1>3. Refreshed.state = "fetching" => fetches > 0
  BY <1>0, RefreshedParts DEF RefreshedState, Sound, Row, QueryStatus
<1> QED
  BY <1>1, <1>2, <1>3 DEF Sound

\* A step of the page leaves the page sound and believes no key too early.
LEMMA PageStep ==
    ASSUME TypeOK, PageSound, KeyIsLate(db), Page
    PROVE  /\ client' \in Shown /\ fetches' \in Nat
           /\ exec' \in {exec, "none", "sent"}
           /\ refresh' \in Refresh
           /\ PageSound'
<1>0. /\ client \in Shown /\ fetches \in Nat /\ db \in Row /\ refresh \in Refresh
      /\ Sound(client, fetches) /\ KeyIsLate(refresh.row)
      /\ NoRefresh \in Refresh /\ KeyIsLate(NoRefresh.row)
  BY DEF TypeOK, PageSound, NoRefresh, NoRow, Refresh, Row, QueryStatus, KeyIsLate
<1>1. CASE RunQuery
  <2>1. PICK s \in {"pending", "running"} : client' = [client EXCEPT !.state = s]
    BY <1>1 DEF RunQuery
  <2>2. client' \in Shown /\ client'.state = s /\ client'.key = client.key
    BY <1>0, <2>1 DEF Shown, QueryStatus
  <2>3. Sound(client', fetches)
    BY <1>0, <1>1, <2>2 DEF RunQuery, Sound
  <2> QED
    BY <1>0, <1>1, <2>2, <2>3 DEF RunQuery, PageSound
<1>2. CASE ExecAnswered
  <2>1. client' \in Shown /\ fetches' \in Nat /\ Sound(client', fetches')
    <3>1. CASE exec = "success"
      <4> DEFINE c == [state |-> "success", key |-> client.key \/ store, results |-> TRUE]
      <4>1. c \in Shown /\ Sound(c, fetches)
        BY <1>0 DEF TypeOK, Shown, QueryStatus, Sound
      <4>2. Shows(c, fetches)
        BY <1>2, <3>1 DEF ExecAnswered
      <4> QED
        BY <1>0, <4>1, <4>2, ShowsSound
    <3>2. CASE exec = "ignored"
      BY <1>0, <1>2, <3>2 DEF ExecAnswered
    <3>3. CASE exec = "failed"
      BY <1>0, <1>2, <3>3, FailedSound, ShowsSound DEF ExecAnswered
    <3> QED
      BY <1>2, <3>1, <3>2, <3>3 DEF ExecAnswered
  <2> QED
    BY <1>0, <1>2, <2>1 DEF ExecAnswered, PageSound
<1>3. CASE ExecLost
  BY <1>0, <1>3, FailedSound DEF ExecLost, PageSound
<1>4. CASE SendRefresh
  <2>1. refresh' \in Refresh /\ refresh'.row = refresh.row
    BY <1>0, <1>4 DEF SendRefresh, Refresh
  <2> QED
    BY <1>0, <1>4, <2>1 DEF SendRefresh, PageSound
<1>5. CASE ReadRefresh
  <2>1. refresh' \in Refresh /\ refresh'.row = db
    BY <1>0, <1>5 DEF ReadRefresh, Refresh
  <2> QED
    BY <1>0, <1>5, <2>1 DEF ReadRefresh, PageSound
<1>6. CASE RefreshFails
  BY <1>0, <1>6 DEF RefreshFails, PageSound
<1>7. CASE RefreshAnswered
  <2>1. client' \in Shown /\ fetches' \in Nat /\ Sound(client', fetches')
    <3>1. CASE client.state \in {"stopped", "failed"}
      BY <1>0, <1>7, <3>1 DEF RefreshAnswered
    <3>2. CASE client.state \notin {"stopped", "failed"}
      <4>1. Shows(Refreshed, fetches) /\ refresh.row.status # "none"
        BY <1>7, <3>2 DEF RefreshAnswered, Refreshed
      <4> QED
        BY <1>0, <3>2, <4>1, RefreshedParts, RefreshedSound, ShowsSound
    <3> QED
      BY <3>1, <3>2
  <2> QED
    BY <1>0, <1>7, <2>1 DEF RefreshAnswered, PageSound
<1>8. CASE NothingToRefresh
  BY <1>0, <1>8, ClearedSound DEF NothingToRefresh, PageSound
<1>9. CASE ClearInactive
  BY <1>0, <1>9, ClearedSound DEF ClearInactive, PageSound
<1>10. CASE FetchAnswered
  <2> DEFINE c == [state |-> "success", key |-> TRUE, results |-> TRUE]
  <2>1. c \in Shown /\ Sound(c, fetches - 1) /\ fetches - 1 \in Nat
    BY <1>0, <1>10 DEF FetchAnswered, Shown, QueryStatus, Sound
  <2>2. Shows(c, fetches - 1) \/ Shows([client EXCEPT !.state = "failed"], fetches - 1)
    BY <1>10 DEF FetchAnswered
  <2>3. client' \in Shown /\ fetches' \in Nat /\ Sound(client', fetches')
    BY <1>0, <2>1, <2>2, FailedSound, ShowsSound
  <2> QED
    BY <1>0, <1>10, <2>3 DEF FetchAnswered, PageSound
<1>11. CASE FetchFails
  <2>1. fetches - 1 \in Nat
    BY <1>0, <1>11 DEF FetchFails
  <2> QED
    BY <1>0, <1>11, <2>1, FailedSound DEF FetchFails, PageSound
<1>12. CASE GrowsOld
  BY <1>0, <1>12 DEF GrowsOld, pageVars, PageSound
<1> QED
  BY <1>1, <1>2, <1>3, <1>4, <1>5, <1>6, <1>7, <1>8, <1>9, <1>10, <1>11, <1>12
     DEF Page, Fetching

\* Before its execution a query has no key to show or to fetch, so only the
\* answer to the request, and a stop, move the page.
LEMMA PageRefusal ==
    ASSUME TypeOK, EndSeen, RefusalSeen, Page
    PROVE  RefusalSeen'
<1> DEFINE failed == [client EXCEPT !.state = "failed"]
<1>0. /\ client \in Shown /\ UNCHANGED <<db, worker>>
      /\ failed.state = "failed" /\ failed.key = client.key
      /\ worker.at \in {"none", "refused"} => ~db.key
  BY PageFrame DEF TypeOK, Shown, EndSeen, serverVars
<1>1. CASE RunQuery
  <2>1. PICK s \in {"pending", "running"} : client' = [client EXCEPT !.state = s]
    BY <1>1 DEF RunQuery
  <2>2. client'.state = s /\ client'.key = client.key
    BY <1>0, <2>1 DEF Shown
  <2> QED
    BY <1>0, <1>1, <2>2 DEF RunQuery, RefusalSeen, RefusalShown
<1>2. CASE ExecAnswered
  <2>1. CASE exec = "success"
    <3>1. client'.state # "none" /\ worker.at \notin {"none", "refused"}
      BY <1>2, <2>1 DEF ExecAnswered, Shows, RefusalSeen
    <3> QED
      BY <1>0, <3>1 DEF RefusalSeen, RefusalShown
  <2>2. CASE exec = "ignored"
    BY <1>0, <1>2, <2>2 DEF ExecAnswered, RefusalSeen, RefusalShown
  <2>3. CASE exec = "failed"
    <3>1. client' = failed /\ fetches' = fetches /\ exec' = "none"
      BY <1>0, <1>2, <2>3 DEF ExecAnswered, Shows
    <3> QED
      BY <1>0, <1>2, <3>1 DEF ExecAnswered, RefusalSeen, RefusalShown
  <2> QED
    BY <1>2, <2>1, <2>2, <2>3 DEF ExecAnswered
<1>3. CASE ExecLost
  <2>1. client' = failed
    BY <1>3 DEF ExecLost
  <2> QED
    BY <1>0, <1>3, <2>1 DEF ExecLost, RefusalSeen, RefusalShown
<1>4. CASE GrowsOld
  BY <1>0, <1>4 DEF GrowsOld, pageVars, RefusalSeen, RefusalShown
<1>5. CASE SendRefresh \/ ReadRefresh \/ RefreshFails
  <2>1. UNCHANGED <<client, exec, fetches>>
    BY <1>5 DEF SendRefresh, ReadRefresh, RefreshFails
  <2>2. refresh'.row \in {refresh.row, db, NoRow}
    BY <1>5 DEF SendRefresh, ReadRefresh, RefreshFails, NoRefresh, TypeOK, Refresh
  <2> QED
    BY <1>0, <2>1, <2>2 DEF RefusalSeen, RefusalShown, NoRow
<1>6. CASE RefreshAnswered
  <2>1. refresh'.row = NoRow /\ exec' = exec /\ refresh.row.status # "none"
    BY <1>6 DEF RefreshAnswered, NoRefresh
  <2>2. CASE client.state \in {"stopped", "failed"}
    <3>1. UNCHANGED <<client, fetches>>
      BY <1>6, <2>2 DEF RefreshAnswered
    <3> QED
      BY <1>0, <2>1, <3>1 DEF RefusalSeen, RefusalShown, NoRow
  <2>3. CASE client.state \notin {"stopped", "failed"}
    <3>1. Shows(Refreshed, fetches)
      BY <1>6, <2>3 DEF RefreshAnswered, Refreshed
    <3>2. Refreshed \in Shown /\ Refreshed.state # "none"
          /\ Refreshed.key = refresh.row.key
      BY <2>1, RefreshedParts DEF RefreshedState
    <3>3. client'.state # "none"
      BY <3>1, <3>2 DEF Shows, Shown
    <3>4. worker.at \in {"none", "refused"} => client' = Refreshed /\ fetches' = fetches
      BY <3>1, <3>2 DEF Shows, RefusalSeen
    <3> QED
      BY <1>0, <2>1, <2>3, <3>2, <3>3, <3>4 DEF RefusalSeen, RefusalShown, NoRow
  <2> QED
    BY <2>2, <2>3
<1>7. CASE NothingToRefresh \/ ClearInactive
  <2>1. client' \in Cleared /\ UNCHANGED <<exec, fetches>>
        /\ refresh'.row \in {refresh.row, NoRow}
    BY <1>7 DEF NothingToRefresh, ClearInactive, NoRefresh
  <2>2. CASE client' = client
    BY <1>0, <2>1, <2>2 DEF RefusalSeen, RefusalShown, NoRow
  <2>3. CASE client' = [client EXCEPT !.state = "success"] /\ client.key
    <3>1. client'.state = "success"
      BY <1>0, <2>3 DEF Shown
    <3> QED
      BY <1>0, <2>1, <2>3, <3>1 DEF RefusalSeen, RefusalShown
  <2>4. CASE /\ client' = [state |-> "gone", key |-> FALSE, results |-> FALSE]
             /\ client.state \in {"pending", "running"}
    BY <1>0, <2>1, <2>4 DEF RefusalSeen, RefusalShown, NoRow
  <2> QED
    BY <2>1, <2>2, <2>3, <2>4 DEF Cleared
<1>8. CASE Fetching
  <2>1. fetches # 0 /\ exec' = exec
    BY <1>8 DEF Fetching, FetchAnswered, FetchFails
  <2>2. client'.state # "none"
    BY <1>0, <1>8 DEF Fetching, FetchAnswered, FetchFails, Shows, Shown
  <2> QED
    BY <1>0, <2>1, <2>2 DEF RefusalSeen, RefusalShown
<1> QED
  BY <1>1, <1>2, <1>3, <1>4, <1>5, <1>6, <1>7, <1>8 DEF Page

LEMMA PageIInv ==
    ASSUME IInv, Page
    PROVE  IInv'
<1>1. /\ client' \in Shown /\ fetches' \in Nat
      /\ exec' \in {exec, "none", "sent"}
      /\ refresh' \in Refresh
      /\ PageSound'
  BY PageStep DEF IInv, EndSeen
<1>2. UNCHANGED <<mode, store, db, stored, worker, late, stop>> /\ aged' \in {aged, TRUE}
  BY PageFrame DEF serverVars
<1>3. TypeOK'
  BY <1>1, <1>2 DEF IInv, TypeOK
<1>4. StopSeen' /\ EndSeen'
  BY <1>2 DEF IInv, StopSeen, StopBoundsWork, EndSeen
<1>5. RefusalSeen'
  BY PageRefusal DEF IInv
<1> QED
  BY <1>1, <1>3, <1>4, <1>5 DEF IInv

-----------------------------------------------------------------------------
(* The theorems.                                                           *)

LEMMA StepIInv == IInv /\ [Next]_vars => IInv'
<1> SUFFICES ASSUME IInv, [Next]_vars PROVE IInv'
  OBVIOUS
<1>1. CASE UNCHANGED vars
  BY <1>1 DEF IInv, TypeOK, StopSeen, StopBoundsWork, EndSeen, PageSound, RefusalSeen,
              RefusalShown, vars
<1> QED
  BY <1>1, ExecutionIInv, StoppingIInv, PageIInv DEF Next

\* The inductive invariant holds in every state: the base of the theorems below.
THEOREM AlwaysIInv == Spec => []IInv
BY InitIInv, StepIInv, PTL DEF Spec

\* Type correctness, for scripts of any length.
THEOREM TypeCorrect == Spec => []TypeOK
<1>1. IInv => TypeOK
  BY DEF IInv
<1> QED
  BY <1>1, AlwaysIInv, PTL

\* A query that was stopped starts at most the block it had just checked for:
\* execute_sql_statements reads the row again before every block.
THEOREM StopIsBounded == Spec => []StopBoundsWork
<1>1. IInv => StopBoundsWork
  BY DEF IInv, StopSeen
<1> QED
  BY <1>1, AlwaysIInv, PTL

\* A query that is shown as successful and has a results key shows its result:
\* the reducer's guard against late polls and the effect of ResultSet together.
THEOREM SuccessIsShown == Spec => []SuccessShowsResults
<1>1. IInv => SuccessShowsResults
  BY DEF IInv, PageSound, Sound, SuccessShowsResults
<1> QED
  BY <1>1, AlwaysIInv, PTL

\* A query that is shown as fetching has a fetch under way, whatever late polls,
\* stops and answers came between: the page never waits for a result that
\* nobody has asked for.
FetchIsUnderWay == client.state = "fetching" => fetches > 0

THEOREM FetchesAreAwaited == Spec => []FetchIsUnderWay
<1>1. IInv => FetchIsUnderWay
  BY DEF IInv, PageSound, Sound, FetchIsUnderWay
<1> QED
  BY <1>1, AlwaysIInv, PTL

\* A query whose submission was refused is shown as failed, or as stopped, once
\* the refusal is answered: no poll of its row, which says PENDING for good,
\* makes the page wait for an execution that will never be.
THEOREM RefusalIsShown == Spec => []RefusalShown
<1>1. IInv => RefusalShown
  BY DEF IInv, RefusalSeen
<1> QED
  BY <1>1, AlwaysIInv, PTL

\* An answer to a poll that has seen the end of the execution ends the page's
\* wait for it, unless the execution ended in success without a stored result:
\* no such answer leaves the query pending or running.  A submission that was
\* refused is not such an end: its row stays PENDING (RefusalIsShown).
FreshPollSettles ==
    RefreshAnswered /\ refresh.row = db /\ worker.at = "over"
    /\ (db.status = "success" => db.key)
        => client'.state \notin {"none", "pending", "running"}

THEOREM FreshPollsSettle == Spec => [][FreshPollSettles]_vars
<1>1. IInv => FreshPollSettles
  <2> SUFFICES ASSUME IInv, RefreshAnswered, refresh.row = db, worker.at = "over",
                      db.status = "success" => db.key
               PROVE  client'.state \notin {"none", "pending", "running"}
    BY DEF FreshPollSettles
  <2>0. TypeOK /\ client \in Shown /\ Sound(client, fetches)
    BY DEF IInv, TypeOK, PageSound
  <2>1. db.status \in {"stopped", "failed", "success"}
    BY DEF IInv, EndSeen
  <2>2. CASE client.state \in {"stopped", "failed"}
    BY <2>2 DEF RefreshAnswered
  <2>3. CASE client.state \notin {"stopped", "failed"}
    <3>1. Shows(Refreshed, fetches)
      BY <2>3 DEF RefreshAnswered, Refreshed
    <3>2. CASE Refreshed.key /\ ~client.key
      <4>1. client' = [Refreshed EXCEPT !.state = "fetching"]
        BY <3>1, <3>2 DEF Shows
      <4> QED
        BY <2>0, <4>1, RefreshedParts DEF Shown
    <3>3. CASE ~(Refreshed.key /\ ~client.key)
      <4>1. client' = Refreshed
        BY <3>1, <3>3 DEF Shows
      <4> QED
        BY <2>0, <2>1, <3>3, <4>1, RefreshedParts DEF RefreshedState, Sound
    <3> QED
      BY <3>2, <3>3
  <2> QED
    BY <2>2, <2>3
<1> QED
  BY <1>1, AlwaysIInv, PTL DEF Spec
=============================================================================
