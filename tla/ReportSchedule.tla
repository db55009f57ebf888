--------------------------- MODULE ReportSchedule ---------------------------
(***************************************************************************)
(* One alert or report schedule and the Celery workers that execute it     *)
(* (superset/tasks/scheduler.py, superset/commands/report/execute.py,      *)
(* superset/daos/report.py): the beat that queues executions, the state    *)
(* machine over last_state that every execution runs without a lock, the   *)
(* execution log the grace periods and the working timeout are read from,  *)
(* the error mails, workers that die, logs that are pruned, and the owner  *)
(* who deactivates or deletes the schedule meanwhile.                      *)
(*                                                                         *)
(* Every create_log commits, so one step ends at a commit, at a read of    *)
(* the log, or at a call that leaves the process (query, mail).  Time is   *)
(* counted in units; the age of a log entry is the time since its          *)
(* end_dttm and is kept only as far as a comparison of the code sees it.   *)
(***************************************************************************)
EXTENDS Naturals, FiniteSets

CONSTANTS
    Worker,          \* Celery worker processes
    ScheduleTypes,   \* "Alert", "Report"
    GracePeriod,     \* grace_period
    WorkingTimeout,  \* working_timeout
    TimeoutLag,      \* ALERT_REPORTS_WORKING_TIME_OUT_LAG
    Retention,       \* log_retention
    Period,          \* time from one match of the crontab to the next
    MaxQueued        \* bound: executions waiting for a worker

ASSUME TimesAssumption ==
    /\ GracePeriod \in Nat
    /\ WorkingTimeout \in Nat
    /\ TimeoutLag \in Nat
    /\ Retention \in Nat
    /\ Period \in Nat \ {0}
    /\ MaxQueued \in Nat \ {0}

ASSUME TypesAssumption == ScheduleTypes \subseteq {"Alert", "Report"}

VARIABLES
    type,       \* type of the schedule
    active,     \* active
    exists,     \* the row has not been deleted
    lastState,  \* last_state, as committed
    log,        \* what the queries on the execution log can tell apart
    since,      \* history: time since the last success, if an execution alone
                \* logged it and no two executions, and no deactivation, have
                \* met since; GracePeriod if they have, or it is that long ago
    due,        \* time to the next match of the crontab
    queued,     \* executions sent and not picked up
    job,        \* what each worker is doing
    update      \* the request that deactivates the schedule

vars == <<type, active, exists, lastState, log, since, due, queued, job, update>>

ReportState == {"NOOP", "WORKING", "SUCCESS", "ERROR", "GRACE"}

\* A WORKING entry this old was never logged, or has been pruned.
Never == Retention + 2

\* entered: newest WORKING entry without a message; success: newest SUCCESS;
\* marker: newest entry that tells of an error mail (these two have the age
\* GracePeriod when they are that old, when they were pruned, or never logged);
\* anyOk: some entry is neither ERROR nor WORKING; okBefore: one of those is
\* older than the newest marker (kept while the grace period of that lasts).
Log == [entered: 0..Never, success: 0..GracePeriod, marker: 0..GracePeriod,
        anyOk: BOOLEAN, okBefore: BOOLEAN]

EmptyLog == [entered |-> Never, success |-> GracePeriod,
             marker |-> GracePeriod, anyOk |-> FALSE, okBefore |-> FALSE]

Places == {"idle", "timeout", "refuse", "grace", "enter", "query",
           "sending", "sent", "mailing", "mailed"}

\* Committing what was decided on takes no time; the others wait for a query,
\* a mail server, or to be told that they succeeded.
Deciding == {"timeout", "refuse", "grace", "enter"}

\* seen: last_state as this session last loaded it; first: it was SUCCESS or
\* GRACE at the start; alone (history): no other execution has met this one.
Job == [at: Places, seen: ReportState, fromSuccess: BOOLEAN,
        age: 0..(WorkingTimeout + TimeoutLag), alone: BOOLEAN]

Idle == [at |-> "idle", seen |-> "NOOP", fromSuccess |-> FALSE, age |-> 0,
         alone |-> FALSE]

TypeOK ==
    /\ type \in ScheduleTypes
    /\ active \in BOOLEAN
    /\ exists \in BOOLEAN
    /\ lastState \in ReportState
    /\ log \in Log
    /\ since \in 0..GracePeriod
    /\ due \in 0..Period
    /\ queued \in 0..MaxQueued
    /\ job \in [Worker -> Job]
    /\ update \in {"none", "reset"}

Init ==
    /\ type \in ScheduleTypes
    /\ active = TRUE
    /\ exists = TRUE
    /\ lastState = "NOOP"
    /\ log = EmptyLog
    /\ since = GracePeriod
    /\ due = 0
    /\ queued = 0
    /\ job = [w \in Worker |-> Idle]
    /\ update = "none"

Busy == {w \in Worker : job[w].at # "idle"}

-----------------------------------------------------------------------------
(* The execution log.                                                      *)

Logged(state) ==
    [log EXCEPT !.anyOk = @ \/ state \in {"NOOP", "SUCCESS", "GRACE"},
                !.success = IF state = "SUCCESS" THEN 0 ELSE @]

LoggedEntered == [log EXCEPT !.entered = 0]

LoggedMarker == [log EXCEPT !.marker = 0, !.okBefore = log.anyOk]

is_in_grace_period == log.success < GracePeriod

\* The code looks for a non-error entry before the last error mail.
is_in_error_grace_period == ~log.okBefore /\ log.marker < GracePeriod

is_on_working_timeout == log.entered # Never /\ log.entered > WorkingTimeout

\* Faulty variant: last_state is written whatever was loaded.
WriteAlways(w, state) == exists /\ lastState' = state

\* last_state is updated only when the value differs from the one loaded.
Write(w, state) ==
    /\ exists
    /\ lastState' = IF state = job[w].seen THEN lastState ELSE state

Goto(w, place) == job' = [job EXCEPT ![w].at = place, ![w].seen = lastState']

Done(w) == job' = [job EXCEPT ![w] = Idle]

-----------------------------------------------------------------------------
(* Beat: executions are queued for every match of the crontab.  A scheduler *)
(* run that is retried queues some of them twice.                          *)

CanSchedule == active /\ exists /\ due = 0 /\ queued < MaxQueued

Schedule ==
    /\ CanSchedule
    /\ \E copies \in 1..2 :
         /\ queued + copies <= MaxQueued
         /\ queued' = queued + copies
    /\ due' = Period
    /\ UNCHANGED <<type, active, exists, lastState, log, since, job, update>>

-----------------------------------------------------------------------------
(* The state machine of one execution.                                     *)

\* Faulty variant: only SUCCESS looks at the grace period.
FirstPlaceGraceOnce ==
    CASE lastState = "WORKING" ->
            IF is_on_working_timeout THEN "timeout" ELSE "refuse"
      [] lastState = "SUCCESS" /\ type = "Report" -> "sending"
      [] lastState = "SUCCESS" /\ is_in_grace_period -> "grace"
      [] OTHER -> "enter"

\* ReportScheduleStateMachine.run, up to the first commit.
FirstPlace ==
    CASE lastState = "WORKING" ->
            IF is_on_working_timeout THEN "timeout" ELSE "refuse"
      [] lastState \in {"SUCCESS", "GRACE"} /\ type = "Report" -> "sending"
      [] lastState \in {"SUCCESS", "GRACE"} /\ is_in_grace_period -> "grace"
      [] OTHER -> "enter"

\* The schedule and the log are read; what follows from them is committed in
\* a later step.  Two executions in flight have met.
Start(w) ==
    /\ job[w].at = "idle"
    /\ queued > 0
    /\ queued' = queued - 1
    /\ IF exists
       THEN /\ job' = [v \in Worker |->
                         IF v = w
                         THEN [at |-> FirstPlace, seen |-> lastState,
                               fromSuccess |-> lastState \in {"SUCCESS", "GRACE"},
                               age |-> 0, alone |-> Busy = {}]
                         ELSE [job[v] EXCEPT !.alone = FALSE]]
            /\ since' = IF Busy = {} THEN since ELSE GracePeriod
       ELSE UNCHANGED <<job, since>>
    /\ UNCHANGED <<type, active, exists, lastState, log, due, update>>

TimeOut(w) ==
    /\ job[w].at = "timeout"
    /\ Write(w, "ERROR")
    /\ log' = Logged("ERROR")
    /\ Done(w)
    /\ UNCHANGED <<type, active, exists, since, due, queued, update>>

\* Faulty variant: the refusal is logged without a message.
RefuseSilently(w) ==
    /\ job[w].at = "refuse"
    /\ Write(w, "WORKING")
    /\ log' = LoggedEntered
    /\ Done(w)
    /\ UNCHANGED <<type, active, exists, since, due, queued, update>>

Refuse(w) ==
    /\ job[w].at = "refuse"
    /\ Write(w, "WORKING")
    /\ log' = Logged("WORKING")
    /\ Done(w)
    /\ UNCHANGED <<type, active, exists, since, due, queued, update>>

EnterGrace(w) ==
    /\ job[w].at = "grace"
    /\ Write(w, "GRACE")
    /\ log' = Logged("GRACE")
    /\ Done(w)
    /\ UNCHANGED <<type, active, exists, since, due, queued, update>>

EnterWorking(w) ==
    /\ job[w].at = "enter"
    /\ Write(w, "WORKING")
    /\ log' = LoggedEntered
    /\ Goto(w, IF type = "Alert" THEN "query" ELSE "sending")
    /\ UNCHANGED <<type, active, exists, since, due, queued, update>>

Triggered(w) ==
    /\ job[w].at = "query"
    /\ job' = [job EXCEPT ![w].at = "sending"]
    /\ UNCHANGED <<type, active, exists, lastState, log, since, due, queued, update>>

NotTriggered(w) ==
    /\ job[w].at = "query"
    /\ Write(w, "NOOP")
    /\ log' = Logged("NOOP")
    /\ Done(w)
    /\ UNCHANGED <<type, active, exists, since, due, queued, update>>

\* An execution that began in SUCCESS or GRACE mails the error at once.
QueryFailsFromSuccess(w) ==
    /\ job[w].at = "query" /\ job[w].fromSuccess
    /\ job' = [job EXCEPT ![w].at = "mailing"]
    /\ UNCHANGED <<type, active, exists, lastState, log, since, due, queued, update>>

\* The query failed, the content could not be made, or a recipient could not
\* be reached: the error is logged, and mailed from NOOP or ERROR only.
Fails(w) ==
    /\ \/ job[w].at = "query" /\ ~job[w].fromSuccess
       \/ job[w].at = "sending"
    /\ Write(w, "ERROR")
    /\ log' = Logged("ERROR")
    /\ IF job[w].fromSuccess \/ is_in_error_grace_period
       THEN Done(w)
       ELSE Goto(w, "mailing")
    /\ UNCHANGED <<type, active, exists, since, due, queued, update>>

\* send: the notification has left for every recipient.
SendDone(w) ==
    /\ job[w].at = "sending"
    /\ job' = [job EXCEPT ![w].at = "sent"]
    /\ UNCHANGED <<type, active, exists, lastState, log, since, due, queued, update>>

LogSuccess(w) ==
    /\ job[w].at = "sent"
    /\ Write(w, "SUCCESS")
    /\ log' = Logged("SUCCESS")
    /\ since' = IF job[w].alone /\ update = "none" THEN 0 ELSE GracePeriod
    /\ Done(w)
    /\ UNCHANGED <<type, active, exists, due, queued, update>>

\* send_error
MailDone(w) ==
    /\ job[w].at = "mailing"
    /\ job' = [job EXCEPT ![w].at = "mailed"]
    /\ UNCHANGED <<type, active, exists, lastState, log, since, due, queued, update>>

\* From SUCCESS or GRACE the failed mail ends the execution without a log.
MailFails(w) ==
    /\ job[w].at = "mailing"
    /\ IF job[w].fromSuccess
       THEN UNCHANGED <<lastState, log>>
       ELSE Write(w, "ERROR") /\ log' = Logged("ERROR")
    /\ Done(w)
    /\ UNCHANGED <<type, active, exists, since, due, queued, update>>

LogMail(w) ==
    /\ job[w].at = "mailed"
    /\ Write(w, "ERROR")
    /\ log' = LoggedMarker
    /\ Done(w)
    /\ UNCHANGED <<type, active, exists, since, due, queued, update>>

-----------------------------------------------------------------------------
(* Failures: the process is killed, or finds its schedule deleted.         *)

Overdue(w) == job[w].at # "idle" /\ job[w].age = WorkingTimeout + TimeoutLag

GivesUp(w) ==
    /\ Done(w)
    /\ UNCHANGED <<type, active, exists, lastState, log, since, due, queued, update>>

\* The task was acknowledged when it started: nobody takes it up again.
Crash(w) == job[w].at \notin Deciding \cup {"idle"} /\ GivesUp(w)

\* time_limit
HardKill(w) == Overdue(w) /\ GivesUp(w)

\* StaleDataError: the execution gives up at its next access to the schedule.
Orphaned(w) == ~exists /\ job[w].at # "idle" /\ GivesUp(w)

-----------------------------------------------------------------------------
(* The owner, the pruning of the log, and time.                            *)

\* An edit that deactivates the schedule reads last_state first.  When it
\* found no WORKING only active is written, whatever last_state is by then.
Deactivate ==
    /\ active /\ exists /\ update = "none"
    /\ active' = FALSE
    /\ since' = IF Busy = {} THEN since ELSE GracePeriod
    /\ UNCHANGED <<type, exists, lastState, log, due, queued, job, update>>

StartReset ==
    /\ active /\ exists /\ update = "none"
    /\ lastState = "WORKING"
    /\ update' = "reset"
    /\ UNCHANGED <<type, active, exists, lastState, log, since, due, queued, job>>

CommitReset ==
    /\ exists /\ update = "reset"
    /\ update' = "none"
    /\ active' = FALSE
    /\ lastState' = "NOOP"
    /\ since' = IF Busy = {} THEN since ELSE GracePeriod
    /\ UNCHANGED <<type, exists, log, due, queued, job>>

Activate ==
    /\ ~active /\ exists
    /\ active' = TRUE
    /\ UNCHANGED <<type, exists, lastState, log, since, due, queued, job, update>>

\* The row and its log are gone.
Delete ==
    /\ exists
    /\ exists' = FALSE
    /\ active' = FALSE
    /\ lastState' = "NOOP"
    /\ log' = EmptyLog
    /\ since' = GracePeriod
    /\ update' = "none"
    /\ UNCHANGED <<type, due, queued, job>>

\* The age of an entry after the log was pruned.
Pruned(age, none) == IF age > Retention THEN none ELSE age

\* bulk_delete_logs: whatever is older than Retention goes.  The age of the
\* entries behind anyOk and okBefore is not kept: they may be old enough, or not.
PruneLog ==
    /\ exists
    /\ LET success == Pruned(log.success, GracePeriod)
           marker  == Pruned(log.marker, GracePeriod)
       IN \E anyOk \in {log.anyOk, success < GracePeriod} :
          \E okBefore \in {log.okBefore /\ marker = log.marker, FALSE} :
             log' = [entered |-> Pruned(log.entered, Never), success |-> success,
                     marker |-> marker, anyOk |-> anyOk, okBefore |-> okBefore]
    /\ UNCHANGED <<type, active, exists, lastState, since, due, queued, job, update>>

\* Faulty variant: ages grow without a limit.
OlderForever(age, limit) == IF age <= limit THEN age + 1 ELSE age

Older(age, limit) == IF age < limit THEN age + 1 ELSE age

\* Beat is on time, a free worker takes a queued execution within the unit,
\* and no execution outlives its time_limit.
Tick ==
    /\ ~CanSchedule
    /\ queued = 0 \/ Busy = Worker
    /\ \A w \in Worker : job[w].at \notin Deciding /\ ~Overdue(w)
    /\ log' = [log EXCEPT
                 !.entered = IF @ = Never THEN @ ELSE Older(@, Retention + 1),
                 !.success = Older(@, GracePeriod),
                 !.marker = Older(@, GracePeriod),
                 !.okBefore = @ /\ log.marker + 1 < GracePeriod]
    /\ since' = Older(since, GracePeriod)
    /\ due' = (IF due = 0 THEN Period ELSE due) - 1
    /\ job' = [w \in Worker |-> IF job[w].at = "idle" THEN job[w]
                                ELSE [job[w] EXCEPT !.age = @ + 1]]
    /\ UNCHANGED <<type, active, exists, lastState, queued, update>>

-----------------------------------------------------------------------------
\* The steps a live worker takes without waiting for anything outside.
Prologue(w) ==
    Start(w) \/ TimeOut(w) \/ Refuse(w) \/ EnterGrace(w) \/ EnterWorking(w)

Outcome(w) ==
    \/ Triggered(w) \/ NotTriggered(w) \/ QueryFailsFromSuccess(w) \/ Fails(w)
    \/ SendDone(w) \/ LogSuccess(w)
    \/ MailDone(w) \/ MailFails(w) \/ LogMail(w)

Next ==
    \/ Schedule
    \/ \E w \in Worker : Prologue(w)
    \/ \E w \in Worker : Outcome(w)
    \/ \E w \in Worker : Crash(w) \/ HardKill(w) \/ Orphaned(w)
    \/ Deactivate \/ StartReset \/ CommitReset \/ Activate \/ Delete
    \/ PruneLog
    \/ Tick

Spec == Init /\ [][Next]_vars

\* Queries, screenshots and mails may hang: only the steps before them are
\* fair, and the kill that ends what hangs.
Fairness ==
    /\ WF_vars(Schedule)
    /\ WF_vars(Tick)
    /\ \A w \in Worker : WF_vars(Prologue(w)) /\ WF_vars(HardKill(w))

FairSpec == Spec /\ Fairness

-----------------------------------------------------------------------------
(* Properties.                                                             *)

\* An alert is not sent again within the grace period of its last success,
\* whatever fails or dies in between, as long as the entry of that success has
\* not been pruned (log_retention may be shorter than grace_period, even 0) and
\* no two executions, nor a deactivation and an execution, have met since
\* (last_state is then no longer the outcome of the newest log entry).
GraceRespected ==
    [][\A w \in Worker :
         Triggered(w) => since = GracePeriod \/ log.success # since]_vars

\* An execution that was refused leaves the result of the one it found working
\* alone, even when that one has finished since last_state was read.
RefusedKeepsResult ==
    [][\A w \in Worker : Refuse(w) => lastState' = lastState]_vars

\* "Unlock a possible stalled working state": whatever happens to the workers,
\* an active schedule leaves WORKING, if its entry of the log lives to see the
\* next execution.
WorkingIsUnlocked ==
    (lastState = "WORKING" /\ active /\ log.entered + Period <= Retention)
        ~> (lastState # "WORKING" \/ ~active \/ ~exists)
=============================================================================
