------------------------ MODULE ReportScheduleProofs ------------------------
(***************************************************************************)
(* Proofs about ReportSchedule: type correctness, the grace period of an   *)
(* alert, the harmlessness of a refused execution and what the unlocking   *)
(* of a stalled one rests on, for any number of workers and any durations. *)
(***************************************************************************)
EXTENDS ReportSchedule, TLAPS

\* What an execution holds follows from where it is.
JobsConsistent ==
    /\ \A w \in Worker : job[w].at \in {"timeout", "refuse"} => job[w].seen = "WORKING"
    /\ \A w \in Worker : job[w].at = "query" => type = "Alert"
    /\ \A w \in Worker : job[w].at = "enter" => job[w].seen # "WORKING"
    /\ \A w \in Worker :
         type = "Alert" /\ job[w].at \in {"query", "sending", "sent"}
             => job[w].seen = "WORKING"

\* An execution that met no other is the only one.
AloneIsOnly ==
    \A w, v \in Worker : job[w].alone /\ v # w => job[v].at = "idle"

\* The alert is within the grace period of a success that nothing has met, and
\* the log still has its entry.
InGrace == type = "Alert" /\ since < GracePeriod /\ log.success = since

\* There, the alert stays in SUCCESS or GRACE and no execution is past the
\* grace check.
CalmKeepsGrace ==
    InGrace =>
        /\ lastState \in {"SUCCESS", "GRACE"}
        /\ update # "reset"
        /\ \A w \in Worker : job[w].at \in {"idle", "grace"}

\* Nothing but the pruning takes the entry, and not from a log that is kept as
\* long as the grace period.
SinceIsLogged ==
    since < GracePeriod =>
        /\ log.success \in {since, GracePeriod}
        /\ GracePeriod <= Retention + 1 => log.success = since

IInv == TypeOK /\ JobsConsistent /\ AloneIsOnly /\ CalmKeepsGrace /\ SinceIsLogged

-----------------------------------------------------------------------------
(* Values the actions build.                                               *)

LEMMA AgesTyped ==
    /\ 0 \in 0..Never /\ Never \in 0..Never
    /\ 0 \in 0..GracePeriod /\ GracePeriod \in 0..GracePeriod
    /\ 0 \in 0..(WorkingTimeout + TimeoutLag)
  BY TimesAssumption DEF Never

LEMMA IdleTyped == Idle \in Job /\ Idle.at = "idle" /\ ~Idle.alone
  BY AgesTyped DEF Idle, Job, Places, ReportState

LEMMA EmptyLogTyped == EmptyLog \in Log /\ EmptyLog.success = GracePeriod
  BY AgesTyped DEF EmptyLog, Log

LEMMA LoggedTyped ==
  ASSUME log \in Log, NEW s \in ReportState
  PROVE  /\ Logged(s) \in Log
         /\ Logged(s).success = IF s = "SUCCESS" THEN 0 ELSE log.success
<1>1. 0 \in 0..GracePeriod
  BY AgesTyped
<1>2. CASE s = "SUCCESS"
  <2>1. Logged(s) = [log EXCEPT !.anyOk = @ \/ TRUE, !.success = 0]
    BY <1>2 DEF Logged
  <2> QED
    BY <1>1, <1>2, <2>1 DEF Log
<1>3. CASE s # "SUCCESS"
  <2>1. Logged(s) = [log EXCEPT !.anyOk = @ \/ s \in {"NOOP", "GRACE"}]
    BY <1>3 DEF Logged, Log
  <2> QED
    BY <1>3, <2>1 DEF Log
<1> QED
  BY <1>2, <1>3

LEMMA EnteredTyped ==
  ASSUME log \in Log
  PROVE  LoggedEntered \in Log /\ LoggedEntered.success = log.success
  BY AgesTyped DEF LoggedEntered, Log

LEMMA MarkerTyped ==
  ASSUME log \in Log
  PROVE  LoggedMarker \in Log /\ LoggedMarker.success = log.success
  BY AgesTyped DEF LoggedMarker, Log

LEMMA WriteTyped ==
  ASSUME lastState \in ReportState, NEW w, NEW s \in ReportState, Write(w, s)
  PROVE  lastState' \in ReportState
  BY DEF Write

-----------------------------------------------------------------------------
LEMMA InitIInv == Init => IInv
<1> SUFFICES ASSUME Init PROVE IInv
  OBVIOUS
<1>1. \A w \in Worker : job[w] = Idle
  BY DEF Init
<1>2. TypeOK
  <2>1. job \in [Worker -> Job]
    BY IdleTyped DEF Init
  <2>2. due \in 0..Period /\ queued \in 0..MaxQueued
    BY TimesAssumption DEF Init
  <2> QED
    BY <2>1, <2>2, AgesTyped, EmptyLogTyped DEF Init, TypeOK, ReportState
<1>3. JobsConsistent
  BY <1>1, IdleTyped DEF JobsConsistent
<1>4. AloneIsOnly
  BY <1>1, IdleTyped DEF AloneIsOnly
<1>5. CalmKeepsGrace /\ SinceIsLogged
  BY TimesAssumption DEF CalmKeepsGrace, InGrace, SinceIsLogged, Init
<1> QED
  BY <1>2, <1>3, <1>4, <1>5 DEF IInv

-----------------------------------------------------------------------------
(* One execution goes from record job[w] to record r.                      *)

\* The record r is one an execution may hold.
Coherent(r) ==
    /\ r.at \in {"timeout", "refuse"} => r.seen = "WORKING"
    /\ r.at = "query" => type = "Alert"
    /\ r.at = "enter" => r.seen # "WORKING"
    /\ type = "Alert" /\ r.at \in {"query", "sending", "sent"} => r.seen = "WORKING"

LEMMA OneJob ==
  ASSUME IInv, NEW w \in Worker, NEW r \in Job, job' = [job EXCEPT ![w] = r],
         type' = type, Coherent(r),
         r.alone => job[w].alone,
         job[w].at = "idle" => r.at = "idle"
  PROVE  job' \in [Worker -> Job] /\ JobsConsistent' /\ AloneIsOnly'
<1> USE DEF IInv
<1>1. /\ job' \in [Worker -> Job]
      /\ job'[w] = r
      /\ \A v \in Worker : v # w => job'[v] = job[v]
  BY DEF TypeOK
<1>2. JobsConsistent'
  BY <1>1 DEF JobsConsistent, Coherent
<1>3. AloneIsOnly'
  BY <1>1 DEF AloneIsOnly
<1> QED
  BY <1>1, <1>2, <1>3

LEMMA JobEnds ==
  ASSUME IInv, NEW w \in Worker, Done(w), type' = type
  PROVE  /\ job' \in [Worker -> Job] /\ JobsConsistent' /\ AloneIsOnly'
         /\ job'[w] = Idle
         /\ \A v \in Worker : v # w => job'[v] = job[v]
<1>1. Coherent(Idle)
  BY IdleTyped DEF Coherent
<1>2. job' = [job EXCEPT ![w] = Idle]
  BY DEF Done
<1>3. job' \in [Worker -> Job] /\ JobsConsistent' /\ AloneIsOnly'
  BY <1>1, <1>2, IdleTyped, OneJob
<1> QED
  BY <1>2, <1>3 DEF IInv, TypeOK

LEMMA JobMoves ==
  ASSUME IInv, NEW w \in Worker, NEW place \in Places, NEW s \in ReportState,
         job' = [job EXCEPT ![w].at = place, ![w].seen = s],
         type' = type, job[w].at # "idle",
         Coherent([job[w] EXCEPT !.at = place, !.seen = s])
  PROVE  /\ job' \in [Worker -> Job] /\ JobsConsistent' /\ AloneIsOnly'
         /\ job'[w].at = place
         /\ \A v \in Worker : v # w => job'[v] = job[v]
<1> DEFINE r == [job[w] EXCEPT !.at = place, !.seen = s]
<1>1. job[w] \in Job
  BY DEF IInv, TypeOK
<1>2. r \in Job /\ r.alone = job[w].alone /\ r.at = place
  BY <1>1 DEF Job
<1>3. job' = [job EXCEPT ![w] = r]
  BY DEF IInv, TypeOK
<1> HIDE DEF r
<1>4. Coherent(r)
  BY DEF r
<1>5. job' \in [Worker -> Job] /\ JobsConsistent' /\ AloneIsOnly'
  BY <1>2, <1>3, <1>4, OneJob
<1> QED
  BY <1>2, <1>3, <1>5 DEF IInv, TypeOK

\* The same for a step that reads nothing from the database.
LEMMA JobSteps ==
  ASSUME IInv, NEW w \in Worker, NEW place \in Places,
         job' = [job EXCEPT ![w].at = place],
         type' = type, job[w].at # "idle",
         Coherent([job[w] EXCEPT !.at = place, !.seen = job[w].seen])
  PROVE  /\ job' \in [Worker -> Job] /\ JobsConsistent' /\ AloneIsOnly'
         /\ job'[w].at = place
         /\ \A v \in Worker : v # w => job'[v] = job[v]
<1>1. job[w] \in Job /\ job \in [Worker -> Job]
  BY DEF IInv, TypeOK
<1>2. job[w].seen \in ReportState
  BY <1>1 DEF Job
<1>3. [job[w] EXCEPT !.at = place] = [job[w] EXCEPT !.at = place, !.seen = job[w].seen]
  BY <1>1 DEF Job
<1>4. job' = [job EXCEPT ![w].at = place, ![w].seen = job[w].seen]
  BY <1>1, <1>3
<1> QED
  BY <1>2, <1>4, JobMoves
-----------------------------------------------------------------------------
(* Every action preserves the invariant.                                   *)

\* What the steps of an execution leave alone.
Kept == UNCHANGED <<type, active, exists, due, queued, update>>

\* A step of an execution that keeps the log typed, logs no success and does
\* not leave the grace period.
LEMMA ExecutionStep ==
  ASSUME IInv, Kept, NEW w \in Worker,
         job' \in [Worker -> Job], JobsConsistent', AloneIsOnly',
         \A v \in Worker : v # w => job'[v] = job[v],
         lastState' \in ReportState, log' \in Log, since' = since,
         log'.success = log.success,
         InGrace =>
             /\ lastState' \in {"SUCCESS", "GRACE"}
             /\ job'[w].at \in {"idle", "grace"}
  PROVE  IInv'
<1>1. TypeOK'
  BY DEF IInv, TypeOK, Kept
<1>2. CalmKeepsGrace'
  BY DEF IInv, CalmKeepsGrace, InGrace, Kept
<1>3. SinceIsLogged'
  BY DEF IInv, SinceIsLogged
<1> QED
  BY <1>1, <1>2, <1>3 DEF IInv

LEMMA TimeOutIInv == ASSUME IInv, NEW w \in Worker, TimeOut(w) PROVE IInv'
<1> USE DEF TimeOut
<1>1. lastState' \in ReportState /\ log' \in Log /\ log'.success = log.success
  BY WriteTyped, LoggedTyped DEF IInv, TypeOK, ReportState
<1>2. /\ job' \in [Worker -> Job] /\ JobsConsistent' /\ AloneIsOnly'
      /\ \A v \in Worker : v # w => job'[v] = job[v]
  BY JobEnds
<1>3. ~InGrace
  BY DEF IInv, CalmKeepsGrace
<1> QED
  BY <1>1, <1>2, <1>3, ExecutionStep DEF Kept

LEMMA RefuseIInv == ASSUME IInv, NEW w \in Worker, Refuse(w) PROVE IInv'
<1> USE DEF Refuse
<1>1. lastState' \in ReportState /\ log' \in Log /\ log'.success = log.success
  BY WriteTyped, LoggedTyped DEF IInv, TypeOK, ReportState
<1>2. /\ job' \in [Worker -> Job] /\ JobsConsistent' /\ AloneIsOnly'
      /\ \A v \in Worker : v # w => job'[v] = job[v]
  BY JobEnds
<1>3. ~InGrace
  BY DEF IInv, CalmKeepsGrace
<1> QED
  BY <1>1, <1>2, <1>3, ExecutionStep DEF Kept

LEMMA EnterGraceIInv == ASSUME IInv, NEW w \in Worker, EnterGrace(w) PROVE IInv'
<1> USE DEF EnterGrace
<1>1. lastState' \in ReportState /\ log' \in Log /\ log'.success = log.success
  BY WriteTyped, LoggedTyped DEF IInv, TypeOK, ReportState
<1>2. /\ job' \in [Worker -> Job] /\ JobsConsistent' /\ AloneIsOnly'
      /\ job'[w] = Idle
      /\ \A v \in Worker : v # w => job'[v] = job[v]
  BY JobEnds
<1>3. InGrace =>
        /\ lastState' \in {"SUCCESS", "GRACE"}
        /\ job'[w].at \in {"idle", "grace"}
  BY <1>2, IdleTyped DEF IInv, CalmKeepsGrace, Write
<1> QED
  BY <1>1, <1>2, <1>3, ExecutionStep DEF Kept

LEMMA EnterWorkingIInv == ASSUME IInv, NEW w \in Worker, EnterWorking(w) PROVE IInv'
<1> USE DEF EnterWorking
<1> DEFINE place == IF type = "Alert" THEN "query" ELSE "sending"
<1>1. lastState' \in ReportState /\ log' \in Log /\ log'.success = log.success
  BY WriteTyped, EnteredTyped DEF IInv, TypeOK, ReportState
<1>2. lastState' = "WORKING"
  BY DEF IInv, JobsConsistent, Write
<1>3. job[w] \in Job
  BY DEF IInv, TypeOK
<1>4. Coherent([job[w] EXCEPT !.at = place, !.seen = lastState'])
  BY <1>2, <1>3 DEF Coherent, Job
<1>5. place \in Places
  BY DEF Places
<1> HIDE DEF place
<1>6. job' = [job EXCEPT ![w].at = place, ![w].seen = lastState']
  BY DEF Goto, place
<1>7. /\ job' \in [Worker -> Job] /\ JobsConsistent' /\ AloneIsOnly'
      /\ \A v \in Worker : v # w => job'[v] = job[v]
  BY <1>1, <1>4, <1>5, <1>6, JobMoves
<1>8. ~InGrace
  BY DEF IInv, CalmKeepsGrace
<1> QED
  BY <1>1, <1>7, <1>8, ExecutionStep DEF Kept

LEMMA TriggeredIInv == ASSUME IInv, NEW w \in Worker, Triggered(w) PROVE IInv'
<1> USE DEF Triggered
<1>1. job[w] \in Job /\ log \in Log /\ lastState \in ReportState
  BY DEF IInv, TypeOK
<1>2. Coherent([job[w] EXCEPT !.at = "sending", !.seen = job[w].seen])
  BY <1>1 DEF Coherent, Job, IInv, JobsConsistent
<1>3. /\ job' \in [Worker -> Job] /\ JobsConsistent' /\ AloneIsOnly'
      /\ \A v \in Worker : v # w => job'[v] = job[v]
  BY <1>2, JobSteps DEF Places
<1>4. ~InGrace
  BY DEF IInv, CalmKeepsGrace
<1> QED
  BY <1>1, <1>3, <1>4, ExecutionStep DEF Kept

LEMMA NotTriggeredIInv == ASSUME IInv, NEW w \in Worker, NotTriggered(w) PROVE IInv'
<1> USE DEF NotTriggered
<1>1. lastState' \in ReportState /\ log' \in Log /\ log'.success = log.success
  BY WriteTyped, LoggedTyped DEF IInv, TypeOK, ReportState
<1>2. /\ job' \in [Worker -> Job] /\ JobsConsistent' /\ AloneIsOnly'
      /\ \A v \in Worker : v # w => job'[v] = job[v]
  BY JobEnds
<1>3. ~InGrace
  BY DEF IInv, CalmKeepsGrace
<1> QED
  BY <1>1, <1>2, <1>3, ExecutionStep DEF Kept

LEMMA QueryFailsFromSuccessIInv ==
  ASSUME IInv, NEW w \in Worker, QueryFailsFromSuccess(w) PROVE IInv'
<1> USE DEF QueryFailsFromSuccess
<1>1. job[w] \in Job /\ log \in Log /\ lastState \in ReportState
  BY DEF IInv, TypeOK
<1>2. Coherent([job[w] EXCEPT !.at = "mailing", !.seen = job[w].seen])
  BY <1>1 DEF Coherent, Job
<1>3. /\ job' \in [Worker -> Job] /\ JobsConsistent' /\ AloneIsOnly'
      /\ \A v \in Worker : v # w => job'[v] = job[v]
  BY <1>2, JobSteps DEF Places
<1>4. ~InGrace
  BY DEF IInv, CalmKeepsGrace
<1> QED
  BY <1>1, <1>3, <1>4, ExecutionStep DEF Kept

LEMMA FailsIInv == ASSUME IInv, NEW w \in Worker, Fails(w) PROVE IInv'
<1> USE DEF Fails
<1>1. lastState' \in ReportState /\ log' \in Log /\ log'.success = log.success
  BY WriteTyped, LoggedTyped DEF IInv, TypeOK, ReportState
<1>2. job[w] \in Job /\ job[w].at # "idle"
  BY DEF IInv, TypeOK
<1>3. Coherent([job[w] EXCEPT !.at = "mailing", !.seen = lastState'])
  BY <1>1, <1>2 DEF Coherent, Job
<1>4. /\ job' \in [Worker -> Job] /\ JobsConsistent' /\ AloneIsOnly'
      /\ \A v \in Worker : v # w => job'[v] = job[v]
  <2>1. CASE Done(w)
    BY <2>1, JobEnds
  <2>2. CASE Goto(w, "mailing")
    <3>1. "mailing" \in Places
      BY DEF Places
    <3> QED
      BY <1>1, <1>2, <1>3, <2>2, <3>1, JobMoves DEF Goto
  <2> QED
    BY <2>1, <2>2
<1>5. ~InGrace
  BY DEF IInv, CalmKeepsGrace
<1> QED
  BY <1>1, <1>4, <1>5, ExecutionStep DEF Kept

LEMMA SendDoneIInv == ASSUME IInv, NEW w \in Worker, SendDone(w) PROVE IInv'
<1> USE DEF SendDone
<1>1. job[w] \in Job /\ log \in Log /\ lastState \in ReportState
  BY DEF IInv, TypeOK
<1>2. Coherent([job[w] EXCEPT !.at = "sent", !.seen = job[w].seen])
  BY <1>1 DEF Coherent, Job, IInv, JobsConsistent
<1>3. /\ job' \in [Worker -> Job] /\ JobsConsistent' /\ AloneIsOnly'
      /\ \A v \in Worker : v # w => job'[v] = job[v]
  BY <1>2, JobSteps DEF Places
<1>4. ~InGrace
  BY DEF IInv, CalmKeepsGrace
<1> QED
  BY <1>1, <1>3, <1>4, ExecutionStep DEF Kept

\* The step that starts a grace period.
LEMMA LogSuccessIInv == ASSUME IInv, NEW w \in Worker, LogSuccess(w) PROVE IInv'
<1> USE DEF LogSuccess
<1>1. lastState' \in ReportState /\ log' \in Log /\ log'.success = 0
  BY WriteTyped, LoggedTyped DEF IInv, TypeOK, ReportState
<1>2. /\ job' \in [Worker -> Job] /\ JobsConsistent' /\ AloneIsOnly'
      /\ job'[w] = Idle
      /\ \A v \in Worker : v # w => job'[v] = job[v]
  BY JobEnds
<1>3. since' \in 0..GracePeriod /\ since' \in {0, GracePeriod}
  BY AgesTyped
<1>4. TypeOK'
  BY <1>1, <1>2, <1>3 DEF IInv, TypeOK
<1>5. CalmKeepsGrace'
  <2>1. SUFFICES ASSUME InGrace', type = "Alert"
                 PROVE  /\ lastState' \in {"SUCCESS", "GRACE"}
                        /\ update' # "reset"
                        /\ \A v \in Worker : job'[v].at \in {"idle", "grace"}
    BY DEF CalmKeepsGrace, InGrace
  <2>2. job[w].alone /\ update = "none"
    BY <2>1, TimesAssumption DEF InGrace
  <2>3. lastState' = "SUCCESS"
    BY <2>1 DEF IInv, JobsConsistent, Write
  <2>4. \A v \in Worker : job'[v].at = "idle"
    BY <1>2, <2>2, IdleTyped DEF IInv, AloneIsOnly
  <2> QED
    BY <2>2, <2>3, <2>4
<1>6. SinceIsLogged'
  BY <1>1, <1>3, TimesAssumption DEF SinceIsLogged
<1> QED
  BY <1>2, <1>4, <1>5, <1>6 DEF IInv

LEMMA MailDoneIInv == ASSUME IInv, NEW w \in Worker, MailDone(w) PROVE IInv'
<1> USE DEF MailDone
<1>1. job[w] \in Job /\ log \in Log /\ lastState \in ReportState
  BY DEF IInv, TypeOK
<1>2. Coherent([job[w] EXCEPT !.at = "mailed", !.seen = job[w].seen])
  BY <1>1 DEF Coherent, Job
<1>3. /\ job' \in [Worker -> Job] /\ JobsConsistent' /\ AloneIsOnly'
      /\ \A v \in Worker : v # w => job'[v] = job[v]
  BY <1>2, JobSteps DEF Places
<1>4. ~InGrace
  BY DEF IInv, CalmKeepsGrace
<1> QED
  BY <1>1, <1>3, <1>4, ExecutionStep DEF Kept

LEMMA MailFailsIInv == ASSUME IInv, NEW w \in Worker, MailFails(w) PROVE IInv'
<1> USE DEF MailFails
<1>1. lastState' \in ReportState /\ log' \in Log /\ log'.success = log.success
  BY WriteTyped, LoggedTyped DEF IInv, TypeOK, ReportState
<1>2. /\ job' \in [Worker -> Job] /\ JobsConsistent' /\ AloneIsOnly'
      /\ \A v \in Worker : v # w => job'[v] = job[v]
  BY JobEnds
<1>3. ~InGrace
  BY DEF IInv, CalmKeepsGrace
<1> QED
  BY <1>1, <1>2, <1>3, ExecutionStep DEF Kept

LEMMA LogMailIInv == ASSUME IInv, NEW w \in Worker, LogMail(w) PROVE IInv'
<1> USE DEF LogMail
<1>1. lastState' \in ReportState /\ log' \in Log /\ log'.success = log.success
  BY WriteTyped, MarkerTyped DEF IInv, TypeOK, ReportState
<1>2. /\ job' \in [Worker -> Job] /\ JobsConsistent' /\ AloneIsOnly'
      /\ \A v \in Worker : v # w => job'[v] = job[v]
  BY JobEnds
<1>3. ~InGrace
  BY DEF IInv, CalmKeepsGrace
<1> QED
  BY <1>1, <1>2, <1>3, ExecutionStep DEF Kept

\* A crash, a kill or a lost schedule.
LEMMA GivesUpIInv == ASSUME IInv, NEW w \in Worker, GivesUp(w) PROVE IInv'
<1> USE DEF GivesUp
<1>1. lastState \in ReportState /\ log \in Log
  BY DEF IInv, TypeOK
<1>2. /\ job' \in [Worker -> Job] /\ JobsConsistent' /\ AloneIsOnly'
      /\ job'[w] = Idle
      /\ \A v \in Worker : v # w => job'[v] = job[v]
  BY JobEnds
<1>3. InGrace =>
        lastState' \in {"SUCCESS", "GRACE"} /\ job'[w].at \in {"idle", "grace"}
  BY <1>2, IdleTyped DEF IInv, CalmKeepsGrace
<1> QED
  BY <1>1, <1>2, <1>3, ExecutionStep DEF Kept

LEMMA StartIInv == ASSUME IInv, NEW w \in Worker, Start(w) PROVE IInv'
<1> USE DEF Start
<1>1. queued' \in 0..MaxQueued
  BY TimesAssumption DEF IInv, TypeOK
<1>2. CASE ~exists
  <2>1. TypeOK'
    BY <1>1, <1>2 DEF IInv, TypeOK
  <2>2. JobsConsistent' /\ AloneIsOnly' /\ CalmKeepsGrace' /\ SinceIsLogged'
    BY <1>2 DEF IInv, JobsConsistent, AloneIsOnly, CalmKeepsGrace, InGrace,
       SinceIsLogged
  <2> QED
    BY <2>1, <2>2 DEF IInv
<1>3. CASE exists
  <2> DEFINE r == [at |-> FirstPlace, seen |-> lastState,
                   fromSuccess |-> lastState \in {"SUCCESS", "GRACE"},
                   age |-> 0, alone |-> Busy = {}]
  <2>1. /\ FirstPlace \in Places
        /\ FirstPlace \in {"timeout", "refuse"} => lastState = "WORKING"
        /\ FirstPlace = "enter" => lastState # "WORKING"
        /\ FirstPlace \notin {"query", "sent"}
        /\ FirstPlace = "sending" => type = "Report"
    BY DEF FirstPlace, Places
  <2>2. r \in Job
    BY <2>1, AgesTyped DEF Job, IInv, TypeOK
  <2>3. /\ job'[w] = r
        /\ \A v \in Worker : v # w => job'[v] = [job[v] EXCEPT !.alone = FALSE]
    BY <1>3
  <2>4. \A v \in Worker : v # w =>
          /\ job'[v] \in Job
          /\ job'[v].at = job[v].at /\ job'[v].seen = job[v].seen
          /\ job'[v].alone = FALSE
    BY <2>3 DEF IInv, TypeOK, Job
  <2>5. job' \in [Worker -> Job]
    <3>1. \A v \in Worker : job'[v] \in Job
      BY <2>2, <2>3, <2>4
    <3>2. job' = [v \in Worker |-> job'[v]]
      BY <1>3
    <3> QED
      BY <3>1, <3>2
  <2>6. r.at = FirstPlace /\ r.seen = lastState /\ r.alone = (Busy = {})
    OBVIOUS
  <2>7. since' \in 0..GracePeriod /\ (since' # GracePeriod => since' = since /\ Busy = {})
    BY <1>3, AgesTyped DEF IInv, TypeOK
  <2> HIDE DEF r
  <2>8. TypeOK'
    BY <1>1, <2>5, <2>7 DEF IInv, TypeOK
  <2>9. JobsConsistent'
    BY <2>1, <2>3, <2>4, <2>6 DEF IInv, JobsConsistent
  <2>10. AloneIsOnly'
    BY <2>3, <2>4, <2>6 DEF AloneIsOnly, Busy
  <2>11. CalmKeepsGrace'
    <3>1. SUFFICES ASSUME since' # GracePeriod, InGrace, is_in_grace_period
                   PROVE  /\ lastState \in {"SUCCESS", "GRACE"}
                          /\ update # "reset"
                          /\ \A v \in Worker : job'[v].at \in {"idle", "grace"}
      BY <2>7, TimesAssumption DEF CalmKeepsGrace, InGrace, is_in_grace_period
    <3>2. lastState \in {"SUCCESS", "GRACE"} /\ update # "reset"
      BY <3>1 DEF IInv, CalmKeepsGrace
    <3>3. FirstPlace = "grace"
      BY <3>1, <3>2 DEF FirstPlace, InGrace
    <3>4. \A v \in Worker : v # w => job'[v].at = "idle"
      BY <2>4, <2>7, <3>1 DEF Busy
    <3> QED
      BY <2>3, <2>6, <3>2, <3>3, <3>4
  <2>12. SinceIsLogged'
    BY <2>7, TimesAssumption DEF IInv, SinceIsLogged
  <2> QED
    BY <2>8, <2>9, <2>10, <2>11, <2>12 DEF IInv
<1> QED
  BY <1>2, <1>3

-----------------------------------------------------------------------------
(* The steps that leave the executions alone.                              *)

LEMMA ScheduleIInv == ASSUME IInv, Schedule PROVE IInv'
<1>1. queued' \in 0..MaxQueued /\ due' \in 0..Period
  <2>1. PICK copies \in 1..2 : queued + copies <= MaxQueued /\ queued' = queued + copies
    BY DEF Schedule
  <2>2. due' = Period /\ queued \in 0..MaxQueued
    BY DEF Schedule, IInv, TypeOK
  <2> QED
    BY <2>1, <2>2, TimesAssumption
<1>2. TypeOK'
  BY <1>1 DEF IInv, TypeOK, Schedule
<1>3. JobsConsistent' /\ AloneIsOnly' /\ CalmKeepsGrace' /\ SinceIsLogged'
  BY DEF Schedule, IInv, JobsConsistent, AloneIsOnly, CalmKeepsGrace, InGrace,
     SinceIsLogged
<1> QED
  BY <1>2, <1>3 DEF IInv

LEMMA OwnerIInv ==
  ASSUME IInv, Deactivate \/ StartReset \/ CommitReset \/ Activate \/ Delete
  PROVE  IInv'
<1>1. since' \in 0..GracePeriod /\ since' \in {since, GracePeriod}
  <2>1. since \in 0..GracePeriod /\ GracePeriod \in 0..GracePeriod
    BY AgesTyped DEF IInv, TypeOK
  <2>2. CASE Deactivate
    BY <2>1, <2>2 DEF Deactivate
  <2>3. CASE CommitReset
    BY <2>1, <2>3 DEF CommitReset
  <2>4. CASE StartReset \/ Activate
    BY <2>1, <2>4 DEF StartReset, Activate
  <2>5. CASE Delete
    BY <2>1, <2>5 DEF Delete
  <2> QED
    BY <2>2, <2>3, <2>4, <2>5
<1> USE DEF Deactivate, StartReset, CommitReset, Activate, Delete
<1>2. lastState' \in ReportState /\ log' \in Log
  BY EmptyLogTyped DEF IInv, TypeOK, ReportState
<1>3. UNCHANGED <<type, due, queued, job>>
  OBVIOUS
<1>4. active' \in BOOLEAN /\ exists' \in BOOLEAN /\ update' \in {"none", "reset"}
  BY DEF IInv, TypeOK
<1>5. TypeOK'
  BY <1>1, <1>2, <1>3, <1>4 DEF IInv, TypeOK
<1>6. JobsConsistent' /\ AloneIsOnly'
  BY <1>3 DEF IInv, JobsConsistent, AloneIsOnly
<1>7. CalmKeepsGrace' /\ SinceIsLogged'
  <2>1. CASE Delete
    BY <2>1, TimesAssumption DEF CalmKeepsGrace, InGrace, SinceIsLogged
  <2>2. CASE ~Delete
    <3>1. log' = log
      BY <2>2
    <3>2. InGrace => lastState' = lastState /\ update' # "reset"
      BY <2>2 DEF IInv, CalmKeepsGrace
    <3>3. InGrace' => InGrace
      BY <1>1, <1>3, <3>1, TimesAssumption DEF InGrace
    <3>4. CalmKeepsGrace'
      BY <1>3, <3>2, <3>3 DEF IInv, CalmKeepsGrace
    <3>5. SinceIsLogged'
      BY <1>1, <3>1, TimesAssumption DEF IInv, SinceIsLogged
    <3> QED
      BY <3>4, <3>5
  <2> QED
    BY <2>1, <2>2
<1> QED
  BY <1>5, <1>6, <1>7 DEF IInv

\* The pruning may take the entry of the success, and then the alert is no
\* longer in grace; an entry younger than the retention stays.
LEMMA PruneLogIInv == ASSUME IInv, PruneLog PROVE IInv'
<1> USE DEF PruneLog
<1> DEFINE success == Pruned(log.success, GracePeriod)
           marker  == Pruned(log.marker, GracePeriod)
<1>1. log \in Log /\ since \in 0..GracePeriod
  BY DEF IInv, TypeOK
<1>2. PICK anyOk \in {log.anyOk, success < GracePeriod},
           okBefore \in {log.okBefore /\ marker = log.marker, FALSE} :
        log' = [entered |-> Pruned(log.entered, Never), success |-> success,
                marker |-> marker, anyOk |-> anyOk, okBefore |-> okBefore]
  OBVIOUS
<1>3. anyOk \in BOOLEAN /\ okBefore \in BOOLEAN
  <2>1. log.anyOk \in BOOLEAN /\ log.okBefore \in BOOLEAN
    BY <1>1 DEF Log
  <2>2. (success < GracePeriod) \in BOOLEAN
    OBVIOUS
  <2>3. (log.okBefore /\ marker = log.marker) \in BOOLEAN
    BY <2>1
  <2> HIDE DEF success, marker
  <2> QED
    BY <2>1, <2>2, <2>3, Zenon
<1>4. /\ Pruned(log.entered, Never) \in 0..Never
      /\ success \in 0..GracePeriod /\ marker \in 0..GracePeriod
      /\ success \in {log.success, GracePeriod}
      /\ log.success <= Retention => success = log.success
  BY <1>1, AgesTyped, TimesAssumption DEF Log, Pruned
<1>5. log' \in Log /\ log'.success = success
  BY <1>2, <1>3, <1>4 DEF Log
<1> HIDE DEF success
<1>6. TypeOK'
  BY <1>5 DEF IInv, TypeOK
<1>7. JobsConsistent' /\ AloneIsOnly'
  BY DEF IInv, JobsConsistent, AloneIsOnly
<1>8. CalmKeepsGrace'
  <2>1. InGrace' => InGrace
    BY <1>1, <1>4, <1>5, TimesAssumption DEF InGrace
  <2> QED
    BY <2>1 DEF IInv, CalmKeepsGrace
<1>9. SinceIsLogged'
  BY <1>1, <1>4, <1>5, TimesAssumption DEF IInv, SinceIsLogged
<1> QED
  BY <1>6, <1>7, <1>8, <1>9 DEF IInv

LEMMA TickIInv == ASSUME IInv, Tick PROVE IInv'
<1> USE DEF Tick
<1>1. log' \in Log /\ log'.success = Older(log.success, GracePeriod)
  <2> DEFINE entered == IF log.entered = Never THEN log.entered
                        ELSE Older(log.entered, Retention + 1)
             success == Older(log.success, GracePeriod)
             marker == Older(log.marker, GracePeriod)
             okBefore == log.okBefore /\ log.marker + 1 < GracePeriod
  <2>1. log \in Log
    BY DEF IInv, TypeOK
  <2>2. log' = [log EXCEPT !.entered = entered, !.success = success, !.marker = marker,
                           !.okBefore = okBefore]
    OBVIOUS
  <2>3. entered \in 0..Never
    BY <2>1, TimesAssumption DEF Log, Older, Never
  <2>4. success \in 0..GracePeriod /\ marker \in 0..GracePeriod
    BY <2>1, TimesAssumption DEF Log, Older
  <2>5. okBefore \in BOOLEAN
    OBVIOUS
  <2>6. success = Older(log.success, GracePeriod)
    OBVIOUS
  <2> HIDE DEF entered, success, marker, okBefore
  <2> QED
    BY <2>1, <2>2, <2>3, <2>4, <2>5, <2>6 DEF Log
<1>2. due' \in 0..Period
  BY TimesAssumption DEF IInv, TypeOK
<1>3. \A w \in Worker :
        /\ job'[w] \in Job
        /\ job'[w].at = job[w].at /\ job'[w].seen = job[w].seen
        /\ job'[w].alone = job[w].alone
  <2> TAKE w \in Worker
  <2>1. job[w] \in Job
    BY DEF IInv, TypeOK
  <2>2. CASE job[w].at = "idle"
    BY <2>1, <2>2
  <2>3. CASE job[w].at # "idle"
    <3>1. job'[w] = [job[w] EXCEPT !.age = @ + 1]
      BY <2>3
    <3>2. job[w].age + 1 \in 0..(WorkingTimeout + TimeoutLag)
      BY <2>1, <2>3, TimesAssumption DEF Overdue, Job
    <3> QED
      BY <2>1, <3>1, <3>2 DEF Job
  <2> QED
    BY <2>2, <2>3
<1>4. job' \in [Worker -> Job]
  <2>1. job' = [w \in Worker |-> job'[w]]
    OBVIOUS
  <2> QED
    BY <1>3, <2>1
<1>5. /\ since' = Older(since, GracePeriod)
      /\ since \in 0..GracePeriod /\ log.success \in 0..GracePeriod
      /\ since' \in 0..GracePeriod
  BY TimesAssumption DEF IInv, TypeOK, Log, Older
<1>6. TypeOK'
  BY <1>1, <1>2, <1>4, <1>5 DEF IInv, TypeOK
<1>7. JobsConsistent' /\ AloneIsOnly'
  BY <1>3 DEF IInv, JobsConsistent, AloneIsOnly
<1>8. CalmKeepsGrace'
  <2>1. InGrace' => InGrace
    BY <1>1, <1>5, TimesAssumption DEF InGrace, Older
  <2> QED
    BY <1>3, <2>1 DEF IInv, CalmKeepsGrace
<1>9. SinceIsLogged'
  BY <1>1, <1>5, TimesAssumption DEF IInv, SinceIsLogged, Older
<1> QED
  BY <1>6, <1>7, <1>8, <1>9 DEF IInv

-----------------------------------------------------------------------------
LEMMA NextIInv == ASSUME IInv, [Next]_vars PROVE IInv'
<1>1. CASE UNCHANGED vars
  <2>1. TypeOK'
    BY <1>1 DEF vars, IInv, TypeOK
  <2>2. JobsConsistent' /\ AloneIsOnly' /\ CalmKeepsGrace' /\ SinceIsLogged'
    BY <1>1 DEF vars, IInv, JobsConsistent, AloneIsOnly, CalmKeepsGrace, InGrace,
       SinceIsLogged
  <2> QED
    BY <2>1, <2>2 DEF IInv
<1>2. ASSUME NEW w \in Worker, Prologue(w) PROVE IInv'
  BY <1>2, StartIInv, TimeOutIInv, RefuseIInv, EnterGraceIInv, EnterWorkingIInv
     DEF Prologue
<1>3. ASSUME NEW w \in Worker, Outcome(w) PROVE IInv'
  BY <1>3, TriggeredIInv, NotTriggeredIInv, QueryFailsFromSuccessIInv, FailsIInv,
     SendDoneIInv, LogSuccessIInv, MailDoneIInv, MailFailsIInv, LogMailIInv
     DEF Outcome
<1>4. ASSUME NEW w \in Worker, Crash(w) \/ HardKill(w) \/ Orphaned(w) PROVE IInv'
  BY <1>4, GivesUpIInv DEF Crash, HardKill, Orphaned
<1> QED
  BY <1>1, <1>2, <1>3, <1>4, ScheduleIInv, OwnerIInv, PruneLogIInv, TickIInv DEF Next

THEOREM Invariance == Spec => []IInv
<1>1. Init => IInv
  BY InitIInv
<1>2. IInv /\ [Next]_vars => IInv'
  BY NextIInv
<1> QED
  BY <1>1, <1>2, PTL DEF Spec

\* The variables of every reachable state have their types, whatever the
\* number of workers and the durations.
THEOREM TypeCorrect == Spec => []TypeOK
<1>1. IInv => TypeOK
  BY DEF IInv
<1> QED
  BY <1>1, Invariance, PTL

\* An alert is not sent again within the grace period of a success that no
\* second execution and no deactivation has met, unless its entry of the log has
\* been pruned: whatever the durations, and also with log_retention 0.
THEOREM GraceIsRespected == Spec => GraceRespected
<1>1. ASSUME IInv, NEW w \in Worker, Triggered(w)
      PROVE  since = GracePeriod \/ log.success # since
  <2>1. ~InGrace /\ type = "Alert" /\ since \in 0..GracePeriod
    BY <1>1 DEF Triggered, IInv, JobsConsistent, CalmKeepsGrace, TypeOK
  <2> QED
    BY <2>1, TimesAssumption DEF InGrace
<1>2. IInv /\ [Next]_vars =>
        [\A w \in Worker :
           Triggered(w) => since = GracePeriod \/ log.success # since]_vars
  BY <1>1
<1> QED
  BY <1>2, Invariance, PTL DEF Spec, GraceRespected

\* With a log that is kept as long as the grace period, pruning does not
\* matter: within the grace period of a success that nothing has met, no alert
\* is sent.
THEOREM LongLogKeepsGrace ==
  ASSUME GracePeriod <= Retention + 1
  PROVE  Spec => [][\A w \in Worker : Triggered(w) => since = GracePeriod]_vars
<1>1. ASSUME IInv, NEW w \in Worker, Triggered(w) PROVE since = GracePeriod
  <2>1. ~InGrace /\ type = "Alert" /\ since \in 0..GracePeriod
    BY <1>1 DEF Triggered, IInv, JobsConsistent, CalmKeepsGrace, TypeOK
  <2>2. since < GracePeriod => log.success = since
    BY <1>1 DEF IInv, SinceIsLogged
  <2> QED
    BY <2>1, <2>2, TimesAssumption DEF InGrace
<1>2. IInv /\ [Next]_vars => [\A w \in Worker : Triggered(w) => since = GracePeriod]_vars
  BY <1>1
<1> QED
  BY <1>2, Invariance, PTL DEF Spec

\* An execution that was refused leaves last_state as the one it found
\* working left it.
THEOREM RefusalIsHarmless == Spec => RefusedKeepsResult
<1>1. IInv /\ [Next]_vars =>
        [\A w \in Worker : Refuse(w) => lastState' = lastState]_vars
  <2> SUFFICES ASSUME IInv, NEW w \in Worker, Refuse(w)
               PROVE  lastState' = lastState
    OBVIOUS
  <2> QED
    BY DEF Refuse, Write, IInv, JobsConsistent
<1> QED
  BY <1>1, Invariance, PTL DEF Spec, RefusedKeepsResult

\* Nothing but the start of an execution takes the schedule to WORKING, and it
\* starts the time after which the next one unlocks it: no refusal, no late
\* write of an overtaken execution and no edit leaves WORKING with an old entry.
WorkingIsTimed == lastState # "WORKING" /\ lastState' = "WORKING" => log'.entered = 0

\* An execution that finds WORKING timed out unlocks the schedule, whatever has
\* written last_state since it was read.
TimeOutUnlocks == \A w \in Worker : TimeOut(w) => lastState' = "ERROR"

THEOREM UnlockingIsSafe == Spec => [][WorkingIsTimed /\ TimeOutUnlocks]_vars
<1>1. ASSUME IInv, [Next]_vars PROVE WorkingIsTimed
  <2>1. SUFFICES ASSUME lastState # "WORKING", lastState' = "WORKING"
                 PROVE  log'.entered = 0
    BY DEF WorkingIsTimed
  <2>2. ASSUME NEW w \in Worker, Prologue(w) PROVE log'.entered = 0
    <3>1. CASE EnterWorking(w)
      BY <1>1, <3>1 DEF EnterWorking, LoggedEntered, IInv, TypeOK, Log
    <3>2. CASE Refuse(w)
      <4>1. job[w].seen = "WORKING"
        BY <1>1, <2>2, <3>2 DEF Refuse, IInv, JobsConsistent
      <4> QED
        BY <2>1, <3>2, <4>1 DEF Refuse, Write
    <3> QED
      BY <2>1, <2>2, <3>1, <3>2
         DEF Prologue, Start, TimeOut, EnterGrace, Write
  <2>3. ASSUME NEW w \in Worker, Outcome(w) PROVE FALSE
    <3>1. lastState' \in {lastState, "NOOP", "ERROR", "SUCCESS"}
      BY <2>3 DEF Outcome, Triggered, NotTriggered, QueryFailsFromSuccess, Fails,
         SendDone, LogSuccess, MailDone, MailFails, LogMail, Write
    <3> QED
      BY <2>1, <3>1
  <2>4. ASSUME NEW w \in Worker, GivesUp(w) PROVE FALSE
    BY <2>1, <2>4 DEF GivesUp
  <2>5. CASE Schedule \/ Deactivate \/ StartReset \/ CommitReset \/ Activate \/ Delete
             \/ PruneLog \/ Tick
    BY <2>1, <2>5 DEF Schedule, Deactivate, StartReset, CommitReset, Activate, Delete,
       PruneLog, Tick
  <2>6. CASE UNCHANGED vars
    BY <2>1, <2>6 DEF vars
  <2> QED
    BY <1>1, <2>2, <2>3, <2>4, <2>5, <2>6 DEF Next, Crash, HardKill, Orphaned
<1>2. ASSUME IInv PROVE TimeOutUnlocks
  BY <1>2 DEF TimeOutUnlocks, TimeOut, Write, IInv, JobsConsistent
<1> QED
  BY <1>1, <1>2, Invariance, PTL DEF Spec
=============================================================================
