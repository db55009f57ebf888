---------------------------- MODULE AsyncEvents -----------------------------
(***************************************************************************)
(* Global async queries over the polling transport: a page asks for chart  *)
(* data, a Celery worker computes it and reports on the Redis stream of    *)
(* the page's channel, the page polls the stream and settles its promises  *)
(* (superset-frontend/src/middleware/asyncEvent.ts,                        *)
(* superset/async_events/async_query_manager.py,                           *)
(* superset/tasks/async_queries.py).                                       *)
(*                                                                         *)
(* An event's id is its position among all events ever written to the      *)
(* stream.  A page runs one task at a time: while the forEach of           *)
(* processEvents is under way (poll is "processing") only the servers      *)
(* move.  Durations are not modelled: a timer fires at some time.          *)
(***************************************************************************)
EXTENDS Naturals, Sequences

CONSTANTS
    Job,             \* jobs the page may ask for
    MAX_RETRIES,     \* times an event without a listener is tried again
    MAX_EVENT_COUNT, \* events one poll returns
    StreamLimit      \* GLOBAL_ASYNC_QUERIES_REDIS_STREAM_LIMIT

ASSUME LimitsAssumption ==
    /\ MAX_RETRIES \in Nat
    /\ MAX_EVENT_COUNT \in Nat \ {0}
    /\ StreamLimit \in Nat \ {0}

VARIABLES
    task,     \* the Celery task of each job
    stream,   \* every event written to the channel, oldest first
    kept,     \* the oldest event not trimmed away
    page,     \* what the page knows of each job
    lastId,   \* lastReceivedEventId, 0 for none
    retries,  \* retriesByJobId
    timers,   \* the setTimeouts that will try each event again
    poll,     \* the request of loadEventsFromApi
    givenUp   \* history: jobs an event of which was dropped, for want of a
              \* listener, before the page was told about the job

serverVars == <<task, stream, kept>>

vars == <<task, stream, kept, page, lastId, retries, timers, poll, givenUp>>

Event == [job: Job, status: {"done", "error"}]

PageStates == {"none", "requested", "waiting", "fetching",
               "resolved", "rejected", "abandoned"}

\* next and upto: the first and the last event of the answer.
Poll == [at: {"idle", "sent", "read", "processing"}, next: Nat, upto: Nat]

TypeOK ==
    /\ task \in [Job -> {"none", "queued", "reported", "over"}]
    /\ stream \in Seq(Event)
    /\ kept \in Nat
    /\ page \in [Job -> PageStates]
    /\ lastId \in Nat
    /\ retries \in [Job -> 0..MAX_RETRIES]
    /\ timers \in [DOMAIN stream -> Nat]
    /\ poll \in Poll
    /\ givenUp \subseteq Job

NoPoll == [at |-> "idle", next |-> 0, upto |-> 0]

Init ==
    /\ task = [j \in Job |-> "none"]
    /\ stream = <<>>
    /\ kept = 1
    /\ page = [j \in Job |-> "none"]
    /\ lastId = 0
    /\ retries = [j \in Job |-> 0]
    /\ timers = [i \in DOMAIN stream |-> 0]
    /\ poll = NoPoll
    /\ givenUp = {}

PageIsFree == poll.at # "processing"

Listening(j) == page[j] \in {"waiting", "fetching"}

Pending(j) == page[j] = "requested" \/ Listening(j)

-----------------------------------------------------------------------------
(* The servers.                                                            *)

\* xadd to the channel's stream; Redis trims it to about the limit.
Publish(j, status) ==
    /\ stream' = Append(stream, [job |-> j, status |-> status])
    /\ timers' = [i \in DOMAIN stream' |-> IF i \in DOMAIN stream THEN timers[i] ELSE 0]
    /\ \E k \in kept..(Len(stream) + 1) :
         /\ k > kept => k + StreamLimit <= Len(stream) + 2
         /\ kept' = k
    /\ UNCHANGED <<page, lastId, retries, poll, givenUp>>

TaskDone(j) ==
    /\ task[j] = "queued"
    /\ task' = [task EXCEPT ![j] = "reported"]
    /\ Publish(j, "done")

\* The second xadd, to the stream of all channels, has succeeded or the
\* process has died.
TaskEnds(j) ==
    /\ task[j] = "reported"
    /\ task' = [task EXCEPT ![j] = "over"]
    /\ UNCHANGED <<stream, kept, page, lastId, retries, timers, poll, givenUp>>

\* The second xadd fails: the handler reports an error after the success.
TaskTurnsError(j) ==
    /\ task[j] = "reported"
    /\ task' = [task EXCEPT ![j] = "over"]
    /\ Publish(j, "error")

TaskFails(j) ==
    /\ task[j] = "queued"
    /\ task' = [task EXCEPT ![j] = "over"]
    /\ Publish(j, "error")

\* The soft time limit, or the death of the worker, reports nothing.
TaskIsSilent(j) ==
    /\ task[j] = "queued"
    /\ task' = [task EXCEPT ![j] = "over"]
    /\ UNCHANGED <<stream, kept, page, lastId, retries, timers, poll, givenUp>>

\* read_events: the oldest events after the given id.
AnswerWith(first, last) ==
    /\ poll.at = "sent"
    /\ poll' = [at |-> "read", next |-> first,
                upto |-> IF last < Len(stream) THEN last ELSE Len(stream)]
    /\ UNCHANGED <<task, stream, kept, page, lastId, retries, timers, givenUp>>

FirstWanted == IF poll.next < kept THEN kept ELSE poll.next

\* Faulty variant: the newest events, as xrevrange returns them.
ReadNewestEvents ==
    AnswerWith(IF FirstWanted + MAX_EVENT_COUNT > Len(stream) + 1 THEN FirstWanted
               ELSE Len(stream) + 1 - MAX_EVENT_COUNT, Len(stream))

ReadEvents == AnswerWith(FirstWanted, FirstWanted + MAX_EVENT_COUNT - 1)

-----------------------------------------------------------------------------
(* The page.                                                               *)

Request(j) ==
    /\ PageIsFree
    /\ page[j] = "none"
    /\ page' = [page EXCEPT ![j] = "requested"]
    /\ task' = [task EXCEPT ![j] = "queued"]
    /\ UNCHANGED <<stream, kept, lastId, retries, timers, poll, givenUp>>

\* The answer names the job: waitForAsyncData adds a listener.
Reply(j) ==
    /\ PageIsFree
    /\ page[j] = "requested"
    /\ page' = [page EXCEPT ![j] = "waiting"]
    /\ UNCHANGED <<task, stream, kept, lastId, retries, timers, poll, givenUp>>

ReplyLost(j) ==
    /\ PageIsFree
    /\ page[j] = "requested"
    /\ page' = [page EXCEPT ![j] = "abandoned"]
    /\ UNCHANGED <<task, stream, kept, lastId, retries, timers, poll, givenUp>>

\* One round of processEvents for event i, with the timers that are left;
\* setLastId comes last, on a retry as on a first try.
Heard(i, left, next) ==
    LET j == stream[i].job IN
    /\ Listening(j)
    /\ page' = [page EXCEPT ![j] = next]
    /\ retries' = [retries EXCEPT ![j] = 0]
    /\ timers' = left
    /\ lastId' = i
    /\ UNCHANGED givenUp

TriedAgain(i, left, max) ==
    LET j == stream[i].job IN
    /\ ~Listening(j)
    /\ retries[j] < max
    /\ retries' = [retries EXCEPT ![j] = @ + 1]
    /\ timers' = [left EXCEPT ![i] = @ + 1]
    /\ lastId' = i
    /\ UNCHANGED <<page, givenUp>>

Dropped(i, left, max) ==
    LET j == stream[i].job IN
    /\ ~Listening(j)
    /\ retries[j] >= max
    /\ retries' = [retries EXCEPT ![j] = 0]
    /\ timers' = left
    /\ lastId' = i
    /\ givenUp' = givenUp \cup {k \in {j} : page[k] = "requested"}
    /\ UNCHANGED page

AfterEvent(i) == IF stream[i].status = "done" THEN "fetching" ELSE "rejected"

\* Faulty variant: one retry too many.
HandleEventOnceMore(i, left) ==
    \/ Heard(i, left, AfterEvent(i))
    \/ TriedAgain(i, left, MAX_RETRIES + 1)
    \/ Dropped(i, left, MAX_RETRIES + 1)

\* Faulty variant: an error is taken for a result.
HandleEventAsDone(i, left) ==
    \/ Heard(i, left, "fetching")
    \/ TriedAgain(i, left, MAX_RETRIES)
    \/ Dropped(i, left, MAX_RETRIES)

HandleEvent(i, left) ==
    \/ Heard(i, left, AfterEvent(i))
    \/ TriedAgain(i, left, MAX_RETRIES)
    \/ Dropped(i, left, MAX_RETRIES)

\* loadEventsFromApi asks only while somebody listens.
SendPoll ==
    /\ poll.at = "idle"
    /\ \E j \in Job : Listening(j)
    /\ poll' = [poll EXCEPT !.at = "sent", !.next = lastId + 1]
    /\ UNCHANGED <<task, stream, kept, page, lastId, retries, timers, givenUp>>

\* Faulty variant: after an error the next poll is not scheduled.
PollFailsForGood ==
    /\ poll.at \in {"sent", "read"}
    /\ poll' = [poll EXCEPT !.at = "stopped"]
    /\ UNCHANGED <<task, stream, kept, page, lastId, retries, timers, givenUp>>

PollFails ==
    /\ poll.at \in {"sent", "read"}
    /\ poll' = NoPoll
    /\ UNCHANGED <<task, stream, kept, page, lastId, retries, timers, givenUp>>

PollAnswered ==
    /\ poll.at = "read"
    /\ poll' = IF poll.next <= poll.upto
               THEN [poll EXCEPT !.at = "processing"] ELSE NoPoll
    /\ UNCHANGED <<task, stream, kept, page, lastId, retries, timers, givenUp>>

\* The next event of the forEach.
ProcessNext ==
    /\ poll.at = "processing"
    /\ HandleEvent(poll.next, timers)
    /\ poll' = IF poll.next < poll.upto
               THEN [poll EXCEPT !.next = @ + 1] ELSE NoPoll
    /\ UNCHANGED serverVars

TimerFires(i) ==
    /\ PageIsFree
    /\ timers[i] > 0
    /\ HandleEvent(i, [timers EXCEPT ![i] = @ - 1])
    /\ UNCHANGED <<serverVars, poll>>

\* fetchCachedData: the listener settles the promise and is removed.
FetchEnds(j) ==
    /\ PageIsFree
    /\ page[j] = "fetching"
    /\ \E outcome \in {"resolved", "rejected"} :
         page' = [page EXCEPT ![j] = outcome]
    /\ UNCHANGED <<task, stream, kept, lastId, retries, timers, poll, givenUp>>

\* A new page in the same session starts from the id that any of its tabs
\* has stored last.
Reload ==
    /\ \E j \in Job : Pending(j)
    /\ page' = [j \in Job |-> IF Pending(j) THEN "abandoned" ELSE page[j]]
    /\ lastId' \in 0..Len(stream)
    /\ retries' = [j \in Job |-> 0]
    /\ timers' = [i \in DOMAIN stream |-> 0]
    /\ poll' = NoPoll
    /\ UNCHANGED <<task, stream, kept, givenUp>>

-----------------------------------------------------------------------------
Task(j) == TaskDone(j) \/ TaskEnds(j) \/ TaskTurnsError(j) \/ TaskFails(j)
           \/ TaskIsSilent(j)

SomeTimerFires == \E i \in DOMAIN stream : TimerFires(i)

\* Every request of a page is answered in the end; there are finitely many.
SomeAnswer == \E j \in Job : Reply(j) \/ ReplyLost(j) \/ FetchEnds(j)

Next ==
    \/ \E j \in Job : Task(j)
    \/ \E j \in Job : Request(j)
    \/ SomeAnswer
    \/ SendPoll \/ ReadEvents \/ PollFails \/ PollAnswered \/ ProcessNext
    \/ SomeTimerFires
    \/ Reload

Spec == Init /\ [][Next]_vars

\* Requests that are repeated succeed in the end, and timers fire; nothing is
\* assumed of the tasks.
Fairness ==
    /\ WF_vars(SendPoll) /\ WF_vars(ProcessNext)
    /\ SF_vars(ReadEvents) /\ SF_vars(PollAnswered)
    /\ SF_vars(SomeTimerFires)
    /\ SF_vars(SomeAnswer)

FairSpec == Spec /\ Fairness

-----------------------------------------------------------------------------
(* The promises implement AsyncPromise.                                    *)

reported == [j \in Job |-> {stream[i].status : i \in {k \in DOMAIN stream : stream[k].job = j}}]

promise == [j \in Job |-> IF Pending(j) THEN "pending" ELSE page[j]]

Promise == INSTANCE AsyncPromise WITH reported <- reported, promise <- promise

\* A promise settles once, and as its job reported.
PromiseSafety == Promise!Spec

\* lastReceivedEventId never moves past an event the page still needs: it is
\* about to be tried again, was trimmed away, or was given up because the page
\* did not know of its job for too long.
NothingSkipped ==
    \A i \in DOMAIN stream :
        i <= lastId /\ i >= kept /\ page[stream[i].job] = "waiting" =>
            timers[i] > 0 \/ stream[i].job \in givenUp

\* The promise of a job that reports settles, or the page goes away, unless
\* the event was trimmed or given up.
PromiseSettles ==
    \A j \in Job :
        (Pending(j) /\ reported[j] # {}) ~>
            \/ ~Pending(j)
            \/ j \in givenUp
            \/ \E i \in DOMAIN stream : i < kept /\ stream[i].job = j
=============================================================================
