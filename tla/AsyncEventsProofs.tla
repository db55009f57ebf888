------------------------- MODULE AsyncEventsProofs --------------------------
(***************************************************************************)
(* Proofs about AsyncEvents: type correctness, that no event the page      *)
(* needs is skipped, and that the promises implement AsyncPromise, for any *)
(* number of jobs and any limits.                                          *)
(***************************************************************************)
EXTENDS AsyncEvents, TLAPS

\* Where the trim, the last id and a poll may point.
InRange ==
    /\ kept >= 1
    /\ kept <= Len(stream) + 1
    /\ lastId <= Len(stream)
    /\ poll.at # "idle" => poll.next >= 1 /\ poll.next <= Len(stream) + 1
    /\ poll.at \in {"read", "processing"} => poll.upto <= Len(stream)
    /\ poll.at = "processing" => poll.next <= poll.upto

\* Event i needs nothing more: its job does not wait, a timer will try it
\* again, or it was given up.
Settled(i) ==
    page[stream[i].job] \in {"requested", "waiting"} =>
        timers[i] > 0 \/ stream[i].job \in givenUp

HandledTo(m) == \A i \in DOMAIN stream : kept <= i /\ i <= m => Settled(i)

\* Every place the last id can be moved to has only settled events below it.
AllHandled ==
    /\ HandledTo(lastId)
    /\ poll.at # "idle" => HandledTo(poll.next - 1)
    /\ \A i \in DOMAIN stream : timers[i] > 0 => HandledTo(i)

\* What a job has reported follows from its task and from the page.
ReportsConsistent ==
    /\ \A j \in Job : page[j] = "none" => task[j] = "none"
    /\ \A i \in DOMAIN stream : task[stream[i].job] \in {"reported", "over"}
    /\ \A i \in DOMAIN stream :
         task[stream[i].job] = "reported" => stream[i].status = "done"
    /\ \A j \in Job : page[j] = "fetching" =>
         \E i \in DOMAIN stream : stream[i] = [job |-> j, status |-> "done"]

IInv == TypeOK /\ InRange /\ AllHandled /\ ReportsConsistent

-----------------------------------------------------------------------------
(* What the parts of the actions change.                                   *)

LEMMA PublishFacts ==
  ASSUME TypeOK, InRange, NEW j \in Job, NEW status \in {"done", "error"},
         Publish(j, status)
  PROVE  /\ stream' \in Seq(Event)
         /\ Len(stream') = Len(stream) + 1
         /\ DOMAIN stream = 1..Len(stream)
         /\ DOMAIN stream' = 1..(Len(stream) + 1)
         /\ \A i \in DOMAIN stream : stream'[i] = stream[i] /\ timers'[i] = timers[i]
         /\ stream'[Len(stream) + 1] = [job |-> j, status |-> status]
         /\ timers'[Len(stream) + 1] = 0
         /\ timers' \in [DOMAIN stream' -> Nat]
         /\ kept' \in Nat /\ kept' >= kept /\ kept' <= Len(stream) + 1
         /\ UNCHANGED <<page, lastId, retries, poll, givenUp>>
<1>1. [job |-> j, status |-> status] \in Event
  BY DEF Event
<1>2. /\ stream' \in Seq(Event)
      /\ Len(stream') = Len(stream) + 1
      /\ DOMAIN stream = 1..Len(stream)
      /\ DOMAIN stream' = 1..(Len(stream) + 1)
      /\ \A i \in DOMAIN stream : stream'[i] = stream[i]
      /\ stream'[Len(stream) + 1] = [job |-> j, status |-> status]
  BY <1>1 DEF Publish, TypeOK
<1>3. timers' = [i \in DOMAIN stream' |-> IF i \in DOMAIN stream THEN timers[i] ELSE 0]
  BY DEF Publish
<1>4. kept' \in Nat /\ kept' >= kept /\ kept' <= Len(stream) + 1
  BY DEF Publish, TypeOK, InRange
<1>5. timers' \in [DOMAIN stream' -> Nat]
  BY <1>2, <1>3 DEF TypeOK
<1>6. timers'[Len(stream) + 1] = 0
  BY <1>2, <1>3 DEF TypeOK
<1>7. \A i \in DOMAIN stream : timers'[i] = timers[i]
  BY <1>2, <1>3 DEF TypeOK
<1> QED
  BY <1>2, <1>4, <1>5, <1>6, <1>7 DEF Publish

LEMMA HandleFacts ==
  ASSUME TypeOK, NEW i \in DOMAIN stream, NEW left \in [DOMAIN stream -> Nat],
         HandleEvent(i, left), UNCHANGED serverVars
  PROVE  /\ TypeOK' \/ poll' \notin Poll
         /\ lastId' = i
         /\ Settled(i)'
         /\ givenUp \subseteq givenUp'
         /\ \A k \in DOMAIN stream : k # i => timers'[k] = left[k]
         /\ \A j \in Job : page'[j] # page[j] =>
              /\ j = stream[i].job
              /\ page[j] \in {"waiting", "fetching"}
              /\ page'[j] = AfterEvent(i)
<1> DEFINE j == stream[i].job
<1>0. stream \in Seq(Event) /\ i \in 1..Len(stream)
  BY DEF TypeOK
<1>1. j \in Job /\ i \in Nat
  <2>1. stream[i] \in Event /\ i \in Nat
    BY <1>0
  <2> QED
    BY <2>1 DEF Event
<1>2. CASE Heard(i, left, AfterEvent(i))
  <2>1. AfterEvent(i) \in {"fetching", "rejected"}
    BY DEF AfterEvent
  <2>2. /\ page' = [page EXCEPT ![j] = AfterEvent(i)]
        /\ retries' = [retries EXCEPT ![j] = 0]
        /\ timers' = left /\ lastId' = i /\ givenUp' = givenUp
        /\ page[j] \in {"waiting", "fetching"}
    BY <1>2 DEF Heard, Listening
  <2>3. page' \in [Job -> PageStates] /\ retries' \in [Job -> 0..MAX_RETRIES]
    BY <1>1, <2>1, <2>2, LimitsAssumption DEF TypeOK, PageStates
  <2>4. TypeOK' \/ poll' \notin Poll
    BY <1>1, <2>2, <2>3 DEF TypeOK, serverVars
  <2>5. page'[j] = AfterEvent(i) /\ \A k \in Job : page'[k] # page[k] => k = j
    BY <1>1, <2>2 DEF TypeOK
  <2> QED
    BY <1>1, <2>1, <2>2, <2>4, <2>5 DEF serverVars, Settled
<1>3. CASE TriedAgain(i, left, MAX_RETRIES)
  <2>1. /\ retries' = [retries EXCEPT ![j] = @ + 1] /\ retries[j] < MAX_RETRIES
        /\ timers' = [left EXCEPT ![i] = @ + 1]
        /\ lastId' = i /\ UNCHANGED <<page, givenUp>>
    BY <1>3 DEF TriedAgain
  <2> QED
    BY <1>1, <2>1, LimitsAssumption DEF TypeOK, serverVars, Settled
<1>4. CASE Dropped(i, left, MAX_RETRIES)
  <2>1. /\ retries' = [retries EXCEPT ![j] = 0]
        /\ timers' = left /\ lastId' = i /\ UNCHANGED page
        /\ givenUp' = givenUp \cup {k \in {j} : page[k] = "requested"}
        /\ page[j] # "waiting"
    BY <1>4 DEF Dropped, Listening
  <2> QED
    BY <1>1, <2>1, LimitsAssumption DEF TypeOK, serverVars, Settled
<1> QED
  BY <1>2, <1>3, <1>4 DEF HandleEvent

LEMMA StreamTyped ==
  ASSUME TypeOK
  PROVE  /\ DOMAIN stream = 1..Len(stream) /\ Len(stream) \in Nat
         /\ \A i \in DOMAIN stream : stream[i].job \in Job
<1>1. stream \in Seq(Event)
  BY DEF TypeOK
<1>2. DOMAIN stream = 1..Len(stream) /\ Len(stream) \in Nat
  BY <1>1
<1>3. \A i \in 1..Len(stream) : stream[i] \in Event
  BY <1>1
<1> QED
  BY <1>2, <1>3 DEF Event

\* A retried event is one of the stream's, with one timer less.
LEMMA TimerLeft ==
  ASSUME TypeOK, NEW i \in DOMAIN stream, timers[i] > 0
  PROVE  [timers EXCEPT ![i] = @ - 1] \in [DOMAIN stream -> Nat]
  BY DEF TypeOK

\* The event of a round of processEvents is one of the stream's.
LEMMA NextInStream ==
  ASSUME TypeOK, InRange, poll.at = "processing"
  PROVE  poll.next \in DOMAIN stream /\ poll.next \in Nat /\ poll.upto \in Nat
  BY StreamTyped DEF TypeOK, InRange, Poll

-----------------------------------------------------------------------------
(* Type correctness.                                                       *)

LEMMA PublishTyped ==
  ASSUME TypeOK, InRange, NEW j \in Job, NEW status \in {"done", "error"},
         Publish(j, status), task' \in [Job -> {"none", "queued", "reported", "over"}]
  PROVE  TypeOK' /\ InRange'
<1>0. /\ stream' \in Seq(Event) /\ Len(stream') = Len(stream) + 1
      /\ timers' \in [DOMAIN stream' -> Nat]
      /\ kept' \in Nat /\ kept' >= kept /\ kept' <= Len(stream) + 1
      /\ UNCHANGED <<page, lastId, retries, poll, givenUp>>
  BY PublishFacts
<1>1. TypeOK'
  BY <1>0 DEF TypeOK
<1>2. InRange'
  BY <1>0, StreamTyped DEF TypeOK, InRange, Poll
<1> QED
  BY <1>1, <1>2

LEMMA TypeStep ==
  ASSUME TypeOK, InRange, [Next]_vars
  PROVE  TypeOK' /\ InRange'
<1> USE DEF TypeOK, InRange
<1>1. ASSUME NEW j \in Job, Task(j)
      PROVE  TypeOK' /\ InRange'
  <2>1. CASE TaskDone(j)
    BY <2>1, PublishTyped DEF TaskDone
  <2>2. CASE TaskTurnsError(j)
    BY <2>2, PublishTyped DEF TaskTurnsError
  <2>3. CASE TaskFails(j)
    BY <2>3, PublishTyped DEF TaskFails
  <2>4. CASE TaskEnds(j) \/ TaskIsSilent(j)
    BY <2>4 DEF TaskEnds, TaskIsSilent
  <2> QED
    BY <1>1, <2>1, <2>2, <2>3, <2>4 DEF Task
<1>2. ASSUME NEW j \in Job, Request(j) \/ Reply(j) \/ ReplyLost(j) \/ FetchEnds(j)
      PROVE  TypeOK' /\ InRange'
  <2>1. CASE Request(j)
    BY <2>1 DEF Request, PageStates
  <2>2. CASE Reply(j) \/ ReplyLost(j)
    BY <2>2 DEF Reply, ReplyLost, PageStates
  <2>3. CASE FetchEnds(j)
    BY <2>3 DEF FetchEnds, PageStates
  <2> QED
    BY <1>2, <2>1, <2>2, <2>3
<1>3. CASE SendPoll
  <2>1. lastId + 1 \in Nat /\ lastId + 1 >= 1
    OBVIOUS
  <2>2. poll' \in Poll /\ poll'.at = "sent" /\ poll'.next = lastId + 1
    BY <1>3, <2>1 DEF SendPoll, Poll
  <2> QED
    BY <1>3, <2>1, <2>2 DEF SendPoll
<1>4. CASE ReadEvents
  <2>1. FirstWanted \in Nat /\ FirstWanted >= 1 /\ FirstWanted <= Len(stream) + 1
    BY <1>4 DEF FirstWanted, Poll, ReadEvents, AnswerWith
  <2>2. FirstWanted + MAX_EVENT_COUNT - 1 \in Nat
    BY <2>1, LimitsAssumption
  <2>3. Len(stream) \in Nat
    BY StreamTyped
  <2> QED
    <3> DEFINE last == FirstWanted + MAX_EVENT_COUNT - 1
    <3>1. poll' = [at |-> "read", next |-> FirstWanted,
                   upto |-> IF last < Len(stream) THEN last ELSE Len(stream)]
          /\ UNCHANGED <<task, stream, kept, page, lastId, retries, timers, givenUp>>
      BY <1>4 DEF ReadEvents, AnswerWith
    <3>2. poll' \in Poll /\ poll'.at = "read" /\ poll'.next = FirstWanted
          /\ poll'.upto <= Len(stream)
      BY <2>1, <2>2, <2>3, <3>1 DEF Poll
    <3> QED
      BY <2>1, <3>1, <3>2
<1>5. CASE PollFails
  BY <1>5 DEF PollFails, NoPoll, Poll
<1>6. CASE PollAnswered
  BY <1>6 DEF PollAnswered, NoPoll, Poll
<1>7. CASE ProcessNext
  <2>1. poll.next \in DOMAIN stream /\ poll.next \in Nat /\ poll.upto \in Nat
    BY <1>7, NextInStream DEF ProcessNext
  <2>2. poll' \in Poll /\ (poll'.at # "idle" => poll' = [poll EXCEPT !.next = @ + 1]
                                             /\ poll.next < poll.upto)
    <3>1. CASE poll.next < poll.upto
      BY <1>7, <2>1, <3>1 DEF ProcessNext, Poll
    <3>2. CASE ~(poll.next < poll.upto)
      BY <1>7, <2>1, <3>2 DEF ProcessNext, NoPoll, Poll
    <3> QED
      BY <3>1, <3>2
  <2>3. TypeOK' /\ lastId' = poll.next /\ UNCHANGED serverVars
    BY <1>7, <2>1, <2>2, HandleFacts DEF ProcessNext
  <2>4. InRange'
    BY <1>7, <2>1, <2>2, <2>3, StreamTyped DEF serverVars, Poll, ProcessNext
  <2> QED
    BY <2>3, <2>4
<1>8. ASSUME NEW i \in DOMAIN stream, TimerFires(i)
      PROVE  TypeOK' /\ InRange'
  <2>1. TypeOK' /\ lastId' = i /\ UNCHANGED <<serverVars, poll>>
    BY <1>8, TimerLeft, HandleFacts DEF TimerFires, serverVars
  <2> QED
    BY <2>1, StreamTyped DEF serverVars
<1>9. CASE Reload
  <2>1. page' \in [Job -> PageStates] /\ poll' \in Poll /\ poll'.at = "idle"
    BY <1>9 DEF Reload, PageStates, NoPoll, Poll
  <2>2. lastId' \in Nat /\ lastId' <= Len(stream)
    BY <1>9, StreamTyped DEF Reload
  <2>3. retries' \in [Job -> 0..MAX_RETRIES] /\ timers' \in [DOMAIN stream -> Nat]
    BY <1>9, LimitsAssumption DEF Reload
  <2> QED
    BY <1>9, <2>1, <2>2, <2>3 DEF Reload
<1>10. CASE UNCHANGED vars
  BY <1>10 DEF vars
<1> QED
  BY <1>1, <1>2, <1>3, <1>4, <1>5, <1>6, <1>7, <1>8, <1>9, <1>10
  DEF Next, SomeTimerFires, SomeAnswer

LEMMA InitTyped == Init => TypeOK /\ InRange
  BY LimitsAssumption DEF Init, TypeOK, InRange, Poll, NoPoll, PageStates, Event

\* TypeOK is an invariant.
THEOREM TypeCorrect == Spec => []TypeOK
<1>1. TypeOK /\ InRange /\ [Next]_vars => (TypeOK /\ InRange)'
  BY TypeStep
<1> QED
  BY InitTyped, <1>1, PTL DEF Spec

-----------------------------------------------------------------------------
(* No event is skipped.                                                    *)

LEMMA PublishHandled ==
  ASSUME TypeOK, InRange, AllHandled, NEW j \in Job, NEW status \in {"done", "error"},
         Publish(j, status)
  PROVE  AllHandled'
<1>1. /\ DOMAIN stream' = 1..(Len(stream) + 1)
      /\ DOMAIN stream = 1..Len(stream)
      /\ \A i \in DOMAIN stream : stream'[i] = stream[i] /\ timers'[i] = timers[i]
      /\ timers'[Len(stream) + 1] = 0
      /\ kept' \in Nat /\ kept' >= kept
      /\ UNCHANGED <<page, lastId, poll, givenUp>>
  BY PublishFacts
<1>2. Len(stream) \in Nat
  BY StreamTyped
<1>3. ASSUME NEW m \in Nat, m <= Len(stream), HandledTo(m)
      PROVE  HandledTo(m)'
  BY <1>1, <1>2, <1>3 DEF HandledTo, Settled, TypeOK
<1>4. lastId \in Nat /\ lastId <= Len(stream)
  BY DEF TypeOK, InRange
<1>5. poll.at # "idle" => poll.next - 1 \in Nat /\ poll.next - 1 <= Len(stream)
  BY <1>2 DEF TypeOK, InRange, Poll
<1>6. ASSUME NEW i \in DOMAIN stream', timers'[i] > 0
      PROVE  HandledTo(i)'
  <2>1. i \in DOMAIN stream /\ timers[i] > 0
    BY <1>1, <1>2, <1>6
  <2>2. i \in Nat /\ i <= Len(stream)
    BY <1>1, <1>2, <2>1
  <2> QED
    BY <1>3, <2>1, <2>2 DEF AllHandled
<1>7. HandledTo(lastId)'
  BY <1>1, <1>3, <1>4 DEF AllHandled, HandledTo, Settled
<1>8. (poll.at # "idle" => HandledTo(poll.next - 1))'
  BY <1>1, <1>3, <1>5 DEF AllHandled, HandledTo, Settled
<1> QED
  BY <1>6, <1>7, <1>8 DEF AllHandled

\* A round of processEvents for event i, below which all is settled.
LEMMA RoundHandled ==
  ASSUME TypeOK, InRange, AllHandled, NEW i \in DOMAIN stream,
         NEW left \in [DOMAIN stream -> Nat],
         \A k \in DOMAIN stream : k # i => left[k] = timers[k],
         HandledTo(i - 1), HandleEvent(i, left), UNCHANGED serverVars
  PROVE  /\ \A m : HandledTo(m) => HandledTo(m)'
         /\ HandledTo(i)'
         /\ HandledTo(lastId)'
         /\ (\A k \in DOMAIN stream : timers[k] > 0 => HandledTo(k))'
<1>1. /\ lastId' = i
      /\ Settled(i)'
      /\ givenUp \subseteq givenUp'
      /\ \A k \in DOMAIN stream : k # i => timers'[k] = left[k]
      /\ \A j \in Job : page'[j] # page[j] => page'[j] = AfterEvent(i)
  BY HandleFacts
<1>2. AfterEvent(i) \in {"fetching", "rejected"}
  BY DEF AfterEvent
<1>3. UNCHANGED <<stream, kept>>
  BY DEF serverVars
<1>4. DOMAIN stream = 1..Len(stream) /\ Len(stream) \in Nat /\ i \in Nat
      /\ \A k \in DOMAIN stream : stream[k].job \in Job
  BY StreamTyped
<1>5. ASSUME NEW k \in DOMAIN stream, Settled(k)
      PROVE  Settled(k)'
  <2>1. CASE k = i
    BY <1>1, <2>1
  <2>2. CASE k # i
    <3>1. timers'[k] = timers[k]
      BY <1>1, <2>2
    <3>2. page'[stream[k].job] = page[stream[k].job]
          \/ page'[stream[k].job] \in {"fetching", "rejected"}
      BY <1>1, <1>2, <1>4
    <3> QED
      BY <1>1, <1>3, <1>5, <3>1, <3>2 DEF Settled
  <2> QED
    BY <2>1, <2>2
<1>6. \A m : HandledTo(m) => HandledTo(m)'
  BY <1>3, <1>5 DEF HandledTo
<1>7. HandledTo(i)'
  <2>1. ASSUME NEW k \in DOMAIN stream, kept <= k, k <= i
        PROVE  Settled(k)'
    <3>1. CASE k = i
      BY <1>1, <3>1
    <3>2. CASE k # i
      BY <1>4, <1>5, <2>1, <3>2 DEF HandledTo
    <3> QED
      BY <3>1, <3>2
  <2> QED
    BY <1>3, <2>1 DEF HandledTo
<1>8. HandledTo(lastId)'
  BY <1>1, <1>7 DEF HandledTo
<1>9. ASSUME NEW k \in DOMAIN stream, timers'[k] > 0
      PROVE  HandledTo(k)'
  <2>1. CASE k = i
    BY <1>7, <2>1
  <2>2. CASE k # i
    BY <1>1, <1>4, <1>6, <1>9, <2>2 DEF AllHandled
  <2> QED
    BY <2>1, <2>2
<1> QED
  BY <1>3, <1>6, <1>7, <1>8, <1>9

\* A step that only moves the page's jobs, and none back to waiting.
LEMMA PageStepHandled ==
  ASSUME AllHandled, UNCHANGED <<stream, kept, lastId, timers, poll, givenUp>>,
         \A i \in DOMAIN stream :
           page'[stream[i].job] \in {"requested", "waiting"} =>
             page[stream[i].job] \in {"requested", "waiting"}
  PROVE  AllHandled'
<1>1. \A i \in DOMAIN stream : Settled(i) => Settled(i)'
  BY DEF Settled
<1>2. \A m : HandledTo(m) => HandledTo(m)'
  BY <1>1 DEF HandledTo
<1> QED
  BY <1>2 DEF AllHandled, HandledTo

\* A step that only moves the poll.
LEMMA PollStepHandled ==
  ASSUME AllHandled, UNCHANGED <<stream, kept, page, lastId, timers, givenUp>>,
         poll'.at # "idle" => HandledTo(poll'.next - 1)
  PROVE  AllHandled'
  BY DEF AllHandled, HandledTo, Settled

LEMMA HandledStep ==
  ASSUME TypeOK, InRange, AllHandled, ReportsConsistent, [Next]_vars
  PROVE  AllHandled'
<1> USE DEF TypeOK
<1>1. ASSUME NEW j \in Job, Task(j)
      PROVE  AllHandled'
  <2>1. CASE TaskDone(j)
    BY <2>1, PublishHandled DEF TaskDone
  <2>2. CASE TaskTurnsError(j)
    BY <2>2, PublishHandled DEF TaskTurnsError
  <2>3. CASE TaskFails(j)
    BY <2>3, PublishHandled DEF TaskFails
  <2>4. CASE TaskEnds(j) \/ TaskIsSilent(j)
    BY <2>4, PageStepHandled DEF TaskEnds, TaskIsSilent
  <2> QED
    BY <1>1, <2>1, <2>2, <2>3, <2>4 DEF Task
<1>2. ASSUME NEW j \in Job, Request(j)
      PROVE  AllHandled'
  <2>1. \A i \in DOMAIN stream : stream[i].job # j
    BY <1>2 DEF Request, ReportsConsistent
  <2> QED
    BY <1>2, <2>1, PageStepHandled, StreamTyped DEF Request
<1>3. ASSUME NEW j \in Job, Reply(j) \/ ReplyLost(j) \/ FetchEnds(j)
      PROVE  AllHandled'
  BY <1>3, PageStepHandled, StreamTyped DEF Reply, ReplyLost, FetchEnds
<1>4. CASE SendPoll
  <2>1. poll'.next = lastId + 1
    BY <1>4 DEF SendPoll, Poll
  <2>2. poll'.next - 1 = lastId
    BY <2>1
  <2> QED
    BY <1>4, <2>2, PollStepHandled DEF SendPoll, AllHandled
<1>5. CASE ReadEvents
  <2>1. poll'.next = FirstWanted
    BY <1>5 DEF ReadEvents, AnswerWith
  <2>2. HandledTo(FirstWanted - 1)
    <3>1. CASE poll.next < kept
      BY <1>5, <3>1, StreamTyped DEF FirstWanted, HandledTo
    <3>2. CASE ~(poll.next < kept)
      BY <1>5, <3>2 DEF FirstWanted, AllHandled, ReadEvents, AnswerWith
    <3> QED
      BY <3>1, <3>2
  <2> QED
    BY <1>5, <2>1, <2>2, PollStepHandled DEF ReadEvents, AnswerWith
<1>6. CASE PollFails
  BY <1>6, PollStepHandled DEF PollFails, NoPoll
<1>7. CASE PollAnswered
  <2>1. poll'.at # "idle" => poll'.next = poll.next /\ poll.at # "idle"
    BY <1>7 DEF PollAnswered, NoPoll, Poll
  <2> QED
    BY <1>7, <2>1, PollStepHandled DEF PollAnswered, AllHandled
<1>8. CASE ProcessNext
  <2>1. PICK i \in DOMAIN stream : i = poll.next
    BY <1>8, NextInStream DEF ProcessNext
  <2>2. HandledTo(i - 1) /\ HandleEvent(i, timers) /\ UNCHANGED serverVars
    BY <1>8, <2>1 DEF AllHandled, ProcessNext
  <2>3. /\ HandledTo(i)'
        /\ HandledTo(lastId)'
        /\ (\A k \in DOMAIN stream : timers[k] > 0 => HandledTo(k))'
    BY <2>2, RoundHandled
  <2>4. i \in Nat
    BY StreamTyped
  <2>5. poll'.at # "idle" => poll'.next = i + 1
    BY <1>8, <2>1 DEF ProcessNext, NoPoll, Poll
  <2>6. (poll.at # "idle" => HandledTo(poll.next - 1))'
    BY <2>3, <2>4, <2>5 DEF HandledTo
  <2> QED
    BY <2>3, <2>6 DEF AllHandled
<1>9. ASSUME NEW i \in DOMAIN stream, TimerFires(i)
      PROVE  AllHandled'
  <2> DEFINE left == [timers EXCEPT ![i] = @ - 1]
  <2>1. left \in [DOMAIN stream -> Nat] /\ \A k \in DOMAIN stream : k # i => left[k] = timers[k]
    BY <1>9, TimerLeft DEF TimerFires
  <2>2. HandledTo(i - 1)
    BY <1>9, StreamTyped DEF AllHandled, TimerFires, HandledTo
  <2>3. HandleEvent(i, left) /\ UNCHANGED <<serverVars, poll>>
    BY <1>9 DEF TimerFires
  <2> HIDE DEF left
  <2>4. /\ \A m : HandledTo(m) => HandledTo(m)'
        /\ HandledTo(lastId)'
        /\ (\A k \in DOMAIN stream : timers[k] > 0 => HandledTo(k))'
    BY <2>1, <2>2, <2>3, RoundHandled DEF serverVars
  <2>5. (poll.at # "idle" => HandledTo(poll.next - 1))'
    BY <2>3, <2>4 DEF AllHandled, HandledTo
  <2> QED
    BY <2>4, <2>5 DEF AllHandled
<1>10. CASE Reload
  <2>1. \A i \in DOMAIN stream : page'[stream[i].job] \notin {"requested", "waiting"}
    BY <1>10, StreamTyped DEF Reload, Pending, Listening
  <2>2. \A i \in DOMAIN stream : Settled(i)'
    BY <1>10, <2>1 DEF Reload, Settled
  <2> QED
    BY <1>10, <2>2 DEF Reload, AllHandled, HandledTo
<1>11. CASE UNCHANGED vars
  BY <1>11, PageStepHandled DEF vars
<1> QED
  BY <1>1, <1>2, <1>3, <1>4, <1>5, <1>6, <1>7, <1>8, <1>9, <1>10, <1>11
  DEF Next, SomeTimerFires, SomeAnswer

-----------------------------------------------------------------------------
(* What was reported, and the promises.                                    *)

LEMMA PublishConsistent ==
  ASSUME TypeOK, InRange, ReportsConsistent, NEW j \in Job,
         NEW status \in {"done", "error"}, Publish(j, status),
         task[j] \in {"queued", "reported"},
         NEW next \in {"reported", "over"}, task' = [task EXCEPT ![j] = next],
         next = "reported" => task[j] = "queued" /\ status = "done"
  PROVE  ReportsConsistent'
<1>1. /\ DOMAIN stream' = 1..(Len(stream) + 1)
      /\ DOMAIN stream = 1..Len(stream) /\ Len(stream) \in Nat
      /\ \A i \in DOMAIN stream : stream'[i] = stream[i]
      /\ stream'[Len(stream) + 1] = [job |-> j, status |-> status]
      /\ page' = page
  BY PublishFacts, StreamTyped
<1>2. task'[j] = next /\ \A k \in Job : k # j => task'[k] = task[k]
  BY DEF TypeOK
<1>3. ASSUME NEW i \in DOMAIN stream'
      PROVE  /\ task'[stream'[i].job] \in {"reported", "over"}
             /\ task'[stream'[i].job] = "reported" => stream'[i].status = "done"
  <2>1. CASE i = Len(stream) + 1
    BY <1>1, <1>2, <2>1
  <2>2. CASE i # Len(stream) + 1
    <3>1. i \in DOMAIN stream /\ stream'[i] = stream[i] /\ stream[i].job \in Job
      BY <1>1, <2>2, StreamTyped
    <3> QED
      BY <1>2, <3>1 DEF ReportsConsistent
  <2> QED
    BY <2>1, <2>2
<1>4. ASSUME NEW k \in Job, page'[k] = "fetching"
      PROVE  \E i \in DOMAIN stream' : stream'[i] = [job |-> k, status |-> "done"]
  BY <1>1, <1>4 DEF ReportsConsistent
<1>5. \A k \in Job : page'[k] = "none" => task'[k] = "none"
  BY <1>1, <1>2 DEF ReportsConsistent
<1> QED
  BY <1>3, <1>4, <1>5 DEF ReportsConsistent

\* A step of the page alone.
LEMMA PageStepConsistent ==
  ASSUME ReportsConsistent, UNCHANGED <<task, stream>>,
         \A j \in Job : page'[j] = "none" => page[j] = "none",
         \A j \in Job : page'[j] = "fetching" =>
           \/ page[j] = "fetching"
           \/ \E i \in DOMAIN stream : stream[i] = [job |-> j, status |-> "done"]
  PROVE  ReportsConsistent'
  BY DEF ReportsConsistent

LEMMA RoundConsistent ==
  ASSUME TypeOK, ReportsConsistent, NEW i \in DOMAIN stream,
         NEW left \in [DOMAIN stream -> Nat],
         HandleEvent(i, left), UNCHANGED serverVars
  PROVE  ReportsConsistent'
<1>1. \A j \in Job : page'[j] # page[j] =>
        j = stream[i].job /\ page'[j] = AfterEvent(i)
  BY HandleFacts
<1>2. stream[i] \in Event
  BY StreamTyped DEF TypeOK
<1>3. AfterEvent(i) = "fetching" => stream[i] = [job |-> stream[i].job, status |-> "done"]
  BY <1>2 DEF AfterEvent, Event
<1>4. AfterEvent(i) # "none"
  BY DEF AfterEvent
<1>5. UNCHANGED <<task, stream>>
  BY DEF serverVars
<1> QED
  BY <1>1, <1>3, <1>4, <1>5, PageStepConsistent

LEMMA ReportsStep ==
  ASSUME TypeOK, InRange, ReportsConsistent, [Next]_vars
  PROVE  ReportsConsistent'
<1>1. ASSUME NEW j \in Job, Task(j)
      PROVE  ReportsConsistent'
  <2>1. CASE TaskDone(j)
    BY <2>1, PublishConsistent DEF TaskDone
  <2>2. CASE TaskTurnsError(j)
    BY <2>2, PublishConsistent DEF TaskTurnsError
  <2>3. CASE TaskFails(j)
    BY <2>3, PublishConsistent DEF TaskFails
  <2>4. CASE TaskEnds(j) \/ TaskIsSilent(j)
    <3>1. /\ task[j] \in {"reported", "queued"}
          /\ task' = [task EXCEPT ![j] = "over"] /\ UNCHANGED <<stream, page>>
      BY <2>4 DEF TaskEnds, TaskIsSilent
    <3>2. task'[j] = "over" /\ \A k \in Job : k # j => task'[k] = task[k]
      BY <3>1 DEF TypeOK
    <3>3. \A i \in DOMAIN stream : stream[i].job \in Job
      BY StreamTyped
    <3> QED
      BY <3>1, <3>2, <3>3 DEF ReportsConsistent
  <2> QED
    BY <1>1, <2>1, <2>2, <2>3, <2>4 DEF Task
<1>2. ASSUME NEW j \in Job, Request(j)
      PROVE  ReportsConsistent'
  <2>1. /\ page[j] = "none" /\ page' = [page EXCEPT ![j] = "requested"]
        /\ task' = [task EXCEPT ![j] = "queued"] /\ UNCHANGED stream
    BY <1>2 DEF Request
  <2>2. \A i \in DOMAIN stream : stream[i].job # j /\ stream[i].job \in Job
    BY <2>1, StreamTyped DEF ReportsConsistent
  <2>3. /\ page'[j] = "requested" /\ task'[j] = "queued"
        /\ \A k \in Job : k # j => page'[k] = page[k] /\ task'[k] = task[k]
    BY <2>1 DEF TypeOK
  <2> QED
    BY <2>1, <2>2, <2>3 DEF ReportsConsistent
<1>3. ASSUME NEW j \in Job, Reply(j) \/ ReplyLost(j) \/ FetchEnds(j)
      PROVE  ReportsConsistent'
  <2>1. PICK next \in {"waiting", "abandoned", "resolved", "rejected"} :
          page' = [page EXCEPT ![j] = next]
    BY <1>3 DEF Reply, ReplyLost, FetchEnds
  <2>2. page'[j] = next /\ \A k \in Job : k # j => page'[k] = page[k]
    BY <2>1 DEF TypeOK
  <2> QED
    BY <1>3, <2>2, PageStepConsistent DEF Reply, ReplyLost, FetchEnds
<1>4. CASE SendPoll \/ ReadEvents \/ PollFails \/ PollAnswered
  BY <1>4, PageStepConsistent
  DEF SendPoll, ReadEvents, AnswerWith, PollFails, PollAnswered
<1>5. CASE ProcessNext
  BY <1>5, NextInStream, RoundConsistent DEF ProcessNext, TypeOK
<1>6. ASSUME NEW i \in DOMAIN stream, TimerFires(i)
      PROVE  ReportsConsistent'
  BY <1>6, TimerLeft, RoundConsistent DEF TimerFires, serverVars
<1>7. CASE Reload
  <2>1. \A j \in Job : page'[j] \in {"abandoned", page[j]}
    BY <1>7 DEF Reload
  <2> QED
    BY <1>7, <2>1, PageStepConsistent DEF Reload
<1>8. CASE UNCHANGED vars
  BY <1>8, PageStepConsistent DEF vars
<1> QED
  BY <1>1, <1>2, <1>3, <1>4, <1>5, <1>6, <1>7, <1>8
  DEF Next, SomeTimerFires, SomeAnswer

-----------------------------------------------------------------------------
(* The invariant.                                                          *)

LEMMA InitInvariant == Init => IInv
<1> SUFFICES ASSUME Init PROVE IInv
  OBVIOUS
<1>1. DOMAIN stream = {} /\ poll.at = "idle"
  BY DEF Init, NoPoll
<1>2. AllHandled
  BY <1>1 DEF AllHandled, HandledTo
<1>3. ReportsConsistent
  BY <1>1 DEF Init, ReportsConsistent
<1> QED
  BY <1>2, <1>3, InitTyped DEF IInv

LEMMA Invariant == Spec => []IInv
<1>1. IInv /\ [Next]_vars => IInv'
  BY TypeStep, HandledStep, ReportsStep DEF IInv
<1> QED
  BY InitInvariant, <1>1, PTL DEF Spec

\* NothingSkipped: what lies below the last id and is still waited for will be
\* tried again or was given up.
THEOREM NothingIsSkipped == Spec => []NothingSkipped
<1>1. IInv => NothingSkipped
  BY StreamTyped DEF IInv, TypeOK, AllHandled, HandledTo, Settled, NothingSkipped
<1> QED
  BY Invariant, <1>1, PTL

-----------------------------------------------------------------------------
(* The promises implement AsyncPromise.                                    *)

LEMMA PublishReports ==
  ASSUME TypeOK, InRange, NEW j \in Job, NEW status \in {"done", "error"},
         Publish(j, status), status \notin reported[j]
  PROVE  Promise!Next
<1>1. /\ DOMAIN stream' = 1..(Len(stream) + 1)
      /\ DOMAIN stream = 1..Len(stream) /\ Len(stream) \in Nat
      /\ \A i \in DOMAIN stream : stream'[i] = stream[i]
      /\ stream'[Len(stream) + 1] = [job |-> j, status |-> status]
      /\ page' = page
  BY PublishFacts, StreamTyped
<1>2. ASSUME NEW k \in Job, k # j
      PROVE  reported'[k] = reported[k]
  BY <1>1, <1>2 DEF reported
<1>3. reported'[j] = reported[j] \cup {status}
  BY <1>1 DEF reported
<1>4. reported' = [reported EXCEPT ![j] = @ \cup {status}]
  BY <1>2, <1>3 DEF reported
<1>5. UNCHANGED promise
  BY <1>1 DEF promise, Pending, Listening
<1>6. Promise!Report(j, status)
  BY <1>4, <1>5 DEF Promise!Report
<1> QED
  BY <1>6 DEF Promise!Next

LEMMA StutterMaps ==
  ASSUME UNCHANGED <<stream, page>>
  PROVE  UNCHANGED Promise!vars
  BY DEF Promise!vars, reported, promise, Pending, Listening

LEMMA RoundMaps ==
  ASSUME TypeOK, NEW i \in DOMAIN stream, NEW left \in [DOMAIN stream -> Nat],
         HandleEvent(i, left), UNCHANGED serverVars
  PROVE  [Promise!Next]_(Promise!vars)
<1> DEFINE j == stream[i].job
<1>1. j \in Job /\ stream[i] \in Event
  BY StreamTyped DEF TypeOK
<1>2. UNCHANGED <<stream, reported>>
  BY DEF serverVars, reported
<1>3. CASE page' = page
  BY <1>2, <1>3, StutterMaps
<1>4. CASE Heard(i, left, AfterEvent(i))
  <2>1. /\ page' = [page EXCEPT ![j] = AfterEvent(i)]
        /\ page[j] \in {"waiting", "fetching"}
    BY <1>4 DEF Heard, Listening
  <2>2. promise[j] = "pending"
    BY <1>1, <2>1 DEF promise, Pending, Listening
  <2>3. CASE stream[i].status = "done"
    <3>1. page'[j] = "fetching" /\ \A k \in Job : k # j => page'[k] = page[k]
      BY <1>1, <2>1, <2>3 DEF AfterEvent, TypeOK
    <3>2. promise' = promise
      BY <1>1, <2>1, <3>1 DEF promise, Pending, Listening
    <3> QED
      BY <1>2, <3>2 DEF Promise!vars
  <2>4. CASE stream[i].status # "done"
    <3>1. page'[j] = "rejected" /\ \A k \in Job : k # j => page'[k] = page[k]
      BY <1>1, <2>1, <2>4 DEF AfterEvent, TypeOK
    <3>2. promise' = [promise EXCEPT ![j] = "rejected"]
      BY <1>1, <2>1, <3>1 DEF promise, Pending, Listening
    <3>3. reported[j] # {}
      BY <1>1 DEF reported
    <3>4. Promise!Reject(j)
      BY <1>2, <2>2, <3>2, <3>3 DEF Promise!Reject
    <3> QED
      BY <1>1, <3>4 DEF Promise!Next
  <2> QED
    BY <2>3, <2>4
<1> QED
  BY <1>3, <1>4 DEF HandleEvent, TriedAgain, Dropped

\* The promise of one job moves.
LEMMA PromiseMoves ==
  ASSUME TypeOK, NEW j \in Job, NEW next \in PageStates \ {"requested", "waiting", "fetching"},
         page' = [page EXCEPT ![j] = next]
  PROVE  promise' = [promise EXCEPT ![j] = next]
<1>1. page'[j] = next /\ \A k \in Job : k # j => page'[k] = page[k]
  BY DEF TypeOK
<1> QED
  BY <1>1 DEF promise, Pending, Listening, PageStates

LEMMA StepMaps ==
  ASSUME TypeOK, InRange, ReportsConsistent, [Next]_vars
  PROVE  [Promise!Next]_(Promise!vars)
<1>1. ASSUME NEW j \in Job, Task(j)
      PROVE  [Promise!Next]_(Promise!vars)
  <2>1. task[j] = "queued" => reported[j] = {}
    BY DEF ReportsConsistent, reported
  <2>2. task[j] = "reported" => "error" \notin reported[j]
    BY DEF ReportsConsistent, reported
  <2>3. CASE TaskDone(j)
    BY <2>1, <2>3, PublishReports DEF TaskDone
  <2>4. CASE TaskTurnsError(j)
    BY <2>2, <2>4, PublishReports DEF TaskTurnsError
  <2>5. CASE TaskFails(j)
    BY <2>1, <2>5, PublishReports DEF TaskFails
  <2>6. CASE TaskEnds(j) \/ TaskIsSilent(j)
    BY <2>6, StutterMaps DEF TaskEnds, TaskIsSilent
  <2> QED
    BY <1>1, <2>3, <2>4, <2>5, <2>6 DEF Task
<1>2. ASSUME NEW j \in Job, Request(j)
      PROVE  [Promise!Next]_(Promise!vars)
  <2>1. page[j] = "none" /\ page' = [page EXCEPT ![j] = "requested"] /\ UNCHANGED stream
    BY <1>2 DEF Request
  <2>2. page'[j] = "requested" /\ \A k \in Job : k # j => page'[k] = page[k]
    BY <2>1 DEF TypeOK
  <2>3. promise' = [promise EXCEPT ![j] = "pending"] /\ promise[j] = "none"
    BY <2>1, <2>2 DEF promise, Pending, Listening
  <2>4. Promise!Ask(j)
    BY <2>1, <2>3 DEF Promise!Ask, reported
  <2> QED
    BY <2>4 DEF Promise!Next
<1>3. ASSUME NEW j \in Job, Reply(j)
      PROVE  [Promise!Next]_(Promise!vars)
  <2>1. page[j] = "requested" /\ page' = [page EXCEPT ![j] = "waiting"] /\ UNCHANGED stream
    BY <1>3 DEF Reply
  <2>2. page'[j] = "waiting" /\ \A k \in Job : k # j => page'[k] = page[k]
    BY <2>1 DEF TypeOK
  <2>3. UNCHANGED promise
    BY <2>1, <2>2 DEF promise, Pending, Listening
  <2> QED
    BY <2>1, <2>3 DEF Promise!vars, reported
<1>4. ASSUME NEW j \in Job, ReplyLost(j)
      PROVE  [Promise!Next]_(Promise!vars)
  <2>1. page[j] = "requested" /\ page' = [page EXCEPT ![j] = "abandoned"] /\ UNCHANGED stream
    BY <1>4 DEF ReplyLost
  <2>2. promise' = [promise EXCEPT ![j] = "abandoned"]
    BY <2>1, PromiseMoves DEF PageStates
  <2>3. promise[j] = "pending" /\ promise' = [k \in Job |-> IF k \in {j} THEN "abandoned" ELSE promise[k]]
    BY <2>1, <2>2 DEF promise, Pending
  <2>4. Promise!Abandon({j})
    BY <2>1, <2>3 DEF Promise!Abandon, reported
  <2> QED
    BY <2>4 DEF Promise!Next
<1>5. ASSUME NEW j \in Job, FetchEnds(j)
      PROVE  [Promise!Next]_(Promise!vars)
  <2>1. page[j] = "fetching" /\ UNCHANGED stream
    BY <1>5 DEF FetchEnds
  <2>2. PICK outcome \in {"resolved", "rejected"} : page' = [page EXCEPT ![j] = outcome]
    BY <1>5 DEF FetchEnds
  <2>3. promise' = [promise EXCEPT ![j] = outcome]
    BY <2>2, PromiseMoves DEF PageStates
  <2>4. promise[j] = "pending"
    BY <2>1 DEF promise, Pending, Listening
  <2>5. "done" \in reported[j]
    BY <2>1 DEF ReportsConsistent, reported
  <2>6. Promise!Resolve(j) \/ Promise!Reject(j)
    BY <2>1, <2>2, <2>3, <2>4, <2>5 DEF Promise!Resolve, Promise!Reject, reported
  <2> QED
    BY <2>6 DEF Promise!Next
<1>6. CASE SendPoll \/ ReadEvents \/ PollFails \/ PollAnswered
  BY <1>6, StutterMaps DEF SendPoll, ReadEvents, AnswerWith, PollFails, PollAnswered
<1>7. CASE ProcessNext
  BY <1>7, NextInStream, RoundMaps DEF ProcessNext, TypeOK
<1>8. ASSUME NEW i \in DOMAIN stream, TimerFires(i)
      PROVE  [Promise!Next]_(Promise!vars)
  BY <1>8, TimerLeft, RoundMaps DEF TimerFires, serverVars
<1>9. CASE Reload
  <2> DEFINE S == {j \in Job : Pending(j)}
  <2>1. S # {} /\ UNCHANGED stream
        /\ page' = [j \in Job |-> IF j \in S THEN "abandoned" ELSE page[j]]
    BY <1>9 DEF Reload
  <2>2. \A j \in S : promise[j] = "pending"
    BY DEF promise
  <2>3. promise' = [j \in Job |-> IF j \in S THEN "abandoned" ELSE promise[j]]
    BY <2>1 DEF promise, Pending, Listening
  <2>4. Promise!Abandon(S)
    BY <2>1, <2>2, <2>3 DEF Promise!Abandon, reported
  <2> QED
    BY <2>4 DEF Promise!Next
<1>10. CASE UNCHANGED vars
  BY <1>10, StutterMaps DEF vars
<1> QED
  BY <1>1, <1>2, <1>3, <1>4, <1>5, <1>6, <1>7, <1>8, <1>9, <1>10
  DEF Next, SomeTimerFires, SomeAnswer

\* PromiseSafety: every behaviour of the page and the servers is one of
\* AsyncPromise.
THEOREM EventsRefinePromise == Spec => PromiseSafety
<1>1. Init => Promise!Init
  BY DEF Init, Promise!Init, reported, promise, Pending, Listening
<1>2. IInv /\ [Next]_vars => [Promise!Next]_(Promise!vars)
  BY StepMaps DEF IInv
<1> QED
  BY <1>1, <1>2, Invariant, PTL DEF Spec, PromiseSafety, Promise!Spec

=============================================================================
