---------------------------- MODULE AsyncPromise ----------------------------
(***************************************************************************)
(* What a caller of waitForAsyncData may rely on                           *)
(* (superset-frontend/src/middleware/asyncEvent.ts): the promise of a job  *)
(* settles once, resolves only if the job has reported that it is done,    *)
(* and is rejected only if the job has reported something.                 *)
(***************************************************************************)
CONSTANT Job

VARIABLES
    reported,  \* the statuses each job has reported so far
    promise    \* the promise of each job

vars == <<reported, promise>>

Init ==
    /\ reported = [j \in Job |-> {}]
    /\ promise = [j \in Job |-> "none"]

Ask(j) ==
    /\ promise[j] = "none"
    /\ promise' = [promise EXCEPT ![j] = "pending"]
    /\ UNCHANGED reported

Report(j, status) ==
    /\ status \notin reported[j]
    /\ reported' = [reported EXCEPT ![j] = @ \cup {status}]
    /\ UNCHANGED promise

Resolve(j) ==
    /\ promise[j] = "pending"
    /\ "done" \in reported[j]
    /\ promise' = [promise EXCEPT ![j] = "resolved"]
    /\ UNCHANGED reported

Reject(j) ==
    /\ promise[j] = "pending"
    /\ reported[j] # {}
    /\ promise' = [promise EXCEPT ![j] = "rejected"]
    /\ UNCHANGED reported

\* The page goes away, or the answer that names the job is lost.
Abandon(S) ==
    /\ S # {}
    /\ \A j \in S : promise[j] = "pending"
    /\ promise' = [j \in Job |-> IF j \in S THEN "abandoned" ELSE promise[j]]
    /\ UNCHANGED reported

Next ==
    \/ \E j \in Job : Ask(j) \/ Resolve(j) \/ Reject(j)
    \/ \E j \in Job, status \in {"done", "error"} : Report(j, status)
    \/ \E S \in SUBSET Job : Abandon(S)

Spec == Init /\ [][Next]_vars
=============================================================================
