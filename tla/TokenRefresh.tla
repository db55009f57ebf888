---------------------------- MODULE TokenRefresh -----------------------------
(***************************************************************************)
(* The refresh of an OAuth2 access token (superset/utils/oauth2.py) under  *)
(* the distributed lock of the key-value table (distributed_lock,          *)
(* commands/distributed_lock).  Each request that needs the token of one   *)
(* user and database is a process; a step is a committed transaction, a    *)
(* read, or an answer of the provider.                                     *)
(*                                                                         *)
(* Durations are not modelled: the lock and the token may expire at any    *)
(* moment.  A read sees what was committed last.  The caller has no        *)
(* transaction of its own open, in which the lock would not be committed   *)
(* before the refresh.                                                     *)
(***************************************************************************)
EXTENDS Naturals, FiniteSets

CONSTANTS
    Process,     \* requests that may run at the same time
    NoProcess,
    MaxTries,    \* max_tries of the retry decorator
    MaxOverruns  \* bound: locks that expire under their holder

ASSUME ProcessAssumption == IsFiniteSet(Process) /\ NoProcess \notin Process

ASSUME LimitsAssumption == MaxTries \in Nat \ {0} /\ MaxOverruns \in Nat

VARIABLES
    token,    \* the row of DatabaseUserOAuth2Tokens
    lock,     \* the entry of the key-value table; taker is history
    request,  \* where each request is
    overruns  \* history: locks that expired while their taker was refreshing

vars == <<token, lock, request, overruns>>

Places == {"idle", "reading", "checking", "creating", "refreshing", "releasing",
           "waiting"}

TypeOK ==
    /\ token \in [status: {"none", "valid", "expired"}, refreshable: BOOLEAN]
    /\ lock \in [state: {"none", "fresh", "expired"}, taker: Process \cup {NoProcess}]
    /\ request \in [Process -> [at: Places, tries: 0..MaxTries, got: BOOLEAN]]
    /\ overruns \in 0..MaxOverruns

NoToken == [status |-> "none", refreshable |-> FALSE]
NoLock == [state |-> "none", taker |-> NoProcess]
NoRequest == [at |-> "idle", tries |-> 0, got |-> FALSE]

\* The requests between the lock and its release.
Refreshing == {p \in Process : request[p].at \in {"refreshing", "releasing"}}

Init ==
    /\ token \in {NoToken} \cup [status: {"valid", "expired"}, refreshable: BOOLEAN]
    /\ lock = NoLock
    /\ request = [p \in Process |-> NoRequest]
    /\ overruns = 0

-----------------------------------------------------------------------------
MovesTo(p, place) == request' = [request EXCEPT ![p].at = place]

Leaves(p) == request' = [request EXCEPT ![p] = NoRequest]

\* Faulty variant: one try more.
TriesOnceMore(p) ==
    IF request[p].tries <= MaxTries
    THEN request' = [request EXCEPT ![p].at = "waiting", ![p].tries = @ + 1]
    ELSE Leaves(p)

\* CreateKeyValueDistributedLockFailedException: wait and try again, or raise.
LockTaken(p) ==
    IF request[p].tries < MaxTries
    THEN request' = [request EXCEPT ![p].at = "waiting", ![p].tries = @ + 1]
    ELSE Leaves(p)

Call(p) ==
    /\ request[p].at = "idle"
    /\ request' = [request EXCEPT ![p] = [at |-> "reading", tries |-> 1, got |-> FALSE]]
    /\ UNCHANGED <<token, lock, overruns>>

Retry(p) ==
    /\ request[p].at = "waiting"
    /\ MovesTo(p, "reading")
    /\ UNCHANGED <<token, lock, overruns>>

\* A valid token is returned, and no token is None.
TokenUsable(p) ==
    /\ request[p].at = "reading"
    /\ token.status # "expired"
    /\ Leaves(p)
    /\ UNCHANGED <<token, lock, overruns>>

TokenToRefresh(p) ==
    /\ request[p].at = "reading"
    /\ token.status = "expired" /\ token.refreshable
    /\ MovesTo(p, "checking")
    /\ UNCHANGED <<token, lock, overruns>>

\* The row is deleted, which the caller may commit later, or not.
TokenLost(p) ==
    /\ request[p].at = "reading"
    /\ token.status = "expired" /\ ~token.refreshable
    /\ token' \in {token, NoToken}
    /\ Leaves(p)
    /\ UNCHANGED <<lock, overruns>>

\* GetDistributedLock.
CheckLock(p) ==
    /\ request[p].at = "checking"
    /\ IF lock.state = "fresh" THEN LockTaken(p) ELSE MovesTo(p, "creating")
    /\ UNCHANGED <<token, lock, overruns>>

\* Faulty variant: the key is not unique.
CreateSecondLock(p) ==
    /\ request[p].at = "creating"
    /\ MovesTo(p, "refreshing")
    /\ lock' = [state |-> "fresh", taker |-> p]
    /\ UNCHANGED <<token, overruns>>

\* CreateDistributedLock: expired entries are deleted, and the key is unique.
CreateLock(p) ==
    /\ request[p].at = "creating"
    /\ IF lock.state = "fresh"
       THEN LockTaken(p) /\ UNCHANGED lock
       ELSE MovesTo(p, "refreshing") /\ lock' = [state |-> "fresh", taker |-> p]
    /\ UNCHANGED <<token, overruns>>

\* The provider's answer; without an access token the row is left alone.
Answered(p) ==
    /\ request[p].at = "refreshing"
    /\ \E got \in BOOLEAN :
         request' = [request EXCEPT ![p].at = "releasing", ![p].got = got]
    /\ UNCHANGED <<token, lock, overruns>>

\* DeleteDistributedLock deletes whatever entry there is, and commits the token
\* with it.
Release(p) ==
    /\ request[p].at = "releasing"
    /\ lock' = NoLock
    /\ token' = IF request[p].got THEN [status |-> "valid", refreshable |-> TRUE] ELSE token
    /\ Leaves(p)
    /\ UNCHANGED overruns

\* An exception anywhere, or the end of the process: the session is rolled back
\* and the lock stays.
Fails(p) ==
    /\ request[p].at # "idle"
    /\ Leaves(p)
    /\ UNCHANGED <<token, lock, overruns>>

\* Thirty seconds after it was taken.
LockExpires ==
    /\ lock.state = "fresh"
    /\ lock' = [lock EXCEPT !.state = "expired"]
    /\ IF lock.taker \in Refreshing
       THEN overruns < MaxOverruns /\ overruns' = overruns + 1
       ELSE UNCHANGED overruns
    /\ UNCHANGED <<token, request>>

TokenExpires ==
    /\ token.status = "valid"
    /\ token' = [token EXCEPT !.status = "expired"]
    /\ UNCHANGED <<lock, request, overruns>>

-----------------------------------------------------------------------------
Steps(p) ==
    Call(p) \/ Retry(p) \/ TokenUsable(p) \/ TokenToRefresh(p) \/ TokenLost(p)
    \/ CheckLock(p) \/ CreateLock(p) \/ Answered(p) \/ Release(p) \/ Fails(p)

Next == (\E p \in Process : Steps(p)) \/ LockExpires \/ TokenExpires

Spec == Init /\ [][Next]_vars

-----------------------------------------------------------------------------
\* Requests refresh one at a time; every lock that expires under its holder
\* lets in one more and no second, though the release of an expired holder
\* deletes the lock of the next.
RefreshersBounded == Cardinality(Refreshing) <= 1 + overruns
=============================================================================
