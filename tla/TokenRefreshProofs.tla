------------------------- MODULE TokenRefreshProofs --------------------------
(***************************************************************************)
(* Proofs about TokenRefresh: type correctness, the bound on the requests  *)
(* that refresh at the same time, and that these hold the lock unless one  *)
(* expired, for any finite set of requests and any limits.                 *)
(***************************************************************************)
EXTENDS TokenRefresh, FiniteSetTheorems, TLAPS

\* Whether the lock in the table is that of a request that refreshes.
Held == lock.state = "fresh" /\ lock.taker \in Refreshing

\* The lock, if its taker is still refreshing, accounts for one request, every
\* overrun for one more.
Accounted == Cardinality(Refreshing) <= (IF Held THEN 1 ELSE 0) + overruns

IInv == TypeOK /\ Accounted

-----------------------------------------------------------------------------
(* The types.                                                              *)

LEMMA NoTokenType ==
  NoToken \in [status: {"none", "valid", "expired"}, refreshable: BOOLEAN]
BY DEF NoToken

LEMMA InitTypes == Init => TypeOK
<1> SUFFICES ASSUME Init PROVE TypeOK
  OBVIOUS
<1>1. NoRequest \in [at: Places, tries: 0..MaxTries, got: BOOLEAN]
  BY LimitsAssumption DEF NoRequest, Places
<1>2. request \in [Process -> [at: Places, tries: 0..MaxTries, got: BOOLEAN]]
  BY <1>1 DEF Init
<1>3. token \in [status: {"none", "valid", "expired"}, refreshable: BOOLEAN]
  BY NoTokenType DEF Init
<1>4. lock \in [state: {"none", "fresh", "expired"}, taker: Process \cup {NoProcess}]
  BY DEF Init, NoLock
<1> QED
  BY <1>2, <1>3, <1>4, LimitsAssumption DEF Init, TypeOK

LEMMA LeavesTypes ==
  ASSUME TypeOK, NEW p \in Process, Leaves(p)
  PROVE  request' \in [Process -> [at: Places, tries: 0..MaxTries, got: BOOLEAN]]
<1>1. NoRequest \in [at: Places, tries: 0..MaxTries, got: BOOLEAN]
  BY LimitsAssumption DEF NoRequest, Places
<1> QED
  BY <1>1 DEF TypeOK, Leaves

LEMMA MovesTypes ==
  ASSUME TypeOK, NEW p \in Process, NEW place \in Places, MovesTo(p, place)
  PROVE  request' \in [Process -> [at: Places, tries: 0..MaxTries, got: BOOLEAN]]
BY DEF TypeOK, MovesTo

LEMMA LockTakenTypes ==
  ASSUME TypeOK, NEW p \in Process, LockTaken(p)
  PROVE  request' \in [Process -> [at: Places, tries: 0..MaxTries, got: BOOLEAN]]
<1>1. CASE request[p].tries < MaxTries
  <2>1. request[p].tries + 1 \in 0..MaxTries
    BY <1>1, LimitsAssumption DEF TypeOK
  <2> QED
    BY <1>1, <2>1 DEF LockTaken, TypeOK, Places
<1>2. CASE ~(request[p].tries < MaxTries)
  BY <1>2, LeavesTypes DEF LockTaken
<1> QED
  BY <1>1, <1>2

LEMMA StepTypes == TypeOK /\ [Next]_vars => TypeOK'
<1> SUFFICES ASSUME TypeOK, [Next]_vars PROVE TypeOK'
  OBVIOUS
<1>1. ASSUME NEW p \in Process, Call(p) PROVE TypeOK'
  <2>1. [at |-> "reading", tries |-> 1, got |-> FALSE]
          \in [at: Places, tries: 0..MaxTries, got: BOOLEAN]
    BY LimitsAssumption DEF Places
  <2> QED
    BY <1>1, <2>1 DEF Call, TypeOK
<1>2. ASSUME NEW p \in Process, Retry(p) PROVE TypeOK'
  BY <1>2, MovesTypes DEF Retry, TypeOK, Places
<1>3. ASSUME NEW p \in Process, TokenUsable(p) PROVE TypeOK'
  BY <1>3, LeavesTypes DEF TokenUsable, TypeOK
<1>4. ASSUME NEW p \in Process, TokenToRefresh(p) PROVE TypeOK'
  BY <1>4, MovesTypes DEF TokenToRefresh, TypeOK, Places
<1>5. ASSUME NEW p \in Process, TokenLost(p) PROVE TypeOK'
  <2>1. token' \in [status: {"none", "valid", "expired"}, refreshable: BOOLEAN]
    BY <1>5, NoTokenType DEF TokenLost, TypeOK
  <2> QED
    BY <1>5, <2>1, LeavesTypes DEF TokenLost, TypeOK
<1>6. ASSUME NEW p \in Process, CheckLock(p) PROVE TypeOK'
  BY <1>6, MovesTypes, LockTakenTypes DEF CheckLock, TypeOK, Places
<1>7. ASSUME NEW p \in Process, CreateLock(p) PROVE TypeOK'
  <2>1. request' \in [Process -> [at: Places, tries: 0..MaxTries, got: BOOLEAN]]
    BY <1>7, MovesTypes, LockTakenTypes DEF CreateLock, Places
  <2> QED
    BY <1>7, <2>1 DEF CreateLock, TypeOK
<1>8. ASSUME NEW p \in Process, Answered(p) PROVE TypeOK'
  <2>1. PICK got \in BOOLEAN :
          request' = [request EXCEPT ![p].at = "releasing", ![p].got = got]
    BY <1>8 DEF Answered
  <2>2. [request[p] EXCEPT !.at = "releasing", !.got = got]
          \in [at: Places, tries: 0..MaxTries, got: BOOLEAN]
    BY DEF TypeOK, Places
  <2>3. request' = [request EXCEPT ![p] = [request[p] EXCEPT !.at = "releasing", !.got = got]]
    BY <2>1 DEF TypeOK
  <2> QED
    BY <1>8, <2>2, <2>3 DEF Answered, TypeOK
<1>9. ASSUME NEW p \in Process, Release(p) PROVE TypeOK'
  <2>1. lock' \in [state: {"none", "fresh", "expired"}, taker: Process \cup {NoProcess}]
    BY <1>9 DEF Release, NoLock
  <2> QED
    BY <1>9, <2>1, LeavesTypes DEF Release, TypeOK
<1>10. ASSUME NEW p \in Process, Fails(p) PROVE TypeOK'
  BY <1>10, LeavesTypes DEF Fails, TypeOK
<1>11. CASE LockExpires
  BY <1>11, LimitsAssumption DEF LockExpires, TypeOK
<1>12. CASE TokenExpires
  BY <1>12 DEF TokenExpires, TypeOK
<1>13. CASE UNCHANGED vars
  BY <1>13 DEF vars, TypeOK
<1> QED
  BY <1>1, <1>2, <1>3, <1>4, <1>5, <1>6, <1>7, <1>8, <1>9, <1>10, <1>11, <1>12,
     <1>13 DEF Next, Steps

-----------------------------------------------------------------------------
(* Counting the requests that refresh.                                     *)

LEMMA RefreshingFinite == IsFiniteSet(Refreshing) /\ Cardinality(Refreshing) \in Nat
<1>1. Refreshing \subseteq Process
  BY DEF Refreshing
<1> QED
  BY <1>1, ProcessAssumption, FS_Subset, FS_CardinalityType

LEMMA OneJoins ==
  ASSUME NEW p, p \notin Refreshing, Refreshing' = Refreshing \cup {p}
  PROVE  Cardinality(Refreshing') = Cardinality(Refreshing) + 1
BY RefreshingFinite, FS_AddElement

LEMMA OneLeaves ==
  ASSUME NEW p, p \in Refreshing, Refreshing' = Refreshing \ {p}
  PROVE  Cardinality(Refreshing') = Cardinality(Refreshing) - 1
BY RefreshingFinite, FS_RemoveElement

\* A step in which a request moves outside the section, or inside it.
LEMMA SameRefreshing ==
  ASSUME TypeOK, Accounted, UNCHANGED <<lock, overruns>>, Refreshing' = Refreshing
  PROVE  Accounted'
BY DEF Accounted, Held

LEMMA LeavesRefreshing ==
  ASSUME TypeOK, NEW p \in Process, Leaves(p)
  PROVE  Refreshing' = Refreshing \ {p}
BY DEF TypeOK, Leaves, NoRequest, Refreshing

LEMMA LockTakenRefreshing ==
  ASSUME TypeOK, NEW p \in Process, LockTaken(p), p \notin Refreshing
  PROVE  Refreshing' = Refreshing
<1>1. CASE request[p].tries < MaxTries
  BY <1>1 DEF LockTaken, TypeOK, Refreshing
<1>2. CASE ~(request[p].tries < MaxTries)
  BY <1>2, LeavesRefreshing DEF LockTaken
<1> QED
  BY <1>1, <1>2

LEMMA MovesRefreshing ==
  ASSUME TypeOK, NEW p \in Process, NEW place \in Places \ {"refreshing", "releasing"},
         MovesTo(p, place), p \notin Refreshing
  PROVE  Refreshing' = Refreshing
BY DEF MovesTo, TypeOK, Refreshing

LEMMA StepAccounted == IInv /\ [Next]_vars => Accounted'
<1> SUFFICES ASSUME TypeOK, Accounted, [Next]_vars PROVE Accounted'
  BY DEF IInv
<1>0. overruns \in Nat /\ Cardinality(Refreshing) \in Nat
  BY RefreshingFinite, LimitsAssumption DEF TypeOK
<1>1. ASSUME NEW p \in Process, Call(p) PROVE Accounted'
  <2>1. Refreshing' = Refreshing
    BY <1>1 DEF Call, TypeOK, Refreshing
  <2> QED
    BY <1>1, <2>1, SameRefreshing DEF Call
<1>2. ASSUME NEW p \in Process, Retry(p) PROVE Accounted'
  <2>1. Refreshing' = Refreshing
    BY <1>2, MovesRefreshing DEF Retry, Refreshing, Places
  <2> QED
    BY <1>2, <2>1, SameRefreshing DEF Retry
<1>3. ASSUME NEW p \in Process, TokenUsable(p) PROVE Accounted'
  <2>1. Refreshing' = Refreshing
    BY <1>3, LeavesRefreshing DEF TokenUsable, Refreshing
  <2> QED
    BY <1>3, <2>1, SameRefreshing DEF TokenUsable
<1>4. ASSUME NEW p \in Process, TokenToRefresh(p) PROVE Accounted'
  <2>1. Refreshing' = Refreshing
    BY <1>4, MovesRefreshing DEF TokenToRefresh, Refreshing, Places
  <2> QED
    BY <1>4, <2>1, SameRefreshing DEF TokenToRefresh
<1>5. ASSUME NEW p \in Process, TokenLost(p) PROVE Accounted'
  <2>1. Refreshing' = Refreshing
    BY <1>5, LeavesRefreshing DEF TokenLost, Refreshing
  <2> QED
    BY <1>5, <2>1, SameRefreshing DEF TokenLost
<1>6. ASSUME NEW p \in Process, CheckLock(p) PROVE Accounted'
  <2>1. p \notin Refreshing
    BY <1>6 DEF CheckLock, Refreshing
  <2>2. Refreshing' = Refreshing
    BY <1>6, <2>1, MovesRefreshing, LockTakenRefreshing DEF CheckLock, Places
  <2> QED
    BY <1>6, <2>2, SameRefreshing DEF CheckLock
<1>7. ASSUME NEW p \in Process, CreateLock(p) PROVE Accounted'
  <2>1. p \notin Refreshing
    BY <1>7 DEF CreateLock, Refreshing
  <2>2. CASE lock.state = "fresh"
    <3>1. Refreshing' = Refreshing
      BY <1>7, <2>1, <2>2, LockTakenRefreshing DEF CreateLock
    <3> QED
      BY <1>7, <2>2, <3>1, SameRefreshing DEF CreateLock
  <2>3. CASE lock.state # "fresh"
    <3>1. Refreshing' = Refreshing \cup {p}
      BY <1>7, <2>3 DEF CreateLock, MovesTo, TypeOK, Refreshing
    <3>2. ~Held /\ Held'
      BY <1>7, <2>3, <3>1 DEF CreateLock, Held
    <3>3. Cardinality(Refreshing') = Cardinality(Refreshing) + 1
      BY <2>1, <3>1, OneJoins
    <3> QED
      BY <1>0, <1>7, <3>2, <3>3 DEF CreateLock, Accounted
  <2> QED
    BY <2>2, <2>3
<1>8. ASSUME NEW p \in Process, Answered(p) PROVE Accounted'
  <2>1. Refreshing' = Refreshing
    BY <1>8 DEF Answered, TypeOK, Refreshing
  <2> QED
    BY <1>8, <2>1, SameRefreshing DEF Answered
<1>9. ASSUME NEW p \in Process, Release(p) PROVE Accounted'
  <2>1. Refreshing' = Refreshing \ {p} /\ p \in Refreshing
    BY <1>9, LeavesRefreshing DEF Release, Refreshing
  <2>2. Cardinality(Refreshing') = Cardinality(Refreshing) - 1
    BY <2>1, OneLeaves
  <2>3. ~Held'
    BY <1>9 DEF Release, NoLock, Held
  <2> QED
    BY <1>0, <1>9, <2>2, <2>3 DEF Release, Accounted
<1>10. ASSUME NEW p \in Process, Fails(p) PROVE Accounted'
  <2>1. Refreshing' = Refreshing \ {p}
    BY <1>10, LeavesRefreshing DEF Fails
  <2>2. CASE p \in Refreshing
    <3>1. Cardinality(Refreshing') = Cardinality(Refreshing) - 1
      BY <2>1, <2>2, OneLeaves
    <3>2. CASE lock.taker = p
      BY <1>0, <1>10, <3>1 DEF Fails, Accounted
    <3>3. CASE lock.taker # p
      <4>1. Held' <=> Held
        BY <1>10, <2>1, <3>3 DEF Fails, Held
      <4> QED
        BY <1>0, <1>10, <3>1, <4>1 DEF Fails, Accounted
    <3> QED
      BY <3>2, <3>3
  <2>3. CASE p \notin Refreshing
    BY <1>10, <2>1, <2>3, SameRefreshing DEF Fails
  <2> QED
    BY <2>2, <2>3
<1>11. CASE LockExpires
  <2>1. Refreshing' = Refreshing /\ ~Held'
    BY <1>11 DEF LockExpires, Refreshing, Held, TypeOK
  <2>2. IF Held THEN overruns' = overruns + 1 ELSE overruns' = overruns
    BY <1>11 DEF LockExpires, Held
  <2> QED
    BY <1>0, <2>1, <2>2 DEF Accounted
<1>12. CASE TokenExpires
  <2>1. Refreshing' = Refreshing
    BY <1>12 DEF TokenExpires, Refreshing
  <2> QED
    BY <1>12, <2>1, SameRefreshing DEF TokenExpires
<1>13. CASE UNCHANGED vars
  BY <1>13 DEF vars, Accounted, Held, Refreshing
<1> QED
  BY <1>1, <1>2, <1>3, <1>4, <1>5, <1>6, <1>7, <1>8, <1>9, <1>10, <1>11, <1>12,
     <1>13 DEF Next, Steps

-----------------------------------------------------------------------------
(* The theorems.                                                           *)

LEMMA InitAccounted == Init => Accounted
<1> SUFFICES ASSUME Init PROVE Accounted
  OBVIOUS
<1>1. Refreshing = {}
  BY DEF Init, NoRequest, Refreshing
<1> QED
  BY <1>1, FS_EmptySet DEF Init, Accounted, Held, NoLock

\* The inductive invariant holds in every state: the base of the theorems below.
THEOREM AlwaysIInv == Spec => []IInv
<1>1. Init => IInv
  BY InitTypes, InitAccounted DEF IInv
<1>2. IInv /\ [Next]_vars => IInv'
  BY StepTypes, StepAccounted DEF IInv
<1> QED
  BY <1>1, <1>2, PTL DEF Spec

\* Type correctness, for any requests and limits.
THEOREM TypeCorrect == Spec => []TypeOK
<1>1. IInv => TypeOK
  BY DEF IInv
<1> QED
  BY <1>1, AlwaysIInv, PTL

\* At most one request refreshes at a time, and one more for every lock that
\* has expired under its holder: KeyValueDistributedLock, for any number of
\* requests.
THEOREM RefreshersAreBounded == Spec => []RefreshersBounded
<1>1. IInv => RefreshersBounded
  BY RefreshingFinite, LimitsAssumption
     DEF IInv, TypeOK, Accounted, RefreshersBounded
<1> QED
  BY <1>1, AlwaysIInv, PTL

\* While no lock has expired under its holder, whoever refreshes holds the lock:
\* the release of KeyValueDistributedLock, which deletes whatever entry there
\* is, deletes its own.
OwnLock ==
    overruns = 0 => \A p \in Refreshing : lock = [state |-> "fresh", taker |-> p]

THEOREM LockIsOwn == Spec => []OwnLock
<1>1. IInv => OwnLock
  <2> SUFFICES ASSUME IInv, overruns = 0, NEW p \in Refreshing
               PROVE  lock = [state |-> "fresh", taker |-> p]
    BY DEF OwnLock
  <2>1. Cardinality(Refreshing) # 0
    BY RefreshingFinite, FS_EmptySet
  <2>2. Held /\ Cardinality(Refreshing) <= 1
    BY <2>1, RefreshingFinite DEF IInv, Accounted
  <2>3. Refreshing = {p}
    <3>1. Cardinality(Refreshing) = 1
      BY <2>1, <2>2, RefreshingFinite
    <3>2. PICK q : Refreshing = {q}
      BY <3>1, RefreshingFinite, FS_Singleton
    <3> QED
      BY <3>2
  <2> QED
    BY <2>2, <2>3 DEF Held, IInv, TypeOK
<1> QED
  BY <1>1, AlwaysIInv, PTL
=============================================================================
