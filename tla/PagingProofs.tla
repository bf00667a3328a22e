---------------------------- MODULE PagingProofs ----------------------------
(***************************************************************************)
(* Proofs about Paging, for any collectors, sites and bounds: what a site  *)
(* asks for with Retry-After is kept, a run that is deferred leaves        *)
(* nothing behind, runs stay sound, and no watermark passes a row in       *)
(* silence.                                                                *)
(***************************************************************************)
EXTENDS Paging, FiniteSetTheorems, SequenceTheorems, TLAPS

\* A delay that is still running has failed the deadline: between requests the
\* client has either waited it out or given the run up.
DelayIsLatched ==
  /\ DOMAIN run = DOMAIN NoRun
  /\ run.asked \in Nat
  /\ run.asked > 0 => run.latched

DelayInv == DelayIsLatched /\ RetryAfterIsKept

\* The step of a collector has nothing to do with the client's delay.
KeepsDelay(r, s) ==
  DOMAIN s = DOMAIN r /\ s.asked = r.asked /\ s.latched = r.latched

Fields == {"pc", "unit", "page", "token", "from", "day", "count", "latest", "got",
           "warned", "todo", "next", "attempt", "budget", "asked", "latched"}

\* The fields of a run.
LEMMA RunFields == DOMAIN NoRun = Fields /\ NoRun.asked = 0 /\ NoRun.latched = FALSE
BY DEF NoRun, Fields

\* What goes on to the next unit or detail, or ends, keeps the delay.
LEMMA GoingOn ==
  ASSUME NEW r, DOMAIN r = Fields
  PROVE  /\ KeepsDelay(r, NextUnit(r)) /\ KeepsDelay(r, NextEntry(r))
         /\ KeepsDelay(r, Answered(r)) /\ KeepsDelay(r, GoesOn(r))
<1>1. ASSUME NEW s, DOMAIN s = Fields
      PROVE  KeepsDelay(s, NextUnit(s)) /\ KeepsDelay(s, NextEntry(s))
  BY <1>1 DEF NextUnit, NextEntry, KeepsDelay, Fields
<1>2. KeepsDelay(r, Answered(r))
  BY DEF Answered, KeepsDelay, Fields
<1>3. KeepsDelay(r, [Answered(r) EXCEPT !.warned = TRUE])
  BY <1>2 DEF KeepsDelay, Fields
<1> QED
  BY <1>1, <1>2, <1>3 DEF GoesOn, KeepsDelay

\* Neither does what a collector makes of an answer.
LEMMA OaiKeeps ==
  ASSUME NEW r, DOMAIN r = Fields, NEW token
  PROVE  KeepsDelay(r, OaiNext(r, token))
BY DEF OaiNext, KeepsDelay, Fields

LEMMA ListedKeeps ==
  ASSUME DOMAIN run = Fields, kind \in AllKinds
  PROVE  KeepsDelay(run, Listed)
<1>1. \A seen : DOMAIN Got(run, seen) = Fields /\ KeepsDelay(run, Got(run, seen))
  BY GoingOn DEF Got, KeepsDelay, Fields
<1>2. DOMAIN Answered(run) = Fields /\ KeepsDelay(run, Answered(run))
  BY GoingOn DEF KeepsDelay
<1>3. KeepsDelay(run, ArxivPage)
  BY <1>1 DEF ArxivPage, KeepsDelay, Fields
<1>4. KeepsDelay(run, OaiPage)
  BY <1>1, OaiKeeps DEF OaiPage, KeepsDelay
<1>5. KeepsDelay(run, SsePage)
  BY <1>1 DEF SsePage, KeepsDelay, Fields
<1>6. KeepsDelay(run, CninfoPage)
  BY <1>1 DEF CninfoPage, KeepsDelay, Fields
<1>7. KeepsDelay(run, SamrPage)
  <2> DEFINE q == NewestFirst(OnShelf(run.unit))
             seen == Page(q, run.page)
             exhausted == run.page * PageSize >= Len(q) \/ Len(seen) < PageSize
             over == ~exhausted /\ run.page = MaxPages /\ MaxPages * PageSize < Len(q)
             r == [Got(run, seen) EXCEPT !.page = @ + 1,
                                         !.warned = @ \/ ~AllSound(seen) \/ over]
  <2>1. DOMAIN r = Fields /\ KeepsDelay(run, r)
    BY <1>1 DEF KeepsDelay, Fields
  <2>2. SamrPage = IF exhausted \/ run.page = MaxPages THEN NextUnit(r) ELSE r
    BY DEF SamrPage
  <2> HIDE DEF r
  <2> QED
    BY <2>1, <2>2, GoingOn DEF KeepsDelay
<1>8. KeepsDelay(run, OpenReviewPage)
  <2> DEFINE seen == Page(NewestFirst(OnShelf(run.unit)), run.page)
             r == [Got(run, seen) EXCEPT !.page = @ + 1]
  <2>1. DOMAIN r = Fields /\ KeepsDelay(run, r)
    BY <1>1 DEF KeepsDelay, Fields
  <2>2. OpenReviewPage = IF Len(seen) < PageSize \/ run.page = MaxPages THEN NextUnit(r) ELSE r
    BY DEF OpenReviewPage
  <2> HIDE DEF r
  <2> QED
    BY <2>1, <2>2, GoingOn DEF KeepsDelay
<1>9. KeepsDelay(run, SecList)
  BY <1>1 DEF SecList, KeepsDelay, Fields
<1>10. KeepsDelay(run, HtmlList)
  BY <1>1 DEF HtmlList, KeepsDelay, Fields
<1>11. KeepsDelay(run, FeedList)
  BY <1>1 DEF FeedList, KeepsDelay, Fields
<1>12. KeepsDelay(run, VolumesList)
  BY <1>2 DEF VolumesList, KeepsDelay, Fields
<1> QED
  BY <1>3, <1>4, <1>5, <1>6, <1>7, <1>8, <1>9, <1>10, <1>11, <1>12 DEF Listed, AllKinds

-----------------------------------------------------------------------------
(* The client.                                                             *)

LEMMA MaxZero ==
  ASSUME NEW n \in Int
  PROVE  Max({0, n}) = IF n > 0 THEN n ELSE 0
BY DEF Max

\* A request that is sent is sent after every delay.
LEMMA SentInTime ==
  ASSUME DelayInv, Send
  PROVE  run.asked = 0 /\ ~run.latched /\ RetryAfterIsKept'
<1>1. ~run.latched
  BY DEF Send, Asking
<1>2. run.asked \in Nat /\ ~(run.asked > 0)
  BY <1>1 DEF DelayInv, DelayIsLatched
<1>3. ~early'
  <2> DEFINE waiting == run.asked > 0
  <2>1. ~waiting /\ early' = (early \/ waiting) /\ ~early
    BY <1>2 DEF Send, DelayInv, RetryAfterIsKept
  <2> HIDE DEF waiting
  <2> QED
    BY <2>1
<1> QED
  BY <1>1, <1>2, <1>3 DEF DelayInv, RetryAfterIsKept

\* Where a failure is caught or ends the run, no delay is left that the
\* deadline does not know of.
LEMMA RaisedInv ==
  ASSUME NEW r, DOMAIN r = Fields, r.asked \in Nat, r.asked > 0 => r.latched,
         run' = Raised(r)
  PROVE  DelayIsLatched'
BY GoingOn, RunFields DEF Raised, KeepsDelay, DelayIsLatched

\* A wait is waited out, or fails the deadline.
LEMMA SleepInv ==
  ASSUME NEW r, DOMAIN r = Fields, NEW n \in Nat, r.asked \in 0..n, run' = Sleep(r, n)
  PROVE  DelayIsLatched'
<1>1. CASE n >= r.budget
  BY <1>1, RunFields DEF Sleep, DelayIsLatched, Fields
<1>2. CASE ~(n >= r.budget)
  <2>1. Max({0, r.asked - n}) = 0
    BY MaxZero
  <2>2. DOMAIN run' = Fields /\ run'.asked = Max({0, r.asked - n})
    BY <1>2 DEF Sleep, Fields
  <2> QED
    BY <2>1, <2>2, RunFields DEF DelayIsLatched
<1> QED
  BY <1>1, <1>2

\* A step that leaves the client alone.
LEMMA KeepsInv ==
  ASSUME DelayIsLatched, KeepsDelay(run, run')
  PROVE  DelayIsLatched'
BY DEF DelayIsLatched, KeepsDelay

-----------------------------------------------------------------------------
(* The invariant.                                                          *)

LEMMA DelayInit == Init => DelayInv
BY RunFields DEF Init, DelayInv, DelayIsLatched, RetryAfterIsKept

LEMMA DelayNext ==
  ASSUME DelayInv, kind \in AllKinds, [Next]_vars
  PROVE  DelayInv'
<1>a. DOMAIN run = Fields /\ run.asked \in Nat /\ (run.asked > 0 => run.latched)
  BY RunFields DEF DelayInv, DelayIsLatched
<1>1. CASE Start
  <2>1. DOMAIN run' = Fields /\ run'.asked = 0
    BY <1>1, RunFields DEF Start, Fields
  <2> QED
    BY <1>1, <2>1, RunFields DEF DelayInv, DelayIsLatched, RetryAfterIsKept, Start
<1>2. CASE Unmodified
  <2>1. KeepsDelay(run, run')
    BY <1>2, <1>a, GoingOn DEF Unmodified, KeepsDelay, Fields
  <2> QED
    BY <1>2, <2>1, KeepsInv, SentInTime DEF Unmodified, DelayInv
<1>3. CASE List
  BY <1>3, <1>a, ListedKeeps, KeepsInv, SentInTime DEF List, DelayInv
<1>4. CASE Inner
  <2> DEFINE r == Got(run, OldestFirst(OnShelf(Head(run.todo))))
  <2>1. DOMAIN r = Fields /\ KeepsDelay(run, r)
    BY <1>a, GoingOn DEF Got, KeepsDelay, Fields
  <2>2. KeepsDelay(run, run')
    BY <1>4, <2>1, GoingOn DEF Inner, VolumesInner, KeepsDelay
  <2> QED
    BY <1>4, <2>2, KeepsInv, SentInTime DEF Inner, DelayInv
<1>5. CASE Detail
  <2>1. KeepsDelay(run, run')
    BY <1>5, <1>a, GoingOn DEF Detail, KeepsDelay
  <2> QED
    BY <1>5, <2>1, KeepsInv, SentInTime DEF Detail, DelayInv
<1>6. CASE Commit
  BY <1>6, RunFields DEF Commit, DelayInv, DelayIsLatched, RetryAfterIsKept
<1>7. CASE Unwind
  BY <1>7, <1>a, GoingOn, RunFields
     DEF Unwind, KeepsDelay, DelayInv, DelayIsLatched, RetryAfterIsKept
<1>8. CASE TransportFails
  <2>1. run.asked = 0 /\ RetryAfterIsKept'
    BY <1>8, SentInTime DEF TransportFails, Fault
  <2>2. run' = Sleep(run, 1) \/ run' = Raised(run)
    BY <1>8 DEF TransportFails
  <2> QED
    BY <1>a, <2>1, <2>2, SleepInv, RaisedInv DEF DelayInv
<1>9. CASE Refused
  BY <1>9, <1>a, SentInTime, RaisedInv DEF Refused, Fault, DelayInv
<1>10. CASE OutOfTime
  <2>1. DOMAIN run' = Fields /\ run'.asked = run.asked /\ run'.latched = TRUE
    BY <1>10, <1>a DEF OutOfTime, Fields
  <2> QED
    BY <1>10, <1>a, <2>1, RunFields DEF OutOfTime, DelayInv, DelayIsLatched, RetryAfterIsKept
<1>11. CASE TokenExpires
  <2>1. DOMAIN [Answered(run) EXCEPT !.warned = TRUE] = Fields
        /\ KeepsDelay(run, [Answered(run) EXCEPT !.warned = TRUE])
    BY <1>a, GoingOn DEF KeepsDelay, Fields
  <2>2. KeepsDelay(run, run')
    BY <1>11, <2>1, OaiKeeps DEF TokenExpires, OaiExpired, KeepsDelay
  <2> QED
    BY <1>11, <2>2, KeepsInv, SentInTime DEF TokenExpires, Fault, DelayInv
<1>12. CASE Garbled
  <2>1. \A seen : DOMAIN Got(run, seen) = Fields /\ KeepsDelay(run, Got(run, seen))
    BY <1>a, GoingOn DEF Got, KeepsDelay, Fields
  <2>2. KeepsDelay(run, run')
    BY <1>12, <2>1 DEF Garbled, KeepsDelay, Fields
  <2> QED
    BY <1>12, <2>2, KeepsInv, SentInTime DEF Garbled, Fault, DelayInv
<1>13. ASSUME NEW wait \in Waits \cup {0}, Busy(wait)
       PROVE  DelayInv'
  <2> DEFINE r == [run EXCEPT !.asked = wait]
             n == IF wait > 0 THEN wait ELSE 1
  <2>1. wait \in Nat /\ n \in Nat /\ wait \in 0..n
    BY PagingAssumption
  <2>2. DOMAIN r = Fields /\ r.asked = wait
    BY <1>a DEF Fields
  <2>3. /\ RetryAfterIsKept'
        /\ run' = IF run.attempt < Attempts THEN Sleep(r, n) ELSE Exhausted(r, wait)
    BY <1>13, SentInTime DEF Busy, Fault
  <2> HIDE DEF r, n
  <2>4. CASE run' = Sleep(r, n)
    BY <2>1, <2>2, <2>3, <2>4, SleepInv DEF DelayInv
  <2>5. CASE run' = Raised(r) /\ wait = 0
    BY <2>1, <2>2, <2>3, <2>5, RaisedInv DEF DelayInv
  <2>6. CASE run' = [r EXCEPT !.latched = TRUE]
    <3>1. DOMAIN run' = Fields /\ run'.asked = wait /\ run'.latched = TRUE
      BY <2>2, <2>6 DEF Fields
    <3> QED
      BY <2>1, <2>3, <3>1, RunFields DEF DelayInv, DelayIsLatched
  <2> QED
    BY <2>3, <2>4, <2>5, <2>6 DEF Exhausted
<1>14. CASE Publish \/ Revise \/ NewDay \/ UNCHANGED vars
  BY <1>14 DEF Publish, Revise, NewDay, vars, DelayInv, DelayIsLatched, RetryAfterIsKept
<1> QED
  BY <1>1, <1>2, <1>3, <1>4, <1>5, <1>6, <1>7, <1>8, <1>9, <1>10, <1>11, <1>12, <1>13, <1>14
     DEF Next, RunStep

\* The collector is one of those that are modelled.
LEMMA KindStays == Spec => [](kind \in AllKinds)
<1>1. Init => kind \in AllKinds
  BY PagingAssumption DEF Init
<1>2. kind \in AllKinds /\ [Next]_vars => (kind \in AllKinds)'
  BY DEF Next, RunStep, Start, Unmodified, List, Inner, Detail, Commit, Unwind,
         TransportFails, Refused, OutOfTime, TokenExpires, Garbled, Busy, Publish,
         Revise, NewDay, vars
<1> QED
  BY <1>1, <1>2, PTL DEF Spec

LEMMA DelayInvariant == Spec => []DelayInv
BY DelayInit, DelayNext, KindStays, PTL DEF Spec

\* Whatever collector reads whatever site, no request goes out before the time
\* a Retry-After asked for has passed (BaseCollector.request, Deadline.sleep).
THEOREM RetryAfterKept == Spec => []RetryAfterIsKept
<1>1. DelayInv => RetryAfterIsKept
  BY DEF DelayInv
<1> QED
  BY <1>1, DelayInvariant, PTL

\* A run whose deadline has failed, or that a site asked to wait, commits
\* nothing, also when the collector swallows the failure (collect_group).
THEOREM DeferredRuns == Spec => DeferredRunsCommitNothing
<1>1. ASSUME DelayInv, [Next]_vars, run.latched \/ run.asked > 0
      PROVE  UNCHANGED <<stored, cursor, reported>>
  <2>1. run.latched
    BY <1>1 DEF DelayInv, DelayIsLatched
  <2> QED
    BY <1>1, <2>1 DEF Next, RunStep, Start, Unmodified, List, Inner, Detail, Commit, Unwind,
         TransportFails, Refused, OutOfTime, TokenExpires, Garbled, Busy, Publish,
         Revise, NewDay, vars
<1> QED
  BY <1>1, DelayInvariant, PTL DEF Spec, DeferredRunsCommitNothing

-----------------------------------------------------------------------------
(* The order of a listing.                                                 *)

\* The rows before a row, and their number, newest first and oldest first.
NewRank(S, i) == Cardinality({j \in S : Newer(j, i)})
OldRank(S, i) == Cardinality({j \in S : j < i})

\* s lists S, each row behind as many as its rank says.
Lists(s, S, rank) ==
  /\ s \in Seq(S) /\ Len(s) = Cardinality(S) /\ Cardinality(S) \in Nat
  /\ \A n \in 1..Len(s) : rank[s[n]] = n - 1
  /\ \A i \in S : rank[i] \in Nat /\ rank[i] < Len(s) /\ s[rank[i] + 1] = i

\* A strict total order of a set, as a set of pairs, and who comes before i.
Orders(R, S) ==
  /\ \A i \in S : <<i, i>> \notin R
  /\ \A i, j, k \in S : <<i, j>> \in R /\ <<j, k>> \in R => <<i, k>> \in R
  /\ \A i, j \in S : i # j => <<i, j>> \in R \/ <<j, i>> \in R

Preds(R, S, i) == {j \in S : <<j, i>> \in R}

\* The ranks by R: from 0, without gaps, in that order.
Ranks(rank, R, S) ==
  /\ Cardinality(S) \in Nat
  /\ \A i \in S : rank[i] \in Nat /\ rank[i] < Cardinality(S)
  /\ \A i, j \in S : <<i, j>> \in R => rank[i] < rank[j]
  /\ \A n \in 1..Cardinality(S) : \E i \in S : rank[i] = n - 1

\* Counting who is before whom gives the ranks.
LEMMA Counting ==
  ASSUME NEW S, IsFiniteSet(S), NEW R, Orders(R, S),
         NEW rank, \A i \in S : rank[i] = Cardinality(Preds(R, S, i))
  PROVE  Ranks(rank, R, S)
<1> DEFINE c == Cardinality(S)
<1>1. c \in Nat
  BY FS_CardinalityType
<1>2. ASSUME NEW i \in S
      PROVE  IsFiniteSet(Preds(R, S, i)) /\ rank[i] \in Nat
  <2>1. Preds(R, S, i) \in SUBSET S
    BY DEF Preds
  <2> QED BY <2>1, FS_Subset, FS_CardinalityType
<1>3. ASSUME NEW i \in S
      PROVE  rank[i] < c
  <2>1. Preds(R, S, i) \in SUBSET (S \ {i})
    BY DEF Preds, Orders
  <2>2. IsFiniteSet(S \ {i}) /\ Cardinality(S \ {i}) = c - 1
    BY FS_RemoveElement
  <2>3. rank[i] <= Cardinality(S \ {i})
    BY <2>1, <2>2, FS_Subset
  <2> QED BY <1>1, <1>2, <2>2, <2>3
<1>4. ASSUME NEW i \in S, NEW j \in S, <<i, j>> \in R
      PROVE  rank[i] < rank[j]
  <2>1. Preds(R, S, i) \in SUBSET (Preds(R, S, j) \ {i}) /\ i \in Preds(R, S, j)
    BY <1>4 DEF Preds, Orders
  <2>2. /\ IsFiniteSet(Preds(R, S, j) \ {i})
        /\ Cardinality(Preds(R, S, j) \ {i}) = rank[j] - 1
    BY <1>2, <2>1, FS_RemoveElement
  <2>3. rank[i] <= Cardinality(Preds(R, S, j) \ {i})
    BY <2>1, <2>2, FS_Subset
  <2> QED BY <1>2, <2>2, <2>3
<1> HIDE DEF c
<1>5. \A n \in 1..c : \E i \in S : rank[i] = n - 1
  <2>1. PICK f : f = [i \in S |-> rank[i] + 1]
    OBVIOUS
  <2>2. IsFiniteSet(1..c) /\ Cardinality(1..c) = c
    BY <1>1, FS_Interval
  <2>3. f \in [S -> 1..c]
    <3>1. \A i \in S : rank[i] + 1 \in 1..c
      BY <1>1, <1>2, <1>3
    <3> QED BY <2>1, <3>1
  <2>4. \A i, j \in S : f[i] = f[j] => i = j
    <3>1. \A i, j \in S : i # j => rank[i] < rank[j] \/ rank[j] < rank[i]
      BY <1>4 DEF Orders
    <3> QED BY <1>2, <2>1, <3>1
  <2>5. f \in Injection(S, 1..c)
    BY <2>3, <2>4 DEF Injection, IsInjective
  <2>6. f \in Surjection(S, 1..c)
    BY <2>2, <2>5, FS_Injection DEF c
  <2>7. \A n \in 1..c : \E i \in S : f[i] = n
    BY <2>6 DEF Surjection
  <2>8. ASSUME NEW n \in 1..c
        PROVE  \E i \in S : rank[i] = n - 1
    <3>1. PICK i \in S : f[i] = n
      BY <2>7
    <3>2. rank[i] + 1 = n
      BY <2>1, <3>1
    <3> QED BY <1>2, <3>2
  <2> QED BY <2>8
<1> QED BY <1>1, <1>2, <1>3, <1>4, <1>5 DEF Ranks, c

\* So the sequence that picks the n-th by its rank lists the set.
LEMMA Picking ==
  ASSUME NEW S, NEW R, Orders(R, S), NEW rank, Ranks(rank, R, S),
         NEW s \in [1..Cardinality(S) -> S],
         \A n \in 1..Cardinality(S) : rank[s[n]] = n - 1
  PROVE  Lists(s, S, rank)
<1>1. PICK c \in Nat : c = Cardinality(S)
  BY DEF Ranks
<1>2. \A i \in S : rank[i] \in Nat /\ rank[i] < c
  BY <1>1 DEF Ranks
<1>3. \A i, j \in S : rank[i] = rank[j] => i = j
  <2>1. \A i, j \in S : i # j => rank[i] < rank[j] \/ rank[j] < rank[i]
    BY DEF Ranks, Orders
  <2> QED BY <1>2, <2>1
<1>4. /\ \A n \in 1..c : s[n] \in S
      /\ \A n \in 1..c : rank[s[n]] = n - 1
  BY <1>1
<1>5. s \in Seq(S) /\ Len(s) = c
  <2>1. s \in [1..c -> S]
    BY <1>1
  <2> QED BY <2>1
<1>6. ASSUME NEW i \in S
      PROVE  s[rank[i] + 1] = i
  <2>1. PICK n \in 1..c : n = rank[i] + 1
    BY <1>2
  <2>2. s[n] \in S /\ rank[s[n]] = rank[i]
    BY <1>2, <1>4, <2>1
  <2> QED BY <1>3, <2>1, <2>2
<1> QED BY <1>1, <1>2, <1>4, <1>5, <1>6 DEF Lists

\* The rows of the site are numbered, and dated.
SiteOK == site \in Seq([date : Nat, shelf : 1..Shelves[kind], sound : BOOLEAN])

\* The numbers, dates and headings of the rows.
LEMMA SiteFacts ==
  ASSUME SiteOK
  PROVE  /\ Len(site) \in Nat /\ Rows = 1..Len(site) /\ IsFiniteSet(Rows)
         /\ \A i \in Rows : i \in Nat /\ site[i].date \in Nat /\ site[i].shelf \in 1..Shelves[kind]
                            /\ site[i].sound \in BOOLEAN
<1>1. Len(site) \in Nat /\ Rows = 1..Len(site)
  BY DEF SiteOK, Rows
<1>2. IsFiniteSet(Rows)
  BY <1>1, FS_Interval
<1>3. ASSUME NEW i \in 1..Len(site)
      PROVE  site[i] \in [date : Nat, shelf : 1..Shelves[kind], sound : BOOLEAN]
  BY <1>3, ElementOfSeq DEF SiteOK
<1> QED BY <1>1, <1>2, <1>3

\* The newest rows come first.
LEMMA NewestLists ==
  ASSUME SiteOK, NEW S \in SUBSET Rows
  PROVE  /\ Lists(NewestFirst(S), S, [i \in S |-> NewRank(S, i)])
         /\ \A i, j \in S : Newer(i, j) => NewRank(S, i) < NewRank(S, j)
<1>1. IsFiniteSet(S) /\ \A i \in S : i \in Nat /\ site[i].date \in Nat
  BY SiteFacts, FS_Subset
<1>2. PICK R : R = {p \in S \X S : Newer(p[1], p[2])}
  OBVIOUS
<1>3. \A i, j \in S : <<i, j>> \in R <=> Newer(i, j)
  BY <1>2
<1>4. Orders(R, S)
  BY <1>1, <1>3 DEF Orders, Newer
<1>5. PICK rank : rank = [i \in S |-> NewRank(S, i)]
  OBVIOUS
<1>6. ASSUME NEW i \in S
      PROVE  rank[i] = Cardinality(Preds(R, S, i))
  <2>1. Preds(R, S, i) = {j \in S : Newer(j, i)}
    BY <1>3 DEF Preds
  <2> QED BY <1>5, <2>1 DEF NewRank
<1>7. Ranks(rank, R, S)
  BY <1>1, <1>4, <1>6, Counting
<1>8. ASSUME NEW n \in 1..Cardinality(S)
      PROVE  NewestFirst(S)[n] \in S /\ rank[NewestFirst(S)[n]] = n - 1
  <2>1. NewestFirst(S)[n] = CHOOSE i \in S : NewRank(S, i) = n - 1
    BY DEF NewestFirst, Ranked, NewRank
  <2>2. \E i \in S : NewRank(S, i) = n - 1
    BY <1>5, <1>7 DEF Ranks
  <2> QED BY <1>5, <2>1, <2>2
<1>9. Lists(NewestFirst(S), S, rank)
  <2>1. NewestFirst(S) \in [1..Cardinality(S) -> S]
    <3>1. \A n \in 1..Cardinality(S) :
            (CHOOSE i \in S : Cardinality({j \in S : Newer(j, i)}) = n - 1) \in S
      BY <1>8 DEF NewestFirst, Ranked
    <3> QED BY <3>1 DEF NewestFirst, Ranked
  <2> QED BY <1>4, <1>7, <1>8, <2>1, Picking
<1>10. \A i, j \in S : Newer(i, j) => rank[i] < rank[j]
  BY <1>3, <1>7 DEF Ranks
<1> QED BY <1>5, <1>9, <1>10

\* The oldest, by their number, come first.
LEMMA OldestLists ==
  ASSUME SiteOK, NEW S \in SUBSET Rows
  PROVE  Lists(OldestFirst(S), S, [i \in S |-> OldRank(S, i)])
<1>1. IsFiniteSet(S) /\ \A i \in S : i \in Nat
  BY SiteFacts, FS_Subset
<1>2. PICK R : R = {p \in S \X S : p[1] < p[2]}
  OBVIOUS
<1>3. \A i, j \in S : <<i, j>> \in R <=> i < j
  BY <1>2
<1>4. Orders(R, S)
  BY <1>1, <1>3 DEF Orders
<1>5. PICK rank : rank = [i \in S |-> OldRank(S, i)]
  OBVIOUS
<1>6. ASSUME NEW i \in S
      PROVE  rank[i] = Cardinality(Preds(R, S, i))
  <2>1. Preds(R, S, i) = {j \in S : j < i}
    BY <1>3 DEF Preds
  <2> QED BY <1>5, <2>1 DEF OldRank
<1>7. Ranks(rank, R, S)
  BY <1>1, <1>4, <1>6, Counting
<1>8. ASSUME NEW n \in 1..Cardinality(S)
      PROVE  OldestFirst(S)[n] \in S /\ rank[OldestFirst(S)[n]] = n - 1
  <2>1. OldestFirst(S)[n] = CHOOSE i \in S : OldRank(S, i) = n - 1
    BY DEF OldestFirst, Ranked, OldRank
  <2>2. \E i \in S : OldRank(S, i) = n - 1
    BY <1>5, <1>7 DEF Ranks
  <2> QED BY <1>5, <2>1, <2>2
<1>9. Lists(OldestFirst(S), S, rank)
  <2>1. OldestFirst(S) \in [1..Cardinality(S) -> S]
    <3>1. \A n \in 1..Cardinality(S) :
            (CHOOSE i \in S : Cardinality({j \in S : j < i}) = n - 1) \in S
      BY <1>8 DEF OldestFirst, Ranked
    <3> QED BY <3>1 DEF OldestFirst, Ranked
  <2> QED BY <1>4, <1>7, <1>8, <2>1, Picking
<1> QED BY <1>5, <1>9

\* The two values library operators are used for.
LEMMA MinMax ==
  ASSUME NEW a \in Int, NEW b \in Int
  PROVE  /\ Min({a, b}) = IF a <= b THEN a ELSE b
         /\ Max({a, b}) = IF a >= b THEN a ELSE b
BY DEF Min, Max

\* The parts of a sequence.
LEMMA FirstFact ==
  ASSUME NEW S, NEW s \in Seq(S), NEW n \in Nat
  PROVE  /\ First(n, s) \in Seq(S)
         /\ Len(First(n, s)) = IF n <= Len(s) THEN n ELSE Len(s)
         /\ \A m \in 1..Len(First(n, s)) : First(n, s)[m] = s[m]
<1>1. PICK k \in Nat : k = IF n <= Len(s) THEN n ELSE Len(s)
  OBVIOUS
<1>2. First(n, s) = SubSeq(s, 1, k)
  BY <1>1, MinMax DEF First
<1>3. \A m \in 1..k : s[m] \in S
  BY <1>1, ElementOfSeq
<1>4. /\ SubSeq(s, 1, k) \in Seq(S)
      /\ Len(SubSeq(s, 1, k)) = IF 1 <= k THEN k - 1 + 1 ELSE 0
      /\ \A m \in 1..(k - 1 + 1) : SubSeq(s, 1, k)[m] = s[1 + m - 1]
  BY <1>3, SubSeqProperties
<1> QED BY <1>1, <1>2, <1>4

\* What is left of a sequence after its first n elements.
LEMMA FromFact ==
  ASSUME NEW S, NEW s \in Seq(S), NEW n \in 0..Len(s)
  PROVE  /\ From(n, s) \in Seq(S)
         /\ Len(From(n, s)) = Len(s) - n
         /\ \A m \in 1..Len(From(n, s)) : From(n, s)[m] = s[n + m]
<1>1. \A m \in (n + 1)..Len(s) : s[m] \in S
  BY ElementOfSeq
<1>2. /\ From(n, s) \in Seq(S)
      /\ Len(From(n, s)) = IF n + 1 <= Len(s) THEN Len(s) - (n + 1) + 1 ELSE 0
      /\ \A m \in 1..(Len(s) - (n + 1) + 1) : From(n, s)[m] = s[n + 1 + m - 1]
  BY <1>1, SubSeqProperties DEF From
<1> QED BY <1>2

\* The elements of a sequence.
LEMMA SeqSet ==
  ASSUME NEW S, NEW s \in Seq(S)
  PROVE  ToSet(s) \subseteq S
<1>1. DOMAIN s = 1..Len(s) /\ \A n \in 1..Len(s) : s[n] \in S
  BY ElementOfSeq, LenProperties
<1> QED BY <1>1 DEF ToSet

\* page holds the rows of S with the ranks from k on, and the last of them
\* when it is not full.
Slices(page, S, rank, k) ==
  /\ page \in Seq(S) /\ ToSet(page) \subseteq S
  /\ Len(page) \in Nat /\ Len(page) <= PageSize
  /\ \A i \in S : i \in ToSet(page) <=> k <= rank[i] /\ rank[i] < k + PageSize
  /\ Len(page) < PageSize => \A i \in S : rank[i] < k + PageSize

\* A page of a listing that starts after k rows.
LEMMA SliceRanks ==
  ASSUME NEW s, NEW S, NEW rank, Lists(s, S, rank), NEW k \in Nat,
         NEW page, page = First(PageSize, From(Min({k, Len(s)}), s))
  PROVE  Slices(page, S, rank, k)
<1>1. s \in Seq(S) /\ PageSize \in Nat \ {0}
  BY PagingAssumption DEF Lists, PagingAssumption
<1>2. PICK c \in Nat : c = Len(s)
  BY <1>1
<1>3. PICK m \in 0..c : m = Min({k, Len(s)}) /\ m = IF k <= c THEN k ELSE c
  BY <1>2, MinMax
<1>4. PICK t \in Seq(S) : /\ t = From(m, s) /\ Len(t) = c - m
                          /\ \A n \in 1..Len(t) : t[n] = s[m + n]
  BY <1>1, <1>2, FromFact
<1>5. page = First(PageSize, t)
  BY <1>3, <1>4
<1>6. /\ page \in Seq(S)
      /\ Len(page) = IF PageSize <= c - m THEN PageSize ELSE c - m
      /\ \A n \in 1..Len(page) : page[n] = t[n]
  <2>1. t \in Seq(S) /\ PageSize \in Nat /\ Len(t) = c - m
    BY <1>1, <1>4
  <2>2. /\ First(PageSize, t) \in Seq(S)
        /\ Len(First(PageSize, t)) = IF PageSize <= Len(t) THEN PageSize ELSE Len(t)
        /\ \A n \in 1..Len(First(PageSize, t)) : First(PageSize, t)[n] = t[n]
    BY <2>1, FirstFact
  <2> QED BY <1>5, <2>1, <2>2
<1>7. PICK l \in Nat : /\ l = Len(page) /\ l = IF PageSize <= c - m THEN PageSize ELSE c - m
                       /\ DOMAIN page = 1..l
  <2>1. Len(page) \in Nat /\ DOMAIN page = 1..Len(page)
    BY <1>6, LenProperties
  <2> QED BY <1>6, <2>1
<1>8. ASSUME NEW n \in 1..l
      PROVE  page[n] \in S /\ page[n] = s[m + n] /\ m + n \in 1..c
  <2>1. n \in 1..(c - m) /\ m + n \in 1..c
    BY <1>7
  <2> QED BY <1>2, <1>4, <1>6, <1>7, <2>1, ElementOfSeq
<1>9. ToSet(page) = {page[n] : n \in 1..l}
  BY <1>7 DEF ToSet
<1>10. \A i \in S : rank[i] \in Nat /\ rank[i] < c /\ s[rank[i] + 1] = i
  BY <1>2 DEF Lists
<1>11. ASSUME NEW i \in S, i \in ToSet(page)
       PROVE  k <= rank[i] /\ rank[i] < k + PageSize
  <2>1. PICK n \in 1..l : i = page[n]
    BY <1>9, <1>11
  <2>2. PICK x \in 1..c : x = m + n /\ s[x] = i
    BY <1>8, <2>1
  <2>3. rank[i] = x - 1
    BY <1>2, <2>2 DEF Lists
  <2> QED BY <1>1, <1>3, <1>7, <2>2, <2>3
<1>12. ASSUME NEW i \in S, k <= rank[i], rank[i] < k + PageSize
       PROVE  i \in ToSet(page)
  <2>1. m = k
    BY <1>3, <1>10, <1>12
  <2>2. PICK n \in 1..l : n = rank[i] + 1 - k
    BY <1>1, <1>7, <1>10, <1>12, <2>1
  <2>3. m + n = rank[i] + 1
    BY <1>10, <2>1, <2>2
  <2>4. page[n] = i
    BY <1>8, <1>10, <2>3
  <2> QED BY <1>9, <2>4
<1>13. ASSUME Len(page) < PageSize, NEW i \in S
       PROVE  rank[i] < k + PageSize
  BY <1>1, <1>3, <1>7, <1>10, <1>13
<1>14. ToSet(page) \subseteq S
  BY <1>8, <1>9
<1>15. Len(page) \in Nat /\ Len(page) <= PageSize
  BY <1>1, <1>7
<1> QED BY <1>6, <1>11, <1>12, <1>13, <1>14, <1>15 DEF Slices

\* A finite set of integers has a greatest one.
LEMMA Greatest ==
  ASSUME NEW S \in SUBSET Int, IsFiniteSet(S), S # {}
  PROVE  Max(S) \in S /\ \A n \in S : n <= Max(S)
<1>1. PICK R : R = {p \in S \X S : p[1] < p[2]}
  OBVIOUS
<1>2. \A i, j \in S : <<i, j>> \in R <=> i < j
  BY <1>1
<1>3. Orders(R, S)
  BY <1>2 DEF Orders
<1>4. PICK rank : rank = [i \in S |-> Cardinality(Preds(R, S, i))]
  OBVIOUS
<1>5. Ranks(rank, R, S)
  BY <1>3, <1>4, Counting
<1>6. PICK c \in Nat : c = Cardinality(S) /\ c # 0
  BY <1>5, FS_EmptySet DEF Ranks
<1>7. PICK m \in S : rank[m] = c - 1
  <2>1. c \in 1..c
    BY <1>6
  <2> QED BY <1>5, <1>6, <2>1 DEF Ranks
<1>8. ASSUME NEW n \in S
      PROVE  n <= m
  <2>1. rank[n] \in Nat /\ rank[n] < c /\ (m < n => rank[m] < rank[n])
    BY <1>2, <1>5, <1>6 DEF Ranks
  <2> QED BY <1>6, <1>7, <2>1
<1>9. \E x \in S : \A y \in S : x >= y
  BY <1>8
<1>10. Max(S) \in S /\ \A y \in S : Max(S) >= y
  BY <1>9 DEF Max
<1> QED BY <1>10

-----------------------------------------------------------------------------
(* Types.                                                                  *)

Days(k) == 0..MaxDay[k]

Sites(k) == Seq([date : Days(k), shelf : 1..Shelves[k], sound : BOOLEAN])

\* Validators: what is asked for, the page, and what it shows.
Shown == (SUBSET Nat) \cup Seq(Nat)
Tags == {None} \cup (Dates \X Nat \X Shown)

Cursors(k) == [mark : Days(k) \cup {None}, unit : 1..Shelves[k], token : Nat, last : Nat,
               tag : Tags, offset : Nat]

\* What a run has still to request: detail pages, or the entries of an index.
Entries(k) == IF k = "volumes" THEN 1..Shelves[k] ELSE 1..MaxPosts[k]

Runs(k) == [pc : {"idle", "list", "inner", "detail", "done"}, unit : 1..Shelves[k], page : Nat,
            token : Nat, from : Dates, day : Days(k), count : Nat,
            latest : Days(k) \cup {None}, got : SUBSET ((1..MaxPosts[k]) \X Days(k)),
            warned : BOOLEAN, todo : Seq(Entries(k)), next : Cursors(k),
            attempt : 1..Attempts, budget : 0..Budget, asked : Nat, latched : BOOLEAN]

PageLimit == IF kind = "oai" THEN Max({MaxPages, Shelves[kind]}) ELSE MaxPages

\* Where a run may be: on a page within its limit, with a page left to read,
\* with time left unless its deadline has failed.
Sound(r) ==
  /\ r \in Runs(kind)
  /\ r.page \in 1..(PageLimit + 1) /\ (r.pc = "list" => r.page <= PageLimit)
  /\ r.pc \notin {"idle", "done"} => r.latched \/ r.budget > 0
  /\ r.pc = "inner" => kind = "volumes" /\ r.todo # <<>>
  /\ r.pc = "detail" => kind \in {"sec", "html"} /\ r.todo # <<>>

TypeInv ==
  /\ kind \in Kinds /\ tags \in BOOLEAN
  /\ site \in Sites(kind) /\ Len(site) <= MaxPosts[kind] /\ today \in Days(kind)
  /\ cursor \in Cursors(kind)
  /\ stored \subseteq RowSet /\ reported \subseteq RowSet
  /\ Sound(run)
  /\ surprises \in 0..MaxSurprises
  /\ skipped \cup detailed \subseteq 1..MaxPosts[kind] /\ early \in BOOLEAN

\* The constants as the provers need them.
LEMMA Limits ==
  /\ PageSize \in Nat \ {0} /\ MaxPages \in Nat \ {0} /\ VolumeLimit \in Nat \ {0}
  /\ MaxItems \in Nat \ {0} /\ Lookback \in Nat \ {0} /\ DetailLimit \in Nat \ {0}
  /\ Attempts \in Nat \ {0} /\ Budget \in Nat \ {0}
  /\ YearsBack \in Nat /\ Overlap \in Nat /\ Lag \in Nat /\ Lag <= Overlap
  /\ MaxSurprises \in Nat /\ None \notin Int
  /\ \A k \in Kinds : /\ MaxPosts[k] \in Nat /\ MaxDay[k] \in Nat /\ k \in AllKinds
                       /\ Shelves[k] \in Nat \ {0}
  /\ kind \in Kinds => /\ PageLimit \in Nat \ {0} /\ MaxPages <= PageLimit
                       /\ PageLimit <= Max({MaxPages, Shelves[kind]})
<1>1. ASSUME kind \in Kinds
      PROVE  /\ PageLimit \in Nat \ {0} /\ MaxPages <= PageLimit
             /\ PageLimit <= Max({MaxPages, Shelves[kind]})
  <2>1. Shelves[kind] \in Nat \ {0} /\ MaxPages \in Nat \ {0}
    BY <1>1, PagingAssumption DEF PagingAssumption
  <2>2. PICK n \in Int : n = Shelves[kind] /\ n > 0
    BY <2>1
  <2>a. PICK m \in Int : m = MaxPages
    BY <2>1
  <2>b. Max({m, n}) = IF m >= n THEN m ELSE n
    BY MinMax
  <2>3. Max({MaxPages, n}) = IF MaxPages >= n THEN MaxPages ELSE n
    BY <2>a, <2>b
  <2> QED BY <2>1, <2>2, <2>3 DEF PageLimit
<1> QED BY <1>1, PagingAssumption DEF PagingAssumption

\* The types of the site, as the later proofs cite them.
LEMMA SiteTypes ==
  ASSUME kind \in Kinds, site \in Sites(kind), Len(site) <= MaxPosts[kind]
  PROVE  /\ SiteOK /\ Len(site) \in Nat /\ Rows = 1..Len(site)
         /\ Rows \subseteq 1..MaxPosts[kind] /\ IsFiniteSet(Rows)
         /\ \A i \in Rows : /\ i \in Nat /\ site[i].date \in Days(kind) /\ site[i].date \in Nat
                            /\ site[i].shelf \in 1..Shelves[kind] /\ site[i].sound \in BOOLEAN
         /\ Accepted(Rows) \subseteq RowSet
         /\ \A S \in SUBSET Rows : Accepted(S) \subseteq (1..MaxPosts[kind]) \X Days(kind)
<1>1. Days(kind) \subseteq Nat
  BY Limits DEF Days
<1>2. SiteOK
  <2>1. PICK A : A = [date : Days(kind), shelf : 1..Shelves[kind], sound : BOOLEAN]
    OBVIOUS
  <2>2. PICK B : B = [date : Nat, shelf : 1..Shelves[kind], sound : BOOLEAN]
    OBVIOUS
  <2>3. A \subseteq B
    BY <1>1, <2>1, <2>2
  <2>4. site \in Seq(A)
    BY <2>1 DEF Sites
  <2>5. site \in Seq(B)
    BY <2>3, <2>4, SeqMonotonic
  <2> QED BY <2>2, <2>5 DEF SiteOK
<1>3. Len(site) \in Nat /\ Rows = 1..Len(site) /\ IsFiniteSet(Rows)
  BY <1>2, SiteFacts
<1>4. Rows \subseteq 1..MaxPosts[kind]
  BY <1>3, Limits
<1>5. ASSUME NEW i \in Rows
      PROVE  /\ i \in Nat /\ site[i].date \in Days(kind) /\ site[i].date \in Nat
             /\ site[i].shelf \in 1..Shelves[kind] /\ site[i].sound \in BOOLEAN
  <2>1. site[i] \in [date : Days(kind), shelf : 1..Shelves[kind], sound : BOOLEAN]
    BY <1>3, ElementOfSeq DEF Sites
  <2> QED BY <1>1, <1>3, <2>1
<1>6. \A S \in SUBSET Rows : Accepted(S) \subseteq (1..MaxPosts[kind]) \X Days(kind)
  BY <1>4, <1>5 DEF Accepted, Row
<1> QED BY <1>2, <1>3, <1>4, <1>5, <1>6 DEF RowSet, Days

\* The newest date so far is None or the date of a row, and no other is newer.
LEMMA LatestFact ==
  ASSUME TypeInv, NEW seen, ToSet(seen) \subseteq Rows
  PROVE  /\ Latest(seen) \in Days(kind) \cup {None}
         /\ Latest(seen) = None =>
              run.latest = None /\ \A i \in ToSet(seen) : ~site[i].sound
         /\ Latest(seen) # None =>
              /\ \A i \in ToSet(seen) : site[i].sound => site[i].date <= Latest(seen)
              /\ run.latest # None => run.latest <= Latest(seen)
              /\ \/ Latest(seen) = run.latest
                 \/ \E i \in ToSet(seen) : site[i].sound /\ site[i].date = Latest(seen)
<1> DEFINE E == {row[2] : row \in Accepted(ToSet(seen))}
           D == E \cup (IF run.latest = None THEN {} ELSE {run.latest})
<1>1. Latest(seen) = IF D = {} THEN None ELSE Max(D)
  BY DEF Latest
<1>2. \A i \in Rows : site[i].date \in Days(kind)
  BY SiteTypes DEF TypeInv
<1>3. run.latest \in Days(kind) \cup {None}
  BY DEF TypeInv, Sound, Runs
<1>4. \A d : d \in D <=> \/ (\E i \in ToSet(seen) : site[i].sound /\ d = site[i].date)
                        \/ (run.latest # None /\ d = run.latest)
  <2>1. \A d : d \in E <=> \E i \in ToSet(seen) : site[i].sound /\ d = site[i].date
    <3>1. ASSUME NEW d, d \in E
          PROVE  \E i \in ToSet(seen) : site[i].sound /\ d = site[i].date
      <4>1. PICK row \in Accepted(ToSet(seen)) : d = row[2]
        BY <3>1
      <4>2. PICK i \in ToSet(seen) : site[i].sound /\ row = Row(i)
        BY <4>1 DEF Accepted
      <4> QED BY <4>1, <4>2 DEF Row
    <3>2. ASSUME NEW i \in ToSet(seen), site[i].sound
          PROVE  site[i].date \in E
      <4>1. Row(i) \in Accepted(ToSet(seen)) /\ Row(i)[2] = site[i].date
        BY <3>2 DEF Accepted, Row
      <4> QED BY <4>1
    <3> QED BY <3>1, <3>2
  <2> HIDE DEF E
  <2> QED BY <2>1
<1> HIDE DEF D
<1>5. D \in SUBSET Days(kind)
  BY <1>2, <1>3, <1>4
<1>6. kind \in Kinds
  BY DEF TypeInv
<1>7. IsFiniteSet(D) /\ D \in SUBSET Int /\ None \notin D
  <2>1. Days(kind) \subseteq Int /\ None \notin Days(kind)
    BY Limits DEF Days
  <2>2. 0 \in Int /\ MaxDay[kind] \in Int
    BY <1>6, Limits
  <2>3. IsFiniteSet(Days(kind))
    BY <2>2, FS_Interval DEF Days
  <2> QED BY <1>5, <2>1, <2>3, FS_Subset
<1>9. CASE D = {}
  BY <1>4, <1>1, <1>9
<1>10. CASE D # {}
  <2>1. Latest(seen) \in D /\ \A d \in D : d <= Latest(seen)
    BY <1>7, <1>1, <1>10, Greatest
  <2> QED BY <1>4, <1>5, <1>7, <2>1
<1> QED BY <1>9, <1>10

\* The state a run starts from and returns to.
LEMMA NoRunSound == kind \in Kinds => Sound(NoRun)
<1> SUFFICES ASSUME kind \in Kinds PROVE Sound(NoRun)
  OBVIOUS
<1>1. NoCursor \in Cursors(kind)
  BY Limits DEF NoCursor, Cursors, Tags
<1>2. 0 \in Days(kind)
  BY Limits DEF Days
<1>3. <<>> \in Seq(Entries(kind))
  OBVIOUS
<1>4. NoRun \in Runs(kind)
  BY <1>1, <1>2, <1>3, Limits DEF NoRun, Runs, Dates
<1> QED BY <1>4, Limits DEF Sound, NoRun

\* The small steps of a run keep it sound.
LEMMA SmallSteps ==
  ASSUME kind \in Kinds, NEW r, Sound(r)
  PROVE  /\ Sound(Answered(r)) /\ Answered(r).pc = r.pc /\ Answered(r).todo = r.todo
         /\ Sound([r EXCEPT !.warned = TRUE]) /\ [r EXCEPT !.warned = TRUE].pc = r.pc
         /\ [r EXCEPT !.warned = TRUE].todo = r.todo
         /\ Sound(NextUnit(r))
         /\ r.pc \in {"inner", "detail"} => Sound(NextEntry(r))
<1>1. Sound(Answered(r)) /\ Answered(r).pc = r.pc /\ Answered(r).todo = r.todo
  <2>1. Answered(r) = [r EXCEPT !.attempt = 1] /\ 1 \in 1..Attempts
    BY Limits DEF Answered
  <2>2. Answered(r) \in Runs(kind)
    BY <2>1 DEF Sound, Runs
  <2>3. /\ Answered(r).pc = r.pc /\ Answered(r).todo = r.todo /\ Answered(r).page = r.page
        /\ Answered(r).latched = r.latched /\ Answered(r).budget = r.budget
    BY <2>1 DEF Sound, Runs
  <2> QED BY <2>2, <2>3 DEF Sound
<1>2. /\ Sound([r EXCEPT !.warned = TRUE]) /\ [r EXCEPT !.warned = TRUE].pc = r.pc
      /\ [r EXCEPT !.warned = TRUE].todo = r.todo
  BY DEF Sound, Runs
<1>3. Sound(NextUnit(r))
  <2>1. CASE r.unit >= Shelves[kind]
    <3>1. NextUnit(r) = [r EXCEPT !.pc = "done"]
      BY <2>1 DEF NextUnit
    <3>2. NextUnit(r) \in Runs(kind)
      BY <3>1 DEF Sound, Runs
    <3>3. NextUnit(r).pc = "done" /\ NextUnit(r).page = r.page
      BY <3>1 DEF Sound, Runs
    <3> QED BY <3>2, <3>3 DEF Sound
  <2>2. CASE ~(r.unit >= Shelves[kind])
    <3>1. PICK u \in 1..Shelves[kind] : u = r.unit + 1
      BY <2>2, Limits DEF Sound, Runs
    <3>2. NextUnit(r) = [r EXCEPT !.unit = u, !.page = 1]
      BY <2>2, <3>1 DEF NextUnit, Sound, Runs
    <3>3. NextUnit(r) \in Runs(kind)
      <4>1. PICK p \in Nat : p = 1
        OBVIOUS
      <4>2. NextUnit(r) = [r EXCEPT !.unit = u, !.page = p]
        BY <3>2, <4>1
      <4> QED BY <4>2 DEF Sound, Runs
    <3>4. /\ NextUnit(r).pc = r.pc /\ NextUnit(r).page = 1 /\ NextUnit(r).todo = r.todo
          /\ NextUnit(r).latched = r.latched /\ NextUnit(r).budget = r.budget
      BY <3>2 DEF Sound, Runs
    <3>5. 1 \in 1..(PageLimit + 1) /\ 1 <= PageLimit
      BY Limits
    <3> QED BY <3>3, <3>4, <3>5 DEF Sound
  <2> QED BY <2>1, <2>2
<1>4. ASSUME r.pc \in {"inner", "detail"}
      PROVE  Sound(NextEntry(r))
  <2>1. r.todo \in Seq(Entries(kind)) /\ r.todo # <<>>
    BY <1>4 DEF Sound, Runs
  <2>2. PICK t \in Seq(Entries(kind)) : t = Tail(r.todo)
    BY <2>1, HeadTailProperties
  <2>3. Len(r.todo) > 1 => t # <<>>
    <3>1. Len(t) = Len(r.todo) - 1 /\ Len(r.todo) \in Nat
      BY <2>1, <2>2, HeadTailProperties, LenProperties
    <3>2. t = <<>> => Len(t) = 0
      BY EmptySeq
    <3> QED BY <3>1, <3>2
  <2>4. NextEntry(r) = [r EXCEPT !.todo = t, !.pc = IF Len(r.todo) > 1 THEN r.pc ELSE "done"]
    BY <1>4, <2>2 DEF NextEntry, Sound, Runs
  <2>5. NextEntry(r) \in Runs(kind)
    BY <2>2, <2>4 DEF Sound, Runs
  <2>6. /\ NextEntry(r).page = r.page /\ NextEntry(r).latched = r.latched
        /\ NextEntry(r).budget = r.budget /\ NextEntry(r).todo = t
        /\ NextEntry(r).pc = IF Len(r.todo) > 1 THEN r.pc ELSE "done"
    BY <1>4, <2>4 DEF Sound, Runs
  <2> QED BY <1>4, <2>3, <2>5, <2>6 DEF Sound
<1> QED BY <1>1, <1>2, <1>3, <1>4

\* A run that goes on after a failed request, or ends there, is sound.
LEMMA GoesOnSound ==
  ASSUME kind \in Kinds, NEW r, Sound(r), r.pc = run.pc
  PROVE  Sound(GoesOn(r)) /\ Sound(Raised(r))
<1>1. PICK s : s = [Answered(r) EXCEPT !.warned = TRUE]
  OBVIOUS
<1>2. Sound(s) /\ s.pc = run.pc
  BY <1>1, SmallSteps
<1>3. GoesOn(r) = IF run.pc \in {"inner", "detail"} THEN NextEntry(s) ELSE NextUnit(s)
  BY <1>1 DEF GoesOn
<1>4. Sound(GoesOn(r))
  BY <1>2, <1>3, SmallSteps
<1> QED BY <1>4, NoRunSound DEF Raised

\* So does waiting, as long as an attempt is left.
LEMMA SleepSound ==
  ASSUME kind \in Kinds, NEW r, Sound(r), r.attempt < Attempts, NEW n \in Nat
  PROVE  Sound(Sleep(r, n))
<1>1. CASE n >= r.budget
  BY <1>1 DEF Sleep, Sound, Runs
<1>2. CASE ~(n >= r.budget)
  <2>1. r.asked - n \in Int /\ r.asked \in Nat
    BY DEF Sound, Runs
  <2>2. PICK a \in Nat : a = Max({0, r.asked - n})
    <3>1. PICK d \in Int : d = r.asked - n
      BY <2>1
    <3>2. Max({0, d}) = IF 0 >= d THEN 0 ELSE d
      BY MinMax
    <3> QED BY <3>1, <3>2
  <2>3. Sleep(r, n) = [r EXCEPT !.budget = @ - n, !.asked = a, !.attempt = @ + 1]
    BY <1>2, <2>2 DEF Sleep, Sound, Runs
  <2>4. r.budget - n \in 0..Budget /\ r.budget - n > 0 /\ r.attempt + 1 \in 1..Attempts
    BY <1>2, Limits DEF Sound, Runs
  <2>5. PICK b \in 0..Budget : b = r.budget - n /\ b > 0
    BY <2>4
  <2>6. PICK c \in 1..Attempts : c = r.attempt + 1
    BY <2>4
  <2>7. Sleep(r, n) = [r EXCEPT !.budget = b, !.asked = a, !.attempt = c]
    BY <2>3, <2>5, <2>6 DEF Sound, Runs
  <2>8. Sleep(r, n) \in Runs(kind)
    BY <2>7 DEF Sound, Runs
  <2>9. /\ Sleep(r, n).pc = r.pc /\ Sleep(r, n).page = r.page /\ Sleep(r, n).todo = r.todo
        /\ Sleep(r, n).latched = r.latched /\ Sleep(r, n).budget = b
    BY <2>7 DEF Sound, Runs
  <2> QED BY <2>5, <2>8, <2>9 DEF Sound
<1> QED BY <1>1, <1>2

\* And what is seen.
LEMMA GotSound ==
  ASSUME TypeInv, NEW seen, ToSet(seen) \subseteq Rows
  PROVE  /\ Sound(Got(run, seen)) /\ Got(run, seen).pc = run.pc
         /\ \A f \in Fields \ {"got", "attempt"} : Got(run, seen)[f] = run[f]
         /\ Got(run, seen).got = run.got \cup Accepted(ToSet(seen))
<1>1. PICK a : a = Accepted(ToSet(seen)) /\ a \subseteq (1..MaxPosts[kind]) \X Days(kind)
  BY SiteTypes DEF TypeInv
<1>2. Got(run, seen) = [run EXCEPT !.attempt = 1, !.got = run.got \cup a]
  BY <1>1 DEF Got, Answered, TypeInv, Sound, Runs
<1>3. Sound(run) /\ 1 \in 1..Attempts
  BY Limits DEF TypeInv
<1>4. run.got \cup a \in SUBSET ((1..MaxPosts[kind]) \X Days(kind))
  BY <1>1, <1>3 DEF Sound, Runs
<1> QED BY <1>1, <1>2, <1>3, <1>4 DEF Sound, Runs, Fields

\* The date that is asked for is a date, or there is none.
LEMMA QueryType ==
  ASSUME TypeInv
  PROVE  QueryFrom \in Dates
<1>1. cursor.mark \in Days(kind) \cup {None} /\ today \in Int /\ Days(kind) \subseteq Int
  BY Limits DEF TypeInv, Cursors, Days
<1>2. cursor.mark # None => cursor.mark - Overlap \in Int
  BY <1>1, Limits
<1>3. today - Lookback \in Int /\ today - Lookback + 1 \in Int
  BY <1>1, Limits
<1>4. ASSUME cursor.mark # None
      PROVE  Max({today - Lookback, Min({today, cursor.mark}) - Overlap}) \in Int
  <2>1. PICK m \in Int : m = Min({today, cursor.mark})
    BY <1>1, <1>4, MinMax
  <2>2. m - Overlap \in Int
    BY Limits
  <2> QED BY <1>3, <2>1, <2>2, MinMax
<1> QED BY <1>1, <1>2, <1>3, <1>4 DEF QueryFrom, Dates

\* A validator has its type.
LEMMA TagType ==
  ASSUME TypeInv, NEW page \in Nat
  PROVE  Tag(page) \in Tags
<1>1. /\ Len(site) \in Nat /\ Rows = 1..Len(site)
      /\ \A i \in Rows : site[i].shelf \in Nat /\ site[i].date \in Nat
  BY SiteTypes, Limits DEF TypeInv
<1>2. {site[i].shelf : i \in Rows} \in SUBSET Nat
  BY <1>1
<1>4. [i \in Rows |-> site[i].date] \in Seq(Nat)
  <2>1. PICK n \in Nat : n = Len(site)
    BY <1>1
  <2>2. [i \in 1..n |-> site[i].date] \in Seq(Nat)
    BY <1>1, <2>1
  <2> QED BY <1>1, <2>1, <2>2
<1>5. run.from \in Dates
  BY DEF TypeInv, Sound, Runs
<1>6. PICK x \in Shown : x = IF kind = "volumes" THEN {site[i].shelf : i \in Rows}
                             ELSE [i \in Rows |-> site[i].date]
  BY <1>2, <1>4 DEF Shown
<1>7. Tag(page) = <<run.from, page, x>>
  BY <1>6 DEF Tag
<1> QED BY <1>5, <1>7 DEF Tags

\* A record with the fields of a run and what they hold is one.
LEMMA MadeRun ==
  ASSUME NEW k, NEW r, DOMAIN r = Fields, r = [f \in DOMAIN r |-> r[f]],
         r.pc \in {"idle", "list", "inner", "detail", "done"}, r.unit \in 1..Shelves[k],
         r.page \in Nat, r.token \in Nat, r.from \in Dates, r.day \in Days(k), r.count \in Nat,
         r.latest \in Days(k) \cup {None},
         r.got \in SUBSET ((1..MaxPosts[k]) \X Days(k)), r.warned \in BOOLEAN,
         r.todo \in Seq(Entries(k)), r.next \in Cursors(k),
         r.attempt \in 1..Attempts, r.budget \in 0..Budget, r.asked \in Nat,
         r.latched \in BOOLEAN
  PROVE  r \in Runs(k)
<1>1. PICK s : s = [pc |-> r.pc, unit |-> r.unit, page |-> r.page, token |-> r.token,
                    from |-> r.from, day |-> r.day, count |-> r.count, latest |-> r.latest,
                    got |-> r.got, warned |-> r.warned, todo |-> r.todo, next |-> r.next,
                    attempt |-> r.attempt, budget |-> r.budget, asked |-> r.asked,
                    latched |-> r.latched]
  OBVIOUS
<1>2. s \in Runs(k)
  BY <1>1 DEF Runs
<1>3. DOMAIN s = Fields /\ s = [f \in Fields |-> s[f]]
  BY <1>1 DEF Fields
<1>4. \A f \in Fields : r[f] = s[f]
  BY <1>1 DEF Fields
<1>5. r = s
  BY <1>3, <1>4
<1> QED BY <1>2, <1>5

\* The fields of a run that only a request or the start of the run changes.
Carries(r, g) ==
  /\ DOMAIN r = Fields /\ r = [f \in DOMAIN r |-> r[f]]
  /\ r.from = g.from /\ r.day = g.day /\ r.got = g.got /\ r.attempt = g.attempt
  /\ r.budget = g.budget /\ r.asked = g.asked /\ r.latched = g.latched

\* The pages a run may be on while it lists.
LEMMA PageBounds ==
  ASSUME TypeInv, run.pc = "list"
  PROVE  /\ run.page \in Nat /\ run.page \in 1..PageLimit /\ run.page + 1 \in 1..(PageLimit + 1)
         /\ (kind # "oai" /\ run.page # MaxPages) => run.page + 1 <= PageLimit
         /\ run.page - 1 \in Nat /\ (run.page - 1) * PageSize \in Nat
         /\ run.page * PageSize = (run.page - 1) * PageSize + PageSize
<1>a. kind \in Kinds
  BY DEF TypeInv
<1>1. run.page \in Nat /\ run.page \in 1..PageLimit
  BY Limits DEF TypeInv, Sound, Runs
<1>2. PICK p \in Nat : p = run.page - 1 /\ run.page = p + 1
  BY <1>1, Limits
<1>3. p * PageSize \in Nat /\ (p + 1) * PageSize = p * PageSize + PageSize
  BY Limits
<1>4. kind # "oai" => PageLimit = MaxPages
  BY DEF PageLimit
<1> QED BY <1>a, <1>1, <1>2, <1>3, <1>4, Limits

\* A page of a sequence that lists a set.
LEMMA PageSlices ==
  ASSUME TypeInv, run.pc = "list", NEW s, NEW S, NEW rank, Lists(s, S, rank)
  PROVE  Slices(Page(s, run.page), S, rank, (run.page - 1) * PageSize)
BY PageBounds, SliceRanks DEF Page

\* A page of a listing, newest first, is a slice of it by rank.
LEMMA Listing ==
  ASSUME TypeInv, run.pc = "list", NEW S \in SUBSET Rows,
         NEW seen, seen = Page(NewestFirst(S), run.page)
  PROVE  /\ Slices(seen, S, [i \in S |-> NewRank(S, i)], (run.page - 1) * PageSize)
         /\ ToSet(seen) \subseteq Rows /\ Len(seen) \in Nat
         /\ Len(NewestFirst(S)) \in Nat
         /\ \A i \in S : NewRank(S, i) \in Nat /\ NewRank(S, i) < Len(NewestFirst(S))
<1>1. SiteOK
  BY SiteTypes DEF TypeInv
<1>2. PICK rank : rank = [i \in S |-> NewRank(S, i)]
  OBVIOUS
<1>3. Lists(NewestFirst(S), S, rank)
  BY <1>1, <1>2, NewestLists
<1>4. Slices(seen, S, rank, (run.page - 1) * PageSize)
  BY <1>3, PageSlices
<1>5. Len(NewestFirst(S)) \in Nat /\ \A i \in S : rank[i] \in Nat /\ rank[i] < Len(NewestFirst(S))
  BY <1>3 DEF Lists
<1> QED BY <1>2, <1>4, <1>5 DEF Slices

\* The run g after the answer of run has been read: it has the rows seen.
Takes(g, seen) ==
  /\ g = Got(run, seen) /\ Sound(g) /\ g.attempt = 1
  /\ g.got = run.got \cup Accepted(ToSet(seen))
  /\ g.pc = run.pc /\ g.unit = run.unit /\ g.page = run.page /\ g.token = run.token
  /\ g.from = run.from /\ g.day = run.day /\ g.count = run.count /\ g.latest = run.latest
  /\ g.warned = run.warned /\ g.todo = run.todo /\ g.next = run.next
  /\ g.budget = run.budget /\ g.asked = run.asked /\ g.latched = run.latched

\* A run that has taken a page has what the page shows.
LEMMA Taking ==
  ASSUME TypeInv, NEW seen, ToSet(seen) \subseteq Rows
  PROVE  Takes(Got(run, seen), seen)
<1>1. Got(run, seen).attempt = 1
  BY DEF Got, Answered, TypeInv, Sound, Runs
<1> QED BY <1>1, GotSound DEF Takes, Fields

\* What a listing may change of such a run.
LEMMA SoundAgain ==
  ASSUME NEW g, Sound(g), g.latched \/ g.budget > 0, NEW r, Carries(r, g),
         r.pc \in {"list", "inner", "detail", "done"}, r.unit \in 1..Shelves[kind],
         r.page \in 1..(PageLimit + 1), r.token \in Nat, r.count \in Nat,
         r.latest \in Days(kind) \cup {None}, r.warned \in BOOLEAN,
         r.todo \in Seq(Entries(kind)), r.next \in Cursors(kind),
         r.pc = "list" => r.page <= PageLimit,
         r.pc = "inner" => kind = "volumes" /\ r.todo # <<>>,
         r.pc = "detail" => kind \in {"sec", "html"} /\ r.todo # <<>>
  PROVE  Sound(r)
<1>1. r.page \in Nat
  BY Limits
<1>2. r \in Runs(kind)
  BY <1>1, MadeRun DEF Sound, Runs, Carries
<1> QED BY <1>2 DEF Sound, Carries

\* A page of arXiv.
LEMMA ArxivSound ==
  ASSUME TypeInv, run.pc = "list", Asking, kind = "arxiv",
         NEW seen, seen = Page(NewestFirst(Since(Rows, run.from)), run.page)
  PROVE  /\ Sound(ArxivPage) /\ ArxivPage.pc \in {"list", "done"}
         /\ ArxivPage.got = run.got \cup Accepted(ToSet(seen))
         /\ ArxivPage.latest = Latest(seen)
         /\ ArxivPage.next.mark = IF Latest(seen) = None THEN run.next.mark ELSE Latest(seen)
         /\ ArxivPage.from = run.from /\ ArxivPage.day = run.day
         /\ ArxivPage.page = run.page + 1
         /\ ~ArxivPage.warned /\ ArxivPage.pc = "done" =>
              \/ Len(seen) < PageSize
              \/ Len(NewestFirst(Since(Rows, run.from))) <= run.page * PageSize
         /\ ~ArxivPage.warned => ~run.warned
<1> DEFINE q == NewestFirst(Since(Rows, run.from))
           over == ~(Len(seen) < PageSize) /\ run.page = MaxPages /\ MaxPages * PageSize < Len(q)
<1>1. ToSet(seen) \subseteq Rows /\ Len(seen) \in Nat
  BY Listing DEF Since
<1>2. PICK g : Takes(g, seen)
  BY <1>1, Taking
<1>3. PICK l \in Days(kind) \cup {None} : l = Latest(seen)
  BY <1>1, LatestFact
<1>4. PICK n \in Cursors(kind) :
        n = [run.next EXCEPT !.tag = IF tags THEN Tag(run.page) ELSE None,
                             !.mark = IF l = None THEN @ ELSE l]
  <2>1. run.next \in Cursors(kind)
    BY DEF TypeInv, Sound, Runs
  <2>2. PICK t \in Tags : t = IF tags THEN Tag(run.page) ELSE None
    BY PageBounds, TagType DEF Tags
  <2> QED BY <2>1, <2>2 DEF Cursors
<1>5. PICK p \in Nat : p = run.page + 1 /\ p \in 1..(PageLimit + 1)
  BY PageBounds
<1>6. PICK w \in BOOLEAN : w = (run.warned \/ over)
  OBVIOUS
<1>7. PICK c \in {"list", "done"} :
        c = IF Len(seen) < PageSize \/ run.page = MaxPages THEN "done" ELSE "list"
  OBVIOUS
<1>8. ArxivPage = [g EXCEPT !.latest = l, !.warned = @ \/ over, !.page = @ + 1,
                            !.next.tag = IF tags THEN Tag(run.page) ELSE None,
                            !.next.mark = IF l = None THEN @ ELSE l,
                            !.pc = IF Len(seen) < PageSize \/ run.page = MaxPages
                                   THEN "done" ELSE @]
  BY <1>2, <1>3 DEF ArxivPage, Takes
<1>9. /\ ArxivPage.pc = c /\ ArxivPage.page = p /\ ArxivPage.warned = w /\ ArxivPage.latest = l
      /\ ArxivPage.unit = g.unit /\ ArxivPage.token = g.token /\ ArxivPage.count = g.count
      /\ ArxivPage.todo = g.todo
  BY <1>2, <1>5, <1>6, <1>7, <1>8 DEF Takes, Sound, Runs
<1>10. ArxivPage.next = n
  BY <1>2, <1>4, <1>8 DEF Takes, Sound, Runs, Cursors
<1>11. Carries(ArxivPage, g)
  BY <1>2, <1>8 DEF Takes, Carries, Sound, Runs, Fields
<1>12. c = "list" => p <= PageLimit
  BY <1>5, <1>7, PageBounds
<1>14. Sound(ArxivPage)
  BY <1>2, <1>3, <1>4, <1>5, <1>7, <1>9, <1>10, <1>11, <1>12, SoundAgain
     DEF Takes, Sound, Runs, Asking
<1>15. ArxivPage.next.mark = IF Latest(seen) = None THEN run.next.mark ELSE Latest(seen)
  BY <1>3, <1>4, <1>10 DEF TypeInv, Sound, Runs, Cursors
<1>16. ~w => /\ ~run.warned
             /\ c = "done" => Len(seen) < PageSize \/ Len(q) <= run.page * PageSize
  <2>1. Len(q) \in Nat /\ MaxPages * PageSize \in Nat
    <3>1. Since(Rows, run.from) \in SUBSET Rows
      BY DEF Since
    <3>2. Len(NewestFirst(Since(Rows, run.from))) \in Nat
      BY <3>1, Listing
    <3>3. MaxPages * PageSize \in Nat
      BY Limits
    <3> QED BY <3>2, <3>3
  <2>2. PICK m \in Nat : m = MaxPages * PageSize
    BY <2>1
  <2>3. over <=> ~(Len(seen) < PageSize) /\ run.page = MaxPages /\ m < Len(q)
    BY <2>2
  <2>4. PICK x \in Nat : x = Len(q)
    BY <2>1
  <2>5. run.page = MaxPages => run.page * PageSize = m
    BY <2>2
  <2>6. ASSUME ~w
        PROVE  ~run.warned /\ (c = "done" => Len(seen) < PageSize \/ x <= run.page * PageSize)
    <3>1. ~run.warned /\ ~over
      BY <1>6, <2>6
    <3>2. Len(seen) < PageSize \/ run.page # MaxPages \/ x <= m
      BY <2>3, <2>4, <3>1
    <3> QED BY <1>7, <2>5, <3>1, <3>2
  <2> QED BY <2>4, <2>6
<1> QED BY <1>2, <1>3, <1>5, <1>7, <1>9, <1>11, <1>14, <1>15, <1>16 DEF Carries, Takes

\* A page of CNINFO.
LEMMA CninfoSound ==
  ASSUME TypeInv, run.pc = "list", Asking, kind = "cninfo",
         NEW seen, seen = Page(NewestFirst(InWindow), run.page)
  PROVE  /\ Sound(CninfoPage) /\ CninfoPage.pc \in {"list", "done"}
         /\ CninfoPage.got = run.got \cup Accepted(ToSet(seen))
         /\ CninfoPage.latest = Latest(seen)
         /\ CninfoPage.next.mark = IF Latest(seen) = None THEN run.next.mark ELSE Latest(seen)
         /\ CninfoPage.from = run.from /\ CninfoPage.day = run.day
         /\ CninfoPage.page = run.page + 1
         /\ ~CninfoPage.warned =>
              /\ ~run.warned
              /\ CninfoPage.pc = "done" =>
                   Len(seen) < PageSize \/ Len(NewestFirst(InWindow)) <= run.page * PageSize
<1> DEFINE q == NewestFirst(InWindow)
           more == Len(q) > run.page * PageSize /\ Len(seen) >= PageSize
<1>1. /\ ToSet(seen) \subseteq Rows /\ Len(seen) \in Nat /\ Len(q) \in Nat
      /\ run.page * PageSize \in Nat
  <2>1. InWindow \in SUBSET Rows
    BY DEF InWindow, Since
  <2>2. ToSet(seen) \subseteq Rows /\ Len(seen) \in Nat /\ Len(q) \in Nat
    BY <2>1, Listing
  <2>3. run.page \in Nat /\ PageSize \in Nat
    BY PageBounds, Limits
  <2> QED BY <2>2, <2>3
<1>2. PICK g : Takes(g, seen)
  BY <1>1, Taking
<1>3. PICK l \in Days(kind) \cup {None} : l = Latest(seen)
  BY <1>1, LatestFact
<1>4. PICK n \in Cursors(kind) : n = [run.next EXCEPT !.mark = IF l = None THEN @ ELSE l]
  <2>1. run.next \in Cursors(kind)
    BY DEF TypeInv, Sound, Runs
  <2> QED BY <2>1 DEF Cursors
<1>5. PICK p \in 1..(PageLimit + 1) : p = run.page + 1
  BY PageBounds
<1>6. PICK w \in BOOLEAN : w = (run.warned \/ ~AllSound(seen) \/ (more /\ run.page = MaxPages))
  OBVIOUS
<1>7. PICK c \in {"list", "done"} : c = IF ~more \/ run.page = MaxPages THEN "done" ELSE "list"
  OBVIOUS
<1>8. CninfoPage = [g EXCEPT !.latest = l, !.page = @ + 1,
                             !.warned = @ \/ ~AllSound(seen) \/ (more /\ run.page = MaxPages),
                             !.next.mark = IF l = None THEN @ ELSE l,
                             !.pc = IF ~more \/ run.page = MaxPages THEN "done" ELSE @]
  BY <1>2, <1>3 DEF CninfoPage, Takes
<1> HIDE DEF more
<1>9. /\ CninfoPage.pc = c /\ CninfoPage.page = p /\ CninfoPage.warned = w
      /\ CninfoPage.latest = l /\ CninfoPage.unit = g.unit /\ CninfoPage.token = g.token
      /\ CninfoPage.count = g.count /\ CninfoPage.todo = g.todo
  BY <1>2, <1>5, <1>6, <1>7, <1>8 DEF Takes, Sound, Runs
<1>10. CninfoPage.next = n
  BY <1>2, <1>4, <1>8 DEF Takes, Sound, Runs, Cursors
<1>11. Carries(CninfoPage, g)
  BY <1>2, <1>8 DEF Takes, Carries, Sound, Runs, Fields
<1>12. c = "list" => p <= PageLimit
  BY <1>5, <1>7, PageBounds
<1>13. Sound(CninfoPage)
  BY <1>2, <1>3, <1>4, <1>5, <1>7, <1>9, <1>10, <1>11, <1>12, SoundAgain
     DEF Takes, Sound, Runs, Asking
<1>14. CninfoPage.next.mark = IF Latest(seen) = None THEN run.next.mark ELSE Latest(seen)
  BY <1>3, <1>4, <1>10 DEF TypeInv, Sound, Runs, Cursors
<1>15. ~w => ~run.warned /\ (c = "done" => ~more)
  BY <1>6, <1>7
<1>16. ~more => Len(seen) < PageSize \/ Len(q) <= run.page * PageSize
  BY <1>1, Limits DEF more
<1> QED BY <1>2, <1>3, <1>5, <1>7, <1>9, <1>11, <1>13, <1>14, <1>15, <1>16 DEF Carries, Takes

\* A page of the SSE.
LEMMA SseSound ==
  ASSUME TypeInv, run.pc = "list", Asking, kind = "sse"
  PROVE  Sound(SsePage)
<1> DEFINE q == NewestFirst(InWindow)
           seen == Page(q, run.page)
<1>1. ToSet(seen) \subseteq Rows /\ Len(seen) \in Nat /\ Len(q) \in Nat
  <2>1. InWindow \in SUBSET Rows
    BY DEF InWindow, Since
  <2> QED BY <2>1, Listing
<1>2. PICK g : Takes(g, seen)
  BY <1>1, Taking
<1>3. PICK k \in Nat : k = IF run.page = 1 THEN (Len(q) + PageSize - 1) \div PageSize
                           ELSE run.count
  <2>1. PICK x \in Nat : x = Len(q)
    BY <1>1
  <2>2. (x + PageSize - 1) \div PageSize \in Nat
    BY Limits
  <2> QED BY <2>1, <2>2 DEF TypeInv, Sound, Runs
<1>4. PICK ends \in BOOLEAN : ends = (run.page >= k \/ seen = <<>> \/ run.page = MaxPages)
  OBVIOUS
<1>5. PICK w \in BOOLEAN : w = (run.warned \/ ~AllSound(seen) \/ (ends /\ k > MaxPages))
  OBVIOUS
<1>6. PICK c \in {"list", "done"} : c = IF ends THEN "done" ELSE "list"
  OBVIOUS
<1>7. PICK t \in Tags : t = IF ~tags THEN None ELSE IF run.page = 1 THEN Tag(1) ELSE run.next.tag
  <2>1. Tag(1) \in Tags
    BY TagType
  <2> QED BY <2>1 DEF Tags, TypeInv, Sound, Runs, Cursors
<1>8. PICK n \in Cursors(kind) : n = [run.next EXCEPT !.tag = t]
  BY DEF TypeInv, Sound, Runs, Cursors
<1>9. PICK p \in 1..(PageLimit + 1) : p = run.page + 1
  BY PageBounds
<1>10. SsePage = [g EXCEPT !.count = k, !.page = @ + 1,
                           !.warned = @ \/ ~AllSound(seen) \/ (ends /\ k > MaxPages),
                           !.next.tag = IF ~tags THEN None ELSE IF run.page = 1 THEN Tag(1) ELSE @,
                           !.pc = IF ends THEN "done" ELSE @]
  BY <1>2, <1>3, <1>4 DEF SsePage, Takes
<1> HIDE DEF q, seen
<1>11. /\ SsePage.pc = c /\ SsePage.page = p /\ SsePage.warned = w /\ SsePage.latest = g.latest
       /\ SsePage.unit = g.unit /\ SsePage.token = g.token /\ SsePage.count = k
       /\ SsePage.todo = g.todo
  BY <1>2, <1>5, <1>6, <1>9, <1>10 DEF Takes, Sound, Runs
<1>12. SsePage.next = n
  BY <1>2, <1>7, <1>8, <1>10 DEF Takes, Sound, Runs, Cursors
<1>13. Carries(SsePage, g)
  BY <1>2, <1>10 DEF Takes, Carries, Sound, Runs, Fields
<1>14. c = "list" => p <= PageLimit
  BY <1>4, <1>6, <1>9, PageBounds
<1> QED
  BY <1>2, <1>3, <1>5, <1>6, <1>8, <1>9, <1>11, <1>12, <1>13, <1>14, SoundAgain
     DEF Takes, Sound, Runs, Asking

\* A page of one shelf.
LEMMA ShelfSound ==
  ASSUME TypeInv, run.pc = "list", Asking, kind \in {"samr", "openreview"},
         NEW w \in BOOLEAN, NEW ends \in BOOLEAN, run.page = MaxPages => ends,
         NEW seen, ToSet(seen) \subseteq Rows,
         NEW r, r = [Got(run, seen) EXCEPT !.page = @ + 1, !.warned = w]
  PROVE  Sound(IF ends THEN NextUnit(r) ELSE r)
<1>1. PICK g : Takes(g, seen)
  BY Taking
<1>2. PICK p \in 1..(PageLimit + 1) : p = run.page + 1
  BY PageBounds
<1>3. r = [g EXCEPT !.page = @ + 1, !.warned = w]
  BY <1>1 DEF Takes
<1>4. /\ r.pc = g.pc /\ r.page = p /\ r.warned = w /\ r.latest = g.latest
      /\ r.unit = g.unit /\ r.token = g.token /\ r.count = g.count /\ r.todo = g.todo
      /\ r.next = g.next
  BY <1>1, <1>2, <1>3 DEF Takes, Sound, Runs
<1>5. Carries(r, g)
  BY <1>1, <1>3 DEF Takes, Carries, Sound, Runs, Fields
<1>6. CASE ~ends
  <2>1. p <= PageLimit
    BY <1>2, <1>6, PageBounds
  <2>2. Sound(r)
    BY <1>1, <1>4, <1>5, <2>1, SoundAgain DEF Takes, Sound, Runs, Asking
  <2> QED BY <1>6, <2>2
<1>7. CASE ends
  <2>1. CASE r.unit >= Shelves[kind]
    <3>1. NextUnit(r) = [r EXCEPT !.pc = "done"]
      BY <2>1 DEF NextUnit
    <3>2. Carries(NextUnit(r), g)
      BY <1>5, <3>1 DEF Carries, Fields
    <3>3. /\ NextUnit(r).pc = "done" /\ NextUnit(r).page = p /\ NextUnit(r).warned = w
          /\ NextUnit(r).latest = g.latest /\ NextUnit(r).unit = g.unit
          /\ NextUnit(r).token = g.token /\ NextUnit(r).count = g.count
          /\ NextUnit(r).todo = g.todo /\ NextUnit(r).next = g.next
      BY <1>4, <1>5, <3>1 DEF Carries, Fields
    <3>4. Sound(NextUnit(r))
      BY <1>1, <3>2, <3>3, SoundAgain DEF Takes, Sound, Runs, Asking
    <3> QED BY <1>7, <3>4
  <2>2. CASE ~(r.unit >= Shelves[kind])
    <3>1. PICK u \in 1..Shelves[kind] : u = r.unit + 1
      <4>1. r.unit \in 1..Shelves[kind]
        BY <1>1, <1>4 DEF Takes, Sound, Runs
      <4>2. Shelves[kind] \in Nat
        BY Limits DEF TypeInv
      <4> QED BY <2>2, <4>1, <4>2
    <3>2. NextUnit(r) = [r EXCEPT !.unit = u, !.page = 1]
      BY <1>4, <1>5, <2>2, <3>1 DEF NextUnit, Carries, Fields
    <3>3. Carries(NextUnit(r), g)
      BY <1>5, <3>2 DEF Carries, Fields
    <3>4. /\ NextUnit(r).pc = "list" /\ NextUnit(r).page = 1 /\ NextUnit(r).warned = w
          /\ NextUnit(r).latest = g.latest /\ NextUnit(r).unit = u
          /\ NextUnit(r).token = g.token /\ NextUnit(r).count = g.count
          /\ NextUnit(r).todo = g.todo /\ NextUnit(r).next = g.next
      BY <1>1, <1>4, <1>5, <3>2 DEF Carries, Fields, Takes
    <3>5. 1 \in 1..(PageLimit + 1) /\ 1 <= PageLimit
      BY Limits DEF TypeInv
    <3>6. Sound(NextUnit(r))
      BY <1>1, <3>3, <3>4, <3>5, SoundAgain DEF Takes, Sound, Runs, Asking
    <3> QED BY <1>7, <3>6
  <2> QED BY <2>1, <2>2
<1> QED BY <1>6, <1>7

\* A page of a search term.
LEMMA SamrSound ==
  ASSUME TypeInv, run.pc = "list", Asking, kind = "samr"
  PROVE  Sound(SamrPage)
<1>1. PICK q : q = NewestFirst(OnShelf(run.unit))
  OBVIOUS
<1>2. PICK seen : seen = Page(q, run.page) /\ ToSet(seen) \subseteq Rows
  <2>1. OnShelf(run.unit) \in SUBSET Rows
    BY DEF OnShelf
  <2> QED BY <1>1, <2>1, Listing
<1>3. PICK exhausted \in BOOLEAN :
        exhausted = (run.page * PageSize >= Len(q) \/ Len(seen) < PageSize)
  OBVIOUS
<1>4. PICK over \in BOOLEAN :
        over = (~exhausted /\ run.page = MaxPages /\ MaxPages * PageSize < Len(q))
  OBVIOUS
<1>5. PICK g : Takes(g, seen)
  BY <1>2, Taking
<1>6. PICK w \in BOOLEAN : w = (g.warned \/ ~AllSound(seen) \/ over)
  OBVIOUS
<1>7. PICK r : r = [g EXCEPT !.page = @ + 1, !.warned = w]
  OBVIOUS
<1>8. PICK ends \in BOOLEAN : ends = (exhausted \/ run.page = MaxPages)
  OBVIOUS
<1>9. SamrPage = IF ends THEN NextUnit(r) ELSE r
  BY <1>1, <1>2, <1>3, <1>4, <1>5, <1>6, <1>7, <1>8 DEF SamrPage, Takes
<1>10. r = [Got(run, seen) EXCEPT !.page = @ + 1, !.warned = w]
  BY <1>5, <1>7 DEF Takes
<1> QED BY <1>2, <1>8, <1>9, <1>10, ShelfSound

\* A page of a venue.
LEMMA OpenReviewSound ==
  ASSUME TypeInv, run.pc = "list", Asking, kind = "openreview"
  PROVE  Sound(OpenReviewPage)
<1>1. PICK seen : /\ seen = Page(NewestFirst(OnShelf(run.unit)), run.page)
                  /\ ToSet(seen) \subseteq Rows
  <2>1. OnShelf(run.unit) \in SUBSET Rows
    BY DEF OnShelf
  <2> QED BY <2>1, Listing
<1>2. PICK g : Takes(g, seen)
  BY <1>1, Taking
<1>3. PICK w \in BOOLEAN : w = g.warned
  BY <1>2 DEF Takes, Sound, Runs
<1>4. PICK r : r = [g EXCEPT !.page = @ + 1]
  OBVIOUS
<1>5. PICK ends \in BOOLEAN : ends = (Len(seen) < PageSize \/ run.page = MaxPages)
  OBVIOUS
<1>6. OpenReviewPage = IF ends THEN NextUnit(r) ELSE r
  BY <1>1, <1>2, <1>4, <1>5 DEF OpenReviewPage, Takes
<1>7. r = [Got(run, seen) EXCEPT !.page = @ + 1, !.warned = w]
  BY <1>2, <1>3, <1>4 DEF Takes, Sound, Runs
<1> QED BY <1>1, <1>5, <1>6, <1>7, ShelfSound

\* The answers that list everything at once.
LEMMA FeedSound ==
  ASSUME TypeInv, run.pc = "list", Asking, kind = "feed"
  PROVE  Sound(FeedList)
<1>1. PICK seen : seen = First(MaxItems, NewestFirst(Rows)) /\ ToSet(seen) \subseteq Rows
  <2>1. SiteOK /\ Rows \in SUBSET Rows
    BY SiteTypes DEF TypeInv
  <2>2. NewestFirst(Rows) \in Seq(Rows)
    BY <2>1, NewestLists DEF Lists
  <2>3. First(MaxItems, NewestFirst(Rows)) \in Seq(Rows)
    BY <2>2, FirstFact, Limits
  <2> QED BY <2>3, SeqSet
<1>2. PICK g : Takes(g, seen)
  BY <1>1, Taking
<1>3. PICK t \in Tags : t = IF tags THEN Tag(1) ELSE None
  BY TagType DEF Tags
<1>4. PICK n \in Cursors(kind) : n = [run.next EXCEPT !.tag = t]
  BY DEF TypeInv, Sound, Runs, Cursors
<1>5. FeedList = [g EXCEPT !.next.tag = t, !.pc = "done"]
  BY <1>1, <1>2, <1>3 DEF FeedList, Takes
<1>6. /\ FeedList.pc = "done" /\ FeedList.page = g.page /\ FeedList.warned = g.warned
      /\ FeedList.latest = g.latest /\ FeedList.unit = g.unit /\ FeedList.token = g.token
      /\ FeedList.count = g.count /\ FeedList.todo = g.todo /\ FeedList.next = n
  BY <1>2, <1>4, <1>5 DEF Takes, Sound, Runs
<1>7. Carries(FeedList, g)
  BY <1>2, <1>5 DEF Takes, Carries, Sound, Runs, Fields
<1> QED BY <1>2, <1>4, <1>6, <1>7, SoundAgain DEF Takes, Sound, Runs, Asking

\* The entries of an index in order.
LEMMA EntriesRanked ==
  ASSUME TypeInv, NEW S \in SUBSET (1..Shelves[kind])
  PROVE  HighestFirst(S) \in Seq(S)
<1>1. IsFiniteSet(S) /\ \A i \in S : i \in Nat
  <2>1. kind \in Kinds
    BY DEF TypeInv
  <2>2. PICK n \in Nat : n = Shelves[kind]
    BY <2>1, Limits
  <2>3. IsFiniteSet(1..n)
    BY FS_Interval
  <2>4. S \subseteq 1..n
    BY <2>2
  <2>5. IsFiniteSet(S)
    BY <2>3, <2>4, FS_Subset
  <2> QED BY <2>4, <2>5
<1>2. PICK R : R = {p \in S \X S : p[1] > p[2]}
  OBVIOUS
<1>3. \A i, j \in S : <<i, j>> \in R <=> i > j
  BY <1>2
<1>4. Orders(R, S)
  BY <1>1, <1>3 DEF Orders
<1>5. PICK rank : rank = [i \in S |-> Cardinality({j \in S : j > i})]
  OBVIOUS
<1>6. ASSUME NEW i \in S
      PROVE  rank[i] = Cardinality(Preds(R, S, i))
  <2>1. Preds(R, S, i) = {j \in S : j > i}
    BY <1>3 DEF Preds
  <2> QED BY <1>5, <2>1
<1>7. Ranks(rank, R, S)
  BY <1>1, <1>4, <1>6, Counting
<1>8. \A n \in 1..Cardinality(S) :
        (CHOOSE i \in S : Cardinality({j \in S : j > i}) = n - 1) \in S
  BY <1>5, <1>7 DEF Ranks
<1>9. PICK n \in Nat : n = Cardinality(S)
  BY <1>7 DEF Ranks
<1>10. HighestFirst(S) \in [1..n -> S]
  BY <1>8, <1>9 DEF HighestFirst, Ranked
<1> QED BY <1>10

\* An index of volumes.
LEMMA VolumesSound ==
  ASSUME TypeInv, run.pc = "list", Asking, kind = "volumes"
  PROVE  Sound(VolumesList)
<1>1. PICK g : g = Answered(run) /\ Sound(g) /\ g = [run EXCEPT !.attempt = 1]
  BY SmallSteps DEF TypeInv, Answered
<1>2. PICK t \in Tags : t = IF tags THEN Tag(1) ELSE None
  BY TagType DEF Tags
<1>3. PICK n \in Cursors(kind) : n = [run.next EXCEPT !.tag = t]
  BY DEF TypeInv, Sound, Runs, Cursors
<1>4. PICK d \in Seq(Entries(kind)) : d = Volumes
  <2>1. PICK S : S = {u \in {site[i].shelf : i \in Rows} : YearOf(u) >= today - YearsBack}
    OBVIOUS
  <2>2. S \in SUBSET (1..Shelves[kind])
    BY <2>1, SiteTypes DEF TypeInv
  <2>3. HighestFirst(S) \in Seq(S)
    BY <2>2, EntriesRanked
  <2>4. First(VolumeLimit, HighestFirst(S)) \in Seq(S)
    BY <2>3, FirstFact, Limits
  <2>5. First(VolumeLimit, HighestFirst(S)) \in Seq(1..Shelves[kind])
    BY <2>2, <2>4, SeqMonotonic
  <2>6. Volumes = First(VolumeLimit, HighestFirst(S))
    BY <2>1 DEF Volumes
  <2> QED BY <2>5, <2>6 DEF Entries
<1>5. PICK c \in {"inner", "done"} : c = IF d = <<>> THEN "done" ELSE "inner"
  OBVIOUS
<1>6. VolumesList = [g EXCEPT !.next.tag = t, !.todo = d, !.pc = c]
  BY <1>1, <1>2, <1>4, <1>5 DEF VolumesList
<1>7. /\ VolumesList.pc = c /\ VolumesList.page = g.page /\ VolumesList.warned = g.warned
      /\ VolumesList.latest = g.latest /\ VolumesList.unit = g.unit
      /\ VolumesList.token = g.token /\ VolumesList.count = g.count
      /\ VolumesList.todo = d /\ VolumesList.next = n
  BY <1>1, <1>3, <1>6 DEF TypeInv, Sound, Runs
<1>8. Carries(VolumesList, g) /\ (g.latched \/ g.budget > 0)
  BY <1>1, <1>6 DEF Carries, Sound, Runs, Fields, Asking, TypeInv
<1> QED BY <1>1, <1>3, <1>5, <1>7, <1>8, SoundAgain DEF Sound, Runs

\* The rows of a volume.
LEMMA InnerSound ==
  ASSUME TypeInv, run.pc = "inner"
  PROVE  Sound(VolumesInner)
<1>1. PICK S \in SUBSET Rows : S = OnShelf(Head(run.todo))
  BY DEF OnShelf
<1>2. PICK seen : seen = OldestFirst(S) /\ ToSet(seen) \subseteq Rows
  <2>1. SiteOK
    BY SiteTypes DEF TypeInv
  <2>2. OldestFirst(S) \in Seq(S)
    BY <2>1, OldestLists DEF Lists
  <2> QED BY <2>2, SeqSet
<1>3. Sound(Got(run, seen)) /\ Got(run, seen).pc = "inner"
  BY <1>2, GotSound
<1> QED BY <1>1, <1>2, <1>3, SmallSteps DEF VolumesInner, TypeInv

\* A listing in order holds its set, no more and no less.
LEMMA AllListed ==
  ASSUME SiteOK, NEW S \in SUBSET Rows
  PROVE  /\ ToSet(NewestFirst(S)) = S /\ NewestFirst(S) \in Seq(S)
         /\ ToSet(OldestFirst(S)) = S /\ OldestFirst(S) \in Seq(S)
<1>1. ASSUME NEW s, NEW rank, Lists(s, S, rank)
      PROVE  ToSet(s) = S /\ s \in Seq(S)
  <2>1. s \in Seq(S) /\ ToSet(s) \subseteq S
    BY <1>1, SeqSet DEF Lists
  <2>2. PICK l \in Nat : l = Len(s) /\ DOMAIN s = 1..l
    BY <2>1, LenProperties
  <2>3. ASSUME NEW i \in S
        PROVE  i \in ToSet(s)
    <3>1. PICK n \in 1..l : n = rank[i] + 1 /\ s[n] = i
      BY <1>1, <2>2 DEF Lists
    <3> QED BY <2>2, <3>1 DEF ToSet
  <2> QED BY <2>1, <2>3
<1>2. PICK rank : rank = [i \in S |-> NewRank(S, i)]
  OBVIOUS
<1>3. PICK old : old = [i \in S |-> OldRank(S, i)]
  OBVIOUS
<1>4. Lists(NewestFirst(S), S, rank) /\ Lists(OldestFirst(S), S, old)
  BY <1>2, <1>3, NewestLists, OldestLists
<1> QED BY <1>1, <1>4

\* The list of filings.
LEMMA SecSound ==
  ASSUME TypeInv, run.pc = "list", Asking, kind = "sec"
  PROVE  /\ Sound(SecList) /\ SecList.pc \in {"detail", "done"}
         /\ SecList.got = run.got \cup
              Accepted({i \in Rows : i > cursor.last /\ site[i].date >= today - Lookback + 1})
         /\ SecList.next.last = Len(site)
<1> DEFINE new == {i \in Rows : i > cursor.last /\ site[i].date >= today - Lookback + 1}
           found == \A i \in Rows : i > cursor.last => site[i].date >= today - Lookback + 1
           details == First(DetailLimit, NewestFirst({i \in new : site[i].sound}))
<1>1. SiteOK /\ Rows \subseteq 1..MaxPosts[kind]
  BY SiteTypes DEF TypeInv
<1>2. PICK seen : seen = OldestFirst(new) /\ ToSet(seen) = new
  BY <1>1, AllListed
<1>3. PICK d \in Seq(Entries(kind)) : d = details
  <2>1. PICK S \in SUBSET Rows : S = {i \in new : site[i].sound}
    OBVIOUS
  <2>2. NewestFirst(S) \in Seq(S)
    BY <1>1, AllListed
  <2>3. First(DetailLimit, NewestFirst(S)) \in Seq(S)
    BY <2>2, FirstFact, Limits
  <2>4. S \subseteq 1..MaxPosts[kind]
    BY <1>1
  <2>5. First(DetailLimit, NewestFirst(S)) \in Seq(Entries(kind))
    BY <2>3, <2>4, SeqMonotonic DEF Entries
  <2> QED BY <2>1, <2>5
<1>4. PICK g : Takes(g, seen)
  BY <1>2, Taking
<1>5. PICK w \in BOOLEAN : w = (cursor.last > 0 /\ ~found)
  OBVIOUS
<1>6. PICK c \in {"detail", "done"} : c = IF d = <<>> THEN "done" ELSE "detail"
  OBVIOUS
<1>7. PICK t \in Tags : t = IF tags THEN Tag(1) ELSE None
  BY TagType DEF Tags
<1>8. PICK l \in Nat : l = Len(site)
  BY SiteTypes DEF TypeInv
<1>9. PICK n \in Cursors(kind) : n = [run.next EXCEPT !.last = l, !.tag = t] /\ n.last = l
  <2>1. PICK m \in Cursors(kind) : m = run.next
    BY DEF TypeInv, Sound, Runs
  <2>2. PICK n : n = [m EXCEPT !.last = l, !.tag = t]
    OBVIOUS
  <2>3. n \in Cursors(kind) /\ n.last = l
    BY <2>2 DEF Cursors
  <2> QED BY <2>1, <2>2, <2>3
<1>10. SecList = [g EXCEPT !.warned = w, !.next.last = l, !.next.tag = t, !.todo = d, !.pc = c]
  BY <1>2, <1>3, <1>4, <1>5, <1>6, <1>7, <1>8 DEF SecList, Takes
<1> HIDE DEF new, details, found
<1>11. /\ SecList.pc = c /\ SecList.page = g.page /\ SecList.warned = w
       /\ SecList.latest = g.latest /\ SecList.unit = g.unit /\ SecList.token = g.token
       /\ SecList.count = g.count /\ SecList.todo = d
  BY <1>4, <1>10 DEF Takes, Sound, Runs
<1>12. SecList.next = n
  BY <1>4, <1>9, <1>10 DEF Takes, Sound, Runs, Cursors
<1>13. Carries(SecList, g)
  BY <1>4, <1>10 DEF Takes, Carries, Sound, Runs, Fields
<1>14. Sound(SecList)
  BY <1>4, <1>6, <1>9, <1>11, <1>12, <1>13, SoundAgain DEF Takes, Sound, Runs, Asking
<1>15. SecList.got = run.got \cup Accepted(new)
  BY <1>2, <1>4, <1>13 DEF Takes, Carries
<1> QED BY <1>6, <1>8, <1>9, <1>11, <1>12, <1>14, <1>15 DEF new

\* The links of a listing in the order of their rank.
LEMMA LinksRanked ==
  ASSUME TypeInv, NEW S \in SUBSET Rows
  PROVE  Ranked(S, BetterLink) \in Seq(S)
<1>1. IsFiniteSet(S)
      /\ \A i \in S : i \in Nat /\ site[i].date \in Nat /\ site[i].shelf \in Nat
  <2>1. SiteOK
    BY SiteTypes DEF TypeInv
  <2> QED BY <2>1, SiteFacts, FS_Subset
<1>2. PICK R : R = {p \in S \X S : BetterLink(p[1], p[2])}
  OBVIOUS
<1>3. \A i, j \in S : <<i, j>> \in R <=> BetterLink(i, j)
  BY <1>2
<1>4. Orders(R, S)
  BY <1>1, <1>3 DEF Orders, BetterLink, Newer
<1>5. PICK rank : rank = [i \in S |-> Cardinality({j \in S : BetterLink(j, i)})]
  OBVIOUS
<1>6. ASSUME NEW i \in S
      PROVE  rank[i] = Cardinality(Preds(R, S, i))
  <2>1. Preds(R, S, i) = {j \in S : BetterLink(j, i)}
    BY <1>3 DEF Preds
  <2> QED BY <1>5, <2>1
<1>7. Ranks(rank, R, S)
  BY <1>1, <1>4, <1>6, Counting
<1>8. \A n \in 1..Cardinality(S) :
        (CHOOSE i \in S : Cardinality({j \in S : BetterLink(j, i)}) = n - 1) \in S
  BY <1>5, <1>7 DEF Ranks
<1>9. PICK n \in Nat : n = Cardinality(S)
  BY <1>7 DEF Ranks
<1>10. Ranked(S, BetterLink) \in [1..n -> S]
  BY <1>8, <1>9 DEF Ranked
<1> QED BY <1>10

\* The links of a listing page, and which of them are opened.
LEMMA HtmlSound ==
  ASSUME TypeInv, run.pc = "list", Asking, kind = "html"
  PROVE  Sound(HtmlList)
<1>1. SiteOK /\ Rows \subseteq 1..MaxPosts[kind]
  BY SiteTypes DEF TypeInv
<1>2. PICK D : D = 1..MaxPosts[kind] /\ D = Entries(kind)
  BY DEF Entries
<1>3. PICK seen : seen = Links /\ ToSet(seen) \subseteq Rows
  <2>1. PICK S \in SUBSET Rows : S = {i \in Rows : site[i].sound}
    OBVIOUS
  <2>2. NewestFirst(S) \in Seq(S)
    BY <1>1, AllListed
  <2>3. First(MaxItems, NewestFirst(S)) \in Seq(S)
    BY <2>2, FirstFact, Limits
  <2> QED BY <2>1, <2>3, SeqSet DEF Links
<1>a. PICK ranked : ranked = Ranked(ToSet(seen), BetterLink) /\ ranked \in Seq(D)
  <2>1. PICK S \in SUBSET Rows : S = ToSet(seen)
    BY <1>3
  <2>2. Ranked(S, BetterLink) \in Seq(S) /\ S \subseteq D
    BY <1>1, <1>2, LinksRanked
  <2>3. Ranked(S, BetterLink) \in Seq(D)
    BY <2>2, SeqMonotonic
  <2> QED BY <2>1, <2>3
<1>4. PICK fresh \in Nat : fresh = Max({1, DetailLimit \div 2}) /\ DetailLimit - fresh \in Nat
  <2>1. PICK h \in Nat : h = DetailLimit \div 2 /\ h <= DetailLimit
    BY Limits
  <2>2. Max({1, h}) = IF 1 >= h THEN 1 ELSE h
    BY MinMax
  <2> QED BY <2>1, <2>2, Limits
<1>5. PICK x \in Nat : x = Len(ranked)
  BY <1>a, LenProperties
<1>6. PICK m \in 0..x : m = Min({fresh, x})
  <2>1. Min({fresh, x}) = IF fresh <= x THEN fresh ELSE x
    BY MinMax
  <2> QED BY <2>1
<1>7. PICK pool \in Seq(D) : pool = From(m, ranked)
  BY <1>a, <1>5, FromFact
<1>8. PICK y \in Nat : y = Len(pool) /\ (y = 0 <=> pool = <<>>)
  BY LenProperties, EmptySeq
<1>9. PICK tried \in Nat : tried = Min({DetailLimit - fresh, y}) /\ tried <= y
  <2>1. PICK k \in Nat : k = DetailLimit - fresh
    BY <1>4
  <2>2. Min({k, y}) = IF k <= y THEN k ELSE y
    BY MinMax
  <2> QED BY <2>1, <2>2
<1>10. PICK rotating \in Seq(D) :
         rotating = [n \in 1..tried |-> pool[((cursor.offset + n - 1) % y) + 1]]
  <2>1. ASSUME NEW n \in 1..tried
        PROVE  pool[((cursor.offset + n - 1) % y) + 1] \in D
    <3>1. PICK o \in Nat : o = cursor.offset + n - 1
      BY DEF TypeInv, Cursors
    <3>2. o % y \in 0..(y - 1)
      BY <1>9
    <3>3. (o % y) + 1 \in 1..y
      BY <3>2
    <3>4. pool[(o % y) + 1] \in D
      BY <1>8, <3>3, ElementOfSeq
    <3> QED BY <3>1, <3>4
  <2>2. PICK f : f = [n \in 1..tried |-> pool[((cursor.offset + n - 1) % y) + 1]]
    OBVIOUS
  <2>3. f \in [1..tried -> D]
    BY <2>1, <2>2
  <2>4. f \in Seq(D)
    BY <2>3
  <2> QED BY <2>2, <2>4
<1>11. PICK d \in Seq(D) : d = First(fresh, ranked) \o rotating
  BY <1>a, FirstFact, ConcatProperties
<1>12. PICK g : Takes(g, seen)
  BY <1>3, Taking
<1>13. PICK c \in {"detail", "done"} : c = IF d = <<>> THEN "done" ELSE "detail"
  OBVIOUS
<1>14. PICK t \in Tags : t = IF tags THEN Tag(1) ELSE None
  BY TagType DEF Tags
<1>15. PICK n \in Cursors(kind) :
         n = [run.next EXCEPT !.tag = t,
                              !.offset = IF pool = <<>> THEN @ ELSE NextOffset(@, tried, y)]
  <2>1. run.next.offset \in Nat
    BY DEF TypeInv, Sound, Runs, Cursors
  <2>2. PICK z : z = IF pool = <<>> THEN run.next.offset ELSE NextOffset(run.next.offset, tried, y)
    OBVIOUS
  <2>3. z \in Nat
    BY <1>8, <2>1, <2>2 DEF NextOffset
  <2> QED BY <2>2, <2>3 DEF TypeInv, Sound, Runs, Cursors
<1>16. HtmlList = [g EXCEPT !.next.tag = t,
                            !.next.offset = IF pool = <<>> THEN @ ELSE NextOffset(@, tried, y),
                            !.todo = d, !.pc = c]
  BY <1>3, <1>a, <1>4, <1>5, <1>6, <1>7, <1>8, <1>9, <1>10, <1>11, <1>12, <1>13, <1>14
     DEF HtmlList, Takes
<1>17. /\ HtmlList.pc = c /\ HtmlList.page = g.page /\ HtmlList.warned = g.warned
       /\ HtmlList.latest = g.latest /\ HtmlList.unit = g.unit /\ HtmlList.token = g.token
       /\ HtmlList.count = g.count /\ HtmlList.todo = d
  BY <1>12, <1>16 DEF Takes, Sound, Runs
<1>18. HtmlList.next = n
  BY <1>12, <1>15, <1>16 DEF Takes, Sound, Runs, Cursors
<1>19. Carries(HtmlList, g)
  BY <1>12, <1>16 DEF Takes, Carries, Sound, Runs, Fields
<1> QED
  BY <1>2, <1>12, <1>13, <1>15, <1>17, <1>18, <1>19, SoundAgain DEF Takes, Sound, Runs, Asking

\* How an OAI page ends: in the set, in the next one, after the last, or at
\* the page limit of the run.
OaiEnds(s, r, token) ==
  LET unit == IF token = 0 THEN r.unit + 1 ELSE r.unit
  IN  IF unit > Shelves[kind]
      THEN /\ s.pc = "done" /\ s.warned = r.warned
           /\ s.next.mark = today /\ s.next.unit = 1 /\ s.next.token = 0
      ELSE \/ /\ s.pc = "done" /\ s.warned
              /\ s.next.unit = unit /\ s.next.token = token /\ s.next.mark = r.next.mark
           \/ /\ s.pc = "list" /\ s.warned = r.warned /\ s.unit = unit /\ s.token = token
              /\ s.next = r.next

\* The run r has read its answer and is where run was.
AtPage(r) ==
  /\ Sound(r) /\ r.pc = "list" /\ r.page = run.page /\ r.unit = run.unit
  /\ r.next = run.next /\ r.from = run.from /\ r.day = run.day
  /\ r.latched = run.latched /\ r.budget = run.budget

\* However an OAI page ends, the run stays sound.
LEMMA OaiNextSound ==
  ASSUME TypeInv, run.pc = "list", Asking, kind = "oai", NEW r, AtPage(r), NEW token \in Nat,
         NEW s, s = OaiNext(r, token)
  PROVE  /\ Sound(s) /\ s.got = r.got /\ s.from = run.from /\ s.day = run.day
         /\ OaiEnds(s, r, token)
<1>1. PICK unit \in Nat \ {0} : unit = IF token = 0 THEN r.unit + 1 ELSE r.unit
  BY Limits DEF AtPage, Sound, Runs
<1>2. PageLimit = Max({MaxPages, Shelves[kind]})
  BY DEF PageLimit
<1>3. CASE unit > Shelves[kind]
  <2>1. s = [r EXCEPT !.pc = "done", !.next.mark = today, !.next.unit = 1, !.next.token = 0]
    BY <1>1, <1>3 DEF OaiNext
  <2>2. PICK n \in Cursors(kind) : n = [r.next EXCEPT !.mark = today, !.unit = 1, !.token = 0]
    <3>1. today \in Days(kind) /\ 1 \in 1..Shelves[kind] /\ 0 \in Nat
      BY Limits DEF TypeInv
    <3>2. PICK m \in Cursors(kind) : m = r.next
      BY DEF AtPage, Sound, Runs
    <3>3. PICK u \in 1..Shelves[kind] : u = 1
      BY <3>1
    <3>4. PICK z \in Nat : z = 0
      OBVIOUS
    <3>5. PICK n : n = [m EXCEPT !.mark = today, !.unit = u, !.token = z]
      OBVIOUS
    <3>6. n \in Cursors(kind)
      BY <3>1, <3>5 DEF Cursors
    <3> QED BY <3>2, <3>3, <3>4, <3>5, <3>6
  <2>3. /\ s.pc = "done" /\ s.page = r.page /\ s.warned = r.warned /\ s.latest = r.latest
        /\ s.unit = r.unit /\ s.token = r.token /\ s.count = r.count /\ s.todo = r.todo
    BY <2>1 DEF AtPage, Sound, Runs
  <2>4. s.next = n
    BY <2>1, <2>2 DEF AtPage, Sound, Runs, Cursors
  <2>5. Carries(s, r)
    BY <2>1 DEF AtPage, Carries, Sound, Runs, Fields
  <2>6. Sound(s)
    BY <2>2, <2>3, <2>4, <2>5, SoundAgain DEF AtPage, Sound, Runs, Asking
  <2>7. n.mark = today /\ n.unit = 1 /\ n.token = 0
    BY <2>2 DEF AtPage, Sound, Runs, Cursors
  <2> QED BY <1>1, <1>3, <2>3, <2>4, <2>5, <2>6, <2>7 DEF OaiEnds, Carries, AtPage
<1>4. CASE ~(unit > Shelves[kind]) /\ run.page = PageLimit
  <2>1. s = [r EXCEPT !.pc = "done", !.warned = TRUE, !.next.unit = unit, !.next.token = token]
    BY <1>1, <1>2, <1>4 DEF OaiNext
  <2>2. PICK n \in Cursors(kind) : n = [r.next EXCEPT !.unit = unit, !.token = token]
    <3>1. unit \in 1..Shelves[kind]
      BY <1>4, Limits DEF TypeInv
    <3>2. PICK m \in Cursors(kind) : m = r.next
      BY DEF AtPage, Sound, Runs
    <3>3. PICK n : n = [m EXCEPT !.unit = unit, !.token = token]
      OBVIOUS
    <3>4. n \in Cursors(kind)
      BY <3>1, <3>3 DEF Cursors
    <3> QED BY <3>2, <3>3, <3>4
  <2>3. /\ s.pc = "done" /\ s.page = r.page /\ s.warned = TRUE /\ s.latest = r.latest
        /\ s.unit = r.unit /\ s.token = r.token /\ s.count = r.count /\ s.todo = r.todo
    BY <2>1 DEF AtPage, Sound, Runs
  <2>4. s.next = n
    BY <2>1, <2>2 DEF AtPage, Sound, Runs, Cursors
  <2>5. Carries(s, r)
    BY <2>1 DEF AtPage, Carries, Sound, Runs, Fields
  <2>6. Sound(s)
    BY <2>2, <2>3, <2>4, <2>5, SoundAgain DEF AtPage, Sound, Runs, Asking
  <2>7. n.mark = r.next.mark /\ n.unit = unit /\ n.token = token
    BY <2>2 DEF AtPage, Sound, Runs, Cursors
  <2> QED BY <1>1, <1>4, <2>3, <2>4, <2>5, <2>6, <2>7 DEF OaiEnds, Carries, AtPage
<1>5. CASE ~(unit > Shelves[kind]) /\ run.page # PageLimit
  <2>1. s = [r EXCEPT !.unit = unit, !.token = token, !.page = @ + 1]
    BY <1>1, <1>2, <1>5 DEF OaiNext
  <2>2. PICK p \in 1..(PageLimit + 1) : p = run.page + 1 /\ p <= PageLimit
    <3>1. PICK l \in Nat : l = PageLimit
      BY Limits DEF TypeInv
    <3>2. run.page \in 1..l /\ run.page # l
      BY <1>5, <3>1, PageBounds
    <3>3. run.page + 1 \in 1..(l + 1) /\ run.page + 1 <= l
      BY <3>1, <3>2
    <3> QED BY <3>1, <3>3
  <2>3. /\ s.pc = "list" /\ s.page = p /\ s.warned = r.warned /\ s.latest = r.latest
        /\ s.unit = unit /\ s.token = token /\ s.count = r.count /\ s.todo = r.todo
        /\ s.next = r.next
    BY <2>1, <2>2 DEF AtPage, Sound, Runs
  <2>4. Carries(s, r)
    BY <2>1 DEF AtPage, Carries, Sound, Runs, Fields
  <2>5. unit \in 1..Shelves[kind]
    BY <1>5, Limits DEF TypeInv
  <2>6. Sound(s)
    BY <2>2, <2>3, <2>4, <2>5, SoundAgain DEF AtPage, Sound, Runs, Asking
  <2> QED BY <1>1, <1>5, <2>3, <2>4, <2>6 DEF OaiEnds, Carries, AtPage
<1> QED BY <1>3, <1>4, <1>5

\* A page of an OAI set.
LEMMA OaiPageSteps ==
  ASSUME TypeInv, run.pc = "list", Asking, kind = "oai",
         NEW S, S = Since(OnShelf(run.unit), run.from)
  PROVE  \E seen, r, token :
           /\ Slices(seen, S, [i \in S |-> OldRank(S, i)], run.token)
           /\ ToSet(seen) \subseteq Rows /\ Takes(r, seen) /\ AtPage(r)
           /\ token \in Nat /\ OaiPage = OaiNext(r, token)
           /\ \/ token = run.token + PageSize /\ token < Cardinality(S)
              \/ token = 0 /\ Cardinality(S) <= run.token + PageSize
<1>1. SiteOK /\ S \in SUBSET Rows
  BY SiteTypes DEF TypeInv, OnShelf, Since
<1>2. PICK rank : rank = [i \in S |-> OldRank(S, i)]
  OBVIOUS
<1>3. PICK q : q = OldestFirst(S)
  OBVIOUS
<1>4. Lists(q, S, rank)
  BY <1>1, <1>2, <1>3, OldestLists
<1>5. PICK k \in Nat : k = run.token
  BY DEF TypeInv, Sound, Runs
<1>6. PICK seen : seen = First(PageSize, From(Min({k, Len(q)}), q))
  OBVIOUS
<1>7. Slices(seen, S, rank, k)
  BY <1>4, <1>6, SliceRanks
<1>8. ToSet(seen) \subseteq Rows
  BY <1>1, <1>7 DEF Slices
<1>9. PICK r : Takes(r, seen)
  BY <1>8, Taking
<1>10. AtPage(r)
  BY <1>9 DEF Takes, AtPage
<1>11. PICK reached \in Nat : reached = k + PageSize
  BY Limits
<1>12. PICK c \in Nat : c = Len(q) /\ c = Cardinality(S)
  BY <1>4 DEF Lists
<1>13. PICK token \in Nat : token = IF reached < c THEN reached ELSE 0
  OBVIOUS
<1>14. OaiPage = OaiNext(r, token)
  BY <1>3, <1>5, <1>6, <1>9, <1>11, <1>12, <1>13 DEF OaiPage, Takes
<1>15. \/ token = k + PageSize /\ token < c
       \/ token = 0 /\ c <= k + PageSize
  BY <1>11, <1>13
<1> QED BY <1>2, <1>5, <1>7, <1>8, <1>9, <1>10, <1>12, <1>14, <1>15

\* So does a page of an OAI set, and a token that has expired.
LEMMA OaiSound ==
  ASSUME TypeInv, run.pc = "list", Asking, kind = "oai"
  PROVE  Sound(OaiPage) /\ Sound(OaiExpired)
<1>1. Sound(OaiPage)
  BY OaiPageSteps, OaiNextSound
<1>2. PICK r : r = [Answered(run) EXCEPT !.warned = TRUE]
  OBVIOUS
<1>3. AtPage(r)
  <2>1. Sound(r)
    BY <1>2, SmallSteps DEF TypeInv
  <2> QED BY <1>2, <2>1 DEF AtPage, Answered, TypeInv, Sound, Runs
<1>4. OaiExpired = OaiNext(r, 0) /\ 0 \in Nat
  BY <1>2 DEF OaiExpired
<1> QED BY <1>1, <1>3, <1>4, OaiNextSound

\* A feed that does not parse to its end.
LEMMA GarbledSound ==
  ASSUME TypeInv, run.pc = "list", Asking, kind = "arxiv", Garbled
  PROVE  /\ Sound(run') /\ run'.pc = "done" /\ run'.warned = TRUE
         /\ run'.from = run.from /\ run'.day = run.day
         /\ run'.next.mark = IF run'.latest = None THEN run.next.mark ELSE run'.latest
         /\ \E seen : ToSet(seen) \subseteq Rows /\ run'.latest = Latest(seen)
<1>1. PICK whole : /\ whole = Page(NewestFirst(Since(Rows, run.from)), run.page)
                   /\ whole # <<>>
                   /\ whole \in Seq(Rows) /\ Len(whole) \in Nat
  <2>1. PICK S \in SUBSET Rows : S = Since(Rows, run.from)
    BY DEF Since
  <2>2. PICK w : w = Page(NewestFirst(S), run.page)
    OBVIOUS
  <2>3. w \in Seq(S)
    BY <2>2, Listing DEF Slices
  <2>4. w \in Seq(Rows) /\ Len(w) \in Nat
    BY <2>3, SeqMonotonic, LenProperties
  <2> QED BY <2>1, <2>2, <2>4 DEF Garbled
<1>2. PICK seen : seen = First(Len(whole) - 1, whole) /\ ToSet(seen) \subseteq Rows
  <2>1. PICK m \in Nat : m = Len(whole) - 1
    BY <1>1, EmptySeq
  <2>2. First(m, whole) \in Seq(Rows)
    BY <1>1, <2>1, FirstFact
  <2> QED BY <2>1, <2>2, SeqSet
<1>3. PICK g : Takes(g, seen)
  BY <1>2, Taking
<1>4. PICK l \in Days(kind) \cup {None} : l = Latest(seen)
  BY <1>2, LatestFact
<1>5. PICK n \in Cursors(kind) :
        n = [run.next EXCEPT !.tag = IF tags THEN Tag(run.page) ELSE None,
                             !.mark = IF l = None THEN @ ELSE l]
  <2>1. run.next \in Cursors(kind)
    BY DEF TypeInv, Sound, Runs
  <2>2. PICK t \in Tags : t = IF tags THEN Tag(run.page) ELSE None
    BY PageBounds, TagType DEF Tags
  <2> QED BY <2>1, <2>2 DEF Cursors
<1>6. run' = [g EXCEPT !.warned = TRUE, !.latest = l, !.pc = "done",
                       !.next.tag = IF tags THEN Tag(run.page) ELSE None,
                       !.next.mark = IF l = None THEN @ ELSE l]
  BY <1>1, <1>2, <1>3, <1>4 DEF Garbled, Takes
<1>7. PICK s : s = run'
  OBVIOUS
<1>8. /\ s.pc = "done" /\ s.page = g.page /\ s.warned = TRUE /\ s.latest = l
      /\ s.unit = g.unit /\ s.token = g.token /\ s.count = g.count /\ s.todo = g.todo
  BY <1>3, <1>6, <1>7 DEF Takes, Sound, Runs
<1>9. s.next = n
  BY <1>3, <1>5, <1>6, <1>7 DEF Takes, Sound, Runs, Cursors
<1>10. Carries(s, g)
  BY <1>3, <1>6, <1>7 DEF Takes, Carries, Sound, Runs, Fields
<1>11. Sound(s)
  BY <1>3, <1>4, <1>5, <1>8, <1>9, <1>10, SoundAgain DEF Takes, Sound, Runs, Asking
<1>12. n.mark = IF l = None THEN run.next.mark ELSE l
  BY <1>5 DEF TypeInv, Sound, Runs, Cursors
<1>13. s.from = run.from /\ s.day = run.day
  BY <1>3, <1>10 DEF Takes, Carries
<1> QED BY <1>2, <1>4, <1>7, <1>8, <1>9, <1>11, <1>12, <1>13

\* So does any good answer to a listing request.
LEMMA ListedSound ==
  ASSUME TypeInv, run.pc = "list", Asking
  PROVE  Sound(Listed)
<1>1. kind \in AllKinds
  BY Limits DEF TypeInv
<1>2. CASE kind \in {"arxiv", "oai", "sse", "cninfo", "samr"}
  <2>1. kind = "arxiv" => Sound(ArxivPage)
    BY ArxivSound
  <2>2. kind = "cninfo" => Sound(CninfoPage)
    BY CninfoSound
  <2> QED BY <1>2, <2>1, <2>2, OaiSound, SseSound, SamrSound DEF Listed
<1>3. CASE kind \in {"openreview", "sec", "html", "feed", "volumes"}
  BY <1>3, OpenReviewSound, SecSound, HtmlSound, FeedSound, VolumesSound DEF Listed
<1> QED BY <1>1, <1>2, <1>3 DEF AllKinds

\* A run begins where its cursor is.
LEMMA StartSound ==
  ASSUME TypeInv, Start
  PROVE  /\ Sound(run') /\ run'.pc = "list" /\ run'.next = cursor /\ run'.from = QueryFrom
         /\ run'.unit = cursor.unit /\ run'.token = cursor.token /\ run'.day = today
         /\ run'.page = 1 /\ run'.latest = None /\ ~run'.warned
<1>1. PICK q \in Dates : q = QueryFrom
  BY QueryType
<1>2. Sound(NoRun) /\ kind \in Kinds
  BY NoRunSound DEF TypeInv
<1>3. PICK s : s = run'
  OBVIOUS
<1>4. s = [NoRun EXCEPT !.pc = "list", !.next = cursor, !.from = q, !.unit = cursor.unit,
                        !.token = cursor.token, !.day = today, !.budget = Budget]
  BY <1>1, <1>3 DEF Start
<1>5. /\ s.pc = "list" /\ s.page = 1 /\ s.warned = FALSE /\ s.latest = None
      /\ s.unit = cursor.unit /\ s.token = cursor.token /\ s.count = 0 /\ s.todo = <<>>
      /\ s.next = cursor /\ s.from = q /\ s.day = today /\ s.got = {} /\ s.attempt = 1
      /\ s.budget = Budget /\ s.asked = 0 /\ s.latched = FALSE
  BY <1>4 DEF NoRun
<1>6. DOMAIN s = Fields /\ s = [f \in DOMAIN s |-> s[f]]
  BY <1>4 DEF NoRun, Fields
<1>7. /\ cursor \in Cursors(kind) /\ cursor.unit \in 1..Shelves[kind] /\ cursor.token \in Nat
      /\ today \in Days(kind)
  BY DEF TypeInv, Cursors
<1>8. /\ Budget \in 0..Budget /\ Budget > 0 /\ 1 \in 1..Attempts /\ 1 \in Nat /\ 0 \in Nat
      /\ 1 \in 1..(PageLimit + 1) /\ 1 <= PageLimit
  BY Limits DEF TypeInv
<1>9. s \in Runs(kind)
  <2>1. s.todo \in Seq(Entries(kind))
    BY <1>5
  <2>2. s.got \in SUBSET ((1..MaxPosts[kind]) \X Days(kind))
    BY <1>5
  <2> QED BY <1>5, <1>6, <1>7, <1>8, <2>1, <2>2, MadeRun
<1> QED BY <1>1, <1>3, <1>5, <1>8, <1>9 DEF Sound

\* A 304 ends a run that has collected nothing.
LEMMA UnmodifiedSound ==
  ASSUME TypeInv, Unmodified
  PROVE  /\ Sound(run') /\ run'.pc = "done" /\ run'.warned = run.warned
         /\ run'.got = run.got /\ run'.latest = run.latest /\ run'.next = run.next
         /\ run'.from = run.from /\ run'.day = run.day
<1>1. PICK s : s = run' /\ s = [run EXCEPT !.attempt = 1, !.pc = "done"]
  BY DEF Unmodified, Answered
<1>2. s \in Runs(kind)
  <2>1. 1 \in 1..Attempts
    BY Limits
  <2> QED BY <1>1, <2>1 DEF TypeInv, Sound, Runs
<1>3. /\ s.pc = "done" /\ s.page = run.page /\ s.warned = run.warned /\ s.got = run.got
      /\ s.latest = run.latest /\ s.next = run.next /\ s.from = run.from /\ s.day = run.day
  BY <1>1 DEF TypeInv, Sound, Runs
<1> QED BY <1>1, <1>2, <1>3 DEF TypeInv, Sound

\* The same run, but for the client.
Alike(r, s) ==
  /\ r.pc = s.pc /\ r.unit = s.unit /\ r.page = s.page /\ r.token = s.token
  /\ r.from = s.from /\ r.day = s.day /\ r.latest = s.latest /\ r.got = s.got
  /\ r.warned = s.warned /\ r.todo = s.todo /\ r.next = s.next

\* Waiting leaves the run where it is.
LEMMA SleepAlike ==
  ASSUME kind \in Kinds, NEW r, Sound(r), NEW n \in Nat
  PROVE  Alike(Sleep(r, n), r) /\ Alike([r EXCEPT !.latched = TRUE], r)
BY DEF Alike, Sleep, Sound, Runs

\* So does a deadline that fails.
LEMMA LatchSound ==
  ASSUME NEW r, Sound(r), NEW b \in BOOLEAN,
         NEW s, s = [r EXCEPT !.latched = TRUE, !.budget = IF b THEN 0 ELSE @]
  PROVE  Sound(s) /\ Alike(s, r)
<1>1. PICK x \in 0..Budget : x = IF b THEN 0 ELSE r.budget
  <2>1. r.budget \in 0..Budget /\ 0 \in 0..Budget
    BY Limits DEF Sound, Runs
  <2> QED BY <2>1
<1>2. s = [r EXCEPT !.latched = TRUE, !.budget = x]
  BY <1>1 DEF Sound, Runs
<1>3. s \in Runs(kind) /\ s.latched = TRUE /\ Alike(s, r)
  BY <1>2 DEF Alike, Sound, Runs
<1> QED BY <1>3 DEF Sound, Alike

\* A request that goes wrong leaves the run where it is, goes on, or ends it.
LEMMA FaultSound ==
  ASSUME TypeInv,
         TransportFails \/ Refused \/ (\E wait \in Waits \cup {0} : Busy(wait)) \/ OutOfTime
           \/ Unwind
  PROVE  /\ Sound(run')
         /\ \/ Alike(run', run)
            \/ run' = NoRun
            \/ Caught /\ \E r : Alike(r, run) /\ Sound(r) /\ run' = GoesOn(r)
<1>1. Sound(run) /\ kind \in Kinds /\ Sound(NoRun)
  BY NoRunSound DEF TypeInv
<1>2. \A r : Alike(r, run) /\ Sound(r) => Sound(GoesOn(r)) /\ Sound(Raised(r))
  BY <1>1, GoesOnSound DEF Alike
<1>3. \A r : Raised(r) = NoRun \/ (Raised(r) = GoesOn(r) /\ Caught)
  BY DEF Raised
<1>0. Alike(run, run)
  BY DEF Alike
<1>4. CASE TransportFails
  <2>2. CASE run.attempt < Attempts
    <3>1. run' = Sleep(run, 1) /\ 1 \in Nat
      BY <1>4, <2>2 DEF TransportFails
    <3> QED BY <1>1, <2>2, <3>1, SleepSound, SleepAlike
  <2>3. CASE ~(run.attempt < Attempts)
    BY <1>0, <1>1, <1>2, <1>3, <1>4, <2>3 DEF TransportFails
  <2> QED BY <2>2, <2>3
<1>5. CASE Refused
  BY <1>0, <1>1, <1>2, <1>3, <1>5 DEF Refused
<1>6. CASE \E wait \in Waits \cup {0} : Busy(wait)
  <2>1. PICK wait \in Waits \cup {0} : Busy(wait)
    BY <1>6
  <2>2. wait \in Nat
    BY PagingAssumption DEF PagingAssumption
  <2>3. PICK r : r = [run EXCEPT !.asked = wait]
    OBVIOUS
  <2>4. Sound(r) /\ Alike(r, run) /\ r.attempt = run.attempt /\ r.pc = run.pc
    <3>1. r \in Runs(kind)
      BY <1>1, <2>2, <2>3 DEF Sound, Runs
    <3>2. Alike(r, run) /\ r.attempt = run.attempt /\ r.latched = run.latched /\ r.budget = run.budget
      BY <1>1, <2>3 DEF Alike, Sound, Runs
    <3> QED BY <1>1, <3>1, <3>2 DEF Sound, Alike
  <2>6. CASE run.attempt < Attempts
    <3>1. PICK n \in Nat : n = IF wait > 0 THEN wait ELSE 1
      BY <2>2
    <3>2. run' = Sleep(r, n)
      BY <2>1, <2>3, <2>6, <3>1 DEF Busy
    <3>3. Sound(Sleep(r, n)) /\ Alike(Sleep(r, n), r)
      BY <1>1, <2>4, <2>6, SleepSound, SleepAlike
    <3> QED BY <2>4, <3>2, <3>3 DEF Alike
  <2>7. CASE ~(run.attempt < Attempts) /\ wait # 0
    <3>1. run' = [r EXCEPT !.latched = TRUE]
      BY <2>1, <2>3, <2>7 DEF Busy, Exhausted
    <3>2. [r EXCEPT !.latched = TRUE] = [r EXCEPT !.latched = TRUE, !.budget = IF FALSE THEN 0 ELSE @]
      BY <2>4 DEF Sound, Runs
    <3>3. Sound(run') /\ Alike(run', r)
      BY <2>4, <3>1, <3>2, LatchSound
    <3> QED BY <2>4, <3>3 DEF Alike
  <2>8. CASE ~(run.attempt < Attempts) /\ wait = 0
    <3>1. run' = Raised(r)
      BY <2>1, <2>3, <2>8 DEF Busy, Exhausted
    <3> QED BY <1>1, <1>2, <1>3, <2>4, <3>1
  <2> QED BY <2>6, <2>7, <2>8
<1>7. CASE OutOfTime
  <2>1. run' = [run EXCEPT !.latched = TRUE, !.budget = IF TRUE THEN 0 ELSE @]
    BY <1>7 DEF OutOfTime
  <2> QED BY <1>1, <2>1, LatchSound
<1>8. CASE Unwind
  BY <1>0, <1>1, <1>2, <1>8 DEF Unwind
<1> QED BY <1>4, <1>5, <1>6, <1>7, <1>8

\* Whatever happens, the run stays sound.
LEMMA RunStaysSound ==
  ASSUME TypeInv, Next
  PROVE  Sound(run') /\ kind' = kind /\ tags' = tags
<1>1. Sound(run) /\ kind \in Kinds /\ Sound(NoRun)
  BY NoRunSound DEF TypeInv
<1>2. kind' = kind /\ tags' = tags
  BY DEF Next, RunStep, Start, Unmodified, List, Inner, Detail, Commit, Unwind, TransportFails,
         Refused, OutOfTime, TokenExpires, Garbled, Busy, Publish, Revise, NewDay
<1>3. CASE Start \/ Unmodified
  BY <1>2, <1>3, StartSound, UnmodifiedSound
<1>4. CASE List
  BY <1>2, <1>4, ListedSound DEF List, Send
<1>5. CASE Inner
  BY <1>2, <1>5, InnerSound DEF Inner
<1>6. CASE Detail
  BY <1>1, <1>2, <1>6, SmallSteps DEF Detail
<1>7. CASE Commit
  BY <1>1, <1>2, <1>7 DEF Commit
<1>8. CASE TransportFails \/ Refused \/ (\E wait \in Waits \cup {0} : Busy(wait)) \/ OutOfTime
           \/ Unwind
  BY <1>2, <1>8, FaultSound
<1>9. CASE TokenExpires
  BY <1>2, <1>9, OaiSound DEF TokenExpires, Fault, Send
<1>10. CASE Garbled
  <2>1. kind = "arxiv" /\ run.pc = "list" /\ Asking
    BY <1>10 DEF Garbled, Fault, Send
  <2> QED BY <1>2, <1>10, <2>1, GarbledSound
<1>11. CASE Publish \/ Revise \/ NewDay
  BY <1>1, <1>2, <1>11 DEF Publish, Revise, NewDay
<1> QED
  BY <1>3, <1>4, <1>5, <1>6, <1>7, <1>8, <1>9, <1>10, <1>11 DEF Next, RunStep

\* The site changes only by these steps, and in these ways.
LEMMA SiteStep ==
  ASSUME TypeInv, Next
  PROVE  /\ Publish =>
              \E row \in [date : Days(kind), shelf : 1..Shelves[kind], sound : BOOLEAN] :
                 /\ site' = Append(site, row) /\ row.date <= today
                 /\ kind = "arxiv" => row.date >= today - Lag
                 /\ kind # "arxiv" => row.date = today
                 /\ Passed(row.shelf) => skipped' = skipped \cup {Len(site) + 1}
                 /\ ~Passed(row.shelf) => skipped' = skipped
                 /\ Len(site) < MaxPosts[kind]
         /\ Revise =>
              kind = "arxiv" /\ \E i \in Rows : /\ site[i].date < today
                                              /\ site' = [site EXCEPT ![i].date = today]
         /\ Publish \/ Revise \/ UNCHANGED site
<1>1. ASSUME Publish
      PROVE  \E row \in [date : Days(kind), shelf : 1..Shelves[kind], sound : BOOLEAN] :
                 /\ site' = Append(site, row) /\ row.date <= today
                 /\ kind = "arxiv" => row.date >= today - Lag
                 /\ kind # "arxiv" => row.date = today
                 /\ Passed(row.shelf) => skipped' = skipped \cup {Len(site) + 1}
                 /\ ~Passed(row.shelf) => skipped' = skipped
                 /\ Len(site) < MaxPosts[kind]
  <2>1. PICK date \in IF kind = "arxiv" THEN Max({0, today - Lag})..today ELSE {today},
             u \in IF kind \in Shelved THEN 1..Shelves[kind] ELSE {1}, sound \in BOOLEAN :
          /\ site' = Append(site, [date |-> date, shelf |-> u, sound |-> sound])
          /\ skipped' = IF Passed(u) THEN skipped \cup {Len(site) + 1} ELSE skipped
    BY <1>1 DEF Publish
  <2>2. today \in Nat /\ today \in 0..MaxDay[kind] /\ MaxDay[kind] \in Nat
    BY Limits DEF TypeInv, Days
  <2>3. PICK m \in Int : m = today - Lag
    BY <2>2, Limits
  <2>4. Max({0, m}) = IF 0 >= m THEN 0 ELSE m
    BY MinMax
  <2>5. date \in Days(kind) /\ date <= today /\ (kind = "arxiv" => date >= today - Lag)
        /\ (kind # "arxiv" => date = today)
    BY <2>1, <2>2, <2>3, <2>4, Limits DEF Days
  <2>6. u \in 1..Shelves[kind]
    BY <2>1, Limits DEF TypeInv
  <2>7. PICK row \in [date : Days(kind), shelf : 1..Shelves[kind], sound : BOOLEAN] :
          /\ row = [date |-> date, shelf |-> u, sound |-> sound]
          /\ row.date = date /\ row.shelf = u
    <3>1. PICK row : row = [date |-> date, shelf |-> u, sound |-> sound]
      OBVIOUS
    <3>2. row \in [date : Days(kind), shelf : 1..Shelves[kind], sound : BOOLEAN]
      BY <2>5, <2>6, <3>1
    <3>3. row.date = date /\ row.shelf = u
      BY <3>1
    <3> QED BY <3>1, <3>2, <3>3
  <2>8. Len(site) < MaxPosts[kind]
    BY <1>1 DEF Publish
  <2> QED BY <2>1, <2>5, <2>7, <2>8
<1>2. Revise => kind = "arxiv" /\ \E i \in Rows : /\ site[i].date < today
                                               /\ site' = [site EXCEPT ![i].date = today]
  BY DEF Revise
<1>3. Publish \/ Revise \/ UNCHANGED site
  BY DEF Next, RunStep, Start, Unmodified, List, Inner, Detail, Commit, Unwind,
         TransportFails, Refused, OutOfTime, TokenExpires, Garbled, Busy, NewDay
<1> QED BY <1>1, <1>2, <1>3

\* The rows after such a step.
LEMMA SiteStays ==
  ASSUME TypeInv, Next
  PROVE  site' \in Sites(kind) /\ Len(site') <= MaxPosts[kind] /\ Len(site') >= Len(site)
<1>1. site \in Sites(kind) /\ Len(site) <= MaxPosts[kind] /\ Len(site) \in Nat
  BY SiteTypes DEF TypeInv
<1>2. PICK T : T = [date : Days(kind), shelf : 1..Shelves[kind], sound : BOOLEAN]
  OBVIOUS
<1>3. CASE UNCHANGED site
  BY <1>1, <1>3
<1>4. ASSUME NEW row \in T, site' = Append(site, row), Len(site) < MaxPosts[kind]
      PROVE  site' \in Sites(kind) /\ Len(site') <= MaxPosts[kind] /\ Len(site') >= Len(site)
  <2>1. site \in Seq(T)
    BY <1>1, <1>2 DEF Sites
  <2>2. site' \in Seq(T) /\ Len(site') = Len(site) + 1
    BY <1>4, <2>1, AppendProperties
  <2> QED BY <1>1, <1>2, <1>4, <2>2, SiteTypes, Limits DEF Sites, TypeInv
<1>5. ASSUME NEW i \in Rows, site' = [site EXCEPT ![i].date = today]
      PROVE  site' \in Sites(kind) /\ Len(site') = Len(site)
  <2>1. site \in Seq(T)
    BY <1>1, <1>2 DEF Sites
  <2>2. PICK row \in T : row = [site[i] EXCEPT !.date = today]
    <3>1. site[i] \in T
      BY <2>1, ElementOfSeq, LenProperties, SiteTypes DEF TypeInv
    <3> QED BY <1>2, <3>1 DEF TypeInv
  <2>3. site' = [site EXCEPT ![i] = row]
    BY <1>5, <2>2
  <2>4. site' \in Seq(T) /\ Len(site') = Len(site)
    BY <2>1, <2>3, ExceptSeq, SiteTypes DEF TypeInv
  <2> QED BY <1>2, <2>4 DEF Sites
<1> QED BY <1>1, <1>2, <1>3, <1>4, <1>5, SiteStep

\* Every step keeps the types.
LEMMA TypeStep ==
  ASSUME TypeInv, [Next]_vars
  PROVE  TypeInv'
<1>1. CASE Next
  <2>1. Sound(run') /\ kind' = kind /\ tags' = tags
    BY <1>1, RunStaysSound
  <2>2. Sound(run)'
    BY <2>1 DEF Sound, Runs, PageLimit
  <2>3. site' \in Sites(kind) /\ Len(site') <= MaxPosts[kind]
    BY <1>1, SiteStays
  <2>4. RowSet' = RowSet /\ RowSet = (1..MaxPosts[kind]) \X Days(kind)
    BY <2>1 DEF RowSet, Days
  <2>5. today' \in Days(kind)
    <3>1. CASE NewDay
      BY <3>1, Limits DEF NewDay, TypeInv, Days
    <3>2. CASE ~NewDay
      BY <1>1, <3>2 DEF TypeInv, Next, RunStep, Start, Unmodified, List, Inner, Detail, Commit,
         Unwind, TransportFails, Refused, OutOfTime, TokenExpires, Garbled, Busy, Publish, Revise
    <3> QED BY <3>1, <3>2
  <2>6. cursor' \in Cursors(kind) /\ stored' \subseteq RowSet /\ reported' \subseteq RowSet
    <3>1. CASE Commit
      <4>1. Accepted(Rows) \subseteq RowSet /\ run.got \subseteq RowSet
        BY <2>4, SiteTypes DEF TypeInv, Sound, Runs
      <4> QED BY <3>1, <4>1 DEF Commit, TypeInv, Sound, Runs
    <3>2. CASE ~Commit
      <4>1. UNCHANGED <<cursor, stored, reported>>
        BY <1>1, <3>2 DEF Next, RunStep, Start, Unmodified, List, Inner, Detail, Unwind,
           TransportFails, Refused, OutOfTime, TokenExpires, Garbled, Busy, Publish, Revise, NewDay
      <4> QED BY <4>1 DEF TypeInv
    <3> QED BY <3>1, <3>2
  <2>7. surprises' \in 0..MaxSurprises
    <3>1. surprises' = surprises \/ Surprise
      BY <1>1 DEF Next, RunStep, Start, Unmodified, List, Inner, Detail, Commit, Unwind,
         TransportFails, Refused, OutOfTime, TokenExpires, Garbled, Busy, Publish, Revise, NewDay,
         Fault
    <3> QED BY <3>1, Limits DEF Surprise, TypeInv
  <2>8. detailed' \subseteq 1..MaxPosts[kind]
    <3>1. CASE Detail
      <4>1. run.todo \in Seq(Entries(kind)) /\ run.todo # <<>>
        BY <3>1 DEF Detail, TypeInv, Sound, Runs
      <4>2. Head(run.todo) \in Entries(kind) /\ kind \in {"sec", "html"}
        BY <3>1, <4>1, HeadTailProperties DEF Detail, TypeInv, Sound
      <4>3. Head(run.todo) \in 1..MaxPosts[kind]
        BY <4>2 DEF Entries
      <4> QED BY <3>1, <4>3 DEF Detail, TypeInv
    <3>2. CASE ~Detail
      <4>1. UNCHANGED detailed
        BY <1>1, <3>2 DEF Next, RunStep, Start, Unmodified, List, Inner, Commit, Unwind,
           TransportFails, Refused, OutOfTime, TokenExpires, Garbled, Busy, Publish, Revise, NewDay
      <4> QED BY <4>1 DEF TypeInv
    <3> QED BY <3>1, <3>2
  <2>9. skipped' \subseteq 1..MaxPosts[kind]
    <3>1. CASE Publish
      <4>1. skipped' \subseteq skipped \cup {Len(site) + 1} /\ Len(site) < MaxPosts[kind]
        BY <3>1 DEF Publish
      <4>2. Len(site) \in Nat /\ MaxPosts[kind] \in Nat
        BY SiteTypes, Limits DEF TypeInv
      <4> QED BY <4>1, <4>2 DEF TypeInv
    <3>2. CASE ~Publish
      <4>1. UNCHANGED skipped
        BY <1>1, <3>2 DEF Next, RunStep, Start, Unmodified, List, Inner, Detail, Commit, Unwind,
           TransportFails, Refused, OutOfTime, TokenExpires, Garbled, Busy, Revise, NewDay
      <4> QED BY <4>1 DEF TypeInv
    <3> QED BY <3>1, <3>2
  <2>10. early' \in BOOLEAN
    BY <1>1 DEF TypeInv, Next, RunStep, Start, Unmodified, List, Inner, Detail, Commit, Unwind,
       TransportFails, Refused, OutOfTime, TokenExpires, Garbled, Busy, Publish, Revise, NewDay,
       Fault, Send
  <2> QED
    BY <2>1, <2>2, <2>3, <2>4, <2>5, <2>6, <2>7, <2>8, <2>9, <2>10 DEF TypeInv, Sites, Cursors
<1>2. CASE UNCHANGED vars
  BY <1>2 DEF vars, TypeInv, Sound, PageLimit, Runs, RowSet
<1> QED BY <1>1, <1>2

\* The types at the start.
LEMMA TypeInit ==
  ASSUME Init
  PROVE  TypeInv
<1>1. kind \in Kinds /\ 0 \in Days(kind) /\ Shelves[kind] \in Nat \ {0} /\ MaxPosts[kind] \in Nat
  BY Limits DEF Init, Days
<1>2. Sound(run)
  BY <1>1, NoRunSound DEF Init
<1>3. NoCursor \in Cursors(kind) /\ [NoCursor EXCEPT !.mark = 0] \in Cursors(kind)
  BY <1>1 DEF NoCursor, Cursors, Tags
<1>4. site \in Sites(kind) /\ Len(site) = 0
  BY DEF Init, Sites
<1>5. tags \in BOOLEAN
  BY DEF Init
<1>6. surprises \in 0..MaxSurprises
  BY Limits DEF Init
<1>7. cursor \in Cursors(kind)
  BY <1>3 DEF Init
<1>8. kind \in Kinds /\ Len(site) <= MaxPosts[kind] /\ today \in Days(kind)
  BY <1>1, <1>4 DEF Init
<1>9. /\ stored \subseteq RowSet /\ reported \subseteq RowSet
      /\ skipped \cup detailed \subseteq 1..MaxPosts[kind] /\ early \in BOOLEAN
  BY DEF Init
<1> QED BY <1>2, <1>4, <1>5, <1>6, <1>7, <1>8, <1>9 DEF TypeInv

\* Whatever a site publishes and however its requests fail, a run is on a page
\* within its limit, for a unit there is, with time left or its deadline failed,
\* and what it collects, stores and reports are rows of the site.
THEOREM RunsStaySound == Spec => []TypeOK
<1>1. TypeInv => TypeOK
  <2> SUFFICES ASSUME TypeInv PROVE TypeOK
    OBVIOUS
  <2>1. Days(kind) \subseteq Int
    BY Limits DEF Days, TypeInv
  <2>2. cursor \in Cursors(kind) /\ run \in Runs(kind)
    BY DEF TypeInv, Sound
  <2>3. cursor.mark \in Dates /\ cursor.unit \in 1..Shelves[kind]
        /\ {cursor.token, cursor.last, cursor.offset} \subseteq Nat
    BY <2>1, <2>2 DEF Cursors, Dates
  <2>4. /\ run.pc \in {"idle", "list", "inner", "detail", "done"} /\ run.unit \in 1..Shelves[kind]
        /\ run.attempt \in 1..Attempts /\ run.budget \in 0..Budget /\ run.got \subseteq RowSet
    BY <2>2 DEF Runs, RowSet, Days
  <2>5. run.page \in 1..(Max({MaxPages, Shelves[kind]}) + 1)
    <3>1. PICK m \in Nat : m = Max({MaxPages, Shelves[kind]})
      <4>a. kind \in Kinds
        BY DEF TypeInv
      <4>1. PICK n \in Int : n = Shelves[kind] /\ n > 0
        BY <4>a, Limits
      <4>2. PICK k \in Int : k = MaxPages
        BY Limits
      <4>3. Max({k, n}) = IF k >= n THEN k ELSE n
        BY MinMax
      <4>4. Max({k, n}) \in Nat
        BY <4>1, <4>2, <4>3, Limits
      <4> QED BY <4>1, <4>2, <4>4
    <3>2. run.page \in 1..(PageLimit + 1) /\ PageLimit <= m /\ PageLimit \in Nat
      BY <3>1, Limits DEF TypeInv, Sound
    <3> QED BY <3>1, <3>2
  <2>6. run.pc \notin {"idle", "done"} => run.latched \/ run.budget > 0
    BY DEF TypeInv, Sound
  <2>7. site \in Seq([date : 0..MaxDay[kind], shelf : 1..Shelves[kind], sound : BOOLEAN])
    BY DEF TypeInv, Sites, Days
  <2> QED BY <2>3, <2>4, <2>5, <2>6, <2>7 DEF TypeInv, TypeOK, Days
<1> QED BY <1>1, TypeInit, TypeStep, PTL DEF Spec

-----------------------------------------------------------------------------
(* What the site does meanwhile.                                           *)

\* No row is dated after today.
DatesInv == \A i \in Rows : site[i].date <= today

\* Rows are added at the end, with a recent date, and a revised row is of today.
Grows ==
  /\ Rows \subseteq Rows' /\ skipped \subseteq skipped' /\ today' >= today
  /\ \A i \in Rows :
       /\ site'[i].sound = site[i].sound /\ site'[i].shelf = site[i].shelf
       /\ \/ site'[i].date = site[i].date
          \/ kind = "arxiv" /\ site[i].date < today /\ site'[i].date = today
  /\ \A i \in Rows' \ Rows :
       /\ i = Len(site) + 1 /\ site'[i].date <= today
       /\ site'[i].shelf \in 1..Shelves[kind]
       /\ kind = "arxiv" => site'[i].date >= today - Lag
       /\ kind # "arxiv" => site'[i].date = today
       /\ Passed(site'[i].shelf) => i \in skipped'

\* The site grows in these ways only, and not in a step of a run.
LEMMA Growing ==
  ASSUME TypeInv, Next
  PROVE  /\ Grows
         /\ UNCHANGED site \/ UNCHANGED <<run, cursor, stored, reported, today>>
<1>1. /\ SiteOK /\ Len(site) \in Nat /\ Rows = 1..Len(site) /\ today \in Nat
      /\ \A i \in Rows : site[i].date \in Nat
  BY SiteTypes, Limits DEF TypeInv, Days
<1>2. skipped \subseteq skipped'
  BY DEF Next, RunStep, Start, Unmodified, List, Inner, Detail, Commit, Unwind, TransportFails,
         Refused, OutOfTime, TokenExpires, Garbled, Busy, Publish, Revise, NewDay
<1>3. today' >= today
  <2>1. CASE NewDay
    BY <1>1, <2>1 DEF NewDay
  <2>2. CASE ~NewDay
    <3>1. today' = today
      BY <2>2 DEF Next, RunStep, Start, Unmodified, List, Inner, Detail, Commit, Unwind,
         TransportFails, Refused, OutOfTime, TokenExpires, Garbled, Busy, Publish, Revise
    <3> QED BY <1>1, <3>1
  <2> QED BY <2>1, <2>2
<1>4. CASE UNCHANGED site
  <2>1. Rows' = Rows
    BY <1>4 DEF Rows
  <2> QED BY <1>1, <1>2, <1>3, <1>4, <2>1 DEF Grows
<1>5. CASE Publish
  <2>1. PICK row \in [date : Days(kind), shelf : 1..Shelves[kind], sound : BOOLEAN] :
          /\ site' = Append(site, row) /\ row.date <= today
          /\ kind = "arxiv" => row.date >= today - Lag
          /\ kind # "arxiv" => row.date = today
          /\ Passed(row.shelf) => skipped' = skipped \cup {Len(site) + 1}
    BY <1>5, SiteStep
  <2>2. PICK l \in Nat : l = Len(site)
    BY <1>1
  <2>3. PICK T : T = [date : Nat, shelf : 1..Shelves[kind], sound : BOOLEAN]
    OBVIOUS
  <2>4. row \in T /\ site \in Seq(T)
    <3>1. Days(kind) \subseteq Nat
      BY Limits DEF Days
    <3> QED BY <1>1, <2>3, <3>1 DEF SiteOK
  <2>5. /\ Len(site') = l + 1 /\ DOMAIN site' = 1..(l + 1)
        /\ \A i \in 1..l : site'[i] = site[i]
        /\ site'[l + 1] = row
    BY <2>1, <2>2, <2>4, AppendProperties, LenProperties
  <2>6. Rows' = 1..(l + 1) /\ Rows = 1..l
    BY <1>1, <2>2, <2>5 DEF Rows
  <2>7. \A i \in Rows' \ Rows : i = l + 1
    BY <2>6
  <2>8. row.shelf \in 1..Shelves[kind]
    BY <2>1
  <2>9. Rows \subseteq Rows' /\ \A i \in Rows : site'[i] = site[i]
    BY <2>5, <2>6
  <2>10. Grows
    BY <1>2, <1>3, <2>1, <2>2, <2>5, <2>7, <2>8, <2>9 DEF Grows
  <2> QED BY <1>5, <2>10 DEF Publish
<1>6. CASE Revise
  <2>1. PICK i \in Rows : site[i].date < today /\ site' = [site EXCEPT ![i].date = today]
    BY <1>6 DEF Revise
  <2>2. Rows' = Rows
    BY <2>1 DEF Rows
  <2>3. ASSUME NEW j \in Rows
        PROVE  /\ site'[j].sound = site[j].sound /\ site'[j].shelf = site[j].shelf
               /\ \/ site'[j].date = site[j].date
                  \/ site[j].date < today /\ site'[j].date = today
    <3>1. site[j] \in [date : Nat, shelf : 1..Shelves[kind], sound : BOOLEAN]
      BY <1>1, ElementOfSeq DEF SiteOK
    <3>2. site'[j] = IF j = i THEN [site[i] EXCEPT !.date = today] ELSE site[j]
      BY <2>1 DEF Rows
    <3> QED BY <2>1, <3>1, <3>2
  <2> QED BY <1>2, <1>3, <1>6, <2>2, <2>3 DEF Grows, Revise
<1> QED BY <1>4, <1>5, <1>6, SiteStep

\* The types after a step.
LEMMA SiteTypesNext ==
  (TypeInv => /\ Rows = 1..Len(site) /\ IsFiniteSet(Rows)
              /\ \A i \in Rows : i \in Nat /\ site[i].date \in Nat /\ site[i].shelf \in 1..Shelves[kind])'
<1>1. TypeInv => /\ Rows = 1..Len(site) /\ IsFiniteSet(Rows)
                 /\ \A i \in Rows : i \in Nat /\ site[i].date \in Nat /\ site[i].shelf \in 1..Shelves[kind]
  BY SiteTypes DEF TypeInv
<1> QED BY <1>1, PTL

\* Every step keeps the dates of the rows behind the day.
LEMMA DatesStep ==
  ASSUME TypeInv, DatesInv, Next
  PROVE  DatesInv'
<1>1. Grows
  BY Growing
<1>2. today \in Nat /\ today' \in Nat /\ today' >= today
  BY <1>1, TypeStep, RunStaysSound, Limits DEF TypeInv, Days, Grows
<1>3. ASSUME NEW i \in Rows'
      PROVE  site'[i].date <= today'
  <2>1. CASE i \in Rows
    <3>1. site[i].date \in Nat /\ site[i].date <= today
      BY <2>1, SiteTypes DEF TypeInv, DatesInv
    <3>2. site'[i].date = site[i].date \/ site'[i].date = today
      BY <1>1, <2>1 DEF Grows
    <3> QED BY <1>2, <3>1, <3>2
  <2>2. CASE i \notin Rows
    <3>1. site'[i].date <= today
      BY <1>1, <2>2 DEF Grows
    <3>2. site'[i].date \in Nat
      BY TypeStep, SiteTypesNext
    <3> QED BY <1>2, <3>1, <3>2
  <2> QED BY <2>1, <2>2
<1> QED BY <1>3 DEF DatesInv

-----------------------------------------------------------------------------
(* The pages of a listing that goes on growing.                            *)

\* What the query of a run lists now, for the two collectors with a watermark.
Query == IF kind = "arxiv" THEN Since(Rows, run.from) ELSE InWindow

\* A watermark of the run so far would leave the row within its overlap.
Ahead(i) == run.latest = None \/ site[i].date >= run.latest - Overlap

\* A row that moved behind a page after it was read, or was pushed past it, is
\* within the overlap; every other row of the pages read has been taken.
PagesRead ==
  run.pc \in {"list", "done"} /\ ~run.warned =>
    \A i \in Query :
      site[i].sound /\ (run.pc = "list" => NewRank(Query, i) < (run.page - 1) * PageSize)
        => Row(i) \in run.got \/ Ahead(i)

\* What a run began with and has seen.
MarksFit ==
  /\ cursor.mark = None \/ cursor.mark <= today
  /\ run.latest = None \/ run.latest <= today
  /\ run.pc = "list" /\ run.page = 1 => run.latest = None
  /\ run.pc # "idle" =>
       /\ run.next.mark = IF run.latest = None THEN cursor.mark ELSE run.latest
       /\ kind = "arxiv" => run.from = QueryFrom
       /\ kind = "cninfo" =>
            /\ run.from \in Int /\ run.from <= QueryFrom /\ run.day <= today
            /\ run.latest = None \/ run.latest <= run.day

PagesInv == kind \in {"arxiv", "cninfo"} => MarksFit /\ PagesRead

\* The rows of these collectors that are listed.
LEMMA QueryRows == Query \in SUBSET Rows
BY DEF Query, InWindow, Since

\* A page adds what it shows, and what came before it is not older.
LEMMA PageRead ==
  ASSUME TypeInv, run.pc = "list", kind \in {"arxiv", "cninfo"}, MarksFit, PagesRead,
         ~run.warned, NEW seen, seen = Page(NewestFirst(Query), run.page)
  PROVE  /\ \A i \in Query :
              site[i].sound /\ NewRank(Query, i) < run.page * PageSize =>
                \/ Row(i) \in run.got \cup Accepted(ToSet(seen))
                \/ Latest(seen) = None \/ site[i].date >= Latest(seen) - Overlap
         /\ Len(seen) < PageSize \/ Len(NewestFirst(Query)) <= run.page * PageSize =>
              \A i \in Query : NewRank(Query, i) < run.page * PageSize
<1>1. PICK Q \in SUBSET Rows : Q = Query
  BY QueryRows
<1>2. PICK rank : rank = [i \in Q |-> NewRank(Q, i)]
  OBVIOUS
<1>3. PICK k \in Nat : k = (run.page - 1) * PageSize
  BY PageBounds
<1>4. PICK m \in Nat : m = run.page * PageSize /\ m = k + PageSize
  BY <1>3, PageBounds, Limits
<1>5. /\ Slices(seen, Q, rank, k) /\ ToSet(seen) \subseteq Rows
      /\ \A i \in Q : rank[i] \in Nat /\ rank[i] < Len(NewestFirst(Q))
      /\ Len(NewestFirst(Q)) \in Nat
  BY <1>1, <1>2, <1>3, Listing
<1>6. SiteOK /\ \A i \in Rows : site[i].date \in Nat /\ i \in Nat
  BY SiteTypes DEF TypeInv
<1>7. \A i, j \in Q : Newer(i, j) => rank[i] < rank[j]
  BY <1>2, <1>6, NewestLists
<1>8. \A i, j \in Q : rank[i] < rank[j] => site[i].date >= site[j].date
  <2>1. ASSUME NEW i \in Q, NEW j \in Q, rank[i] < rank[j], site[i].date < site[j].date
        PROVE  FALSE
    <3>1. Newer(j, i)
      BY <1>6, <2>1 DEF Newer
    <3> QED BY <1>5, <1>7, <2>1, <3>1
  <2> QED BY <1>6, <2>1
<1>9. ASSUME NEW i \in Q, site[i].sound, rank[i] < m
      PROVE  \/ Row(i) \in run.got \cup Accepted(ToSet(seen))
             \/ Latest(seen) = None \/ site[i].date >= Latest(seen) - Overlap
  <2>1. CASE rank[i] >= k
    <3>1. i \in ToSet(seen)
      BY <1>4, <1>5, <1>9, <2>1 DEF Slices
    <3> QED BY <1>9, <3>1 DEF Accepted
  <2>2. CASE rank[i] < k /\ Latest(seen) # None
    <3>1. PICK l \in Nat : l = Latest(seen)
      BY <1>5, <2>2, LatestFact, Limits DEF Days, TypeInv
    <3>2. l = run.latest \/ \E j \in ToSet(seen) : site[j].date = l
      BY <1>5, <2>2, <3>1, LatestFact
    <3>3. CASE l = run.latest
      <4>1. Row(i) \in run.got \/ Ahead(i)
        BY <1>1, <1>2, <1>3, <1>9, <2>2 DEF PagesRead
      <4>2. run.latest # None
        BY <2>2, <3>1, <3>3
      <4> QED BY <3>1, <3>3, <4>1, <4>2 DEF Ahead
    <3>4. CASE \E j \in ToSet(seen) : site[j].date = l
      <4>1. PICK j \in ToSet(seen) : site[j].date = l
        BY <3>4
      <4>2. j \in Q /\ k <= rank[j]
        BY <1>5, <4>1 DEF Slices
      <4>3. rank[i] < rank[j]
        BY <1>5, <2>2, <4>2
      <4>4. site[i].date >= l
        BY <1>8, <4>1, <4>2, <4>3
      <4> QED BY <1>6, <3>1, <4>4, Limits
    <3> QED BY <3>2, <3>3, <3>4
  <2> QED BY <1>3, <1>5, <2>1, <2>2
<1>10. ASSUME Len(seen) < PageSize \/ Len(NewestFirst(Q)) <= m, NEW i \in Q
       PROVE  rank[i] < m
  <2>1. CASE Len(seen) < PageSize
    BY <1>4, <1>5, <2>1 DEF Slices
  <2>2. CASE Len(NewestFirst(Q)) <= m
    BY <1>5, <2>2
  <2> QED BY <1>10, <2>1, <2>2
<1> QED BY <1>1, <1>2, <1>4, <1>9, <1>10

\* Where these collectors can be.
LEMMA PagePlaces ==
  ASSUME TypeInv, kind \in {"arxiv", "cninfo"}
  PROVE  run.pc \in {"idle", "list", "done"} /\ ~Caught
BY DEF TypeInv, Sound, Runs, Caught

\* A page of the listing keeps the invariant.
LEMMA ListPages ==
  ASSUME TypeInv, DatesInv, PagesInv, List, kind \in {"arxiv", "cninfo"}
  PROVE  PagesInv'
<1>1. run.pc = "list" /\ Asking /\ run' = Listed /\ kind' = kind /\ MarksFit /\ PagesRead
  BY DEF List, Send, PagesInv
<1>2. /\ UNCHANGED <<kind, site, today, cursor>>
  BY DEF List
<1>3. PICK seen : seen = Page(NewestFirst(Query), run.page)
  OBVIOUS
<1>4. /\ Sound(run') /\ run'.pc \in {"list", "done"}
      /\ run'.got = run.got \cup Accepted(ToSet(seen))
      /\ run'.latest = Latest(seen)
      /\ run'.next.mark = IF Latest(seen) = None THEN run.next.mark ELSE Latest(seen)
      /\ run'.from = run.from /\ run'.day = run.day /\ run'.page = run.page + 1
      /\ ~run'.warned =>
           /\ ~run.warned
           /\ run'.pc = "done" =>
                Len(seen) < PageSize \/ Len(NewestFirst(Query)) <= run.page * PageSize
  <2>1. CASE kind = "arxiv"
    BY <1>1, <1>3, <2>1, ArxivSound DEF Listed, Query
  <2>2. CASE kind = "cninfo"
    BY <1>1, <1>3, <2>2, CninfoSound DEF Listed, Query
  <2> QED BY <2>1, <2>2
<1>5. ToSet(seen) \subseteq Query /\ ToSet(seen) \subseteq Rows
  BY <1>1, <1>3, Listing, QueryRows DEF Slices
<1>6. /\ Latest(seen) \in Days(kind) \cup {None}
      /\ Latest(seen) = None => run.latest = None
      /\ Latest(seen) # None =>
           \/ Latest(seen) = run.latest
           \/ \E i \in ToSet(seen) : site[i].date = Latest(seen)
  BY <1>5, LatestFact
<1>7. Query' = Query
  BY <1>2, <1>4 DEF Query, InWindow, Since, Rows
<1>8. MarksFit'
  <2>1. QueryFrom' = QueryFrom
    BY <1>2 DEF QueryFrom
  <2>2. Latest(seen) = None \/ Latest(seen) <= today
    BY <1>1, <1>5, <1>6 DEF DatesInv, MarksFit
  <2>3. run.page + 1 # 1
    BY <1>1, PageBounds
  <2>4. kind = "cninfo" => Latest(seen) = None \/ Latest(seen) <= run.day
    <3>1. kind = "cninfo" => \A i \in ToSet(seen) : site[i].date <= run.day
      BY <1>5 DEF Query, InWindow
    <3> QED BY <1>1, <1>6, <3>1 DEF MarksFit
  <2>5. run'.next.mark = IF Latest(seen) = None THEN cursor.mark ELSE Latest(seen)
    BY <1>1, <1>4, <1>6 DEF MarksFit
  <2>6. run'.pc # "idle" /\ run.pc # "idle"
    BY <1>1, <1>4
  <2> QED BY <1>1, <1>2, <1>4, <2>1, <2>2, <2>3, <2>4, <2>5, <2>6 DEF MarksFit
<1>9. PagesRead'
  <2> SUFFICES ASSUME ~run'.warned, NEW i \in Query, site[i].sound,
                      run'.pc = "list" => NewRank(Query, i) < (run'.page - 1) * PageSize
               PROVE  Row(i) \in run'.got \/ Latest(seen) = None
                        \/ site[i].date >= Latest(seen) - Overlap
    BY <1>2, <1>4, <1>7 DEF PagesRead, Ahead, NewRank, Newer, Row
  <2>1. run'.page - 1 = run.page
    BY <1>1, <1>4, PageBounds
  <2>2. NewRank(Query, i) < run.page * PageSize
    BY <1>1, <1>3, <1>4, <2>1, PageRead
  <2> QED BY <1>1, <1>3, <1>4, <2>2, PageRead
<1> QED BY <1>2, <1>8, <1>9 DEF PagesInv

\* More rows, and no row that moves back: a rank never falls.
LEMMA RanksGrow ==
  ASSUME TypeInv, TypeInv', Grows, NEW Q, NEW R, Q \subseteq R, Q \subseteq Rows, R \subseteq Rows',
         NEW i \in Q, site'[i].date = site[i].date
  PROVE  NewRank(Q, i) <= NewRank(R, i)' /\ NewRank(Q, i) \in Nat /\ NewRank(R, i)' \in Nat
<1>1. PICK A : A = {j \in Q : Newer(j, i)}
  OBVIOUS
<1>2. PICK B : B = {j \in R : Newer(j, i)'}
  OBVIOUS
<1>3. ASSUME NEW j \in A
      PROVE  j \in B
  <2>1. j \in Q /\ Newer(j, i) /\ j \in R
    BY <1>1
  <2>2. /\ i \in Nat /\ j \in Nat /\ site[i].date \in Nat /\ site[j].date \in Nat
        /\ today \in Nat
    BY <2>1, SiteTypes, Limits DEF TypeInv, Days
  <2>3. site'[j].date = site[j].date \/ (site[j].date < today /\ site'[j].date = today)
    BY <2>1 DEF Grows
  <2>4. Newer(j, i)'
    BY <2>1, <2>2, <2>3 DEF Newer
  <2> QED BY <1>2, <2>1, <2>4
<1>4. IsFiniteSet(Rows') /\ IsFiniteSet(Rows)
  BY SiteTypes, SiteTypesNext DEF TypeInv
<1>5. A \in SUBSET Rows /\ B \in SUBSET Rows' /\ A \in SUBSET B
  BY <1>1, <1>2, <1>3
<1>6. IsFiniteSet(B) /\ IsFiniteSet(A)
  BY <1>4, <1>5, FS_Subset
<1>7. Cardinality(A) <= Cardinality(B) /\ Cardinality(A) \in Nat /\ Cardinality(B) \in Nat
  BY <1>5, <1>6, FS_Subset, FS_CardinalityType
<1>8. NewRank(Q, i) = Cardinality(A) /\ NewRank(R, i)' = Cardinality(B)
  BY <1>1, <1>2 DEF NewRank
<1> QED BY <1>7, <1>8

\* What CNINFO is asked for, once its watermark is not ahead of the day.
CninfoAsks ==
  /\ QueryFrom \in Int
  /\ QueryFrom = IF cursor.mark = None \/ today - Lookback >= cursor.mark - Overlap
                 THEN today - Lookback ELSE cursor.mark - Overlap

\* The date CNINFO is asked for, as one of two.
LEMMA CninfoFrom ==
  TypeInv /\ kind = "cninfo" /\ (cursor.mark = None \/ cursor.mark <= today) => CninfoAsks
<1> SUFFICES ASSUME TypeInv, kind = "cninfo", cursor.mark = None \/ cursor.mark <= today
             PROVE  CninfoAsks
  OBVIOUS
<1>1. today \in Nat /\ cursor.mark \in Nat \cup {None}
  BY Limits DEF TypeInv, Days, Cursors
<1>2. PICK a \in Int : a = today - Lookback
  BY <1>1, Limits
<1>3. CASE cursor.mark = None
  BY <1>2, <1>3 DEF CninfoAsks, QueryFrom
<1>4. CASE cursor.mark # None
  <2>1. PICK m \in Nat : m = cursor.mark /\ m <= today
    BY <1>1, <1>4
  <2>2. Min({today, m}) = m
    BY <1>1, <2>1, MinMax
  <2>3. PICK c \in Int : c = m - Overlap
    BY Limits
  <2>4. QueryFrom = Max({a, c})
    BY <1>2, <1>4, <2>1, <2>2, <2>3 DEF QueryFrom
  <2>5. Max({a, c}) = IF a >= c THEN a ELSE c
    BY MinMax
  <2> QED BY <1>2, <1>4, <2>1, <2>3, <2>4, <2>5 DEF CninfoAsks
<1> QED BY <1>3, <1>4

\* The same after a step.
LEMMA CninfoFromNext ==
  (TypeInv /\ kind = "cninfo" /\ (cursor.mark = None \/ cursor.mark <= today) => CninfoAsks)'
BY CninfoFrom, PTL

\* Publishing, revising and the passing of days leave a run where it is.
LEMMA SitePages ==
  ASSUME TypeInv, TypeInv', Grows, PagesInv, kind \in {"arxiv", "cninfo"},
         UNCHANGED <<kind, run, cursor>>
  PROVE  PagesInv'
<1>1. MarksFit /\ PagesRead /\ kind' = kind /\ run' = run /\ cursor' = cursor
  BY DEF PagesInv
<1>2. /\ today \in Nat /\ today' \in Nat /\ today' >= today
      /\ cursor.mark \in Nat \cup {None} /\ run.latest \in Nat \cup {None}
      /\ run.day \in Nat /\ None \notin Int
  <2>1. Days(kind) \subseteq Nat /\ Days(kind') \subseteq Nat
    BY Limits DEF TypeInv, Days
  <2>2. today \in Days(kind) /\ today' \in Days(kind') /\ cursor.mark \in Days(kind) \cup {None}
    BY DEF TypeInv, Cursors
  <2>3. run.latest \in Days(kind) \cup {None} /\ run.day \in Days(kind)
    BY DEF TypeInv, Sound, Runs
  <2> QED BY <2>1, <2>2, <2>3, Limits DEF Grows
<1>3. MarksFit'
  <2>1. kind = "arxiv" => QueryFrom' = QueryFrom
    BY <1>1 DEF QueryFrom
  <2>2. kind = "cninfo" /\ run.pc # "idle" => QueryFrom' >= run.from
    <3> SUFFICES ASSUME kind = "cninfo", run.pc # "idle" PROVE QueryFrom' >= run.from
      OBVIOUS
    <3>1. run.from \in Int /\ run.from <= QueryFrom
      BY <1>1 DEF MarksFit
    <3>2. CninfoAsks /\ CninfoAsks'
      BY <1>1, <1>2, CninfoFrom, CninfoFromNext DEF MarksFit
    <3>6. PICK x \in Int : x = today - Lookback
      BY <1>2, Limits
    <3>7. PICK y \in Int : y = today' - Lookback
      <4>1. PICK u \in Nat : u = today'
        BY <1>2
      <4>2. u - Lookback \in Int
        BY Limits
      <4> QED BY <4>1, <4>2
    <3>3. x <= y
      <4>1. PICK z \in Nat : z = Lookback
        BY Limits
      <4>2. PICK t \in Nat : t = today
        BY <1>2
      <4>3. PICK u \in Nat : u = today' /\ t <= u
        BY <1>2, <4>2
      <4>4. x = t - z
        BY <3>6, <4>1, <4>2
      <4>5. y = u - z
        BY <3>7, <4>1, <4>3
      <4>6. t <= u
        BY <4>3
      <4> QED BY <4>4, <4>5, <4>6
    <3>4. PICK c : c = cursor.mark - Overlap /\ (cursor.mark # None => c \in Int)
      BY <1>2, Limits
    <3>5. /\ QueryFrom = IF cursor.mark = None \/ x >= c THEN x ELSE c
          /\ QueryFrom' = IF cursor.mark = None \/ y >= c THEN y ELSE c
      BY <1>1, <3>2, <3>4, <3>6, <3>7 DEF CninfoAsks
    <3> QED BY <3>1, <3>3, <3>4, <3>5
  <2>3. (cursor.mark = None \/ cursor.mark <= today') /\ (run.latest = None \/ run.latest <= today')
        /\ (kind = "cninfo" /\ run.pc # "idle" => run.day <= today')
    BY <1>1, <1>2 DEF MarksFit
  <2> QED BY <1>1, <2>1, <2>2, <2>3 DEF MarksFit
<1>4. PagesRead'
  <2> SUFFICES ASSUME run.pc \in {"list", "done"}, ~run.warned, NEW i \in Query', site'[i].sound,
                      run.pc = "list" => NewRank(Query, i)' < (run.page - 1) * PageSize
               PROVE  Row(i)' \in run.got \/ Ahead(i)'
    BY <1>1 DEF PagesRead
  <2>1. i \in Rows' /\ site'[i].date \in Nat
    BY SiteTypesNext DEF Query, InWindow, Since
  <2>2. Query \subseteq Query' /\ Query' \subseteq Rows'
    <3>1. Query' \subseteq Rows'
      BY DEF Query, InWindow, Since
    <3>2. ASSUME NEW j \in Query
          PROVE  j \in Query'
      <4>1. j \in Rows /\ j \in Rows' /\ site[j].date \in Nat
        BY <3>2, SiteTypes DEF TypeInv, Grows, Query, InWindow, Since
      <4>2. \/ site'[j].date = site[j].date
            \/ kind = "arxiv" /\ site[j].date < today /\ site'[j].date = today
        BY <4>1 DEF Grows
      <4>3. CASE site'[j].date = site[j].date
        BY <1>1, <3>2, <4>1, <4>3 DEF Query, InWindow, Since
      <4>4. CASE kind = "arxiv" /\ site[j].date < today /\ site'[j].date = today
        <5>1. run.from = None \/ site[j].date >= run.from
          BY <3>2, <4>4 DEF Query, Since
        <5>2. run.from \in Int \cup {None}
          BY DEF TypeInv, Sound, Runs, Dates
        <5>3. run.from = None \/ site'[j].date >= run.from
          BY <1>2, <4>1, <4>4, <5>1, <5>2
        <5> QED BY <1>1, <4>1, <4>4, <5>3 DEF Query, Since
      <4> QED BY <4>2, <4>3, <4>4
    <3> QED BY <3>1, <3>2
  <2>3. run.latest # None => run.latest \in Nat /\ run.latest <= today
    BY <1>1, <1>2 DEF MarksFit
  <2>4. CASE i \notin Rows
    <3>1. site'[i].date >= today - Lag
      BY <1>2, <2>1, <2>4, Limits DEF Grows
    <3> QED BY <1>1, <1>2, <2>1, <2>3, <3>1, Limits DEF Ahead
  <2>5. CASE i \in Rows /\ site'[i].date # site[i].date
    <3>1. site'[i].date = today
      BY <2>5 DEF Grows
    <3> QED BY <1>1, <1>2, <2>1, <2>3, <3>1, Limits DEF Ahead
  <2>6. CASE i \in Rows /\ site'[i].date = site[i].date
    <3>1. i \in Query
      <4>1. run.from = None \/ site[i].date >= run.from
        BY <1>1, <2>6 DEF Query, InWindow, Since
      <4>2. kind # "arxiv" => site[i].date <= run.day
        BY <1>1, <2>6 DEF Query, InWindow, Since
      <4> QED BY <2>6, <4>1, <4>2 DEF Query, InWindow, Since
    <3>2. PICK m \in Int : m = (run.page - 1) * PageSize
      <4>1. run.page - 1 \in Int /\ PageSize \in Int
        BY Limits DEF TypeInv, Sound, Runs
      <4> QED BY <4>1
    <3>3. run.pc = "list" => NewRank(Query, i) < m
      <4>1. PICK Q : Q = Query
        OBVIOUS
      <4>2. PICK R : R = Query'
        OBVIOUS
      <4>3. Q \subseteq R /\ Q \subseteq Rows /\ R \subseteq Rows'
        BY <2>2, <4>1, <4>2, QueryRows
      <4>4. NewRank(Q, i) <= NewRank(R, i)' /\ NewRank(Q, i) \in Nat /\ NewRank(R, i)' \in Nat
        BY <2>6, <3>1, <4>1, <4>3, RanksGrow
      <4>5. run.pc = "list" => NewRank(R, i)' < m
        BY <3>2, <4>2 DEF NewRank
      <4> QED BY <4>1, <4>4, <4>5
    <3>4. site[i].sound
      BY <2>6 DEF Grows
    <3>5. Row(i) \in run.got \/ Ahead(i)
      BY <1>1, <3>1, <3>2, <3>3, <3>4 DEF PagesRead
    <3> QED BY <1>1, <2>6, <3>5 DEF Row, Ahead
  <2> QED BY <2>4, <2>5, <2>6
<1> QED BY <1>1, <1>3, <1>4 DEF PagesInv

\* Every step keeps what the pages have read.
LEMMA PagesStep ==
  ASSUME TypeInv, DatesInv, PagesInv, Next, kind \in {"arxiv", "cninfo"}
  PROVE  PagesInv'
<1>1. TypeInv' /\ Grows /\ kind' = kind /\ MarksFit /\ PagesRead
  BY TypeStep, Growing, RunStaysSound DEF PagesInv
<1>2. ~Caught /\ run.pc \in {"idle", "list", "done"}
  BY PagePlaces
<1>3. ASSUME UNCHANGED <<site, today, cursor>>, Alike(run', run)
      PROVE  PagesInv'
  <2>1. QueryFrom' = QueryFrom
    BY <1>1, <1>3 DEF QueryFrom
  <2>2. MarksFit'
    BY <1>1, <1>3, <2>1 DEF MarksFit, Alike
  <2>3. Query' = Query /\ Rows' = Rows
    BY <1>1, <1>3 DEF Query, InWindow, Since, Rows, Alike
  <2>4. PagesRead'
    BY <1>1, <1>3, <2>3 DEF PagesRead, Ahead, NewRank, Newer, Row, Alike
  <2> QED BY <2>2, <2>4 DEF PagesInv
<1>4. ASSUME run' = NoRun, cursor'.mark = None \/ cursor'.mark <= today'
      PROVE  PagesInv'
  BY <1>4 DEF PagesInv, MarksFit, PagesRead, NoRun
<1>5. CASE Start
  <2>1. /\ run'.pc = "list" /\ run'.next = cursor /\ run'.from = QueryFrom /\ run'.day = today
        /\ run'.latest = None
    BY <1>5, StartSound
  <2>2. UNCHANGED <<site, today, cursor>>
    BY <1>5 DEF Start
  <2>3. QueryFrom' = QueryFrom
    BY <1>1, <2>2 DEF QueryFrom
  <2>4. kind = "cninfo" => QueryFrom \in Int
    BY <1>1, CninfoFrom DEF MarksFit, CninfoAsks
  <2>5. today \in Nat
    BY Limits DEF TypeInv, Days
  <2>6. MarksFit'
    BY <1>1, <2>1, <2>2, <2>3, <2>4, <2>5 DEF MarksFit
  <2>7. PagesRead'
    BY <2>1 DEF PagesRead, Ahead
  <2> QED BY <2>6, <2>7 DEF PagesInv
<1>6. CASE Unmodified
  <2>1. /\ run'.pc = "done" /\ run'.latest = run.latest /\ run'.next = run.next
        /\ run'.from = run.from /\ run'.day = run.day
    BY <1>6, UnmodifiedSound
  <2>2. run.pc = "list" /\ run.page = 1 /\ UNCHANGED <<site, today, cursor>>
    BY <1>6 DEF Unmodified, NotModified
  <2>3. QueryFrom' = QueryFrom
    BY <1>1, <2>2 DEF QueryFrom
  <2>4. MarksFit'
    BY <1>1, <2>1, <2>2, <2>3 DEF MarksFit
  <2>5. PagesRead'
    BY <1>1, <2>1, <2>2 DEF PagesRead, Ahead, MarksFit
  <2> QED BY <2>4, <2>5 DEF PagesInv
<1>7. CASE List
  BY <1>7, ListPages
<1>8. CASE Commit
  <2>1. run' = NoRun /\ cursor' = run.next /\ today' = today /\ run.pc # "idle"
    BY <1>8 DEF Commit
  <2> QED BY <1>1, <1>4, <2>1 DEF MarksFit
<1>9. CASE TransportFails \/ Refused \/ (\E wait \in Waits \cup {0} : Busy(wait)) \/ OutOfTime
           \/ Unwind
  <2>1. UNCHANGED <<site, today, cursor>>
    BY <1>9 DEF TransportFails, Refused, Busy, OutOfTime, Unwind
  <2>2. Alike(run', run) \/ run' = NoRun
    BY <1>2, <1>9, FaultSound
  <2> QED BY <1>1, <1>3, <1>4, <2>1, <2>2 DEF MarksFit
<1>10. CASE Garbled
  <2>1. kind = "arxiv" /\ run.pc = "list" /\ Asking /\ UNCHANGED <<site, today, cursor>>
    BY <1>10 DEF Garbled, Fault, Send
  <2>2. /\ run'.pc = "done" /\ run'.warned = TRUE /\ run'.from = run.from
        /\ run'.next.mark = IF run'.latest = None THEN run.next.mark ELSE run'.latest
        /\ \E seen : ToSet(seen) \subseteq Rows /\ run'.latest = Latest(seen)
    BY <1>10, <2>1, GarbledSound
  <2>3. PICK seen : ToSet(seen) \subseteq Rows /\ run'.latest = Latest(seen)
    BY <2>2
  <2>4. /\ Latest(seen) = None => run.latest = None
        /\ Latest(seen) = None \/ Latest(seen) <= today
    BY <1>1, <2>3, LatestFact DEF DatesInv, MarksFit
  <2>5. QueryFrom' = QueryFrom
    BY <1>1, <2>1 DEF QueryFrom
  <2>6. run'.next.mark = IF run'.latest = None THEN cursor.mark ELSE run'.latest
    BY <1>1, <2>1, <2>2, <2>3, <2>4 DEF MarksFit
  <2>7. MarksFit'
    BY <1>1, <2>1, <2>2, <2>3, <2>4, <2>5, <2>6 DEF MarksFit
  <2>8. PagesRead'
    BY <2>2 DEF PagesRead
  <2> QED BY <2>7, <2>8 DEF PagesInv
<1>11. CASE Publish \/ Revise \/ NewDay
  <2>1. UNCHANGED <<kind, run, cursor>>
    BY <1>11 DEF Publish, Revise, NewDay
  <2> QED BY <1>1, <2>1, SitePages
<1>12. ~Inner /\ ~Detail /\ ~TokenExpires
  BY <1>2 DEF Inner, Detail, TokenExpires
<1> QED
  BY <1>5, <1>6, <1>7, <1>8, <1>9, <1>10, <1>11, <1>12 DEF Next, RunStep

-----------------------------------------------------------------------------
(* The sets of an OAI source, and where a pass through them is.            *)

\* The rest of a listing, from a token on.
LEMMA FromRanks ==
  ASSUME NEW s, NEW S, NEW rank, Lists(s, S, rank), NEW k \in Nat,
         NEW rest, rest = From(Min({k, Len(s)}), s)
  PROVE  ToSet(rest) = {i \in S : rank[i] >= k}
<1>1. s \in Seq(S)
  BY DEF Lists
<1>2. PICK c \in Nat : c = Len(s)
  BY <1>1
<1>3. PICK m \in 0..c : m = Min({k, Len(s)}) /\ m = IF k <= c THEN k ELSE c
  BY <1>2, MinMax
<1>4. rest \in Seq(S) /\ Len(rest) = c - m /\ \A n \in 1..Len(rest) : rest[n] = s[m + n]
  BY <1>1, <1>2, <1>3, FromFact
<1>5. PICK l \in Nat : l = Len(rest) /\ DOMAIN rest = 1..l /\ l = c - m
  BY <1>4, LenProperties
<1>6. ToSet(rest) = {rest[n] : n \in 1..l} /\ ToSet(rest) \subseteq S
  BY <1>4, <1>5, SeqSet DEF ToSet
<1>7. \A i \in S : rank[i] \in Nat /\ rank[i] < c /\ s[rank[i] + 1] = i
  BY <1>2 DEF Lists
<1>8. ASSUME NEW i \in S, i \in ToSet(rest)
      PROVE  rank[i] >= k
  <2>1. PICK n \in 1..l : i = rest[n]
    BY <1>6, <1>8
  <2>2. PICK x \in 1..c : x = m + n /\ s[x] = i
    <3>1. PICK x \in 1..c : x = m + n
      BY <1>5
    <3>2. rest[n] = s[m + n]
      BY <1>4, <1>5
    <3> QED BY <2>1, <3>1, <3>2
  <2>3. rank[i] = x - 1
    BY <1>2, <2>2 DEF Lists
  <2> QED BY <1>3, <1>5, <2>2, <2>3
<1>9. ASSUME NEW i \in S, rank[i] >= k
      PROVE  i \in ToSet(rest)
  <2>1. m = k
    BY <1>3, <1>7, <1>9
  <2>2. PICK n \in 1..l : n = rank[i] + 1 - k
    BY <1>5, <1>7, <1>9, <2>1
  <2>3. m + n = rank[i] + 1
    BY <1>7, <2>1, <2>2
  <2>4. rest[n] = i
    BY <1>4, <1>5, <1>7, <2>3
  <2> QED BY <1>6, <2>4
<1> QED BY <1>6, <1>8, <1>9

\* A token is within its set.
Fits(token, unit, mark) == token <= Cardinality(Since(OnShelf(unit), mark))

\* The rows the next request, and the sets after it, have to bring.
Due(i) ==
  /\ site[i].date >= cursor.mark
  /\ \/ site[i].shelf > cursor.unit
     \/ /\ site[i].shelf = cursor.unit
        /\ OldRank(Since(OnShelf(cursor.unit), cursor.mark), i) >= cursor.token

TokensFit ==
  /\ cursor.mark # None /\ cursor.mark <= today
  /\ Fits(cursor.token, cursor.unit, cursor.mark)
  /\ run.pc # "idle" =>
       /\ run.from = cursor.mark /\ run.next.mark # None /\ run.next.mark <= today
       /\ Fits(run.next.token, run.next.unit, run.next.mark)
  /\ run.pc = "list" =>
       run.unit >= cursor.unit /\ Fits(run.token, run.unit, run.from) /\ run.next = cursor

Kept(i) == Row(i) \in stored \cup reported \cup run.got \/ i \in skipped

\* The row is in a set, or on a page of the set, that the pass has left behind.
Behind(i) ==
  \/ site[i].shelf < run.unit
  \/ /\ site[i].shelf = run.unit
     /\ OldRank(Since(OnShelf(run.unit), run.from), i) < run.token

\* What the pass has left behind is kept.
PassRead ==
  run.pc \in {"list", "done"} /\ ~run.warned =>
    \A i \in Since(Rows, run.from) :
      site[i].sound /\ (run.pc = "list" => Behind(i)) => Kept(i)

OaiInv == kind = "oai" => TokensFit /\ PassRead

\* The rows the next OAI requests cover are those they have to bring.
LEMMA OaiReach ==
  TypeInv /\ kind = "oai" /\ cursor.mark # None => \A i \in Rows : Reachable(i) <=> Due(i)
<1> SUFFICES ASSUME TypeInv, kind = "oai", cursor.mark # None, NEW i \in Rows
             PROVE  Reachable(i) <=> Due(i)
  OBVIOUS
<1>1. PICK S \in SUBSET Rows : S = Since(OnShelf(site[i].shelf), cursor.mark)
  BY DEF Since, OnShelf
<1>2. SiteOK
  BY SiteTypes DEF TypeInv
<1>3. PICK rank : rank = [j \in S |-> OldRank(S, j)]
  OBVIOUS
<1>4. PICK q : q = OldestFirst(S)
  OBVIOUS
<1>5. Lists(q, S, rank)
  BY <1>2, <1>3, <1>4, OldestLists
<1>6. PICK k \in Nat : k = cursor.token
  BY DEF TypeInv, Cursors
<1>7. PICK rest : rest = From(Min({k, Len(q)}), q)
  OBVIOUS
<1>8. ToSet(rest) = {j \in S : rank[j] >= k}
  BY <1>5, <1>7, FromRanks
<1>9. i \in S <=> site[i].date >= cursor.mark
  BY <1>1 DEF Since, OnShelf
<1>10. i \in ToSet(rest) <=> site[i].date >= cursor.mark /\ OldRank(S, i) >= k
  BY <1>3, <1>8, <1>9
<1>11. Reachable(i) <=> \/ site[i].date >= cursor.mark /\ site[i].shelf > cursor.unit
                        \/ site[i].shelf = cursor.unit /\ i \in ToSet(rest)
  BY <1>1, <1>4, <1>6, <1>7 DEF Reachable
<1> QED BY <1>1, <1>6, <1>10, <1>11 DEF Due

\* The same after a step.
LEMMA OaiReachNext ==
  (TypeInv /\ kind = "oai" /\ cursor.mark # None => \A i \in Rows : Reachable(i) <=> Due(i))'
BY OaiReach, PTL

\* While a set grows, the ranks in it stay, and a new row has the last one.
LEMMA SetsGrow ==
  ASSUME TypeInv, TypeInv', Grows, kind = "oai", kind' = kind, NEW u, NEW d
  PROVE  /\ \A token \in Nat : Fits(token, u, d) => Fits(token, u, d)'
         /\ \A i \in Rows : OldRank(Since(OnShelf(u), d), i)' = OldRank(Since(OnShelf(u), d), i)
         /\ \A i \in Rows' \ Rows, token \in Nat :
              Fits(token, u, d) => OldRank(Since(OnShelf(u), d), i)' >= token
<1>1. PICK A : A = Since(OnShelf(u), d)
  OBVIOUS
<1>2. PICK B : B = Since(OnShelf(u), d)'
  OBVIOUS
<1>3. \A i \in Rows : site'[i].date = site[i].date /\ site'[i].shelf = site[i].shelf /\ i \in Rows'
  BY DEF Grows
<1>4. A = {i \in Rows : site[i].shelf = u /\ (d = None \/ site[i].date >= d)}
  BY <1>1 DEF Since, OnShelf
<1>5. B = {i \in Rows' : site'[i].shelf = u /\ (d = None \/ site'[i].date >= d)}
  BY <1>2 DEF Since, OnShelf
<1>6. A \subseteq B /\ A \subseteq Rows /\ \A i \in B : i \in Rows => i \in A
  BY <1>3, <1>4, <1>5
<1>7. /\ IsFiniteSet(B) /\ IsFiniteSet(A) /\ Cardinality(A) <= Cardinality(B)
      /\ Cardinality(A) \in Nat /\ Cardinality(B) \in Nat
  <2>1. IsFiniteSet(Rows') /\ B \in SUBSET Rows'
    BY <1>5, SiteTypesNext
  <2>2. IsFiniteSet(B)
    BY <2>1, FS_Subset
  <2> QED BY <1>6, <2>2, FS_Subset, FS_CardinalityType
<1>8. /\ Len(site) \in Nat /\ Rows = 1..Len(site)
      /\ \A i \in Rows' \ Rows : i = Len(site) + 1
      /\ \A i \in Rows' : i \in Nat
  BY SiteTypes, SiteTypesNext DEF TypeInv, Grows
<1>9. ASSUME NEW i \in Rows
      PROVE  OldRank(B, i) = OldRank(A, i)
  <2>1. \A j \in B : j < i => j \in A
    <3>1. ASSUME NEW j \in B, j < i
          PROVE  j \in A
      <4>1. j \in Rows' /\ j # Len(site) + 1
        BY <1>5, <1>8, <3>1
      <4> QED BY <1>6, <1>8, <4>1
    <3> QED BY <3>1
  <2>2. {j \in B : j < i} = {j \in A : j < i}
    BY <1>6, <2>1
  <2> QED BY <2>2 DEF OldRank
<1>10. ASSUME NEW i \in Rows' \ Rows
       PROVE  OldRank(B, i) >= Cardinality(A) /\ OldRank(B, i) \in Nat
  <2>1. PICK C : C = {j \in B : j < i}
    OBVIOUS
  <2>2. A \subseteq C /\ C \subseteq B
    BY <1>6, <1>8, <2>1
  <2>3. IsFiniteSet(C) /\ Cardinality(A) <= Cardinality(C) /\ Cardinality(C) \in Nat
    <3>1. IsFiniteSet(C)
      BY <1>7, <2>2, FS_Subset
    <3> QED BY <2>2, <3>1, FS_Subset, FS_CardinalityType
  <2> QED BY <2>1, <2>3, <1>7 DEF OldRank
<1>11. /\ \A i : OldRank(Since(OnShelf(u), d), i)' = OldRank(B, i)
       /\ \A i : OldRank(Since(OnShelf(u), d), i) = OldRank(A, i)
  BY <1>1, <1>2 DEF OldRank
<1>12. \A token : /\ Fits(token, u, d) <=> token <= Cardinality(A)
                  /\ Fits(token, u, d)' <=> token <= Cardinality(B)
  BY <1>1, <1>2 DEF Fits
<1> QED BY <1>7, <1>9, <1>10, <1>11, <1>12

\* A page of a set, or a token that has expired, takes the pass further.
LEMMA OaiPasses ==
  ASSUME TypeInv, OaiInv, List \/ TokenExpires, kind = "oai"
  PROVE  OaiInv'
<1>1. /\ run.pc = "list" /\ Asking /\ TokensFit /\ PassRead
      /\ UNCHANGED <<kind, site, today, cursor, stored, reported, skipped>>
  BY DEF List, TokenExpires, Fault, Send, OaiInv
<1>2. PICK S \in SUBSET Rows : S = Since(OnShelf(run.unit), run.from)
  BY DEF Since, OnShelf
<1>3. PICK rank : rank = [i \in S |-> OldRank(S, i)]
  OBVIOUS
<1>4. /\ run.unit \in 1..Shelves[kind] /\ Shelves[kind] \in Nat /\ run.token \in Nat /\ PageSize \in Nat \ {0}
      /\ cursor.unit \in 1..Shelves[kind] /\ today \in Nat
  BY Limits DEF TypeInv, Sound, Runs, Cursors, Days
<1>5. IsFiniteSet(S) /\ Cardinality(S) \in Nat
  BY <1>2, SiteTypes, FS_Subset, FS_CardinalityType DEF TypeInv
<1>6. PICK r, token :
        /\ token \in Nat /\ AtPage(r) /\ run' = OaiNext(r, token) /\ run.got \subseteq r.got
        /\ token # 0 => token < Cardinality(S)
        /\ ~r.warned =>
             /\ ~run.warned
             /\ \A i \in S : site[i].sound /\ rank[i] < run.token + PageSize =>
                  Kept(i) \/ Row(i) \in r.got
             /\ token = run.token + PageSize \/ (token = 0 /\ Cardinality(S) <= run.token + PageSize)
  <2>1. CASE List
    <3>1. run' = OaiPage
      BY <2>1 DEF List, Listed
    <3>2. PICK seen, r, token :
           /\ Slices(seen, S, rank, run.token)
           /\ ToSet(seen) \subseteq Rows /\ Takes(r, seen) /\ AtPage(r)
           /\ token \in Nat /\ OaiPage = OaiNext(r, token)
           /\ \/ token = run.token + PageSize /\ token < Cardinality(S)
              \/ token = 0 /\ Cardinality(S) <= run.token + PageSize
      BY <1>1, <1>2, <1>3, OaiPageSteps
    <3>3. r.got = run.got \cup Accepted(ToSet(seen)) /\ r.warned = run.warned
      BY <3>2 DEF Takes
    <3>4. ASSUME ~run.warned, NEW i \in S, site[i].sound, rank[i] < run.token + PageSize
          PROVE  Kept(i) \/ Row(i) \in r.got
      <4>1. CASE rank[i] < run.token
        <5>1. i \in Since(Rows, run.from) /\ Behind(i)
          BY <1>2, <1>3, <4>1 DEF Since, OnShelf, Behind
        <5> QED BY <1>1, <3>4, <5>1 DEF PassRead
      <4>2. CASE ~(rank[i] < run.token)
        <5>1. rank[i] \in Nat
          <6>1. SiteOK
            BY SiteTypes DEF TypeInv
          <6> QED BY <1>2, <1>3, <6>1, OldestLists DEF Lists
        <5>2. i \in ToSet(seen)
          BY <1>4, <3>2, <3>4, <4>2, <5>1 DEF Slices
        <5> QED BY <3>3, <3>4, <5>2 DEF Accepted
      <4> QED BY <4>1, <4>2
    <3> QED BY <3>1, <3>2, <3>3, <3>4
  <2>2. CASE TokenExpires
    <3>1. PICK r : r = [Answered(run) EXCEPT !.warned = TRUE]
      OBVIOUS
    <3>2. Sound(r)
      BY <3>1, SmallSteps DEF TypeInv
    <3>3. AtPage(r) /\ r.warned /\ r.got = run.got
      BY <1>1, <3>1, <3>2 DEF AtPage, Answered, TypeInv, Sound, Runs
    <3>4. run' = OaiNext(r, 0) /\ 0 \in Nat
      BY <2>2, <3>1 DEF TokenExpires, OaiExpired
    <3> QED BY <3>3, <3>4
  <2> QED BY <2>1, <2>2
<1>7. /\ Sound(run') /\ run'.got = r.got /\ run'.from = run.from /\ OaiEnds(run', r, token)
  BY <1>1, <1>6, OaiNextSound
<1>8. PICK unit \in Nat : unit = IF token = 0 THEN run.unit + 1 ELSE run.unit
  BY <1>4
<1>9. \/ /\ unit > Shelves[kind] /\ run'.pc = "done" /\ run'.warned = r.warned
         /\ run'.next.mark = today /\ run'.next.unit = 1 /\ run'.next.token = 0
      \/ /\ run'.pc = "done" /\ run'.warned
         /\ run'.next.unit = unit /\ run'.next.token = token /\ run'.next.mark = cursor.mark
      \/ /\ run'.pc = "list" /\ run'.warned = r.warned /\ run'.unit = unit /\ run'.token = token
         /\ run'.next = cursor
  <2>1. r.unit = run.unit /\ r.next = cursor
    BY <1>1, <1>6 DEF AtPage, TokensFit
  <2> QED BY <1>7, <1>8, <2>1 DEF OaiEnds
<1>10. \A t, u, d : Fits(t, u, d)' <=> Fits(t, u, d)
  BY <1>1 DEF Fits, Since, OnShelf, Rows
<1>11. \A u, d : Fits(0, u, d)
  <2>1. ASSUME NEW u, NEW d
        PROVE  Fits(0, u, d)
    <3>1. PICK A \in SUBSET Rows : A = Since(OnShelf(u), d)
      BY DEF Since, OnShelf
    <3>2. Cardinality(A) \in Nat
      BY <3>1, SiteTypes, FS_Subset, FS_CardinalityType DEF TypeInv
    <3> QED BY <3>1, <3>2 DEF Fits
  <2> QED BY <2>1
<1>12. run.from = cursor.mark /\ Fits(token, unit, cursor.mark)
  <2>1. run.from = cursor.mark
    BY <1>1 DEF TokensFit
  <2>2. CASE token = 0
    BY <1>11, <2>1, <2>2
  <2>3. CASE token # 0
    BY <1>2, <1>5, <1>6, <1>8, <2>1, <2>3 DEF Fits
  <2> QED BY <2>2, <2>3
<1>13. TokensFit'
  <2>1. unit >= cursor.unit
    BY <1>1, <1>4, <1>8 DEF TokensFit
  <2>2. run'.pc # "idle" /\ run'.from = cursor.mark
    BY <1>7, <1>9, <1>12
  <2>3. run'.next.mark # None /\ run'.next.mark <= today
    BY <1>1, <1>4, <1>9, Limits DEF TokensFit
  <2>4. Fits(run'.next.token, run'.next.unit, run'.next.mark)
    BY <1>1, <1>9, <1>11, <1>12 DEF TokensFit
  <2>5. run'.pc = "list" => run'.unit >= cursor.unit /\ Fits(run'.token, run'.unit, run'.from)
                            /\ run'.next = cursor
    BY <1>9, <1>12, <2>1, <2>2
  <2>6. cursor.mark # None /\ cursor.mark <= today /\ Fits(cursor.token, cursor.unit, cursor.mark)
    BY <1>1 DEF TokensFit
  <2> QED BY <1>1, <1>10, <2>2, <2>3, <2>4, <2>5, <2>6 DEF TokensFit
<1>14. PassRead'
  <2>1. Rows' = Rows /\ Since(Rows, run.from)' = Since(Rows, run.from)
    BY <1>1, <1>7 DEF Rows, Since
  <2> SUFFICES ASSUME ~run'.warned, NEW i \in Since(Rows, run.from), site[i].sound,
                      run'.pc = "list" => Behind(i)'
               PROVE  Kept(i) \/ Row(i) \in r.got
    BY <1>1, <1>6, <1>7, <2>1 DEF PassRead, Kept, Row
  <2>2. ~r.warned /\ (run'.pc = "done" => unit > Shelves[kind])
    BY <1>9
  <2>3. site[i].shelf \in 1..Shelves[kind] /\ i \in Rows
    BY SiteTypes DEF TypeInv, Since
  <2>4. CASE site[i].shelf < run.unit
    <3>1. Behind(i)
      BY <2>4 DEF Behind
    <3> QED BY <1>1, <1>6, <2>2, <3>1 DEF PassRead
  <2>5. CASE site[i].shelf = run.unit
    <3>1. i \in S
      BY <1>2, <2>3, <2>5 DEF Since, OnShelf
    <3>2. rank[i] \in Nat /\ rank[i] < Cardinality(S)
      <4>1. SiteOK
        BY SiteTypes DEF TypeInv
      <4> QED BY <1>2, <1>3, <1>5, <3>1, <4>1, OldestLists DEF Lists
    <3>3. rank[i] < run.token + PageSize
      <4>1. CASE token = 0 /\ Cardinality(S) <= run.token + PageSize
        BY <1>4, <1>5, <3>2, <4>1
      <4>2. CASE token = run.token + PageSize /\ token # 0
        <5>1. unit = run.unit /\ run'.pc = "list" /\ run'.unit = run.unit /\ run'.token = token
          BY <1>4, <1>8, <1>9, <2>2, <4>2
        <5>2. Behind(i)'
          BY <5>1
        <5>3. OldRank(S, i) < token
          BY <1>1, <1>2, <1>4, <1>7, <2>5, <5>1, <5>2
             DEF Behind, OldRank, Since, OnShelf, Rows
        <5> QED BY <1>3, <3>1, <4>2, <5>3
      <4>3. token = 0 => Cardinality(S) <= run.token + PageSize
        BY <1>4, <1>5, <1>6, <2>2
      <4> QED BY <1>6, <2>2, <4>1, <4>2, <4>3
    <3> QED BY <1>6, <2>2, <3>1, <3>3
  <2>6. ~(site[i].shelf > run.unit)
    <3>1. CASE run'.pc = "done"
      BY <1>4, <1>8, <2>2, <2>3, <3>1
    <3>2. CASE run'.pc = "list"
      <4>1. run'.unit = unit /\ run'.token = token
        BY <1>9, <3>2
      <4>2. site[i].shelf < unit \/ (site[i].shelf = unit /\ OldRank(Since(OnShelf(unit), run.from), i) < token)
        BY <1>1, <1>7, <3>2, <4>1 DEF Behind, OldRank, Since, OnShelf, Rows
      <4>3. unit = run.unit => ~(site[i].shelf > run.unit)
        BY <1>4, <2>3, <4>2
      <4>4. token = 0 => ~(site[i].shelf = unit)
        <5>1. OldRank(Since(OnShelf(unit), run.from), i) \in Nat
          <6>1. PICK A \in SUBSET Rows : A = {j \in Since(OnShelf(unit), run.from) : j < i}
            BY DEF Since, OnShelf
          <6>2. Cardinality(A) \in Nat
            BY SiteTypes, FS_Subset, FS_CardinalityType DEF TypeInv
          <6> QED BY <6>1, <6>2 DEF OldRank
        <5>2. ASSUME token = 0, site[i].shelf = unit
              PROVE  FALSE
          <6>1. OldRank(Since(OnShelf(unit), run.from), i) < 0
            BY <1>4, <1>8, <2>3, <4>2, <5>2
          <6> QED BY <5>1, <6>1
        <5> QED BY <5>2
      <4> QED BY <1>4, <1>8, <2>3, <4>2, <4>3, <4>4
    <3> QED BY <1>9, <3>1, <3>2
  <2> QED BY <1>4, <2>3, <2>4, <2>5, <2>6
<1> QED BY <1>1, <1>13, <1>14 DEF OaiInv

\* Every step keeps what the pass has read.
LEMMA OaiStep ==
  ASSUME TypeInv, LossIsReported, OaiInv, Next, kind = "oai"
  PROVE  OaiInv'
<1>1. TypeInv' /\ Grows /\ kind' = kind /\ TokensFit /\ PassRead
  BY TypeStep, Growing, RunStaysSound DEF OaiInv
<1>2. ~Caught /\ run.pc \in {"idle", "list", "done"}
  BY DEF TypeInv, Sound, Runs, Caught
<1>3. ASSUME UNCHANGED <<site, today, cursor, stored, reported, skipped>>, Alike(run', run)
      PROVE  OaiInv'
  <2>1. \A t, u, d : Fits(t, u, d)' <=> Fits(t, u, d)
    BY <1>3 DEF Fits, Since, OnShelf, Rows
  <2>2. TokensFit'
    BY <1>1, <1>3, <2>1 DEF TokensFit, Alike
  <2>3. PassRead'
    BY <1>1, <1>3 DEF PassRead, Behind, Kept, OldRank, Since, OnShelf, Rows, Row, Alike
  <2> QED BY <2>2, <2>3 DEF OaiInv
<1>4. ASSUME UNCHANGED site, run' = NoRun, cursor'.mark # None, cursor'.mark <= today',
             Fits(cursor'.token, cursor'.unit, cursor'.mark)
      PROVE  OaiInv'
  <2>1. Fits(cursor.token, cursor.unit, cursor.mark)'
    BY <1>4 DEF Fits, Since, OnShelf, Rows
  <2>2. run'.pc = "idle"
    BY <1>4 DEF NoRun
  <2> QED BY <1>4, <2>1, <2>2 DEF OaiInv, TokensFit, PassRead
<1>5. CASE Start
  <2>1. /\ run'.pc = "list" /\ run'.next = cursor /\ run'.from = QueryFrom
        /\ run'.unit = cursor.unit /\ run'.token = cursor.token /\ ~run'.warned
    BY <1>5, StartSound
  <2>2. UNCHANGED <<site, today, cursor, stored, reported, skipped>>
    BY <1>5 DEF Start
  <2>3. run'.from = cursor.mark
    BY <2>1 DEF QueryFrom
  <2>4. \A t, u, d : Fits(t, u, d)' <=> Fits(t, u, d)
    BY <2>2 DEF Fits, Since, OnShelf, Rows
  <2>5. cursor.unit \in Nat
    BY Limits DEF TypeInv, Cursors
  <2>6. TokensFit'
    BY <1>1, <2>1, <2>2, <2>3, <2>4, <2>5 DEF TokensFit
  <2>7. ASSUME NEW i \in Since(Rows, cursor.mark), site[i].sound,
               \/ site[i].shelf < cursor.unit
               \/ /\ site[i].shelf = cursor.unit
                  /\ OldRank(Since(OnShelf(cursor.unit), cursor.mark), i) < cursor.token
        PROVE  Row(i) \in stored \cup reported \/ i \in skipped
    <3>1. i \in Rows /\ site[i].shelf \in Nat
      BY SiteTypes, Limits DEF TypeInv, Since
    <3>2. OldRank(Since(OnShelf(cursor.unit), cursor.mark), i) \in Nat /\ cursor.token \in Nat
      <4>1. PICK A \in SUBSET Rows :
              A = {j \in Since(OnShelf(cursor.unit), cursor.mark) : j < i}
        BY DEF Since, OnShelf
      <4>2. Cardinality(A) \in Nat
        BY SiteTypes, FS_Subset, FS_CardinalityType DEF TypeInv
      <4> QED BY <4>1, <4>2 DEF OldRank, TypeInv, Cursors
    <3>3. ~Due(i)
      BY <2>5, <2>7, <3>1, <3>2 DEF Due
    <3>4. ~Reachable(i)
      BY <1>1, <3>1, <3>3, OaiReach DEF TokensFit
    <3>5. ~Gone(i)
      BY DEF Gone
    <3> QED BY <2>7, <3>1, <3>4, <3>5 DEF LossIsReported
  <2>8. PassRead'
    <3>1. Rows' = Rows /\ \A d : Since(Rows, d)' = Since(Rows, d)
      BY <2>2 DEF Rows, Since
    <3> SUFFICES ASSUME NEW i \in Since(Rows, cursor.mark), site[i].sound, Behind(i)'
                 PROVE  Row(i) \in stored \cup reported \/ i \in skipped
      BY <2>1, <2>2, <2>3, <3>1 DEF PassRead, Kept, Row, Since
    <3>2. \/ site[i].shelf < cursor.unit
          \/ /\ site[i].shelf = cursor.unit
             /\ OldRank(Since(OnShelf(cursor.unit), cursor.mark), i) < cursor.token
      BY <2>1, <2>2, <2>3 DEF Behind, OldRank, Since, OnShelf, Rows
    <3> QED BY <2>7, <3>2
  <2> QED BY <2>6, <2>8 DEF OaiInv
<1>6. CASE List \/ TokenExpires
  BY <1>6, OaiPasses
<1>7. CASE Commit
  <2>1. run' = NoRun /\ cursor' = run.next /\ UNCHANGED <<site, today>> /\ run.pc # "idle"
    BY <1>7 DEF Commit
  <2> QED BY <1>1, <1>4, <2>1 DEF TokensFit
<1>8. CASE TransportFails \/ Refused \/ (\E wait \in Waits \cup {0} : Busy(wait)) \/ OutOfTime
           \/ Unwind
  <2>1. UNCHANGED <<site, today, cursor, stored, reported, skipped>>
    BY <1>8 DEF TransportFails, Refused, Busy, OutOfTime, Unwind
  <2>2. Alike(run', run) \/ run' = NoRun
    BY <1>2, <1>8, FaultSound
  <2> QED BY <1>1, <1>3, <1>4, <2>1, <2>2 DEF TokensFit
<1>9. CASE Publish \/ Revise \/ NewDay
  <2>1. UNCHANGED <<run, cursor, stored, reported>> /\ today' >= today /\ today \in Nat
        /\ today' \in Nat
    <3>1. today \in Nat /\ today' \in Nat
      BY <1>1, Limits DEF TypeInv, Days
    <3> QED BY <1>1, <1>9, <3>1 DEF Publish, Revise, NewDay, Grows
  <2>2. \A u, d : \A t \in Nat : Fits(t, u, d) => Fits(t, u, d)'
    BY <1>1, SetsGrow
  <2>3. /\ cursor \in Cursors(kind) /\ run.next \in Cursors(kind) /\ run.token \in Nat
        /\ cursor.token \in Nat /\ run.next.token \in Nat
        /\ cursor.mark \in Nat \cup {None} /\ run.next.mark \in Nat \cup {None}
    <3>1. Days(kind) \subseteq Nat
      BY Limits DEF TypeInv, Days
    <3> QED BY <3>1 DEF TypeInv, Sound, Runs, Cursors
  <2>4. TokensFit'
    <3>1. Fits(cursor.token, cursor.unit, cursor.mark)'
      <4>1. PICK token, u, d : token \in Nat /\ token = cursor.token /\ u = cursor.unit /\ d = cursor.mark
        BY <2>3
      <4>2. Fits(token, u, d)
        <5>1. Fits(cursor.token, cursor.unit, cursor.mark)
          BY <1>1 DEF TokensFit
        <5> QED BY <4>1, <5>1
      <4>3. Fits(token, u, d)'
        BY <2>2, <4>1, <4>2
      <4> QED BY <2>1, <4>1, <4>3 DEF Fits, Since, OnShelf
    <3>2. run.pc # "idle" => Fits(run.next.token, run.next.unit, run.next.mark)'
      <4> SUFFICES ASSUME run.pc # "idle" PROVE Fits(run.next.token, run.next.unit, run.next.mark)'
        OBVIOUS
      <4>1. PICK token, u, d : token \in Nat /\ token = run.next.token /\ u = run.next.unit /\ d = run.next.mark
        BY <2>3
      <4>2. Fits(token, u, d)
        <5>1. Fits(run.next.token, run.next.unit, run.next.mark)
          BY <1>1 DEF TokensFit
        <5> QED BY <4>1, <5>1
      <4>3. Fits(token, u, d)'
        BY <2>2, <4>1, <4>2
      <4> QED BY <2>1, <4>1, <4>3 DEF Fits, Since, OnShelf
    <3>3. run.pc = "list" => Fits(run.token, run.unit, run.from)'
      <4> SUFFICES ASSUME run.pc = "list" PROVE Fits(run.token, run.unit, run.from)'
        OBVIOUS
      <4>1. PICK token, u, d : token \in Nat /\ token = run.token /\ u = run.unit /\ d = run.from
        BY <2>3
      <4>2. Fits(token, u, d)
        <5>1. Fits(run.token, run.unit, run.from)
          BY <1>1 DEF TokensFit
        <5> QED BY <4>1, <5>1
      <4>3. Fits(token, u, d)'
        BY <2>2, <4>1, <4>2
      <4> QED BY <2>1, <4>1, <4>3 DEF Fits, Since, OnShelf
    <3>4. /\ cursor.mark # None /\ cursor.mark <= today'
          /\ run.pc # "idle" => run.next.mark # None /\ run.next.mark <= today'
      BY <1>1, <2>1, <2>3 DEF TokensFit
    <3>5. run' = run /\ cursor' = cursor
      BY <2>1
    <3> QED BY <1>1, <3>1, <3>2, <3>3, <3>4, <3>5 DEF TokensFit
  <2>5. PassRead'
    <3> SUFFICES ASSUME run.pc \in {"list", "done"}, ~run.warned, NEW i \in Since(Rows, run.from)',
                        site'[i].sound, run.pc = "list" => Behind(i)'
                 PROVE  Kept(i)'
      BY <2>1 DEF PassRead
    <3>1. i \in Rows' /\ (run.from = None \/ site'[i].date >= run.from)
      BY <2>1 DEF Since
    <3>2. \A j \in Rows : /\ site'[j].date = site[j].date /\ site'[j].shelf = site[j].shelf
                          /\ site'[j].sound = site[j].sound
      BY <1>1 DEF Grows
    <3>3. PICK a : a = OldRank(Since(OnShelf(run.unit), run.from), i)
      OBVIOUS
    <3>4. PICK b : b = OldRank(Since(OnShelf(run.unit), run.from), i)'
      OBVIOUS
    <3>5. Behind(i)' <=> site'[i].shelf < run.unit \/ (site'[i].shelf = run.unit /\ b < run.token)
      BY <2>1, <3>4 DEF Behind
    <3>6. CASE i \in Rows
      <4>1. OldRank(Since(OnShelf(run.unit), run.from), i)' = a
        <5>1. PICK u, d : u = run.unit /\ d = run.from
          OBVIOUS
        <5>2. OldRank(Since(OnShelf(u), d), i)' = OldRank(Since(OnShelf(u), d), i)
          BY <1>1, <3>6, SetsGrow
        <5> QED BY <2>1, <3>3, <5>1, <5>2 DEF OldRank, Since, OnShelf
      <4>2. run.pc = "list" => Behind(i)
        BY <3>2, <3>3, <3>4, <3>5, <3>6, <4>1 DEF Behind
      <4>3. i \in Since(Rows, run.from) /\ site[i].sound
        BY <3>1, <3>2, <3>6 DEF Since
      <4>4. Kept(i)
        BY <1>1, <4>2, <4>3 DEF PassRead
      <4> QED BY <1>1, <2>1, <3>2, <3>6, <4>4 DEF Kept, Row, Grows
    <3>7. CASE i \notin Rows
      <4>1. Passed(site'[i].shelf) => i \in skipped'
        BY <1>1, <3>1, <3>7 DEF Grows
      <4>2. site'[i].shelf \in 1..Shelves[kind] /\ Shelves[kind] \in Nat
        BY <1>1, <3>1, <3>7, Limits DEF Grows, TypeInv
      <4>3. CASE run.pc = "done"
        <5>1. Passed(site'[i].shelf)
          BY <4>2, <4>3 DEF Passed
        <5> QED BY <4>1, <5>1 DEF Kept
      <4>4. CASE run.pc = "list" /\ site'[i].shelf < run.unit
        <5>1. Passed(site'[i].shelf)
          BY <4>4 DEF Passed
        <5> QED BY <4>1, <5>1 DEF Kept
      <4>5. CASE run.pc = "list" /\ b < run.token
        <5>1. PICK u, d : u = run.unit /\ d = run.from
          OBVIOUS
        <5>2. Fits(run.token, u, d)
          BY <1>1, <4>5, <5>1 DEF TokensFit
        <5>3. OldRank(Since(OnShelf(u), d), i)' >= run.token
          BY <1>1, <2>3, <3>1, <3>7, <5>2, SetsGrow
        <5>4. b >= run.token
          BY <2>1, <3>4, <5>1, <5>3 DEF OldRank, Since, OnShelf
        <5>5. b \in Nat
          <6>1. PICK A \in SUBSET (Rows') : A = {j \in Since(OnShelf(run.unit), run.from)' : j < i}
            BY DEF Since, OnShelf
          <6>2. Cardinality(A) \in Nat
            BY <1>1, SiteTypesNext, FS_Subset, FS_CardinalityType
          <6> QED BY <3>4, <6>1, <6>2 DEF OldRank
        <5> QED BY <2>3, <4>5, <5>4, <5>5
      <4> QED BY <3>5, <4>3, <4>4, <4>5
    <3> QED BY <3>6, <3>7
  <2> QED BY <2>4, <2>5 DEF OaiInv
<1>10. ~Inner /\ ~Detail /\ ~Unmodified /\ ~Garbled
  BY <1>2 DEF Inner, Detail, Unmodified, NotModified, Conditional, Garbled
<1> QED
  BY <1>5, <1>6, <1>7, <1>8, <1>9, <1>10 DEF Next, RunStep

-----------------------------------------------------------------------------
(* The filings of a company.                                               *)

\* The last filing seen is one the site has, and a run that lists is at the
\* one its cursor names.
FilingsFit ==
  /\ cursor.last <= Len(site)
  /\ run.pc # "idle" => run.next.last <= Len(site)
  /\ run.pc = "list" => run.next.last = cursor.last

\* Once they are listed, every filing up to the next cursor is kept or gone.
FilingsRead ==
  run.pc \in {"detail", "done"} =>
    \A i \in Rows : i <= run.next.last /\ site[i].sound => Kept(i) \/ Gone(i)

SecInv == kind = "sec" => FilingsFit /\ FilingsRead

\* What a detail page leaves of the run.
LEMMA NextEntryKeeps ==
  ASSUME kind \in Kinds, NEW r, Sound(r), r.pc = "detail", NEW w \in BOOLEAN,
         NEW s, s = [Answered(r) EXCEPT !.warned = w]
  PROVE  /\ NextEntry(s).pc \in {"detail", "done"}
         /\ NextEntry(s).got = r.got /\ NextEntry(s).next = r.next
         /\ s.got = r.got /\ s.next = r.next /\ s.pc = r.pc
<1>1. s = [r EXCEPT !.attempt = 1, !.warned = w]
  BY DEF Answered
<1>2. /\ s.got = r.got /\ s.next = r.next /\ s.pc = "detail"
      /\ s \in Runs(kind)
  <2>1. 1 \in 1..Attempts
    BY Limits
  <2> QED BY <1>1, <2>1 DEF Sound, Runs
<1>3. NextEntry(s) = [s EXCEPT !.todo = Tail(s.todo),
                                !.pc = IF Len(s.todo) > 1 THEN s.pc ELSE "done"]
  BY <1>2 DEF NextEntry, Runs
<1>4. /\ NextEntry(s).got = s.got /\ NextEntry(s).next = s.next
      /\ NextEntry(s).pc = IF Len(s.todo) > 1 THEN s.pc ELSE "done"
  BY <1>2, <1>3 DEF Runs
<1> QED BY <1>2, <1>4

\* Every step keeps what the filings have been read to.
LEMMA SecStep ==
  ASSUME TypeInv, LossIsReported, SecInv, Next, kind = "sec"
  PROVE  SecInv'
<1>1. TypeInv' /\ Grows /\ kind' = kind /\ FilingsFit /\ FilingsRead
  BY TypeStep, Growing, RunStaysSound DEF SecInv
<1>2. run.pc \in {"idle", "list", "detail", "done"} /\ Rows = 1..Len(site) /\ Len(site) \in Nat
      /\ cursor.last \in Nat /\ kind \in Kinds /\ Sound(run)
      /\ \A i \in Rows : i \in Nat /\ site[i].date \in Nat
  BY SiteTypes DEF TypeInv, Sound, Runs, Cursors
<1>3. ASSUME UNCHANGED <<site, today, cursor, stored, reported, skipped>>,
             run'.got = run.got, run'.next = run.next,
             \/ run'.pc = run.pc
             \/ run.pc \in {"detail", "done"} /\ run'.pc \in {"detail", "done"}
      PROVE  SecInv'
  <2>1. Rows' = Rows /\ \A i \in Rows : (Kept(i)' <=> Kept(i)) /\ (Gone(i)' <=> Gone(i))
    BY <1>1, <1>3 DEF Rows, Kept, Gone, Row
  <2>2. FilingsFit'
    BY <1>1, <1>2, <1>3 DEF FilingsFit
  <2>3. FilingsRead'
    BY <1>1, <1>2, <1>3, <2>1 DEF FilingsRead
  <2> QED BY <2>2, <2>3 DEF SecInv
<1>4. ASSUME UNCHANGED site, run' = NoRun, cursor'.last <= Len(site)
      PROVE  SecInv'
  BY <1>4 DEF SecInv, FilingsFit, FilingsRead, NoRun
<1>5. \A i \in Rows : i <= cursor.last /\ site[i].sound => Kept(i) \/ Gone(i)
  <2>1. ASSUME NEW i \in Rows, i <= cursor.last, site[i].sound
        PROVE  Kept(i) \/ Gone(i)
    <3>1. ~Reachable(i)
      BY <1>2, <2>1 DEF Reachable
    <3> QED BY <2>1, <3>1 DEF LossIsReported, Kept
  <2> QED BY <2>1
<1>6. CASE Start
  <2>1. run'.pc = "list" /\ run'.next = cursor /\ UNCHANGED <<site, cursor>>
    BY <1>6, StartSound DEF Start
  <2> QED BY <1>1, <2>1 DEF SecInv, FilingsFit, FilingsRead
<1>7. CASE Unmodified
  <2>1. /\ run'.pc = "done" /\ run'.got = run.got /\ run'.next = run.next /\ run.pc = "list"
        /\ UNCHANGED <<site, today, cursor, stored, reported, skipped>>
    BY <1>7, UnmodifiedSound DEF Unmodified
  <2>2. Rows' = Rows /\ \A i \in Rows : (Kept(i)' <=> Kept(i)) /\ (Gone(i)' <=> Gone(i))
    BY <1>1, <2>1 DEF Rows, Kept, Gone, Row
  <2>3. FilingsFit'
    BY <1>1, <2>1 DEF FilingsFit
  <2>4. FilingsRead'
    BY <1>1, <1>5, <2>1, <2>2 DEF FilingsRead, FilingsFit
  <2> QED BY <2>3, <2>4 DEF SecInv
<1>8. CASE List
  <2>1. /\ run' = SecList /\ run.pc = "list" /\ Asking
        /\ UNCHANGED <<site, today, cursor, stored, reported, skipped>>
    BY <1>8 DEF List, Listed, Send
  <2>2. PICK new \in SUBSET Rows :
          new = {i \in Rows : i > cursor.last /\ site[i].date >= today - Lookback + 1}
    OBVIOUS
  <2>3. /\ run'.pc \in {"detail", "done"} /\ run'.got = run.got \cup Accepted(new)
        /\ run'.next.last = Len(site)
    BY <2>1, <2>2, SecSound
  <2>4. FilingsFit'
    BY <1>1, <1>2, <2>1, <2>3 DEF FilingsFit
  <2>5. ASSUME NEW i \in Rows, site[i].sound
        PROVE  Kept(i)' \/ Gone(i)'
    <3>1. CASE i <= cursor.last
      <4>1. Kept(i) \/ Gone(i)
        BY <1>5, <2>5, <3>1
      <4> QED BY <1>1, <2>1, <2>3, <4>1 DEF Kept, Gone, Row
    <3>2. CASE i \in new
      <4>1. Row(i) \in Accepted(new)
        BY <2>5, <3>2 DEF Accepted
      <4> QED BY <2>1, <2>3, <4>1 DEF Kept, Row
    <3>3. CASE ~(i <= cursor.last) /\ i \notin new
      <4>1. PICK d \in Int : d = today - Lookback + 1
        BY Limits DEF TypeInv, Days
      <4>2. site[i].date < d
        BY <1>2, <2>2, <3>3, <4>1
      <4> QED BY <1>1, <2>1, <4>1, <4>2 DEF Gone
    <3> QED BY <3>1, <3>2, <3>3
  <2>6. FilingsRead'
    BY <2>1, <2>5 DEF FilingsRead, Rows
  <2> QED BY <2>4, <2>6 DEF SecInv
<1>9. CASE Detail
  <2>1. /\ run.pc = "detail" /\ run' = NextEntry(Answered(run))
        /\ UNCHANGED <<site, today, cursor, stored, reported, skipped>>
    BY <1>9 DEF Detail
  <2>2. run.warned \in BOOLEAN /\ Answered(run) = [Answered(run) EXCEPT !.warned = run.warned]
    BY <1>2 DEF Answered, Sound, Runs
  <2>3. run'.pc \in {"detail", "done"} /\ run'.got = run.got /\ run'.next = run.next
    BY <1>2, <2>1, <2>2, NextEntryKeeps
  <2> QED BY <1>3, <2>1, <2>3
<1>10. CASE Commit
  <2>1. run' = NoRun /\ cursor' = run.next /\ UNCHANGED site /\ run.pc # "idle"
    BY <1>10 DEF Commit
  <2> QED BY <1>1, <1>4, <2>1 DEF FilingsFit
<1>11. CASE TransportFails \/ Refused \/ (\E wait \in Waits \cup {0} : Busy(wait)) \/ OutOfTime
            \/ Unwind
  <2>1. UNCHANGED <<site, today, cursor, stored, reported, skipped>>
    BY <1>11 DEF TransportFails, Refused, Busy, OutOfTime, Unwind
  <2>2. CASE Alike(run', run)
    BY <1>3, <2>1, <2>2 DEF Alike
  <2>3. CASE run' = NoRun
    BY <1>1, <1>4, <2>1, <2>3 DEF FilingsFit
  <2>4. CASE Caught /\ \E r : Alike(r, run) /\ Sound(r) /\ run' = GoesOn(r)
    <3>1. PICK r : Alike(r, run) /\ Sound(r) /\ run' = GoesOn(r)
      BY <2>4
    <3>2. run.pc = "detail" /\ r.pc = "detail" /\ r.got = run.got /\ r.next = run.next
      BY <1>2, <2>4, <3>1 DEF Caught, Alike
    <3>3. run' = NextEntry([Answered(r) EXCEPT !.warned = TRUE])
      BY <3>1, <3>2 DEF GoesOn
    <3>4. run'.pc \in {"detail", "done"} /\ run'.got = run.got /\ run'.next = run.next
      <4>1. PICK w, s : w \in BOOLEAN /\ w = TRUE /\ s = [Answered(r) EXCEPT !.warned = w]
        OBVIOUS
      <4>2. /\ NextEntry(s).pc \in {"detail", "done"}
            /\ NextEntry(s).got = r.got /\ NextEntry(s).next = r.next
        BY <1>2, <3>1, <3>2, <4>1, NextEntryKeeps
      <4> QED BY <3>2, <3>3, <4>1, <4>2
    <3> QED BY <1>3, <2>1, <3>2, <3>4
  <2> QED BY <1>11, <2>2, <2>3, <2>4, FaultSound
<1>12. CASE Publish \/ Revise \/ NewDay
  <2>1. run' = run /\ cursor' = cursor /\ stored' = stored /\ reported' = reported
    BY <1>12 DEF Publish, Revise, NewDay
  <2>2. Len(site') \in Nat /\ Len(site') >= Len(site)
    BY <1>1, SiteStays, SiteTypes DEF TypeInv
  <2>3. cursor.last \in Nat /\ run.next.last \in Nat
    BY DEF TypeInv, Sound, Runs, Cursors
  <2>4. FilingsFit'
    BY <1>1, <1>2, <2>1, <2>2, <2>3 DEF FilingsFit
  <2>5. ASSUME run.pc \in {"detail", "done"}, NEW i \in Rows', i <= run.next.last, site'[i].sound
        PROVE  Kept(i)' \/ Gone(i)'
    <3>1. i \in Rows
      <4>1. i \in Nat
        BY <1>1, SiteTypesNext
      <4> QED BY <1>1, <1>2, <2>3, <2>5, <4>1 DEF FilingsFit, Grows
    <3>2. site'[i].date = site[i].date /\ site[i].sound
      BY <1>1, <2>5, <3>1 DEF Grows
    <3>3. Kept(i) \/ Gone(i)
      BY <1>1, <2>5, <3>1, <3>2 DEF FilingsRead
    <3>4. CASE Kept(i)
      BY <1>1, <2>1, <3>2, <3>4 DEF Kept, Row, Grows
    <3>5. CASE Gone(i)
      <4>1. PICK d \in Int : d = today - Lookback + 1 /\ site[i].date < d
        <5>1. today - Lookback + 1 \in Int
          BY Limits DEF TypeInv, Days
        <5>2. site[i].date < today - Lookback + 1
          BY <3>5 DEF Gone
        <5> QED BY <5>1, <5>2
      <4>2. PICK e \in Int : e = today' - Lookback + 1 /\ d <= e
        <5>1. PICK u \in Nat, t \in Nat : u = today' /\ t = today /\ t <= u
          BY <1>1, Limits DEF TypeInv, Days, Grows
        <5>2. PICK z \in Nat : z = Lookback
          BY Limits
        <5>3. d = t - z + 1
          BY <4>1, <5>1, <5>2
        <5>4. PICK e \in Int : e = u - z + 1
          OBVIOUS
        <5>5. t \in Nat /\ u \in Nat /\ t <= u
          BY <5>1
        <5>6. t - z + 1 <= u - z + 1
          BY <5>2, <5>5
        <5>7. d <= e
          BY <5>3, <5>4, <5>6
        <5> QED BY <5>1, <5>2, <5>4, <5>7
      <4>3. site'[i].date < e
        BY <1>2, <3>1, <3>2, <4>1, <4>2
      <4> QED BY <1>1, <4>2, <4>3 DEF Gone
    <3> QED BY <3>3, <3>4, <3>5
  <2>6. FilingsRead'
    BY <2>1, <2>5 DEF FilingsRead
  <2> QED BY <2>4, <2>6 DEF SecInv
<1>13. ~Inner /\ ~TokenExpires /\ ~Garbled
  BY <1>2 DEF Inner, TokenExpires, Garbled
<1> QED
  BY <1>6, <1>7, <1>8, <1>9, <1>10, <1>11, <1>12, <1>13 DEF Next, RunStep

-----------------------------------------------------------------------------
(* Nothing is lost in silence.                                             *)

\* The overlap of the watermark reaches back to the row.
Fresh(i) == cursor.mark = None \/ site[i].date >= cursor.mark - Overlap

\* What the next query covers, for the two collectors with a watermark.
MarkReach ==
  \A i \in Rows : /\ Reachable(i) => Fresh(i)
                  /\ Fresh(i) => Reachable(i) \/ Gone(i)

\* A row within the overlap of the watermark is covered, or gone.
LEMMA MarksReach ==
  TypeInv /\ kind \in {"arxiv", "cninfo"} /\ (cursor.mark = None \/ cursor.mark <= today)
    => MarkReach
<1> SUFFICES ASSUME TypeInv, kind \in {"arxiv", "cninfo"},
                    cursor.mark = None \/ cursor.mark <= today, NEW i \in Rows
             PROVE  /\ Reachable(i) => Fresh(i)
                    /\ Fresh(i) => Reachable(i) \/ Gone(i)
  BY DEF MarkReach
<1>1. PICK d \in Nat : d = site[i].date
  BY SiteTypes DEF TypeInv
<1>2. cursor.mark \in Nat \cup {None} /\ today \in Nat /\ None \notin Int
  BY Limits DEF TypeInv, Days, Cursors
<1>3. PICK c : c = cursor.mark - Overlap /\ (cursor.mark # None => c \in Int)
  BY <1>2, Limits
<1>4. Fresh(i) <=> cursor.mark = None \/ d >= c
  BY <1>1, <1>3 DEF Fresh
<1>5. Reachable(i) <=> QueryFrom = None \/ d >= QueryFrom
  BY <1>1 DEF Reachable, Since
<1>6. CASE kind = "arxiv"
  <2>1. QueryFrom = IF cursor.mark = None THEN None ELSE c
    BY <1>3, <1>6 DEF QueryFrom
  <2> QED BY <1>2, <1>3, <1>4, <1>5, <2>1
<1>7. CASE kind = "cninfo"
  <2>1. PICK a \in Int : a = today - Lookback
    BY <1>2, Limits
  <2>2. QueryFrom \in Int /\ QueryFrom = IF cursor.mark = None \/ a >= c THEN a ELSE c
    BY <1>3, <1>7, <2>1, CninfoFrom DEF CninfoAsks
  <2>3. Gone(i) <=> d < a
    BY <1>1, <1>7, <2>1 DEF Gone
  <2>4. Reachable(i) <=> d >= QueryFrom
    BY <1>2, <1>5, <2>2
  <2> QED BY <1>1, <1>2, <1>3, <1>4, <2>1, <2>2, <2>3, <2>4
<1> QED BY <1>6, <1>7

\* The same after a step.
LEMMA MarksReachNext ==
  (TypeInv /\ kind \in {"arxiv", "cninfo"} /\ (cursor.mark = None \/ cursor.mark <= today)
    => MarkReach)'
BY MarksReach, PTL

\* The other collectors ask for everything every time, or for all the days that
\* count.
Whole == {"sse", "samr", "openreview", "volumes", "html", "feed"}

\* So these collectors lose nothing.
LEMMA WholeReach == TypeInv /\ kind \in Whole => LossIsReported
<1> SUFFICES ASSUME TypeInv, kind \in Whole, NEW i \in Rows
             PROVE  Reachable(i) \/ Gone(i)
  BY DEF LossIsReported
<1>1. CASE kind = "sse"
  <2>1. PICK d \in Nat : d = site[i].date
    BY SiteTypes DEF TypeInv
  <2>2. PICK a \in Int : a = today - Lookback + 1
    BY Limits DEF TypeInv, Days
  <2>3. Gone(i) <=> d < a
    BY <1>1, <2>1, <2>2 DEF Gone
  <2>4. d >= a => Reachable(i)
    BY <1>1, <2>1, <2>2 DEF Reachable, Since, QueryFrom
  <2> QED BY <2>1, <2>2, <2>3, <2>4
<1>2. CASE kind # "sse"
  BY <1>2 DEF Whole, Reachable
<1> QED BY <1>1, <1>2

\* The same after a step.
LEMMA WholeReachNext == (TypeInv /\ kind \in Whole => LossIsReported)'
BY WholeReach, PTL

\* A row that the next query does not cover is accounted for.
LEMMA Unreached ==
  ASSUME LossIsReported, NEW i \in Rows, site[i].sound, ~Reachable(i)
  PROVE  Row(i) \in stored \cup reported \/ Gone(i) \/ i \in skipped
BY DEF LossIsReported

\* A commit moves the watermark only over rows it stores or warns about.
LEMMA CommitLoses ==
  ASSUME TypeInv, TypeInv', PagesInv, PagesInv', OaiInv, SecInv, LossIsReported, Commit
  PROVE  LossIsReported'
<1>1. /\ run.pc = "done" /\ stored' = stored \cup run.got /\ cursor' = run.next
      /\ reported' = IF run.warned THEN reported \cup Accepted(Rows) ELSE reported
      /\ UNCHANGED <<kind, site, today, skipped>>
  BY DEF Commit
<1>2. Rows' = Rows /\ \A i \in Rows : Row(i)' = Row(i) /\ (Gone(i)' <=> Gone(i))
  BY <1>1 DEF Rows, Row, Gone, Newer
<1>3. SUFFICES ASSUME NEW i \in Rows, site[i].sound
               PROVE  \/ Row(i) \in stored' \cup reported'
                      \/ Reachable(i)' \/ Gone(i) \/ i \in skipped
  BY <1>1, <1>2 DEF LossIsReported
<1>4. ~Reachable(i) => \/ Row(i) \in stored' \cup reported'
                       \/ Gone(i) \/ i \in skipped
  BY <1>1, <1>3, Unreached
<1>5. CASE run.warned
  BY <1>1, <1>3, <1>5 DEF Accepted
<1>6. CASE ~run.warned /\ kind \in {"arxiv", "cninfo"}
  <2>1. MarksFit /\ PagesRead /\ MarksFit'
    BY <1>1, <1>6 DEF PagesInv
  <2>2. cursor'.mark = IF run.latest = None THEN cursor.mark ELSE run.latest
    BY <1>1, <2>1 DEF MarksFit
  <2>3. i \in Query => Row(i) \in run.got \/ Ahead(i)
    BY <1>1, <1>3, <1>6, <2>1 DEF PagesRead
  <2>4. MarkReach' /\ MarkReach
    BY <1>1, <1>6, <2>1, MarksReach, MarksReachNext DEF MarksFit
  <2>5. CASE run.latest = None
    <3>1. QueryFrom' = QueryFrom
      BY <1>1, <1>6, <2>2, <2>5 DEF QueryFrom
    <3>2. Reachable(i)' <=> Reachable(i)
      BY <1>1, <1>2, <1>6, <3>1 DEF Reachable, Since
    <3> QED BY <1>4, <3>2
  <2>6. CASE run.latest # None
    <3>1. cursor'.mark = run.latest
      BY <2>2, <2>6
    <3>2. Ahead(i) => Fresh(i)'
      BY <1>1, <3>1 DEF Ahead, Fresh
    <3>3. Ahead(i) => Reachable(i)' \/ Gone(i)
      BY <1>2, <2>4, <3>2 DEF MarkReach
    <3>4. i \in Query => Row(i) \in stored' \/ Reachable(i)' \/ Gone(i)
      BY <1>1, <2>3, <3>3
    <3>5. /\ site[i].date \in Nat /\ run.latest \in Nat /\ run.day \in Nat
          /\ run.from \in Int \cup {None} /\ None \notin Int
      BY <2>6, SiteTypes, Limits DEF TypeInv, Sound, Runs, Days, Dates
    <3>6. CASE run.from # None /\ site[i].date < run.from
      <4>1. QueryFrom \in Int /\ run.from <= QueryFrom
        <5>1. CASE kind = "arxiv"
          BY <1>1, <2>1, <3>5, <3>6, <5>1 DEF MarksFit
        <5>2. CASE kind = "cninfo"
          BY <1>1, <2>1, <5>2, CninfoFrom DEF MarksFit, CninfoAsks
        <5> QED BY <1>6, <5>1, <5>2
      <4>2. site[i].date < QueryFrom /\ QueryFrom # None
        BY <3>5, <3>6, <4>1
      <4>3. ~(site[i].date >= QueryFrom)
        BY <3>5, <4>1, <4>2
      <4>4. ~Reachable(i)
        BY <1>6, <4>2, <4>3 DEF Reachable, Since
      <4> QED BY <1>4, <4>4
    <3>7. CASE ~(run.from # None /\ site[i].date < run.from) /\ i \notin Query
      <4>1. run.from = None \/ site[i].date >= run.from
        BY <3>5, <3>7
      <4>2. kind = "cninfo" /\ ~(site[i].date <= run.day)
        BY <1>6, <3>7, <4>1 DEF Query, InWindow, Since
      <4>3. run.latest <= run.day
        BY <1>1, <2>1, <2>6, <4>2 DEF MarksFit
      <4>4. site[i].date >= run.latest - Overlap
        BY <3>5, <4>2, <4>3, Limits
      <4>5. Ahead(i)
        BY <4>4 DEF Ahead
      <4> QED BY <3>3, <4>5
    <3> QED BY <3>4, <3>6, <3>7
  <2> QED BY <2>5, <2>6
<1>7. CASE ~run.warned /\ kind = "oai"
  <2>1. TokensFit /\ PassRead
    BY <1>7 DEF OaiInv
  <2>2. CASE i \in Since(Rows, run.from)
    <3>1. Kept(i)
      BY <1>1, <1>3, <1>7, <2>1, <2>2 DEF PassRead
    <3> QED BY <1>1, <1>7, <3>1 DEF Kept
  <2>3. CASE i \notin Since(Rows, run.from)
    <3>1. ~(site[i].date >= cursor.mark)
      BY <1>1, <2>1, <2>3 DEF Since, TokensFit
    <3>2. ~Reachable(i)
      BY <1>7, <2>1, <3>1, OaiReach DEF TokensFit, Due
    <3> QED BY <1>4, <3>2
  <2> QED BY <2>2, <2>3
<1>8. CASE ~run.warned /\ kind = "sec"
  <2>1. run.next.last \in Nat /\ i \in Nat
    BY SiteTypes DEF TypeInv, Sound, Runs, Cursors
  <2>2. CASE i <= run.next.last
    <3>1. Kept(i) \/ Gone(i)
      BY <1>1, <1>3, <1>8, <2>2 DEF SecInv, FilingsRead
    <3> QED BY <1>1, <3>1 DEF Kept
  <2>3. CASE i > run.next.last
    BY <1>1, <1>8, <2>3 DEF Reachable
  <2> QED BY <2>1, <2>2, <2>3
<1>9. CASE kind \in Whole
  <2>1. LossIsReported'
    BY <1>1, <1>9, WholeReachNext
  <2> QED BY <1>1, <1>2, <1>3, <2>1 DEF LossIsReported
<1>10. kind \in AllKinds
  BY Limits DEF TypeInv
<1> QED BY <1>5, <1>6, <1>7, <1>8, <1>9, <1>10 DEF AllKinds, Whole

\* What is gone stays gone.
LEMMA StaysGone ==
  ASSUME TypeInv, TypeInv', Grows, kind' = kind, kind \in {"sec", "cninfo"},
         NEW i \in Rows, site'[i].date = site[i].date, Gone(i)
  PROVE  Gone(i)'
<1>1. PICK t, u : t \in Nat /\ u \in Nat /\ t = today /\ u = today' /\ t <= u
  BY Limits DEF TypeInv, Days, Grows
<1>2. PICK z \in Nat : z = Lookback
  BY Limits
<1>3. PICK d \in Nat : d = site[i].date /\ d = site'[i].date
  BY SiteTypes DEF TypeInv
<1>4. t \in Nat /\ u \in Nat /\ t <= u
  BY <1>1
<1>5. CASE kind = "sec"
  <2>1. Gone(i) <=> d < t - z + 1
    BY <1>1, <1>2, <1>3, <1>5 DEF Gone
  <2>2. Gone(i)' <=> d < u - z + 1
    BY <1>1, <1>2, <1>3, <1>5 DEF Gone
  <2> QED BY <1>2, <1>3, <1>4, <2>1, <2>2
<1>6. CASE kind = "cninfo"
  <2>1. Gone(i) <=> d < t - z
    BY <1>1, <1>2, <1>3, <1>6 DEF Gone
  <2>2. Gone(i)' <=> d < u - z
    BY <1>1, <1>2, <1>3, <1>6 DEF Gone
  <2> QED BY <1>2, <1>3, <1>4, <2>1, <2>2
<1> QED BY <1>5, <1>6

\* What the site does meanwhile loses nothing: a row it adds or moves is ahead
\* of the watermark, and no cursor covers less than it did, but for days that
\* no longer count.
LEMMA GrowingLoses ==
  ASSUME TypeInv, TypeInv', Grows, PagesInv, PagesInv', OaiInv, OaiInv', SecInv, LossIsReported,
         UNCHANGED <<kind, run, cursor, stored, reported>>
  PROVE  LossIsReported'
<1>1. /\ kind' = kind /\ run' = run /\ cursor' = cursor /\ stored' = stored
      /\ reported' = reported /\ skipped \subseteq skipped'
  BY DEF Grows
<1>2. SUFFICES ASSUME NEW i \in Rows', site'[i].sound
               PROVE  \/ Row(i)' \in stored \cup reported
                      \/ Reachable(i)' \/ Gone(i)' \/ i \in skipped'
  BY <1>1 DEF LossIsReported
<1>3. /\ today \in Nat /\ today' \in Nat /\ today' >= today /\ site'[i].date \in Nat
      /\ cursor.mark \in Nat \cup {None} /\ None \notin Int
      /\ site'[i].shelf \in 1..Shelves[kind] /\ Shelves[kind] \in Nat
  <2>1. Days(kind) \subseteq Nat /\ Days(kind') \subseteq Nat
    BY Limits DEF TypeInv, Days
  <2>2. today \in Days(kind) /\ today' \in Days(kind') /\ cursor.mark \in Days(kind) \cup {None}
    BY DEF TypeInv, Cursors
  <2>3. site'[i].date \in Nat /\ site'[i].shelf \in 1..Shelves[kind]
    BY SiteTypesNext
  <2> QED BY <2>1, <2>2, <2>3, Limits DEF Grows, TypeInv
<1>4. \/ i \notin Rows
      \/ i \in Rows /\ kind = "arxiv" /\ site'[i].date = today
      \/ /\ i \in Rows /\ site'[i].date = site[i].date /\ site'[i].shelf = site[i].shelf
         /\ site[i].sound /\ Row(i)' = Row(i)
  BY <1>2 DEF Grows, Row
<1>5. ASSUME i \in Rows, site'[i].date = site[i].date, site[i].sound, Row(i)' = Row(i)
      PROVE  \/ Row(i)' \in stored \cup reported
             \/ Reachable(i) \/ Gone(i) \/ i \in skipped'
  BY <1>1, <1>5 DEF LossIsReported
<1>6. CASE kind \in {"arxiv", "cninfo"}
  <2>1. /\ MarksFit /\ MarkReach /\ MarkReach'
    BY <1>1, <1>6, MarksReach, MarksReachNext DEF PagesInv, MarksFit
  <2>2. Fresh(i)' => Reachable(i)' \/ Gone(i)'
    BY <2>1 DEF MarkReach
  <2>3. Fresh(i)' <=> cursor.mark = None \/ site'[i].date >= cursor.mark - Overlap
    BY <1>1 DEF Fresh
  <2>4. cursor.mark = None \/ cursor.mark <= today
    BY <2>1 DEF MarksFit
  <2>5. CASE site'[i].date >= today - Lag
    <3>1. cursor.mark = None \/ site'[i].date >= cursor.mark - Overlap
      BY <1>3, <2>4, <2>5, Limits
    <3> QED BY <2>2, <2>3, <3>1
  <2>6. CASE i \notin Rows
    <3>1. site'[i].date >= today - Lag
      BY <1>2, <1>3, <2>6, Limits DEF Grows
    <3> QED BY <2>5, <3>1
  <2>7. CASE i \in Rows /\ kind = "arxiv" /\ site'[i].date = today
    <3>1. site'[i].date >= today - Lag
      BY <1>3, <2>7, Limits
    <3> QED BY <2>5, <3>1
  <2>8. CASE i \in Rows /\ site'[i].date = site[i].date /\ site[i].sound /\ Row(i)' = Row(i)
    <3>1. Reachable(i) => Fresh(i)'
      BY <1>1, <2>1, <2>8 DEF MarkReach, Fresh
    <3>2. Gone(i) => Gone(i)'
      <4>1. kind = "arxiv" => ~Gone(i)
        BY DEF Gone
      <4> QED BY <1>1, <1>6, <2>8, <4>1, StaysGone
    <3> QED BY <1>5, <2>2, <2>8, <3>1, <3>2
  <2> QED BY <1>4, <2>6, <2>7, <2>8
<1>7. CASE kind = "oai"
  <2>1. TokensFit /\ (\A j \in Rows : Reachable(j) <=> Due(j))
        /\ (\A j \in Rows' : Reachable(j)' <=> Due(j)')
    BY <1>1, <1>7, OaiReach, OaiReachNext DEF OaiInv, TokensFit
  <2>2. PICK u, d, token : /\ u = cursor.unit /\ d = cursor.mark /\ token = cursor.token
                           /\ u \in Nat /\ d \in Nat /\ token \in Nat /\ d <= today
    BY <1>3, <2>1, Limits DEF TokensFit, TypeInv, Cursors
  <2>3. PICK rank : rank = OldRank(Since(OnShelf(u), d), i)'
    OBVIOUS
  <2>4. Due(i)' <=> /\ site'[i].date >= d
                    /\ \/ site'[i].shelf > u
                       \/ site'[i].shelf = u /\ rank >= token
    BY <1>1, <2>2, <2>3 DEF Due, OldRank, Since, OnShelf
  <2>5. CASE i \notin Rows
    <3>1. Passed(site'[i].shelf) => i \in skipped'
      BY <1>2, <2>5 DEF Grows
    <3>2. CASE site'[i].shelf < u
      <4>1. run.pc = "list" => run.unit >= u /\ run.unit \in Nat
        BY <2>1, <2>2, Limits DEF TokensFit, TypeInv, Sound, Runs
      <4>2. run.pc \in {"idle", "list", "done"}
        BY <1>7 DEF TypeInv, Sound, Runs
      <4>3. Passed(site'[i].shelf)
        BY <1>3, <1>7, <2>2, <3>2, <4>1, <4>2 DEF Passed
      <4> QED BY <3>1, <4>3
    <3>3. CASE ~(site'[i].shelf < u)
      <4>1. site'[i].date = today
        BY <1>2, <1>7, <2>5 DEF Grows
      <4>2. Fits(token, u, d)
        <5>1. Fits(cursor.token, cursor.unit, cursor.mark)
          BY <2>1 DEF TokensFit
        <5> QED BY <2>2, <5>1
      <4>3. rank >= token
        BY <1>1, <1>2, <1>7, <2>2, <2>3, <2>5, <4>2, SetsGrow
      <4>4. Due(i)'
        BY <1>3, <2>2, <2>4, <3>3, <4>1, <4>3
      <4> QED BY <1>2, <2>1, <4>4
    <3> QED BY <3>2, <3>3
  <2>6. CASE i \in Rows /\ site'[i].date = site[i].date /\ site'[i].shelf = site[i].shelf
             /\ site[i].sound /\ Row(i)' = Row(i)
    <3>1. rank = OldRank(Since(OnShelf(u), d), i)
      BY <1>1, <1>7, <2>3, <2>6, SetsGrow
    <3>2. Due(i) => Due(i)'
      <4>1. Due(i) <=> /\ site[i].date >= d
                       /\ \/ site[i].shelf > u
                          \/ site[i].shelf = u /\ rank >= token
        BY <2>2, <3>1 DEF Due
      <4> QED BY <2>4, <2>6, <4>1
    <3>3. Reachable(i) => Reachable(i)'
      BY <1>2, <2>1, <2>6, <3>2
    <3>4. ~Gone(i)
      BY <1>7 DEF Gone
    <3> QED BY <1>5, <2>6, <3>3, <3>4
  <2> QED BY <1>4, <1>7, <2>5, <2>6
<1>8. CASE kind = "sec"
  <2>1. Reachable(i)' <=> i > cursor.last
    BY <1>1, <1>8 DEF Reachable
  <2>2. CASE i \notin Rows
    <3>1. i = Len(site) + 1
      BY <1>2, <2>2 DEF Grows
    <3>2. cursor.last <= Len(site) /\ cursor.last \in Nat /\ Len(site) \in Nat
      BY <1>8, SiteTypes DEF SecInv, FilingsFit, TypeInv, Cursors
    <3> QED BY <2>1, <3>1, <3>2
  <2>3. CASE i \in Rows /\ site'[i].date = site[i].date /\ site[i].sound /\ Row(i)' = Row(i)
    <3>1. Reachable(i) => Reachable(i)'
      BY <1>8, <2>1 DEF Reachable
    <3>2. Gone(i) => Gone(i)'
      BY <1>1, <1>8, <2>3, StaysGone
    <3> QED BY <1>5, <2>3, <3>1, <3>2
  <2> QED BY <1>4, <1>8, <2>2, <2>3
<1>9. CASE kind \in Whole
  <2>1. LossIsReported'
    BY <1>1, <1>9, WholeReachNext
  <2> QED BY <1>1, <1>2, <2>1 DEF LossIsReported
<1>10. kind \in AllKinds
  BY Limits DEF TypeInv
<1> QED BY <1>6, <1>7, <1>8, <1>9, <1>10 DEF AllKinds, Whole

\* What a run knows of what it has read, for every collector.
LossInv == TypeInv /\ DatesInv /\ PagesInv /\ OaiInv /\ SecInv /\ LossIsReported

\* At the start nothing is published.
LEMMA LossInit ==
  ASSUME Init
  PROVE  LossInv
<1>1. TypeInv
  BY TypeInit
<1>2. Rows = {} /\ today = 0 /\ Len(site) = 0
  BY DEF Init, Rows
<1>3. run.pc = "idle" /\ run.latest = None
  BY DEF Init, NoRun
<1>4. DatesInv /\ LossIsReported
  BY <1>2 DEF DatesInv, LossIsReported
<1>5. PagesInv
  <2>1. kind # "oai" => cursor.mark = None
    BY DEF Init, NoCursor
  <2> QED BY <1>3, <2>1 DEF PagesInv, MarksFit, PagesRead
<1>6. OaiInv
  <2> SUFFICES ASSUME kind = "oai" PROVE TokensFit /\ PassRead
    BY DEF OaiInv
  <2>1. cursor.mark = 0 /\ cursor.token = 0
    BY DEF Init, NoCursor
  <2>2. Fits(cursor.token, cursor.unit, cursor.mark)
    <3>1. Since(OnShelf(cursor.unit), cursor.mark) = {}
      BY <1>2 DEF Since, OnShelf
    <3> QED BY <2>1, <3>1, FS_EmptySet DEF Fits
  <2>3. cursor.mark # None /\ cursor.mark <= today
    BY <1>2, <2>1, Limits
  <2> QED BY <1>3, <2>2, <2>3 DEF TokensFit, PassRead
<1>7. SecInv
  <2>1. cursor.last = 0
    BY DEF Init, NoCursor
  <2> QED BY <1>2, <1>3, <2>1 DEF SecInv, FilingsFit, FilingsRead
<1> QED BY <1>1, <1>4, <1>5, <1>6, <1>7 DEF LossInv

\* Every step keeps what the runs know.
LEMMA LossStep ==
  ASSUME LossInv, [Next]_vars
  PROVE  LossInv'
<1>0. TypeInv /\ DatesInv /\ PagesInv /\ OaiInv /\ SecInv /\ LossIsReported
  BY DEF LossInv
<1>1. CASE Next
  <2>1. TypeInv' /\ DatesInv' /\ kind' = kind
    BY <1>0, <1>1, TypeStep, DatesStep, RunStaysSound
  <2>2. PagesInv'
    BY <1>0, <1>1, <2>1, PagesStep DEF PagesInv
  <2>3. OaiInv'
    BY <1>0, <1>1, <2>1, OaiStep DEF OaiInv
  <2>4. SecInv'
    BY <1>0, <1>1, <2>1, SecStep DEF SecInv
  <2>5. LossIsReported'
    <3>1. CASE Commit
      BY <1>0, <2>1, <2>2, <3>1, CommitLoses
    <3>2. CASE Publish \/ Revise \/ NewDay
      <4>1. UNCHANGED <<kind, run, cursor, stored, reported>>
        BY <3>2 DEF Publish, Revise, NewDay
      <4> QED BY <1>0, <1>1, <2>1, <2>2, <2>3, <4>1, Growing, GrowingLoses
    <3>3. CASE ~Commit /\ ~Publish /\ ~Revise /\ ~NewDay
      <4>1. UNCHANGED <<kind, site, today, cursor, stored, reported, skipped>>
        BY <1>1, <3>3 DEF Next, RunStep, Start, Unmodified, List, Inner, Detail, Unwind,
           TransportFails, Refused, OutOfTime, TokenExpires, Garbled, Busy
      <4>2. QueryFrom' = QueryFrom /\ Rows' = Rows
        BY <4>1 DEF QueryFrom, Rows
      <4>3. \A i \in Rows : /\ Reachable(i)' <=> Reachable(i)
                            /\ Gone(i)' <=> Gone(i)
                            /\ Row(i)' = Row(i)
        BY <4>1, <4>2 DEF Reachable, Gone, Row, Newer, OldestFirst, Ranked, Since, OnShelf, Rows
      <4> QED BY <1>0, <4>1, <4>2, <4>3 DEF LossIsReported
    <3> QED BY <3>1, <3>2, <3>3
  <2> QED BY <2>1, <2>2, <2>3, <2>4, <2>5 DEF LossInv
<1>2. CASE UNCHANGED vars
  <2>1. TypeInv'
    BY <1>0, TypeStep
  <2>2. UNCHANGED <<kind, site, today, cursor, stored, reported, skipped, run>>
    BY <1>2 DEF vars
  <2>3. QueryFrom' = QueryFrom /\ Rows' = Rows
    BY <2>2 DEF QueryFrom, Rows
  <2>4. \A i \in Rows : /\ Reachable(i)' <=> Reachable(i)
                        /\ Gone(i)' <=> Gone(i)
                        /\ Row(i)' = Row(i)
    BY <2>2, <2>3 DEF Reachable, Gone, Row, Newer, OldestFirst, Ranked, Since, OnShelf, Rows
  <2>5. DatesInv' /\ LossIsReported'
    BY <1>0, <2>2, <2>3, <2>4 DEF DatesInv, LossIsReported
  <2>6. PagesInv'
    BY <1>0, <2>2, <2>3 DEF PagesInv, MarksFit, PagesRead, Query, InWindow, Ahead, NewRank, Newer,
       Since, Row
  <2>7. OaiInv'
    BY <1>0, <2>2, <2>3 DEF OaiInv, TokensFit, PassRead, Fits, Behind, Kept, OldRank, Since,
       OnShelf, Row
  <2>8. SecInv'
    BY <1>0, <2>2, <2>3, <2>4 DEF SecInv, FilingsFit, FilingsRead, Kept
  <2> QED BY <2>1, <2>5, <2>6, <2>7, <2>8 DEF LossInv
<1> QED BY <1>1, <1>2

\* No watermark of any collector passes a row in silence, whatever the site
\* publishes, revises or dates back between two pages, and however a run ends.
THEOREM NoSilentLoss == Spec => []LossIsReported
<1>1. LossInv => LossIsReported
  BY DEF LossInv
<1> QED BY <1>1, LossInit, LossStep, PTL DEF Spec
=============================================================================
