-------------------------- MODULE CollectionProofs --------------------------
(***************************************************************************)
(* Proofs about Collection, for any group of sources and any bounds: its   *)
(* type invariant, that items and watermarks move as module Intake says,   *)
(* that cooldowns are respected, and that no source is attempted twice     *)
(* while another one waits ready.                                          *)
(***************************************************************************)
EXTENDS Collection, FiniteSetTheorems, TLAPS

\* The constants as the provers need them.
LEMMA Bounds ==
  /\ Cardinality(Source) \in Nat
  /\ GroupBudget \in Nat \ {0} /\ SourceBudget \in Nat \ {0}
  /\ Cadence \in Nat \ {0} /\ Backoff \in Nat \ {0} /\ Period \in Nat \ {0}
  /\ MaxItems \in Nat /\ MaxRetryAfter \in Nat
  /\ MaxFaults \in Nat /\ MaxCrashes \in Nat /\ MaxManual \in Nat /\ MaxEdits \in Nat
  /\ place \in [Source -> 1..Cardinality(Source)]
BY FS_CardinalityType, CollectionAssumption DEF CollectionAssumption

LEMMA SoonerFact ==
  ASSUME NEW n \in Nat
  PROVE  Sooner(n) \in Nat /\ Sooner(n) <= n
BY DEF Sooner

LEMMA SoonerMonotone ==
  ASSUME NEW m \in Nat, NEW n \in Nat, m <= n
  PROVE  Sooner(m) <= Sooner(n)
BY DEF Sooner

\* Where a run stands when it starts, when it goes on and when it is over.
LEMMA JobPlaces ==
  /\ NoJob.pc = "idle" /\ NoJob.retry = 0
  /\ \A s : MoveOn(s) => job'.pc = "loop" /\ job'.retry = 0
  /\ \A force, replay : StartRun(force, replay) => job'.pc = "loop" /\ job'.retry = 0
BY DEF NoJob, MoveOn, StartRun

\* All three are legal.
LEMMA JobTypes ==
  ASSUME job \in Job
  PROVE  /\ NoJob \in Job
         /\ \A force, replay \in BOOLEAN : StartRun(force, replay) => job' \in Job
         /\ \A s \in Source : MoveOn(s) => job' \in Job
<1>1. NoJob \in Job
  BY Bounds DEF NoJob, Job
<1>2. ASSUME NEW force \in BOOLEAN, NEW replay \in BOOLEAN, StartRun(force, replay)
      PROVE  job' \in Job
  <2>1. [s \in Source |-> Class(s, force)] \in [Source -> 0..2]
    BY DEF Class
  <2>2. PICK c \in [Source -> 0..2] : c = [s \in Source |-> Class(s, force)]
    BY <2>1
  <2>3. job' = [pc |-> "loop", force |-> force, replay |-> replay, todo |-> Source,
                class |-> c, cur |-> None, group |-> GroupBudget, own |-> 0,
                from |-> 0, at |-> 0, to |-> 0, items |-> {}, retry |-> 0]
    BY <1>2, <2>2 DEF StartRun, NoJob
  <2> QED BY <2>3, Bounds DEF Job
<1>3. ASSUME NEW s \in Source, MoveOn(s)
      PROVE  job' \in Job
  BY <1>1, <1>3, Bounds DEF MoveOn, NoJob, Job
<1> QED BY <1>1, <1>2, <1>3

\* The order of attempts stays within the group's size.
LEMMA ToTheBackType ==
  ASSUME turn \in [Source -> 1..Cardinality(Source)], NEW s \in Source
  PROVE  ToTheBack(s) \in [Source -> 1..Cardinality(Source)]
BY Bounds DEF ToTheBack

LEMMA TypeInit == Init => TypeOK
<1> SUFFICES ASSUME Init PROVE TypeOK
  OBVIOUS
<1>1. NoJob \in Job
  BY Bounds DEF NoJob, Job
<1>2. db \in [Source -> Row]
  BY Bounds DEF Init, Row, Wait
<1> QED BY <1>1, <1>2, Bounds DEF Init, TypeOK

\* What a step needs to know of the job at hand: a source is in hand from the
\* attempt to the end of its failure handling.
CurOK == job.pc \in {"fetch", "store", "fail"} => job.cur \in Source

LEMMA CurInductive ==
  ASSUME TypeOK, CurOK, [Next]_vars
  PROVE  CurOK'
<1> USE JobPlaces DEF CurOK, TypeOK, Job
<1>1. CASE UNCHANGED vars
  BY <1>1 DEF vars
<1>2. ASSUME NEW s \in Source, SourceStep(s)
      PROVE  CurOK'
  <2>1. CASE Disable(s) \/ Skip(s)
    BY <2>1 DEF Disable, Skip
  <2>2. CASE Attempt(s)
    <3>1. job'.cur = s
      BY <2>2 DEF Attempt
    <3> QED BY <3>1
  <2>3. CASE SetupFails(s)
    <3>1. job'.cur = s
      BY <2>3 DEF SetupFails
    <3> QED BY <3>1
  <2> QED BY <1>2, <2>1, <2>2, <2>3 DEF SourceStep
<1>3. CASE Unsupported \/ Commit \/ Recover \/ RecoverFails
  BY <1>3 DEF Unsupported, Commit, Recover, RecoverFails
<1>4. CASE Answer \/ FetchFails \/ Ingest \/ CommitUnanswered \/ StoreFails
  BY <1>4 DEF Answer, FetchFails, Ingest, CommitUnanswered, StoreFails
<1>5. CASE EndRun \/ Crash
  BY <1>5 DEF EndRun, Crash
<1>6. CASE StartScheduled \/ StartManual
  BY <1>6 DEF StartScheduled, StartManual
<1>7. CASE OrderFails \/ Tick
  BY <1>7 DEF OrderFails, Tick
<1>8. ASSUME NEW s \in Source, Publish(s) \/ Edit(s)
      PROVE  CurOK'
  BY <1>8 DEF Publish, Edit
<1> QED BY <1>1, <1>2, <1>3, <1>4, <1>5, <1>6, <1>7, <1>8 DEF Next, JobStep

-----------------------------------------------------------------------------
(* Type correctness, one lemma per part of the state.                      *)

LEMMA RowType ==
  ASSUME TypeOK, NEW s \in Source, NEW d \in Wait, NEW c \in Wait
  PROVE  [db EXCEPT ![s].due = d, ![s].cool = c] \in [Source -> Row]
BY DEF TypeOK, Row

LEMMA WaitType ==
  /\ 0 \in Wait /\ Cadence \in Wait /\ \A n \in 0..MaxRetryAfter : n \in Wait /\ Later(Backoff, n) \in Wait
  /\ \A n \in Wait : Sooner(n) \in Wait
BY Bounds DEF Wait, Later, Sooner

LEMMA DbType ==
  ASSUME TypeOK, CurOK, [Next]_vars
  PROVE  db' \in [Source -> Row]
<1> USE DEF TypeOK
<1>1. ASSUME NEW s \in Source, Disable(s)
      PROVE  db' \in [Source -> Row]
  BY <1>1, WaitType DEF Disable, Row
<1>2. CASE Commit \/ CommitUnanswered
  <2>1. job.cur \in Source /\ job.items \in SUBSET (1..MaxItems) /\ job.to \in 0..MaxItems
    BY <1>2 DEF Commit, CommitUnanswered, CurOK, Job
  <2>2. [items |-> job.items, cursor |-> job.to, due |-> Cadence, cool |-> 0] \in Row
    BY <2>1, WaitType DEF Row
  <2> QED BY <1>2, <2>1, <2>2 DEF Commit, CommitUnanswered, Store
<1>3. CASE Recover
  <2>1. job.cur \in Source /\ job.retry \in 0..MaxRetryAfter
    BY <1>3 DEF Recover, CurOK, Job
  <2>2. db[job.cur] \in Row /\ Later(Backoff, job.retry) \in Wait /\ job.retry \in Wait
    BY <2>1, WaitType
  <2>3. [db[job.cur] EXCEPT !.due = Later(Backoff, job.retry),
                            !.cool = IF job.retry > 0 THEN job.retry ELSE @] \in Row
    BY <2>2 DEF Row
  <2> QED BY <1>3, <2>1, <2>3 DEF Recover
<1>4. CASE Tick
  <2>1. ASSUME NEW s \in Source
        PROVE  [db[s] EXCEPT !.due = Sooner(@), !.cool = Sooner(@)] \in Row
    BY WaitType DEF Row
  <2> QED BY <1>4, <2>1 DEF Tick
<1>5. CASE UNCHANGED db
  BY <1>5
<1>6. CASE \E s \in Source : Skip(s) \/ Attempt(s) \/ SetupFails(s) \/ Publish(s) \/ Edit(s)
  BY <1>5, <1>6 DEF Skip, Attempt, SetupFails, Publish, Edit
<1> QED
  BY <1>1, <1>2, <1>3, <1>4, <1>5, <1>6
  DEF Next, JobStep, SourceStep, vars, Unsupported, Answer, FetchFails, Ingest, StoreFails,
      RecoverFails, EndRun, Crash, StartScheduled, StartManual, OrderFails

LEMMA JobType ==
  ASSUME TypeOK, CurOK, [Next]_vars
  PROVE  job' \in Job
<1>1. job \in Job
  BY DEF TypeOK
<1>2. ASSUME NEW s \in Source, Attempt(s)
      PROVE  job' \in Job
  <2>1. db[s].cursor \in 0..MaxItems /\ 0..db[s].cursor \subseteq 0..MaxItems
    BY Bounds DEF TypeOK, Row
  <2>2. Earlier(SourceBudget, job.group) \in 0..SourceBudget
    BY <1>1, Bounds DEF Earlier, Job
  <2>3. PICK n \in 0..MaxItems :
          job' = [job EXCEPT !.pc = "fetch", !.cur = s, !.from = n, !.at = n,
                             !.own = Earlier(SourceBudget, job.group)]
    BY <1>2, <2>1 DEF Attempt
  <2> QED BY <1>1, <2>2, <2>3 DEF Job
<1>3. ASSUME NEW s \in Source, SetupFails(s)
      PROVE  job' \in Job
  BY <1>1, <1>3 DEF SetupFails, Job
<1>4. CASE Answer
  <2>1. job.cur \in Source
    BY <1>4 DEF Answer, CurOK
  <2>2. pub[job.cur] \in 0..MaxItems /\ db[job.cur].items \in SUBSET (1..MaxItems)
    BY <2>1 DEF TypeOK, Row
  <2> QED BY <1>1, <1>4, <2>2 DEF Answer, Job
<1>5. CASE FetchFails
  BY <1>1, <1>5 DEF FetchFails, Job
<1>6. CASE Ingest
  <2>1. job.at + 1 \in 1..MaxItems /\ job.at + 1 \in 0..MaxItems
    BY <1>1, <1>6, Bounds DEF Ingest, Job
  <2> QED BY <1>1, <1>6, <2>1 DEF Ingest, Job
<1>7. CASE CommitUnanswered \/ StoreFails
  BY <1>1, <1>7 DEF CommitUnanswered, StoreFails, Job
<1>8. CASE Tick
  <2>1. Sooner(job.group) \in 0..GroupBudget /\ Sooner(job.own) \in 0..SourceBudget
    BY <1>1, Bounds DEF Sooner, Job
  <2> QED BY <1>1, <1>8, <2>1 DEF Tick, Job
<1>9. CASE Unsupported \/ Commit \/ Recover \/ RecoverFails
  BY <1>1, <1>9, JobTypes DEF Unsupported, Commit, Recover, RecoverFails, CurOK
<1>10. CASE EndRun \/ Crash
  BY <1>1, <1>10, JobTypes DEF EndRun, Crash
<1>11. CASE StartScheduled \/ StartManual
  <2>1. FALSE \in BOOLEAN /\ TRUE \in BOOLEAN
    OBVIOUS
  <2> QED BY <1>1, <1>11, <2>1, JobTypes DEF StartScheduled, StartManual
<1>12. CASE UNCHANGED job
  BY <1>1, <1>12
<1>13. ASSUME NEW s \in Source, Disable(s) \/ Skip(s)
       PROVE  job' \in Job
  BY <1>1, <1>13, JobTypes DEF Disable, Skip
<1> QED
  BY <1>2, <1>3, <1>4, <1>5, <1>6, <1>7, <1>8, <1>9, <1>10, <1>11, <1>12, <1>13
  DEF Next, JobStep, SourceStep, vars, OrderFails, Publish, Edit

LEMMA HistoryType ==
  ASSUME TypeOK, CurOK, [Next]_vars
  PROVE  /\ asked' \in [Source -> 0..MaxRetryAfter]
         /\ passed' \in [Source -> SUBSET Source]
<1> USE DEF TypeOK
<1>1. CASE UNCHANGED <<asked, passed>>
  BY <1>1
<1>2. ASSUME NEW s \in Source, Attempt(s) \/ SetupFails(s) \/ Edit(s)
      PROVE  asked' = asked /\ passed' \in [Source -> SUBSET Source]
  <2>1. CASE Attempt(s)
    <3>1. asked' = asked
      BY <2>1 DEF Attempt
    <3>2. passed' = [t \in Source |->
                      IF t # s /\ Ready(t, FALSE) THEN passed[t] \cup {s} ELSE {}]
      BY <2>1 DEF Attempt
    <3> QED BY <3>1, <3>2
  <2>2. CASE SetupFails(s) \/ Edit(s)
    <3>1. asked' = asked /\ passed' = [passed EXCEPT ![s] = {}]
      BY <2>2 DEF SetupFails, Edit
    <3> QED BY <3>1
  <2> QED BY <1>2, <2>1, <2>2
<1>3. CASE FetchFails
  <2>1. \/ asked' = asked
        \/ \E w \in 0..MaxRetryAfter : asked' = [asked EXCEPT ![job.cur] = w]
    BY <1>3 DEF FetchFails
  <2>2. passed' = passed
    BY <1>3 DEF FetchFails
  <2> QED BY <2>1, <2>2
<1>4. CASE RecoverFails \/ Crash
  <2>1. asked' = asked \/ asked' = [asked EXCEPT ![job.cur] = 0]
    BY <1>4 DEF RecoverFails, Crash
  <2>2. passed' = passed /\ 0 \in 0..MaxRetryAfter
    BY <1>4, Bounds DEF RecoverFails, Crash
  <2> QED BY <2>1, <2>2
<1>5. CASE Recover
  <2>1. passed' = [passed EXCEPT ![job.cur] = {}] /\ asked' = asked
    BY <1>5 DEF Recover
  <2> QED BY <2>1
<1>6. CASE Tick
  <2>1. \A n \in 0..MaxRetryAfter : Sooner(n) \in 0..MaxRetryAfter
    BY Bounds DEF Sooner
  <2> QED BY <1>6, <2>1 DEF Tick
<1> QED
  BY <1>1, <1>2, <1>3, <1>4, <1>5, <1>6
  DEF Next, JobStep, SourceStep, vars, Disable, Skip, Unsupported, Answer, Ingest, Commit,
      CommitUnanswered, StoreFails, EndRun, StartScheduled, StartManual, OrderFails, Publish

LEMMA RestType ==
  ASSUME TypeOK, [Next]_vars
  PROVE  /\ turn' \in [Source -> 1..Cardinality(Source)]
         /\ enabled' \in [Source -> BOOLEAN]
         /\ pub' \in [Source -> 0..MaxItems]
         /\ cron' \in 0..Period
<1> USE DEF TypeOK
<1>1. CASE UNCHANGED <<turn, enabled, pub, cron>>
  BY <1>1
<1>2. ASSUME NEW s \in Source, Attempt(s)
      PROVE  turn' \in [Source -> 1..Cardinality(Source)] /\ UNCHANGED <<enabled, pub, cron>>
  BY <1>2, ToTheBackType DEF Attempt
<1>3. ASSUME NEW s \in Source, Edit(s)
      PROVE  enabled' \in [Source -> BOOLEAN] /\ UNCHANGED <<turn, pub, cron>>
  <2>1. (~enabled[s]) \in BOOLEAN
    OBVIOUS
  <2>2. enabled' = [enabled EXCEPT ![s] = ~enabled[s]] /\ UNCHANGED <<turn, pub, cron>>
    BY <1>3 DEF Edit
  <2> QED BY <2>1, <2>2
<1>4. ASSUME NEW s \in Source, Publish(s)
      PROVE  pub' \in [Source -> 0..MaxItems] /\ UNCHANGED <<turn, enabled, cron>>
  BY <1>4, Bounds DEF Publish
<1>5. CASE StartScheduled \/ OrderFails \/ Tick
  <2>1. cron' = Period \/ cron' = Sooner(cron)
    BY <1>5 DEF StartScheduled, OrderFails, Tick
  <2>2. cron' \in 0..Period
    BY <2>1, Bounds DEF Sooner
  <2>3. UNCHANGED <<turn, enabled, pub>>
    BY <1>5 DEF StartScheduled, OrderFails, Tick
  <2> QED BY <2>2, <2>3
<1> QED
  BY <1>1, <1>2, <1>3, <1>4, <1>5
  DEF Next, JobStep, SourceStep, vars, Disable, Skip, SetupFails, Unsupported, Answer, FetchFails,
      Ingest, Commit, CommitUnanswered, StoreFails, Recover, RecoverFails, EndRun, Crash, StartManual

LEMMA LeftType ==
  ASSUME TypeOK, [Next]_vars
  PROVE  left' \in [faults: 0..MaxFaults, crashes: 0..MaxCrashes,
                    manual: 0..MaxManual, edits: 0..MaxEdits]
<1> USE Bounds DEF TypeOK
<1>1. CASE UNCHANGED left
  BY <1>1
<1>2. ASSUME left.faults > 0, left' = [left EXCEPT !.faults = @ - 1]
      PROVE  left' \in [faults: 0..MaxFaults, crashes: 0..MaxCrashes,
                        manual: 0..MaxManual, edits: 0..MaxEdits]
  BY <1>2
<1>3. CASE left.crashes > 0 /\ left' = [left EXCEPT !.crashes = @ - 1]
  BY <1>3
<1>4. CASE left.manual > 0 /\ left' = [left EXCEPT !.manual = @ - 1]
  BY <1>4
<1>5. CASE left.edits > 0 /\ left' = [left EXCEPT !.edits = @ - 1]
  BY <1>5
<1> QED
  BY <1>1, <1>2, <1>3, <1>4, <1>5
  DEF Next, JobStep, SourceStep, vars, Disable, Skip, Attempt, SetupFails, Unsupported, Answer,
      FetchFails, Ingest, Commit, CommitUnanswered, StoreFails, Recover, RecoverFails, EndRun,
      Crash, StartScheduled, StartManual, OrderFails, Publish, Edit, Tick

LEMMA TypeStep ==
  ASSUME TypeOK, CurOK, [Next]_vars
  PROVE  TypeOK'
BY DbType, JobType, HistoryType, RestType, LeftType DEF TypeOK

LEMMA CurInit == Init => CurOK
BY JobPlaces DEF Init, CurOK

\* Type correctness, for any group of sources and any bounds.
THEOREM TypeCorrect == Spec => [](TypeOK /\ CurOK)
<1>1. Init => TypeOK /\ CurOK
  BY TypeInit, CurInit
<1>2. TypeOK /\ CurOK /\ [Next]_vars => (TypeOK /\ CurOK)'
  BY TypeStep, CurInductive
<1> QED BY <1>1, <1>2, PTL DEF Spec

-----------------------------------------------------------------------------
(* Items and watermarks.                                                   *)

\* What is stored is exactly what the watermark says, and no more than the
\* site has published.
WholeInv == \A s \in Source : /\ db[s].items = 1..db[s].cursor
                              /\ db[s].cursor <= pub[s]

\* The batch in hand starts at or below the watermark, which stays where it is
\* until the batch is committed, and the uncommitted items are the stored ones
\* and the part of the batch ingested so far.
BatchInv ==
  /\ job.pc = "fetch" => job.from <= db[job.cur].cursor /\ job.at = job.from
  /\ job.pc = "store" =>
       /\ job.from <= db[job.cur].cursor /\ db[job.cur].cursor <= job.to
       /\ job.from <= job.at /\ job.at <= job.to /\ job.to <= pub[job.cur]
       /\ job.items = (1..db[job.cur].cursor) \cup ((job.from + 1)..job.at)

MarkInv == WholeInv /\ BatchInv

LEMMA MarkInit == Init => MarkInv
<1> SUFFICES ASSUME Init PROVE MarkInv
  OBVIOUS
<1>1. WholeInv
  <2>1. 1..0 = {}
    OBVIOUS
  <2>2. ASSUME NEW s \in Source
        PROVE  db[s].items = 1..db[s].cursor /\ db[s].cursor <= pub[s]
    <3>1. db[s].items = {} /\ db[s].cursor = 0 /\ pub[s] = 0
      BY DEF Init
    <3> QED BY <2>1, <3>1
  <2> QED BY <2>2 DEF WholeInv
<1>2. BatchInv
  BY JobPlaces DEF Init, BatchInv
<1> QED BY <1>1, <1>2 DEF MarkInv

\* A batch ingested to its end, on top of what is stored, is all the items up
\* to its end.
LEMMA WholeBatch ==
  ASSUME NEW c \in Nat, NEW f \in Nat, NEW n \in Nat, f <= c, c <= n
  PROVE  /\ (1..c) \cup ((f + 1)..n) = 1..n
         /\ (1..c) \cup ((c + 1)..n) = 1..n
OBVIOUS

\* What the two actions that commit a batch do.
LEMMA StoreStep ==
  ASSUME TypeOK, CurOK, MarkInv, Commit \/ CommitUnanswered
  PROVE  /\ job.cur \in Source /\ job.to \in 0..MaxItems
         /\ db[job.cur].cursor <= job.to /\ job.to <= pub[job.cur]
         /\ db' = [db EXCEPT ![job.cur] = [items |-> 1..job.to, cursor |-> job.to,
                                          due |-> Cadence, cool |-> 0]]
<1>1. job.cur \in Source /\ job.to \in 0..MaxItems /\ job.at \in 0..MaxItems /\ job.from \in 0..MaxItems
  BY DEF Commit, CommitUnanswered, CurOK, TypeOK, Job
<1>2. db[job.cur].cursor \in 0..MaxItems
  BY <1>1 DEF TypeOK, Row
<1>3. job.pc = "store" /\ job.at >= job.to
  BY DEF Commit, CommitUnanswered
<1>4. /\ job.from <= db[job.cur].cursor /\ db[job.cur].cursor <= job.to
      /\ job.at <= job.to /\ job.to <= pub[job.cur]
      /\ job.items = (1..db[job.cur].cursor) \cup ((job.from + 1)..job.at)
  BY <1>3 DEF MarkInv, BatchInv
<1>5. job.at = job.to
  BY <1>1, <1>3, <1>4, Bounds
<1>6. job.items = 1..job.to
  <2>1. job.from \in Nat /\ job.to \in Nat /\ db[job.cur].cursor \in Nat
    BY <1>1, <1>2, Bounds
  <2>2. (1..db[job.cur].cursor) \cup ((job.from + 1)..job.to) = 1..job.to
    BY <2>1, <1>4, WholeBatch
  <2> QED BY <1>4, <1>5, <2>2
<1>7. db' = [db EXCEPT ![job.cur] = [items |-> job.items, cursor |-> job.to,
                                     due |-> Cadence, cool |-> 0]]
  BY DEF Commit, CommitUnanswered, Store
<1> QED BY <1>1, <1>4, <1>6, <1>7

\* No other action changes an item set or a watermark.
SameMarks == \A s \in Source : /\ db'[s].items = db[s].items
                               /\ db'[s].cursor = db[s].cursor

LEMMA OtherSteps ==
  ASSUME TypeOK, CurOK, [Next]_vars, ~Commit, ~CommitUnanswered
  PROVE  SameMarks
<1> USE DEF TypeOK, SameMarks
<1>1. CASE UNCHANGED db
  BY <1>1
<1>2. ASSUME NEW s \in Source, Disable(s)
      PROVE  SameMarks
  BY <1>2 DEF Disable, Row
<1>3. CASE Recover
  <2>1. job.cur \in Source
    BY <1>3 DEF Recover, CurOK
  <2> QED BY <1>3, <2>1 DEF Recover, Row
<1>4. CASE Tick
  BY <1>4 DEF Tick, Row
<1> QED
  BY <1>1, <1>2, <1>3, <1>4
  DEF Next, JobStep, SourceStep, vars, Skip, Attempt, SetupFails, Unsupported, Answer, FetchFails,
      Ingest, StoreFails, RecoverFails, EndRun, Crash, StartScheduled, StartManual, OrderFails,
      Publish, Edit

\* Sites only ever publish more.
LEMMA PubGrows ==
  ASSUME TypeOK, [Next]_vars
  PROVE  \A s \in Source : pub'[s] \in Nat /\ pub[s] \in Nat /\ pub[s] <= pub'[s]
<1> USE Bounds DEF TypeOK
<1>1. CASE UNCHANGED pub
  BY <1>1
<1>2. ASSUME NEW s \in Source, Publish(s)
      PROVE  \A t \in Source : pub'[t] \in Nat /\ pub[t] \in Nat /\ pub[t] <= pub'[t]
  BY <1>2 DEF Publish
<1> QED
  BY <1>1, <1>2
  DEF Next, JobStep, SourceStep, vars, Disable, Skip, Attempt, SetupFails, Unsupported, Answer,
      FetchFails, Ingest, Commit, CommitUnanswered, StoreFails, Recover, RecoverFails, EndRun,
      Crash, StartScheduled, StartManual, OrderFails, Edit, Tick

LEMMA WholeStep ==
  ASSUME TypeOK, CurOK, MarkInv, [Next]_vars
  PROVE  WholeInv'
<1>1. CASE Commit \/ CommitUnanswered
  <2>1. pub' = pub
    BY <1>1 DEF Commit, CommitUnanswered
  <2>2. ASSUME NEW s \in Source
        PROVE  db'[s].items = 1..db'[s].cursor /\ db'[s].cursor <= pub'[s]
    <3>1. CASE s = job.cur
      BY <1>1, <2>1, <3>1, StoreStep DEF TypeOK
    <3>2. CASE s # job.cur
      BY <1>1, <2>1, <3>2, StoreStep DEF TypeOK, MarkInv, WholeInv
    <3> QED BY <3>1, <3>2
  <2> QED BY <2>2 DEF WholeInv
<1>2. CASE ~Commit /\ ~CommitUnanswered
  <2>1. ASSUME NEW s \in Source
        PROVE  db'[s].items = 1..db'[s].cursor /\ db'[s].cursor <= pub'[s]
    <3>1. db[s].cursor \in Nat
      BY Bounds DEF TypeOK, Row
    <3>2. db'[s].items = db[s].items /\ db'[s].cursor = db[s].cursor
      BY <1>2, OtherSteps DEF SameMarks
    <3> QED BY <3>1, <3>2, PubGrows DEF MarkInv, WholeInv
  <2> QED BY <2>1 DEF WholeInv
<1> QED BY <1>1, <1>2

LEMMA BatchStep ==
  ASSUME TypeOK, CurOK, MarkInv, [Next]_vars
  PROVE  BatchInv'
<1> USE DEF BatchInv
<1>1. CASE job'.pc \notin {"fetch", "store"}
  BY <1>1
<1>2. ASSUME NEW s \in Source, Attempt(s)
      PROVE  BatchInv'
  <2>1. PICK n \in IF job.replay THEN 0..db[s].cursor ELSE {db[s].cursor} :
          job' = [job EXCEPT !.pc = "fetch", !.cur = s, !.from = n, !.at = n,
                             !.own = Earlier(SourceBudget, job.group)]
    BY <1>2 DEF Attempt
  <2>2. db' = db /\ db[s].cursor \in Nat
    BY <1>2, Bounds DEF Attempt, TypeOK, Row
  <2>3. n <= db[s].cursor
    BY <2>1, <2>2
  <2>4. job'.pc = "fetch" /\ job'.cur = s /\ job'.from = n /\ job'.at = n
    BY <2>1 DEF TypeOK, Job
  <2> QED BY <2>2, <2>3, <2>4
<1>3. CASE Answer
  <2>1. job.cur \in Source /\ job.from <= db[job.cur].cursor /\ job.at = job.from
    BY <1>3 DEF Answer, CurOK, MarkInv
  <2>2. /\ job'.pc = "store" /\ job'.cur = job.cur /\ job'.to = pub[job.cur]
        /\ job'.items = db[job.cur].items /\ job'.from = job.from /\ job'.at = job.at
    BY <1>3 DEF Answer, TypeOK, Job
  <2>3. db' = db /\ pub' = pub
    BY <1>3 DEF Answer
  <2>4. job.from \in Nat /\ db[job.cur].cursor \in Nat /\ pub[job.cur] \in Nat
    BY <2>1, Bounds DEF TypeOK, Job, Row
  <2>5. db[job.cur].items = 1..db[job.cur].cursor /\ db[job.cur].cursor <= pub[job.cur]
    BY <2>1 DEF MarkInv, WholeInv
  <2>6. (job.from + 1)..job.from = {}
    BY <2>4
  <2>7. job'.items = (1..db[job.cur].cursor) \cup ((job'.from + 1)..job'.at)
    BY <2>1, <2>2, <2>5, <2>6
  <2>8. job.from <= pub[job.cur]
    BY <2>1, <2>4, <2>5
  <2> QED BY <2>1, <2>2, <2>3, <2>4, <2>5, <2>7, <2>8
<1>4. CASE Ingest
  <2>1. /\ job'.pc = "store" /\ job'.cur = job.cur /\ job'.to = job.to
        /\ job'.from = job.from /\ job'.at = job.at + 1
        /\ job'.items = job.items \cup {job.at + 1}
    BY <1>4 DEF Ingest, TypeOK, Job
  <2>2. db' = db /\ pub' = pub /\ job.pc = "store" /\ job.at < job.to
    BY <1>4 DEF Ingest
  <2>3. job.from \in Nat /\ job.at \in Nat /\ job.to \in Nat /\ job.from <= job.at
    BY <2>2, Bounds DEF TypeOK, Job, MarkInv
  <2>4. ((job.from + 1)..job.at) \cup {job.at + 1} = (job.from + 1)..(job.at + 1)
    BY <2>3
  <2>5. job'.items = (1..db[job.cur].cursor) \cup ((job'.from + 1)..job'.at)
    BY <2>1, <2>2, <2>4 DEF MarkInv
  <2>6. job'.from <= job'.at /\ job'.at <= job'.to
    BY <2>1, <2>2, <2>3
  <2> QED BY <2>1, <2>2, <2>5, <2>6 DEF MarkInv
<1>5. ASSUME /\ job.pc = job'.pc /\ job.cur = job'.cur /\ job.from = job'.from
             /\ job.at = job'.at /\ job.to = job'.to /\ job.items = job'.items,
             SameMarks
      PROVE  BatchInv'
  <2>1. CASE job.pc \in {"fetch", "store"}
    <3>1. job.cur \in Source /\ job.to \in Nat
      BY <2>1, Bounds DEF CurOK, TypeOK, Job
    <3>2. db'[job.cur].cursor = db[job.cur].cursor
      BY <1>5, <3>1 DEF SameMarks
    <3>3. job.pc = "store" => job.to <= pub'[job.cur]
      BY <3>1, PubGrows DEF MarkInv
    <3> QED BY <1>5, <3>2, <3>3 DEF MarkInv
  <2> QED BY <1>1, <1>5, <2>1
<1>6. CASE Tick
  <2>1. /\ job.pc = job'.pc /\ job.cur = job'.cur /\ job.from = job'.from
        /\ job.at = job'.at /\ job.to = job'.to /\ job.items = job'.items
    BY <1>6 DEF Tick, TypeOK, Job
  <2>2. ~Commit /\ ~CommitUnanswered
    BY <1>6 DEF Tick, Commit, CommitUnanswered, MoveOn, NoJob, TypeOK, Job
  <2> QED BY <1>5, <2>1, <2>2, OtherSteps
<1>7. CASE UNCHANGED job /\ ~Commit /\ ~CommitUnanswered
  BY <1>5, <1>7, OtherSteps
<1>8. UNCHANGED job => ~Commit /\ ~CommitUnanswered
  <2>1. Commit => job.pc = "store" /\ job'.pc = "loop"
    BY JobPlaces DEF Commit
  <2>2. CommitUnanswered => job.pc = "store" /\ job'.pc = "fail"
    BY DEF CommitUnanswered, TypeOK, Job
  <2> QED BY <2>1, <2>2
<1>9. ASSUME \/ \E s \in Source : Disable(s) \/ Skip(s) \/ SetupFails(s)
             \/ Unsupported \/ FetchFails \/ Commit \/ CommitUnanswered \/ StoreFails
             \/ Recover \/ RecoverFails \/ EndRun \/ Crash \/ StartScheduled \/ StartManual
      PROVE  job'.pc \notin {"fetch", "store"}
  <2>1. ASSUME NEW s \in Source, Disable(s) \/ Skip(s) \/ SetupFails(s)
        PROVE  job'.pc \notin {"fetch", "store"}
    BY <2>1, JobPlaces DEF Disable, Skip, SetupFails, TypeOK, Job
  <2>2. CASE Unsupported \/ Commit \/ Recover \/ RecoverFails
    BY <2>2, JobPlaces DEF Unsupported, Commit, Recover, RecoverFails
  <2>3. CASE FetchFails \/ CommitUnanswered \/ StoreFails
    BY <2>3 DEF FetchFails, CommitUnanswered, StoreFails, TypeOK, Job
  <2>4. CASE EndRun \/ Crash \/ StartScheduled \/ StartManual
    BY <2>4, JobPlaces DEF EndRun, Crash, StartScheduled, StartManual
  <2> QED BY <1>9, <2>1, <2>2, <2>3, <2>4
<1> QED
  BY <1>1, <1>2, <1>3, <1>4, <1>6, <1>7, <1>8, <1>9
  DEF Next, JobStep, SourceStep, vars, OrderFails, Publish, Edit

LEMMA MarkStep ==
  ASSUME TypeOK, CurOK, MarkInv, [Next]_vars
  PROVE  MarkInv'
BY WholeStep, BatchStep DEF MarkInv

THEOREM MarksCorrect == Spec => [](TypeOK /\ CurOK /\ MarkInv)
<1>1. Init => TypeOK /\ CurOK /\ MarkInv
  BY TypeInit, CurInit, MarkInit
<1>2. TypeOK /\ CurOK /\ MarkInv /\ [Next]_vars => (TypeOK /\ CurOK /\ MarkInv)'
  BY TypeStep, CurInductive, MarkStep
<1> QED BY <1>1, <1>2, PTL DEF Spec

\* The refinement of Intake.
LEMMA IntakeInit == Init => Promised!Init
BY DEF Init, Promised!Init

LEMMA IntakeStep ==
  ASSUME TypeOK, CurOK, MarkInv, [Next]_vars
  PROVE  [Promised!Next]_<<[s \in Source |-> db[s].items], [s \in Source |-> db[s].cursor]>>
<1> DEFINE stored == [s \in Source |-> db[s].items]
           mark == [s \in Source |-> db[s].cursor]
<1>1. CASE Commit \/ CommitUnanswered
  <2>1. PICK c \in Source, n \in 0..MaxItems :
          /\ db[c].cursor <= n
          /\ db' = [db EXCEPT ![c] = [items |-> 1..n, cursor |-> n, due |-> Cadence, cool |-> 0]]
    BY <1>1, StoreStep
  <2>2. db[c].items = 1..db[c].cursor /\ db[c].cursor \in Nat /\ n \in Nat
    BY <2>1, Bounds DEF MarkInv, WholeInv, TypeOK, Row
  <2>3. (1..db[c].cursor) \cup ((db[c].cursor + 1)..n) = 1..n
    BY <2>1, <2>2, WholeBatch
  <2>4. mark' = [mark EXCEPT ![c] = n]
    BY <2>1 DEF TypeOK
  <2>5. stored' = [stored EXCEPT ![c] = stored[c] \cup ((mark[c] + 1)..n)]
    BY <2>1, <2>2, <2>3 DEF TypeOK
  <2>6. Promised!TakeBatch(c, n)
    BY <2>1, <2>4, <2>5 DEF Promised!TakeBatch
  <2> QED BY <2>1, <2>6 DEF Promised!Next
<1>2. CASE ~Commit /\ ~CommitUnanswered
  BY <1>2, OtherSteps DEF SameMarks
<1> QED BY <1>1, <1>2

\* Items and watermark of a source move together and forward, in every run.
THEOREM WholeBatches == Spec => TakesWholeBatches
<1>1. Init => Promised!Init
  BY IntakeInit
<1>2. TypeOK /\ CurOK /\ MarkInv /\ [Next]_vars
        => [Promised!Next]_<<[s \in Source |-> db[s].items], [s \in Source |-> db[s].cursor]>>
  BY IntakeStep
<1> QED BY <1>1, <1>2, MarksCorrect, PTL DEF Spec, TakesWholeBatches, Promised!Spec

-----------------------------------------------------------------------------
(* Cooldowns.                                                              *)

\* What a site asked for is on record as a cooldown, or about to be: the
\* source in hand had no cooldown when it was attempted.
CoolInv ==
  /\ job.pc # "fail" => job.retry = 0
  /\ job.pc \in {"fetch", "store"} => asked[job.cur] = 0
  /\ \A s \in Source :
       \/ asked[s] <= db[s].cool /\ (job.pc = "fail" /\ job.cur = s => job.retry = 0)
       \/ job.pc = "fail" /\ job.cur = s /\ asked[s] <= job.retry

LEMMA CoolInit == Init => CoolInv
BY JobPlaces DEF Init, CoolInv

LEMMA CoolStep ==
  ASSUME TypeOK, CurOK, CoolInv, [Next]_vars
  PROVE  CoolInv'
<1>0. \A s \in Source : asked[s] \in Nat /\ db[s].cool \in Nat
  BY Bounds DEF TypeOK, Row, Wait
<1>1. CASE UNCHANGED <<job, asked, db>>
  BY <1>1 DEF CoolInv
<1>2. ASSUME NEW t \in Source, Attempt(t)
      PROVE  CoolInv'
  <2>1. job.pc = "loop" /\ db[t].cool = 0 /\ asked' = asked /\ db' = db
    BY <1>2 DEF Attempt, Takes, Ready
  <2>2. job'.pc = "fetch" /\ job'.cur = t /\ job'.retry = job.retry
    BY <1>2 DEF Attempt, TypeOK, Job
  <2>3. \A s \in Source : asked[s] <= db[s].cool
    BY <2>1 DEF CoolInv
  <2>4. asked[t] = 0
    BY <1>0, <2>1, <2>3
  <2> QED BY <2>1, <2>2, <2>3, <2>4 DEF CoolInv
<1>3. ASSUME NEW t \in Source, SetupFails(t)
      PROVE  CoolInv'
  <2>1. job.pc = "loop" /\ asked' = asked /\ db' = db
    BY <1>3 DEF SetupFails, Takes
  <2>2. job'.pc = "fail" /\ job'.cur = t /\ job'.retry = job.retry
    BY <1>3 DEF SetupFails, TypeOK, Job
  <2> QED BY <2>1, <2>2 DEF CoolInv
<1>4. ASSUME NEW t \in Source, Disable(t) \/ Skip(t)
      PROVE  CoolInv'
  <2>1. job.pc = "loop" /\ asked' = asked /\ \A s \in Source : db'[s].cool = db[s].cool
    BY <1>4 DEF Disable, Skip, Takes, TypeOK, Row
  <2>2. job'.pc = "loop" /\ job'.retry = 0
    BY <1>4, JobPlaces DEF Disable, Skip
  <2> QED BY <2>1, <2>2 DEF CoolInv
<1>5. CASE Answer \/ Ingest
  <2>1. job.pc \in {"fetch", "store"} /\ asked' = asked /\ db' = db
    BY <1>5 DEF Answer, Ingest
  <2>2. job'.pc = "store" /\ job'.cur = job.cur /\ job'.retry = job.retry
    BY <1>5 DEF Answer, Ingest, TypeOK, Job
  <2> QED BY <2>1, <2>2 DEF CoolInv
<1>6. CASE FetchFails
  <2>1. job.pc = "fetch" /\ job.cur \in Source /\ db' = db
    BY <1>6 DEF FetchFails, CurOK
  <2>2. job'.pc = "fail" /\ job'.cur = job.cur
    BY <1>6 DEF FetchFails, TypeOK, Job
  <2>3. CASE asked' = asked /\ job'.retry = job.retry
    BY <1>0, <2>1, <2>2, <2>3 DEF CoolInv
  <2>4. ASSUME NEW w \in 0..MaxRetryAfter, asked' = [asked EXCEPT ![job.cur] = w], job'.retry = w
        PROVE  CoolInv'
    <3>1. asked'[job.cur] <= job'.retry
      BY <2>1, <2>4 DEF TypeOK
    <3>2. \A s \in Source : s # job.cur => asked'[s] <= db'[s].cool
      BY <2>1, <2>4 DEF TypeOK, CoolInv
    <3> QED BY <2>1, <2>2, <3>1, <3>2 DEF CoolInv
  <2>5. \/ asked' = asked /\ job'.retry = job.retry
        \/ \E w \in 0..MaxRetryAfter : asked' = [asked EXCEPT ![job.cur] = w] /\ job'.retry = w
    BY <1>6 DEF FetchFails, TypeOK, Job
  <2> QED BY <2>3, <2>4, <2>5
<1>7. CASE Commit \/ CommitUnanswered
  <2>1. job.pc = "store" /\ job.cur \in Source /\ asked' = asked
    BY <1>7 DEF Commit, CommitUnanswered, CurOK
  <2>2. asked[job.cur] = 0 /\ job.retry = 0
    BY <2>1 DEF CoolInv
  <2>3. \A s \in Source : asked'[s] <= db'[s].cool
    BY <1>0, <1>7, <2>1, <2>2 DEF Commit, CommitUnanswered, Store, TypeOK, CoolInv
  <2>4. CASE Commit
    BY <2>3, <2>4, JobPlaces DEF Commit, CoolInv
  <2>5. CASE CommitUnanswered
    <3>1. job'.pc = "fail" /\ job'.retry = 0
      BY <2>2, <2>5 DEF CommitUnanswered, TypeOK, Job
    <3> QED BY <2>3, <3>1 DEF CoolInv
  <2> QED BY <1>7, <2>4, <2>5
<1>8. CASE StoreFails
  <2>1. job.pc = "store" /\ asked' = asked /\ db' = db
    BY <1>8 DEF StoreFails
  <2>2. job'.pc = "fail" /\ job'.cur = job.cur /\ job'.retry = job.retry
    BY <1>8 DEF StoreFails, TypeOK, Job
  <2> QED BY <2>1, <2>2 DEF CoolInv
<1>9. CASE Recover
  <2>1. job.pc = "fail" /\ job.cur \in Source /\ asked' = asked
    BY <1>9 DEF Recover, CurOK
  <2>2. job'.pc = "loop" /\ job'.retry = 0 /\ job.retry \in Nat
    BY <1>9, JobPlaces, Bounds DEF Recover, TypeOK, Job
  <2>3. \A s \in Source : s # job.cur => asked'[s] <= db'[s].cool
    BY <1>9, <2>1 DEF Recover, TypeOK, CoolInv
  <2>4. db'[job.cur].cool = IF job.retry > 0 THEN job.retry ELSE db[job.cur].cool
    BY <1>9, <2>1 DEF Recover, TypeOK, Row
  <2>5. asked'[job.cur] <= db'[job.cur].cool
    BY <1>0, <2>1, <2>2, <2>4 DEF CoolInv
  <2> QED BY <2>2, <2>3, <2>5 DEF CoolInv
<1>10. CASE RecoverFails \/ Crash
  <2>1. job'.pc \in {"loop", "idle"} /\ job'.retry = 0 /\ db' = db
    BY <1>10, JobPlaces DEF RecoverFails, Crash
  <2>2. CASE job.pc = "fail"
    <3>1. job.cur \in Source /\ asked' = [asked EXCEPT ![job.cur] = 0]
      BY <1>10, <2>2 DEF RecoverFails, Crash, CurOK
    <3>2. \A s \in Source : asked'[s] <= db'[s].cool
      BY <1>0, <2>1, <2>2, <3>1 DEF TypeOK, CoolInv
    <3> QED BY <2>1, <3>2 DEF CoolInv
  <2>3. CASE job.pc # "fail"
    <3>1. asked' = asked
      BY <1>10, <2>3 DEF RecoverFails, Crash
    <3> QED BY <2>1, <2>3, <3>1 DEF CoolInv
  <2> QED BY <2>2, <2>3
<1>11. CASE Unsupported \/ EndRun
  <2>1. job.pc # "fail" /\ asked' = asked /\ db' = db
    BY <1>11 DEF Unsupported, EndRun
  <2>2. job'.pc \in {"loop", "idle"} /\ job'.retry = 0
    BY <1>11, JobPlaces DEF Unsupported, EndRun
  <2> QED BY <2>1, <2>2 DEF CoolInv
<1>12. CASE StartScheduled \/ StartManual
  <2>1. job.pc = "idle" /\ asked' = asked /\ db' = db
    BY <1>12 DEF StartScheduled, StartManual
  <2>2. job'.pc = "loop" /\ job'.retry = 0
    BY <1>12, JobPlaces DEF StartScheduled, StartManual
  <2> QED BY <2>1, <2>2 DEF CoolInv
<1>13. CASE Tick
  <2>1. job.pc # "fail" /\ job'.pc = job.pc /\ job'.cur = job.cur /\ job'.retry = job.retry
    BY <1>13 DEF Tick, TypeOK, Job
  <2>2. \A s \in Source : /\ asked'[s] = Sooner(asked[s])
                         /\ db'[s].cool = Sooner(db[s].cool)
    BY <1>13 DEF Tick, TypeOK, Row
  <2>3. \A s \in Source : asked'[s] <= db'[s].cool
    BY <1>0, <2>1, <2>2, SoonerMonotone DEF CoolInv
  <2>4. job.pc \in {"fetch", "store"} => asked'[job.cur] = 0
    BY <2>2 DEF CoolInv, CurOK, Sooner
  <2> QED BY <2>1, <2>3, <2>4 DEF CoolInv
<1> QED
  BY <1>1, <1>2, <1>3, <1>4, <1>5, <1>6, <1>7, <1>8, <1>9, <1>10, <1>11, <1>12, <1>13
  DEF Next, JobStep, SourceStep, vars, OrderFails, Publish, Edit

\* No attempt is made of a site that asked to be left alone.
LEMMA AttemptIsWelcome ==
  ASSUME TypeOK, CoolInv, [Next]_vars, NEW s \in Source,
         job.pc = "loop", job'.pc = "fetch", job'.cur = s
  PROVE  asked[s] = 0
<1>1. PICK t \in Source : Attempt(t)
  <2>1. job'.pc # job.pc
    OBVIOUS
  <2>2. job' # job
    BY <2>1
  <2>3. ASSUME NEW t \in Source, Disable(t) \/ Skip(t) \/ SetupFails(t)
        PROVE  FALSE
    BY <2>3, JobPlaces DEF Disable, Skip, SetupFails, TypeOK, Job
  <2>4. ~EndRun /\ ~Crash
    BY JobPlaces DEF EndRun, Crash
  <2> QED
    BY <2>2, <2>3, <2>4
    DEF Next, JobStep, SourceStep, vars, Unsupported, Answer, FetchFails, Ingest, Commit,
        CommitUnanswered, StoreFails, Recover, RecoverFails, StartScheduled, StartManual,
        OrderFails, Publish, Edit, Tick
<1>2. t = s
  BY <1>1 DEF Attempt, TypeOK, Job
<1>3. db[s].cool = 0 /\ asked[s] <= db[s].cool
  BY <1>1, <1>2 DEF Attempt, Ready, CoolInv
<1> QED BY <1>3, Bounds DEF TypeOK, Row, Wait

\* Cooldowns are respected, for any number of sources and any bounds.
THEOREM CooldownsRespected == Spec => AttemptRespectsCooldown
<1>1. Init => TypeOK /\ CurOK /\ CoolInv
  BY TypeInit, CurInit, CoolInit
<1>2. TypeOK /\ CurOK /\ CoolInv /\ [Next]_vars => (TypeOK /\ CurOK /\ CoolInv)'
  BY TypeStep, CurInductive, CoolStep
<1>3. TypeOK /\ CoolInv /\ [Next]_vars
        => [\A s \in Source : job.pc = "loop" /\ job'.pc = "fetch" /\ job'.cur = s
                              => asked[s] = 0]_vars
  BY AttemptIsWelcome
<1> QED BY <1>1, <1>2, <1>3, PTL DEF Spec, AttemptRespectsCooldown

-----------------------------------------------------------------------------
(* Turns.                                                                  *)

\* A source is in hand.
InHand == job.pc \in {"fetch", "store", "fail"}

\* No two sources have the same place in the order of attempts.
TurnsDiffer == \A s, t \in Source : s # t => turn[s] # turn[t]

\* Who was attempted while s waited is behind s.
PassedBehind == \A s \in Source : \A t \in passed[s] : turn[s] < turn[t]

\* Only a ready source waits.
ReadyWaits == \A s \in Source : ~Ready(s, FALSE) => passed[s] = {}

\* The source in hand does not wait.
ServedClean == InHand => passed[job.cur] = {}

\* Where the order by class or the list of the run gives s no turn before t,
\* the run is done with t: t had its turn while s waited in this very run.
PassedDone ==
  job.pc # "idle" =>
    \A s \in Source : \A t \in passed[s] :
      job.class[s] # 0 \/ s \notin job.todo => t \notin job.todo \/ (InHand /\ t = job.cur)

TurnInv == TurnsDiffer /\ PassedBehind /\ ReadyWaits /\ ServedClean /\ PassedDone

\* TurnInv holds at the start, where the order is that of the file.
LEMMA TurnInit == Init => TurnInv
<1> SUFFICES ASSUME Init PROVE TurnInv
  OBVIOUS
<1>1. \A s \in Source : passed[s] = {}
  BY DEF Init
<1>2. TurnsDiffer
  BY CollectionAssumption DEF Init, CollectionAssumption, TurnsDiffer
<1>3. job.pc = "idle"
  BY JobPlaces DEF Init
<1> QED
  BY <1>1, <1>2, <1>3 DEF TurnInv, PassedBehind, ReadyWaits, ServedClean, PassedDone, InHand

\* An attempt puts its source behind all others and leaves their order alone.
LEMMA ToTheBackOrder ==
  ASSUME turn \in [Source -> 1..Cardinality(Source)], TurnsDiffer, NEW s \in Source
  PROVE  /\ \A a, b \in Source : a # b => ToTheBack(s)[a] # ToTheBack(s)[b]
         /\ \A a, b \in Source : a # s /\ b # s /\ turn[a] < turn[b]
                                 => ToTheBack(s)[a] < ToTheBack(s)[b]
         /\ \A a \in Source : a # s => ToTheBack(s)[a] < ToTheBack(s)[s]
<1>1. \A a \in Source : ToTheBack(s)[a] = IF a = s THEN Cardinality(Source)
                                         ELSE IF turn[a] > turn[s] THEN turn[a] - 1 ELSE turn[a]
  BY DEF ToTheBack
<1>2. \A a \in Source : turn[a] \in Nat /\ turn[a] <= Cardinality(Source)
  BY Bounds
<1>3. \A a \in Source : a # s => turn[a] # turn[s]
  BY DEF TurnsDiffer
<1>4. ASSUME NEW a \in Source, a # s
      PROVE  ToTheBack(s)[a] < ToTheBack(s)[s]
  BY <1>1, <1>2, <1>3, <1>4, Bounds
<1>5. ASSUME NEW a \in Source, NEW b \in Source, a # s, b # s, turn[a] < turn[b]
      PROVE  ToTheBack(s)[a] < ToTheBack(s)[b]
  BY <1>1, <1>2, <1>3, <1>5
<1>6. ASSUME NEW a \in Source, NEW b \in Source, a # b
      PROVE  ToTheBack(s)[a] # ToTheBack(s)[b]
  <2>1. \A c \in Source : ToTheBack(s)[c] \in Nat
    BY ToTheBackType, Bounds
  <2>2. CASE a = s \/ b = s
    BY <1>4, <1>6, <2>1, <2>2
  <2>3. CASE a # s /\ b # s
    <3>1. turn[a] < turn[b] \/ turn[b] < turn[a]
      BY <1>2, <1>6 DEF TurnsDiffer
    <3> QED BY <1>5, <2>1, <2>3, <3>1
  <2> QED BY <2>2, <2>3
<1> QED BY <1>4, <1>5, <1>6

\* Only an attempt changes the order of attempts, or what others wait behind.
LEMMA PassedShrinks ==
  ASSUME TypeOK, CurOK, [Next]_vars, \A t \in Source : ~Attempt(t)
  PROVE  turn' = turn /\ \A s \in Source : passed'[s] \subseteq passed[s]
<1>1. CASE turn' = turn /\ passed' = passed
  BY <1>1
<1>2. ASSUME NEW t \in Source, SetupFails(t) \/ Edit(t)
      PROVE  turn' = turn /\ \A s \in Source : passed'[s] \subseteq passed[s]
  <2>1. turn' = turn /\ passed' = [passed EXCEPT ![t] = {}]
    BY <1>2 DEF SetupFails, Edit
  <2> QED BY <2>1 DEF TypeOK
<1>3. CASE Recover
  <2>1. turn' = turn /\ passed' = [passed EXCEPT ![job.cur] = {}] /\ job.cur \in Source
    BY <1>3 DEF Recover, CurOK
  <2> QED BY <2>1 DEF TypeOK
<1> QED
  BY <1>1, <1>2, <1>3
  DEF Next, JobStep, SourceStep, vars, Disable, Skip, Unsupported, Answer, FetchFails, Ingest,
      Commit, CommitUnanswered, StoreFails, RecoverFails, EndRun, Crash, StartScheduled,
      StartManual, OrderFails, Publish, Tick

\* What an attempt does to those who wait.
LEMMA AttemptPassed ==
  ASSUME TypeOK, NEW t \in Source, Attempt(t)
  PROVE  /\ turn' = ToTheBack(t) /\ db' = db /\ enabled' = enabled
         /\ job.pc = "loop" /\ job'.pc = "fetch" /\ job'.cur = t
         /\ job'.todo = job.todo /\ job'.class = job.class
         /\ passed'[t] = {}
         /\ \A s \in Source : Ready(s, FALSE) => passed'[s] \subseteq passed[s] \cup {t}
         /\ \A s \in Source : ~Ready(s, FALSE) => passed'[s] = {}
<1>1. passed' = [s \in Source |->
                  IF s # t /\ Ready(s, FALSE) THEN passed[s] \cup {t} ELSE {}]
  BY DEF Attempt
<1> HIDE DEF Ready
<1>2. /\ passed'[t] = {}
      /\ \A s \in Source : Ready(s, FALSE) => passed'[s] \subseteq passed[s] \cup {t}
      /\ \A s \in Source : ~Ready(s, FALSE) => passed'[s] = {}
  BY <1>1
<1>3. /\ turn' = ToTheBack(t) /\ db' = db /\ enabled' = enabled /\ job.pc = "loop"
  BY DEF Attempt, Takes
<1>4. PICK n : job' = [job EXCEPT !.pc = "fetch", !.cur = t, !.from = n, !.at = n,
                                  !.own = Earlier(SourceBudget, job.group)]
  BY DEF Attempt
<1>5. /\ job'.pc = "fetch" /\ job'.cur = t /\ job'.todo = job.todo /\ job'.class = job.class
  BY <1>4 DEF TypeOK, Job
<1> QED BY <1>2, <1>3, <1>5

\* An attempt moves its source behind those who waited with it.
LEMMA OrderStep ==
  ASSUME TypeOK, CurOK, TurnInv, [Next]_vars
  PROVE  TurnsDiffer' /\ PassedBehind'
<1>1. ASSUME NEW t \in Source, Attempt(t)
      PROVE  TurnsDiffer' /\ PassedBehind'
  <2>1. TurnsDiffer /\ turn \in [Source -> 1..Cardinality(Source)]
    BY DEF TurnInv, TypeOK
  <2>2. TurnsDiffer'
    <3>1. turn' = ToTheBack(t)
      BY <1>1, AttemptPassed
    <3>2. \A a, b \in Source : a # b => turn'[a] # turn'[b]
      BY <2>1, <3>1, ToTheBackOrder
    <3> QED BY <3>2 DEF TurnsDiffer
  <2>3. ASSUME NEW s \in Source, NEW u \in passed'[s]
        PROVE  turn'[s] < turn'[u]
    <3>1. s # t /\ u \in passed[s] \cup {t} /\ turn' = ToTheBack(t)
      BY <1>1, <2>3, AttemptPassed
    <3>2. CASE u = t
      BY <2>1, <3>1, <3>2, ToTheBackOrder
    <3>3. CASE u # t
      <4>1. u \in Source /\ turn[s] < turn[u]
        BY <3>1, <3>3 DEF TypeOK, TurnInv, PassedBehind
      <4> QED BY <2>1, <3>1, <3>3, <4>1, ToTheBackOrder
    <3> QED BY <3>2, <3>3
  <2> QED BY <2>2, <2>3 DEF PassedBehind
<1>2. CASE \A t \in Source : ~Attempt(t)
  BY <1>2, PassedShrinks DEF TurnInv, TurnsDiffer, PassedBehind
<1> QED BY <1>1, <1>2

\* A ready source stays ready until it is attempted, fails or is edited.
LEMMA ReadyStep ==
  ASSUME TypeOK, CurOK, TurnInv, [Next]_vars
  PROVE  ReadyWaits'
<1> DEFINE Due(s) == db[s].cool = 0 /\ db[s].due = 0
<1>1. ASSUME NEW t \in Source, Attempt(t)
      PROVE  ReadyWaits'
  BY <1>1, AttemptPassed DEF ReadyWaits, Ready
<1>2. CASE \A t \in Source : ~Attempt(t)
  <2>1. SUFFICES ASSUME NEW s \in Source, ~(enabled'[s] /\ db'[s].cool = 0 /\ db'[s].due = 0)
                 PROVE  passed'[s] = {}
    BY DEF ReadyWaits, Ready
  <2>2. passed'[s] \subseteq passed[s]
    BY <1>2, PassedShrinks
  <2>3. CASE enabled[s] /\ Due(s)
    <3>1. passed'[s] = {} \/ ~(\E t \in Source : Edit(t))
      <4>1. ASSUME NEW t \in Source, Edit(t)
            PROVE  passed'[s] = {}
        <5>1. enabled' = [enabled EXCEPT ![t] = ~enabled[t]] /\ db' = db
              /\ passed' = [passed EXCEPT ![t] = {}]
          BY <4>1 DEF Edit
        <5>2. s = t
          BY <2>1, <2>3, <5>1 DEF TypeOK
        <5> QED BY <5>1, <5>2 DEF TypeOK
      <4> QED BY <4>1
    <3>2. ~(\E t \in Source : Edit(t)) => enabled' = enabled
      BY DEF Next, JobStep, SourceStep, vars, Disable, Skip, Attempt, SetupFails, Unsupported,
             Answer, FetchFails, Ingest, Commit, CommitUnanswered, StoreFails, Recover,
             RecoverFails, EndRun, Crash, StartScheduled, StartManual, OrderFails, Publish, Tick
    <3>3. CASE Commit \/ CommitUnanswered \/ Recover
      <4>1. job.cur \in Source /\ passed[job.cur] = {} /\ \A c \in Source : c # job.cur => db'[c] = db[c]
        <5>1. job.pc \in {"store", "fail"}
          BY <3>3 DEF Commit, CommitUnanswered, Recover
        <5>2. \A c \in Source : c # job.cur => db'[c] = db[c]
          BY <3>3 DEF Commit, CommitUnanswered, Recover, Store, TypeOK
        <5> QED BY <5>1, <5>2 DEF CurOK, TurnInv, ServedClean, InHand
      <4>2. enabled' = enabled
        BY <3>3 DEF Commit, CommitUnanswered, Recover
      <4>3. s = job.cur
        BY <2>1, <2>3, <4>1, <4>2
      <4> QED BY <2>2, <4>1, <4>3
    <3>4. CASE Tick
      <4>1. /\ enabled' = enabled /\ db'[s].due = Sooner(db[s].due)
            /\ db'[s].cool = Sooner(db[s].cool)
        BY <3>4 DEF Tick, TypeOK, Row
      <4> QED BY <2>1, <2>3, <4>1 DEF Sooner
    <3>5. ASSUME NEW t \in Source, Disable(t)
          PROVE  passed'[s] = {}
      <4>1. /\ enabled' = enabled /\ ~enabled[t] /\ db' = [db EXCEPT ![t].due = 0]
        BY <3>5 DEF Disable
      <4>2. db'[s] = db[s]
        BY <2>3, <4>1 DEF TypeOK
      <4> QED BY <2>1, <2>3, <4>1, <4>2
    <3>6. CASE db' = db /\ enabled' = enabled
      BY <2>1, <2>3, <3>6
    <3> QED
      BY <1>2, <3>1, <3>2, <3>3, <3>4, <3>5, <3>6
      DEF Next, JobStep, SourceStep, vars, Skip, SetupFails, Unsupported, Answer, FetchFails,
          Ingest, StoreFails, RecoverFails, EndRun, Crash, StartScheduled, StartManual,
          OrderFails, Publish
  <2>4. CASE ~(enabled[s] /\ Due(s))
    <3>1. passed[s] = {}
      BY <2>4 DEF TurnInv, ReadyWaits, Ready
    <3> QED BY <2>2, <3>1
  <2> QED BY <2>3, <2>4
<1> QED BY <1>1, <1>2

\* How a step that is no attempt changes the run: it is none in the end, it is
\* taken on, it starts, it goes on to the next source, or it goes into a failure.
LEMMA RunSteps ==
  ASSUME TypeOK, CurOK, [Next]_vars, \A t \in Source : ~Attempt(t)
  PROVE  \/ job'.pc = "idle"
         \/ /\ job'.pc = job.pc \/ (InHand /\ InHand')
            /\ job'.cur = job.cur /\ job'.todo = job.todo /\ job'.class = job.class
         \/ /\ job.pc = "idle" /\ job'.pc = "loop" /\ job'.todo = Source
            /\ \E force \in BOOLEAN : job'.class = [s \in Source |-> Class(s, force)]
         \/ /\ InHand /\ job'.pc = "loop" /\ job'.todo = job.todo \ {job.cur}
            /\ job'.class = job.class
         \/ \E t \in Source :
              /\ ~Ready(t, FALSE) /\ job.pc = "loop" /\ job'.pc = "loop"
              /\ job'.todo = job.todo \ {t} /\ job'.class = job.class
         \/ \E t \in Source :
              /\ SetupFails(t) /\ job.pc = "loop" /\ job'.pc = "fail" /\ job'.cur = t
              /\ job'.todo = job.todo /\ job'.class = job.class
<1> DEFINE Same == /\ job'.pc = job.pc \/ (InHand /\ InHand')
                   /\ job'.cur = job.cur /\ job'.todo = job.todo /\ job'.class = job.class
           Starts == /\ job.pc = "idle" /\ job'.pc = "loop" /\ job'.todo = Source
                     /\ \E force \in BOOLEAN : job'.class = [s \in Source |-> Class(s, force)]
           GoesOn == /\ InHand /\ job'.pc = "loop" /\ job'.todo = job.todo \ {job.cur}
                     /\ job'.class = job.class
           Passes == \E t \in Source :
                       /\ ~Ready(t, FALSE) /\ job.pc = "loop" /\ job'.pc = "loop"
                       /\ job'.todo = job.todo \ {t} /\ job'.class = job.class
           Breaks == \E t \in Source :
                       /\ SetupFails(t) /\ job.pc = "loop" /\ job'.pc = "fail" /\ job'.cur = t
                       /\ job'.todo = job.todo /\ job'.class = job.class
<1> SUFFICES job'.pc = "idle" \/ Same \/ Starts \/ GoesOn \/ Passes \/ Breaks
  OBVIOUS
<1>0. \A s : MoveOn(s) => /\ job'.pc = "loop" /\ job'.todo = job.todo \ {s}
                          /\ job'.class = job.class
  BY DEF MoveOn, NoJob
<1>1. CASE UNCHANGED job
  BY <1>1
<1>2. CASE StartScheduled \/ StartManual
  <2>1. \A force, replay : StartRun(force, replay)
          => /\ job'.pc = "loop" /\ job'.todo = Source
             /\ job'.class = [s \in Source |-> Class(s, force)]
    BY DEF StartRun, NoJob
  <2>2. job.pc = "idle" /\ \E force, replay \in BOOLEAN : StartRun(force, replay)
    BY <1>2 DEF StartScheduled, StartManual
  <2>3. Starts
    BY <2>1, <2>2
  <2> QED BY <2>3
<1>3. CASE EndRun \/ Crash
  BY <1>3, JobPlaces DEF EndRun, Crash
<1>4. ASSUME NEW t \in Source, Disable(t) \/ Skip(t)
      PROVE  Passes
  <2>1. job.pc = "loop" /\ MoveOn(t)
    BY <1>4 DEF Disable, Skip, Takes
  <2>2. ~Ready(t, FALSE)
    BY <1>4 DEF Disable, Skip, Ready
  <2> QED BY <1>0, <2>1, <2>2
<1>5. ASSUME NEW t \in Source, SetupFails(t)
      PROVE  Breaks
  <2>1. job.pc = "loop" /\ job' = [job EXCEPT !.pc = "fail", !.cur = t]
    BY <1>5 DEF SetupFails, Takes
  <2>2. job'.pc = "fail" /\ job'.cur = t /\ job'.todo = job.todo /\ job'.class = job.class
    BY <2>1 DEF TypeOK, Job
  <2> QED BY <1>5, <2>1, <2>2
<1>6. CASE Unsupported \/ Commit \/ Recover \/ RecoverFails
  <2>1. InHand /\ MoveOn(job.cur)
    BY <1>6 DEF Unsupported, Commit, Recover, RecoverFails, InHand
  <2>2. GoesOn
    BY <1>0, <2>1
  <2> QED BY <2>2
<1>7. CASE Answer \/ FetchFails \/ Ingest \/ CommitUnanswered \/ StoreFails
  <2>1. /\ job.pc \in {"fetch", "store"} /\ job'.pc \in {"store", "fail"}
        /\ job'.cur = job.cur /\ job'.todo = job.todo /\ job'.class = job.class
    BY <1>7 DEF Answer, FetchFails, Ingest, CommitUnanswered, StoreFails, TypeOK, Job
  <2>2. Same
    BY <2>1 DEF InHand
  <2> QED BY <2>2
<1>8. CASE Tick
  <2>1. /\ job'.pc = job.pc /\ job'.cur = job.cur /\ job'.todo = job.todo
        /\ job'.class = job.class
    BY <1>8 DEF Tick, TypeOK, Job
  <2> QED BY <2>1
<1>9. \/ UNCHANGED job \/ StartScheduled \/ StartManual \/ EndRun \/ Crash
      \/ \E t \in Source : Disable(t) \/ Skip(t) \/ SetupFails(t)
      \/ Unsupported \/ Commit \/ Recover \/ RecoverFails
      \/ Answer \/ FetchFails \/ Ingest \/ CommitUnanswered \/ StoreFails \/ Tick
  BY DEF Next, JobStep, SourceStep, vars, OrderFails, Publish, Edit
<1> HIDE DEF Same, Starts, GoesOn, Passes, Breaks
<1> QED BY <1>1, <1>2, <1>3, <1>4, <1>5, <1>6, <1>7, <1>8, <1>9

\* Whoever is taken in hand waits no longer.
LEMMA ServedStep ==
  ASSUME TypeOK, CurOK, TurnInv, [Next]_vars
  PROVE  ServedClean'
<1>1. ASSUME NEW t \in Source, Attempt(t)
      PROVE  ServedClean'
  BY <1>1, AttemptPassed DEF ServedClean
<1>2. CASE \A t \in Source : ~Attempt(t)
  <2>1. SUFFICES ASSUME InHand' PROVE passed'[job'.cur] = {}
    BY DEF ServedClean
  <2>2. job'.pc # "idle" /\ job'.pc # "loop"
    BY <2>1 DEF InHand
  <2>3. ASSUME NEW t \in Source, SetupFails(t), job'.cur = t
        PROVE  passed'[job'.cur] = {}
    <3>1. passed' = [passed EXCEPT ![t] = {}]
      BY <2>3 DEF SetupFails
    <3> QED BY <2>3, <3>1 DEF TypeOK
  <2>4. CASE (job'.pc = job.pc \/ InHand) /\ job'.cur = job.cur
    <3>1. InHand
      BY <2>1, <2>4 DEF InHand
    <3>2. job.cur \in Source /\ passed[job.cur] = {}
      BY <3>1 DEF InHand, CurOK, TurnInv, ServedClean
    <3>3. passed'[job.cur] \subseteq passed[job.cur]
      BY <1>2, <3>2, PassedShrinks
    <3> QED BY <2>4, <3>2, <3>3
  <2> QED BY <1>2, <2>2, <2>3, <2>4, RunSteps
<1> QED BY <1>1, <1>2

\* A run takes a source off its list when it is done with it.
LEMMA DoneStep ==
  ASSUME TypeOK, CurOK, TurnInv, [Next]_vars
  PROVE  PassedDone'
<1> SUFFICES ASSUME job'.pc # "idle", NEW s \in Source, NEW u \in passed'[s],
                    job'.class[s] # 0 \/ s \notin job'.todo, u \in job'.todo
             PROVE  InHand' /\ u = job'.cur
  BY DEF PassedDone
<1>1. ASSUME NEW t \in Source, Attempt(t)
      PROVE  InHand' /\ u = job'.cur
  <2>1. /\ job.pc = "loop" /\ job'.pc = "fetch" /\ job'.cur = t
        /\ job'.todo = job.todo /\ job'.class = job.class /\ u \in passed[s] \cup {t}
    BY <1>1, AttemptPassed
  <2>2. u \notin passed[s]
    BY <2>1 DEF TurnInv, PassedDone, InHand
  <2> QED BY <2>1, <2>2 DEF InHand
<1>2. CASE \A t \in Source : ~Attempt(t)
  <2>1. u \in passed[s]
    BY <1>2, PassedShrinks
  <2>2. Ready(s, FALSE)
    BY <2>1 DEF TurnInv, ReadyWaits
  <2>3. job.pc # "idle" /\ (job.class[s] # 0 \/ s \notin job.todo)
          => u \notin job.todo \/ (InHand /\ u = job.cur)
    BY <2>1 DEF TurnInv, PassedDone
  <2>4. CASE /\ job'.pc = job.pc \/ (InHand /\ InHand')
             /\ job'.cur = job.cur /\ job'.todo = job.todo /\ job'.class = job.class
    BY <2>3, <2>4 DEF InHand
  <2>5. ASSUME job'.todo = Source, NEW force \in BOOLEAN,
               job'.class = [c \in Source |-> Class(c, force)]
        PROVE  FALSE
    <3>1. Class(s, force) # 0
      BY <2>5
    <3> QED BY <2>2, <3>1 DEF Class, Ready
  <2>6. CASE /\ InHand /\ job'.pc = "loop" /\ job'.todo = job.todo \ {job.cur}
             /\ job'.class = job.class
    <3>1. s # job.cur
      BY <2>1, <2>6 DEF TurnInv, ServedClean
    <3> QED BY <2>3, <2>6, <3>1 DEF InHand
  <2>7. ASSUME NEW t \in Source, ~Ready(t, FALSE), job.pc = "loop",
               job'.todo = job.todo \ {t}, job'.class = job.class
        PROVE  FALSE
    BY <2>2, <2>3, <2>7 DEF InHand
  <2>8. ASSUME NEW t \in Source, job.pc = "loop", job'.todo = job.todo, job'.class = job.class
        PROVE  FALSE
    BY <2>3, <2>8 DEF InHand
  <2> QED BY <1>2, <2>4, <2>5, <2>6, <2>7, <2>8, RunSteps
<1> QED BY <1>1, <1>2

\* Every step keeps TurnInv.
LEMMA TurnStep ==
  ASSUME TypeOK, CurOK, TurnInv, [Next]_vars
  PROVE  TurnInv'
BY OrderStep, ReadyStep, ServedStep, DoneStep DEF TurnInv

\* A run's next source has not had its turn since a ready source began to wait.
LEMMA AttemptIsFair ==
  ASSUME TypeOK, TurnInv, Rotates, NEW s \in Source, NEW t \in passed[s],
         Ready(s, FALSE), Attempt(t)
  PROVE  FALSE
<1>1. job.pc = "loop" /\ t \in job.todo /\ \A u \in job.todo \ {t} : Before(t, u)
  BY DEF Attempt, Takes, IsNext
<1>2. t \in Source /\ turn[s] < turn[t] /\ turn[s] \in Nat /\ turn[t] \in Nat
  BY Bounds DEF TypeOK, TurnInv, PassedBehind
<1>3. job.class[s] = 0 /\ s \in job.todo
  BY <1>1 DEF TurnInv, PassedDone, InHand
<1>4. s # t
  BY <1>2
<1>5. \/ job.class[t] < job.class[s]
      \/ turn[t] < turn[s]
  BY <1>1, <1>3, <1>4 DEF Before
<1>6. job.class[t] \in 0..2
  BY <1>2 DEF TypeOK, Job
<1> QED BY <1>2, <1>3, <1>5, <1>6

\* In a group that rotates, nobody is attempted twice while a ready source
\* waits, for any number of sources and any bounds.
THEOREM NoSecondTurn ==
  ASSUME Rotates
  PROVE  Spec => NobodyGoesTwice
<1>1. Init => TypeOK /\ CurOK /\ TurnInv
  BY TypeInit, CurInit, TurnInit
<1>2. TypeOK /\ CurOK /\ TurnInv /\ [Next]_vars => (TypeOK /\ CurOK /\ TurnInv)'
  BY TypeStep, CurInductive, TurnStep
<1>3. TypeOK /\ CurOK /\ TurnInv /\ [Next]_vars
        => [\A s, t \in Source :
              /\ Ready(s, FALSE) /\ t \in passed[s]
              => ~(job.pc = "loop" /\ job'.pc = "fetch" /\ job'.cur = t)]_vars
  <2>1. SUFFICES ASSUME TypeOK, CurOK, TurnInv, [Next]_vars, NEW s \in Source, NEW t \in passed[s],
                        Ready(s, FALSE), job.pc = "loop", job'.pc = "fetch", job'.cur = t
                 PROVE  FALSE
    OBVIOUS
  <2>2. PICK u \in Source : Attempt(u)
    BY <2>1, RunSteps DEF InHand
  <2>3. u = t
    BY <2>1, <2>2, AttemptPassed
  <2> QED BY <2>1, <2>2, <2>3, AttemptIsFair
<1> QED BY <1>1, <1>2, <1>3, PTL DEF Spec, NobodyGoesTwice
=============================================================================
