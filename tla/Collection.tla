----------------------------- MODULE Collection -----------------------------
(***************************************************************************)
(* radar collect for one group of sources (pipeline.py, collect_group):    *)
(* what is committed per source, the run with its two budgets, and the     *)
(* sites it reads.                                                         *)
(*                                                                         *)
(* A source is handled in two transactions with the network between them:  *)
(* the attempt is committed, the site is read with no transaction open,    *)
(* and items, watermark and next due time are committed together.  When    *)
(* anything in between fails, everything since the attempt is rolled back  *)
(* and a third transaction records the failure.  A run may die anywhere.   *)
(*                                                                         *)
(* Times are kept as distances from now, so they stay bounded: due and     *)
(* cool count down to zero, and last_attempt_at, which is only compared,   *)
(* is kept as the order of the last attempts.                              *)
(***************************************************************************)
EXTENDS Naturals, FiniteSets

CONSTANTS
  Source,         \* the group's sources
  place,          \* [Source -> position in configs/sources.yml]
  NoCollector,    \* sources of a kind no collector exists for
  None,           \* no source
  Rotates,        \* the group is "tech": oldest attempt first
  GroupBudget,    \* group_budget_seconds
  SourceBudget,   \* source_budget_seconds
  Cadence,        \* next_due_at after a success
  Backoff,        \* next_due_at after a failure
  Period,         \* time between scheduled runs
  MaxItems,       \* items a site publishes
  MaxRetryAfter,  \* longest Retry-After
  MaxFaults,      \* failures other than a spent budget
  MaxCrashes,     \* runs that die
  MaxManual,      \* runs started by hand
  MaxEdits        \* changes of "enabled" in configs/sources.yml

ASSUME CollectionAssumption ==
  /\ IsFiniteSet(Source) /\ None \notin Source /\ NoCollector \subseteq Source
  /\ place \in [Source -> 1..Cardinality(Source)]
  /\ \A s, t \in Source : s # t => place[s] # place[t]
  /\ Rotates \in BOOLEAN
  /\ {GroupBudget, SourceBudget, Cadence, Backoff, Period} \subseteq Nat \ {0}
  /\ {MaxItems, MaxRetryAfter, MaxFaults, MaxCrashes, MaxManual, MaxEdits}
       \subseteq Nat

VARIABLES
  db,       \* [Source -> the committed item set, watermark, due and cooldown]
  turn,     \* [Source -> place in the order of last attempts]
  job,      \* the run
  enabled,  \* [Source -> BOOLEAN], the version-controlled switch
  pub,      \* [Source -> items the site has published]
  cron,     \* time to the next scheduled run
  left,     \* what is left of the bounds
  asked,    \* history: [Source -> time a site still asked us to stay away]
  passed    \* history: [Source -> who was attempted while it was waiting]

vars == <<db, turn, job, enabled, pub, cron, left, asked, passed>>

Wait == 0..(Cadence + Backoff + MaxRetryAfter)

Later(a, b) == IF a >= b THEN a ELSE b

Earlier(a, b) == IF a <= b THEN a ELSE b

Row == [items: SUBSET (1..MaxItems), cursor: 0..MaxItems, due: Wait, cool: Wait]

Job == [pc: {"idle", "loop", "fetch", "store", "fail"},
        force: BOOLEAN, replay: BOOLEAN, todo: SUBSET Source,
        class: [Source -> 0..2], cur: Source \cup {None},
        group: 0..GroupBudget, own: 0..SourceBudget,
        from: 0..MaxItems, at: 0..MaxItems, to: 0..MaxItems,
        items: SUBSET (1..MaxItems), retry: 0..MaxRetryAfter]

NoJob == [pc |-> "idle", force |-> FALSE, replay |-> FALSE, todo |-> {},
          class |-> [s \in Source |-> 0], cur |-> None, group |-> 0, own |-> 0,
          from |-> 0, at |-> 0, to |-> 0, items |-> {}, retry |-> 0]

-----------------------------------------------------------------------------
(* The order of a run.                                                     *)

\* (Mutant: --force goes past the cooldown too.)
ReadyWhenForced(s, force) ==
  enabled[s] /\ (force \/ (db[s].cool = 0 /\ db[s].due = 0))

\* The guards of collect_source: a cooldown binds even a forced run.
Ready(s, force) == enabled[s] /\ db[s].cool = 0 /\ (force \/ db[s].due = 0)

Class(s, force) == IF ~enabled[s] THEN 2 ELSE IF Ready(s, force) THEN 0 ELSE 1

\* (Mutant: every group keeps the order of the file.)
BeforeInFile(s, t) == place[s] < place[t]

Before(s, t) ==
  IF Rotates THEN \/ job.class[s] < job.class[t]
                  \/ job.class[s] = job.class[t] /\ turn[s] < turn[t]
             ELSE place[s] < place[t]

\* The source the run's loop comes to next.
IsNext(s) == s \in job.todo /\ \A t \in job.todo \ {s} : Before(s, t)

\* (Mutant: the attempt time is not recorded.)
ToTheBackNever(s) == turn

\* Committing last_attempt_at puts a source behind all others.
ToTheBack(s) == [t \in Source |-> IF t = s THEN Cardinality(Source)
                                  ELSE IF turn[t] > turn[s] THEN turn[t] - 1
                                  ELSE turn[t]]

StartRun(force, replay) ==
  job' = [NoJob EXCEPT !.pc = "loop", !.force = force, !.replay = replay,
                       !.todo = Source, !.group = GroupBudget,
                       !.class = [s \in Source |-> Class(s, force)]]

StartScheduled ==
  /\ job.pc = "idle" /\ cron = 0
  /\ cron' = Period
  /\ StartRun(FALSE, FALSE)
  /\ UNCHANGED <<db, turn, enabled, pub, left, asked, passed>>

\* --force, or the collection part of radar backfill.
StartManual ==
  /\ job.pc = "idle" /\ left.manual > 0
  /\ left' = [left EXCEPT !.manual = @ - 1]
  /\ \E replay \in BOOLEAN : StartRun(TRUE, replay)
  /\ UNCHANGED <<db, turn, enabled, pub, cron, asked, passed>>

\* The query for the order fails or outlasts the budget: nothing is collected.
OrderFails ==
  /\ Rotates /\ job.pc = "idle" /\ cron = 0 /\ left.faults > 0
  /\ cron' = Period
  /\ left' = [left EXCEPT !.faults = @ - 1]
  /\ UNCHANGED <<db, turn, job, enabled, pub, asked, passed>>

-----------------------------------------------------------------------------
(* One source: the first transaction.                                      *)

\* Back at the head of the loop, with s done.
MoveOn(s) == job' = [NoJob EXCEPT !.pc = "loop", !.force = job.force,
                       !.replay = job.replay, !.todo = job.todo \ {s},
                       !.class = job.class, !.group = job.group]

Takes(s) == job.pc = "loop" /\ job.group > 0 /\ IsNext(s)

Disable(s) ==
  /\ Takes(s) /\ ~enabled[s]
  /\ db' = [db EXCEPT ![s].due = 0]
  /\ MoveOn(s)
  /\ UNCHANGED <<turn, enabled, pub, cron, left, asked, passed>>

Skip(s) ==
  /\ Takes(s) /\ enabled[s] /\ ~Ready(s, job.force)
  /\ MoveOn(s)
  /\ UNCHANGED <<db, turn, enabled, pub, cron, left, asked, passed>>

\* The attempt is committed, then the site is asked.  A backfill replays from
\* an earlier watermark, held in memory only.
Attempt(s) ==
  /\ Takes(s) /\ Ready(s, job.force)
  /\ turn' = ToTheBack(s)
  /\ \E n \in IF job.replay THEN 0..db[s].cursor ELSE {db[s].cursor} :
       job' = [job EXCEPT !.pc = "fetch", !.cur = s, !.from = n, !.at = n,
                          !.own = Earlier(SourceBudget, job.group)]
  /\ passed' = [t \in Source |->
                  IF t # s /\ Ready(t, FALSE) THEN passed[t] \cup {s} ELSE {}]
  /\ UNCHANGED <<db, enabled, pub, cron, left, asked>>

\* sync_source or the commit of the attempt raises.
SetupFails(s) ==
  /\ Takes(s) /\ left.faults > 0
  /\ left' = [left EXCEPT !.faults = @ - 1]
  /\ job' = [job EXCEPT !.pc = "fail", !.cur = s]
  /\ passed' = [passed EXCEPT ![s] = {}]
  /\ UNCHANGED <<db, turn, enabled, pub, cron, asked>>

-----------------------------------------------------------------------------
(* The site.                                                               *)

Unsupported ==
  /\ job.pc = "fetch" /\ job.cur \in NoCollector
  /\ MoveOn(job.cur)
  /\ UNCHANGED <<db, turn, enabled, pub, cron, left, asked, passed>>

\* The collector returns everything above the watermark, or nothing (304).
Answer ==
  /\ job.pc = "fetch" /\ job.cur \notin NoCollector /\ job.own > 0
  /\ job' = [job EXCEPT !.pc = "store", !.to = pub[job.cur],
                        !.items = db[job.cur].items]
  /\ UNCHANGED <<db, turn, enabled, pub, cron, left, asked, passed>>

\* The budget is spent, or the site fails, perhaps with a Retry-After.
FetchFails ==
  /\ job.pc = "fetch" /\ job.cur \notin NoCollector
  /\ \/ job.own = 0 /\ UNCHANGED <<left, asked>> /\ job' = [job EXCEPT !.pc = "fail"]
     \/ /\ left.faults > 0
        /\ left' = [left EXCEPT !.faults = @ - 1]
        /\ \E wait \in 0..MaxRetryAfter :
             /\ asked' = [asked EXCEPT ![job.cur] = wait]
             /\ job' = [job EXCEPT !.pc = "fail", !.retry = wait]
  /\ UNCHANGED <<db, turn, enabled, pub, cron, passed>>

-----------------------------------------------------------------------------
(* The second transaction: job.items is its uncommitted item set.          *)

\* (Mutant: one item too many.)
IngestOneMore ==
  /\ job.pc = "store" /\ job.own > 0 /\ job.at <= job.to
  /\ job' = [job EXCEPT !.at = @ + 1, !.items = @ \cup {job.at + 1}]
  /\ UNCHANGED <<db, turn, enabled, pub, cron, left, asked, passed>>

Ingest ==
  /\ job.pc = "store" /\ job.own > 0 /\ job.at < job.to
  /\ job' = [job EXCEPT !.at = @ + 1, !.items = @ \cup {job.at + 1}]
  /\ UNCHANGED <<db, turn, enabled, pub, cron, left, asked, passed>>

Store == db' = [db EXCEPT ![job.cur] =
                  [items |-> job.items, cursor |-> job.to, due |-> Cadence, cool |-> 0]]

Commit ==
  /\ job.pc = "store" /\ job.own > 0 /\ job.at >= job.to
  /\ Store
  /\ MoveOn(job.cur)
  /\ UNCHANGED <<turn, enabled, pub, cron, left, asked, passed>>

\* The database commits, and the connection breaks before it says so.
CommitUnanswered ==
  /\ job.pc = "store" /\ job.own > 0 /\ job.at >= job.to /\ left.faults > 0
  /\ left' = [left EXCEPT !.faults = @ - 1]
  /\ Store
  /\ job' = [job EXCEPT !.pc = "fail"]
  /\ UNCHANGED <<turn, enabled, pub, cron, asked, passed>>

StoreFails ==
  /\ job.pc = "store"
  /\ \/ job.own = 0 /\ UNCHANGED left
     \/ left.faults > 0 /\ left' = [left EXCEPT !.faults = @ - 1]
  /\ job' = [job EXCEPT !.pc = "fail"]
  /\ UNCHANGED <<db, turn, enabled, pub, cron, asked, passed>>

-----------------------------------------------------------------------------
(* The third transaction, after a rollback.                                *)

\* (Mutant: no rollback, so the flushed items are committed with the failure.)
RecoverUnrolled ==
  /\ job.pc = "fail"
  /\ db' = [db EXCEPT ![job.cur] = [@ EXCEPT !.items = @ \cup job.items, !.due = Backoff]]
  /\ MoveOn(job.cur)
  /\ passed' = [passed EXCEPT ![job.cur] = {}]
  /\ UNCHANGED <<turn, enabled, pub, cron, left, asked>>

Recover ==
  /\ job.pc = "fail"
  /\ db' = [db EXCEPT ![job.cur].due = Later(Backoff, job.retry),
                      ![job.cur].cool = IF job.retry > 0 THEN job.retry ELSE @]
  /\ MoveOn(job.cur)
  /\ passed' = [passed EXCEPT ![job.cur] = {}]
  /\ UNCHANGED <<turn, enabled, pub, cron, left, asked>>

\* The failure cannot be recorded: it is logged, and the site's request is lost.
RecoverFails ==
  /\ job.pc = "fail" /\ left.faults > 0
  /\ left' = [left EXCEPT !.faults = @ - 1]
  /\ asked' = [asked EXCEPT ![job.cur] = 0]
  /\ MoveOn(job.cur)
  /\ UNCHANGED <<db, turn, enabled, pub, cron, passed>>

\* The list is done, or the group's budget is.
EndRun ==
  /\ job.pc = "loop" /\ (job.todo = {} \/ job.group = 0)
  /\ job' = NoJob
  /\ UNCHANGED <<db, turn, enabled, pub, cron, left, asked, passed>>

Crash ==
  /\ job.pc # "idle" /\ left.crashes > 0
  /\ left' = [left EXCEPT !.crashes = @ - 1]
  /\ job' = NoJob
  /\ asked' = IF job.pc = "fail" THEN [asked EXCEPT ![job.cur] = 0] ELSE asked
  /\ UNCHANGED <<db, turn, enabled, pub, cron, passed>>

-----------------------------------------------------------------------------
(* The environment.                                                        *)

\* What a source without a collector publishes is never read.
Publish(s) ==
  /\ s \notin NoCollector /\ pub[s] < MaxItems
  /\ pub' = [pub EXCEPT ![s] = @ + 1]
  /\ UNCHANGED <<db, turn, job, enabled, cron, left, asked, passed>>

\* A run reads configs/sources.yml once, when it starts.
Edit(s) ==
  /\ job.pc = "idle" /\ left.edits > 0
  /\ left' = [left EXCEPT !.edits = @ - 1]
  /\ enabled' = [enabled EXCEPT ![s] = ~@]
  /\ passed' = [passed EXCEPT ![s] = {}]
  /\ UNCHANGED <<db, turn, job, pub, cron, asked>>

Sooner(n) == IF n > 0 THEN n - 1 ELSE 0

\* Time passes between runs and during I/O.
Tick ==
  /\ job.pc \in {"idle", "fetch", "store"}
  /\ db' = [s \in Source |-> [db[s] EXCEPT !.due = Sooner(@), !.cool = Sooner(@)]]
  /\ asked' = [s \in Source |-> Sooner(asked[s])]
  /\ cron' = Sooner(cron)
  /\ job' = [job EXCEPT !.group = Sooner(@), !.own = Sooner(@)]
  /\ UNCHANGED <<turn, enabled, pub, left, passed>>

-----------------------------------------------------------------------------
Init ==
  /\ db = [s \in Source |-> [items |-> {}, cursor |-> 0, due |-> 0, cool |-> 0]]
  /\ turn = place
  /\ job = NoJob
  /\ enabled = [s \in Source |-> TRUE]
  /\ pub = [s \in Source |-> 0]
  /\ cron = 0
  /\ left = [faults |-> MaxFaults, crashes |-> MaxCrashes,
             manual |-> MaxManual, edits |-> MaxEdits]
  /\ asked = [s \in Source |-> 0]
  /\ passed = [s \in Source |-> {}]

SourceStep(s) == Disable(s) \/ Skip(s) \/ Attempt(s) \/ SetupFails(s)

JobStep ==
  \/ \E s \in Source : SourceStep(s)
  \/ Unsupported \/ Answer \/ FetchFails
  \/ Ingest \/ Commit \/ CommitUnanswered \/ StoreFails
  \/ Recover \/ RecoverFails \/ EndRun

Next ==
  \/ JobStep \/ StartScheduled \/ StartManual \/ OrderFails \/ Crash
  \/ \E s \in Source : Publish(s) \/ Edit(s)
  \/ Tick

Spec == Init /\ [][Next]_vars

\* A started run goes on, the schedule starts runs, and time passes.
FairSpec == Spec /\ WF_vars(JobStep) /\ WF_vars(StartScheduled) /\ WF_vars(Tick)

-----------------------------------------------------------------------------
TypeOK ==
  /\ db \in [Source -> Row]
  /\ turn \in [Source -> 1..Cardinality(Source)]
  /\ job \in Job
  /\ enabled \in [Source -> BOOLEAN]
  /\ pub \in [Source -> 0..MaxItems]
  /\ cron \in 0..Period
  /\ left \in [faults: 0..MaxFaults, crashes: 0..MaxCrashes,
               manual: 0..MaxManual, edits: 0..MaxEdits]
  /\ asked \in [Source -> 0..MaxRetryAfter]
  /\ passed \in [Source -> SUBSET Source]

\* Items and watermark of a source move together and forward (collect_group's
\* savepoint and commit; docs/runbook.md: "No partial-page cursor is
\* committed"), for normal runs, forced runs and backfill replays, and when
\* the commit's answer is lost.
Promised == INSTANCE Intake WITH stored <- [s \in Source |-> db[s].items],
                                 mark <- [s \in Source |-> db[s].cursor]

TakesWholeBatches == Promised!Spec

\* A site that asked not to be requested for a while is left alone for that
\* long, by forced runs and replays too, and when the source is disabled and
\* enabled again meanwhile (retry_not_before).  Excepted are requests whose
\* recording failed or died, which RecoverFails and Crash forget.
AttemptRespectsCooldown ==
  [][\A s \in Source : job.pc = "loop" /\ job'.pc = "fetch" /\ job'.cur = s
                         => asked[s] = 0]_vars

\* While a tech source waits ready, no other source is attempted twice: the
\* group budget cannot keep it waiting behind sources that had their turn
\* (_tech_source_order).
NobodyGoesTwice ==
  [][\A s, t \in Source :
       /\ Ready(s, FALSE) /\ t \in passed[s]
       => ~(job.pc = "loop" /\ job'.pc = "fetch" /\ job'.cur = t)]_vars

Attempted(s) == job.pc = "fetch" /\ job.cur = s

\* Every ready tech source is attempted in the end, however slow the others
\* are, unless it is disabled first.
ReadyIsAttempted ==
  \A s \in Source : Ready(s, FALSE) ~> (Attempted(s) \/ ~enabled[s])

=============================================================================
