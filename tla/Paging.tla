------------------------------- MODULE Paging -------------------------------
(***************************************************************************)
(* How one source is read (collectors/): the HTTP client with its retries  *)
(* and its time budget (base.py, limits.py), the ways the collectors page  *)
(* through a site, and the watermark each leaves for its next run.  The    *)
(* site goes on publishing while it is read.                               *)
(*                                                                         *)
(* A step is one answer to one request.  The collector is a constant of a  *)
(* behaviour, chosen in Init.  A row is reduced to its date, the set,      *)
(* venue, search term or volume it is listed under, and whether the        *)
(* collector accepts it; what an accepted row is translated to is left     *)
(* out.  Due times and the cooldown between runs are in Collection.        *)
(***************************************************************************)
EXTENDS Integers, FiniteSets, Sequences, SequencesExt

CONSTANTS
  Kinds,        \* collectors to choose from
  None,         \* no watermark
  MaxPosts,     \* bound: [Kinds -> rows the site publishes]
  MaxDay,       \* bound: [Kinds -> days], 0 where no query has a date
  Shelves,      \* [Kinds -> sets, venues, search terms or volumes of a source]
  PageSize,
  MaxPages,     \* max_pages, max_pages_per_term
  MaxItems,     \* max_items of a feed or a listing
  VolumeLimit,  \* volume_limit, event_limit
  YearsBack,    \* years_back
  Lookback,     \* lookback_days
  Overlap,      \* how far a watermark's query reaches back
  Lag,          \* how late arXiv lists a row, against its date
  DetailLimit,  \* detail_fetch_limit, filing_detail_limit
  Attempts,     \* max_attempts
  Budget,       \* source_budget_seconds
  Waits,        \* Retry-After values
  MaxSurprises  \* bound: requests that go wrong, and rows that are malformed,
                \* listed late or revised

AllKinds == {"arxiv", "oai", "sec", "sse", "cninfo", "samr", "openreview",
             "volumes", "html", "feed"}

\* Collectors whose rows come under several headings: sets, venues, terms,
\* volumes, and for the links of a listing the rank of their URL and title.
Shelved == {"oai", "samr", "openreview", "volumes", "html"}

\* Collectors whose first request carries the stored validators.
Conditional == {"arxiv", "sec", "sse", "volumes", "html", "feed"}

ASSUME PagingAssumption ==
  /\ Kinds \subseteq AllKinds
  /\ MaxPosts \in [Kinds -> Nat] /\ MaxDay \in [Kinds -> Nat] /\ MaxSurprises \in Nat
  /\ Shelves \in [Kinds -> Nat \ {0}]
  /\ {PageSize, MaxPages, MaxItems, VolumeLimit, Lookback, DetailLimit, Attempts,
      Budget} \subseteq Nat \ {0}
  /\ YearsBack \in Nat /\ Lag \in Nat /\ Overlap \in Nat /\ Lag <= Overlap
  /\ Waits \subseteq Nat \ {0}
  /\ None \notin Int

VARIABLES
  kind,      \* the collector, fixed
  tags,      \* the site sends validators and answers 304, fixed
  site,      \* the site's rows, in the order they appeared
  today,
  cursor,    \* source_cursors: what the last committed run left
  stored,    \* rows in the database, each with its date
  run,       \* the run
  surprises, \* what is left of that bound
  reported,  \* history: rows the site had when a run committed a warning
  skipped,   \* history: rows added to an OAI set after the pass had listed it
  detailed,  \* history: rows whose detail page was read
  early      \* history: a request was sent before a Retry-After had passed

vars == <<kind, tags, site, today, cursor, stored, run, surprises, reported,
          skipped, detailed, early>>

NoCursor == [mark |-> None, unit |-> 1, token |-> 0, last |-> 0,
             tag |-> None, offset |-> 0]

NoRun == [pc |-> "idle", unit |-> 1, page |-> 1, token |-> 0, from |-> None,
          day |-> 0, count |-> 0, latest |-> None, got |-> {}, warned |-> FALSE,
          todo |-> <<>>, next |-> NoCursor, attempt |-> 1, budget |-> 0,
          asked |-> 0, latched |-> FALSE]

-----------------------------------------------------------------------------
(* The site.                                                               *)

Rows == DOMAIN site
Row(i) == <<i, site[i].date>>
Accepted(S) == {Row(i) : i \in {j \in S : site[j].sound}}
OnShelf(u) == {i \in Rows : site[i].shelf = u}
Since(S, d) == {i \in S : d = None \/ site[i].date >= d}

\* The days a run asks for end with the day it began.
InWindow == {i \in Since(Rows, run.from) : site[i].date <= run.day}

Newer(i, j) == site[i].date > site[j].date \/ (site[i].date = site[j].date /\ i > j)

\* The rows of S in order: the n-th has n - 1 before it.
Ranked(S, Before(_, _)) ==
  [n \in 1..Cardinality(S) |->
     CHOOSE i \in S : Cardinality({j \in S : Before(j, i)}) = n - 1]

NewestFirst(S) == Ranked(S, Newer)
OldestFirst(S) == Ranked(S, <)
HighestFirst(S) == Ranked(S, >)

First(n, s) == SubSeq(s, 1, Min({n, Len(s)}))
From(n, s) == SubSeq(s, n + 1, Len(s))
Page(s, n) == First(PageSize, From(Min({(n - 1) * PageSize, Len(s)}), s))

\* The validator of an answer: its query, its page and what it shows of the
\* site; an index shows which volumes there are.
Tag(page) ==
  <<run.from, page, IF kind = "volumes" THEN {site[i].shelf : i \in Rows}
                    ELSE [i \in Rows |-> site[i].date]>>

-----------------------------------------------------------------------------
(* The client.                                                             *)

\* A request can be sent.
Asking == run.pc \in {"list", "inner", "detail"} /\ ~run.latched /\ run.budget > 0

Send == Asking /\ early' = (early \/ run.asked > 0)

\* A request was answered: the next one starts over.
Answered(r) == [r EXCEPT !.attempt = 1]

NotModified == tags /\ kind \in Conditional /\ run.page = 1 /\ cursor.tag = Tag(1)

\* Deadline.sleep before the next attempt: a wait that does not fit in the
\* budget is not begun, and fails the deadline for good.
Sleep(r, seconds) ==
  IF seconds >= r.budget
  THEN [r EXCEPT !.latched = TRUE]
  ELSE [r EXCEPT !.budget = @ - seconds, !.asked = Max({0, @ - seconds}),
                 !.attempt = @ + 1]

\* (Mutant: one unit too many.)
NextUnitAfterLast(r) ==
  IF r.unit > Shelves[kind] THEN [r EXCEPT !.pc = "done"]
  ELSE [r EXCEPT !.unit = @ + 1, !.page = 1]

\* The next set, venue or term.
NextUnit(r) ==
  IF r.unit >= Shelves[kind] THEN [r EXCEPT !.pc = "done"]
  ELSE [r EXCEPT !.unit = @ + 1, !.page = 1]

\* The next detail page of a listing, or the next entry of an index.
NextEntry(r) ==
  [r EXCEPT !.todo = Tail(@), !.pc = IF Len(r.todo) > 1 THEN @ ELSE "done"]

\* Where a collector catches what a request raises: the details of a listing,
\* a venue, a term, a volume.  It goes on with a warning.
Caught == run.pc \in {"inner", "detail"} \/ kind \in {"samr", "openreview"}

GoesOn(r) ==
  LET s == [Answered(r) EXCEPT !.warned = TRUE]
  IN  IF run.pc \in {"inner", "detail"} THEN NextEntry(s) ELSE NextUnit(s)

\* CollectorHTTPError.
Raised(r) == IF Caught THEN GoesOn(r) ELSE NoRun

Surprise == surprises > 0 /\ surprises' = surprises - 1

\* A request that goes wrong may go wrong at every attempt.
Fault == Send /\ IF run.attempt = 1 THEN Surprise ELSE UNCHANGED surprises

TransportFails ==
  /\ Fault
  /\ run' = IF run.attempt < Attempts THEN Sleep(run, 1) ELSE Raised(run)
  /\ UNCHANGED <<kind, tags, site, today, cursor, stored, reported, skipped, detailed>>

\* (Mutant: the last answer is an ordinary error.)
ExhaustedForgetsDelay(r, wait) == Raised(r)

\* The last attempt is answered with a delay: it fails the deadline, so that no
\* handler around the request can go on.
Exhausted(r, wait) ==
  IF wait = 0 THEN Raised(r) ELSE [r EXCEPT !.latched = TRUE]

\* 429 or 5xx, with a Retry-After or (0) without.
Busy(wait) ==
  /\ Fault
  /\ LET r == [run EXCEPT !.asked = wait]
     IN  run' = IF run.attempt < Attempts
                THEN Sleep(r, IF wait > 0 THEN wait ELSE 1)
                ELSE Exhausted(r, wait)
  /\ UNCHANGED <<kind, tags, site, today, cursor, stored, reported, skipped, detailed>>

\* Another status, a redirect that is not followed, or a body that is no answer.
Refused ==
  /\ Fault
  /\ run' = Raised(run)
  /\ UNCHANGED <<kind, tags, site, today, cursor, stored, reported, skipped, detailed>>

\* remaining() finds the budget spent, at an attempt, in a body or in a pause.
OutOfTime ==
  /\ run.pc # "idle" /\ ~run.latched
  /\ Surprise
  /\ run' = [run EXCEPT !.latched = TRUE, !.budget = 0]
  /\ UNCHANGED <<kind, tags, site, today, cursor, stored, reported, skipped,
                 detailed, early>>

\* CollectionBudgetExceeded is raised again by every request that follows: two
\* collectors catch it too, unit by unit, and the others end.
Unwind ==
  /\ run.latched
  /\ run' = IF run.pc # "done" /\ Caught /\ kind \in {"openreview", "volumes"}
            THEN GoesOn(run) ELSE NoRun
  /\ UNCHANGED <<kind, tags, site, today, cursor, stored, surprises, reported,
                 skipped, detailed, early>>

-----------------------------------------------------------------------------
(* The collectors: what one good answer to a listing request does.         *)

\* (Mutant: the watermark is queried without an overlap.)
QueryFromMark ==
  CASE kind \in {"arxiv", "oai"} -> cursor.mark
    [] kind = "sse" -> today - Lookback + 1
    [] kind = "cninfo" -> IF cursor.mark = None THEN today - Lookback
                          ELSE Max({today - Lookback, Min({today, cursor.mark})})
    [] OTHER -> None

\* The date a run asks for.
QueryFrom ==
  CASE kind = "arxiv" -> IF cursor.mark = None THEN None ELSE cursor.mark - Overlap
    [] kind = "oai" -> cursor.mark
    [] kind = "sse" -> today - Lookback + 1
    [] kind = "cninfo" -> IF cursor.mark = None THEN today - Lookback
                          ELSE Max({today - Lookback, Min({today, cursor.mark}) - Overlap})
    [] OTHER -> None

\* The newest date of the accepted rows of a page and of the pages before.
Latest(seen) ==
  LET dates == {row[2] : row \in Accepted(ToSet(seen))}
               \cup (IF run.latest = None THEN {} ELSE {run.latest})
  IN  IF dates = {} THEN None ELSE Max(dates)

\* The run has seen these rows.
Got(r, seen) == [Answered(r) EXCEPT !.got = @ \cup Accepted(ToSet(seen))]
AllSound(seen) == \A i \in ToSet(seen) : site[i].sound

\* A page that is not full ends the run.  On the last page allowed, the number
\* of results tells whether rows are left.
ArxivPage ==
  LET q == NewestFirst(Since(Rows, run.from))
      seen == Page(q, run.page)
      short == Len(seen) < PageSize
      over == ~short /\ run.page = MaxPages /\ MaxPages * PageSize < Len(q)
      latest == Latest(seen)
  IN  [Got(run, seen) EXCEPT
         !.latest = latest, !.warned = @ \/ over, !.page = @ + 1,
         !.next.tag = IF tags THEN Tag(run.page) ELSE None,
         !.next.mark = IF latest = None THEN @ ELSE latest,
         !.pc = IF short \/ run.page = MaxPages THEN "done" ELSE @]

\* The end of a page of an OAI set; token is where the next page starts, 0 for
\* none.  After the last set the next pass starts from the date of this answer.
OaiNext(r, token) ==
  LET unit == IF token = 0 THEN r.unit + 1 ELSE r.unit
  IN  IF unit > Shelves[kind]
      THEN [r EXCEPT !.pc = "done", !.next.mark = today, !.next.unit = 1, !.next.token = 0]
      ELSE IF run.page = Max({MaxPages, Shelves[kind]})
      THEN [r EXCEPT !.pc = "done", !.warned = TRUE,
                     !.next.unit = unit, !.next.token = token]
      ELSE [r EXCEPT !.unit = unit, !.token = token, !.page = @ + 1]

OaiPage ==
  LET q == OldestFirst(Since(OnShelf(run.unit), run.from))
      seen == First(PageSize, From(Min({run.token, Len(q)}), q))
      reached == run.token + PageSize
  IN  OaiNext(Got(run, seen), IF reached < Len(q) THEN reached ELSE 0)

\* A resumption token that has expired is an error without a token: the set is
\* taken to be finished.
OaiExpired == OaiNext([Answered(run) EXCEPT !.warned = TRUE], 0)

\* pageCount is read on the first page.
SsePage ==
  LET q == NewestFirst(InWindow)
      seen == Page(q, run.page)
      count == IF run.page = 1 THEN (Len(q) + PageSize - 1) \div PageSize ELSE run.count
      ends == run.page >= count \/ seen = <<>> \/ run.page = MaxPages
  IN  [Got(run, seen) EXCEPT
         !.count = count, !.page = @ + 1,
         !.warned = @ \/ ~AllSound(seen) \/ (ends /\ count > MaxPages),
         !.next.tag = IF ~tags THEN None ELSE IF run.page = 1 THEN Tag(1) ELSE @,
         !.pc = IF ends THEN "done" ELSE @]

\* hasMore, and a full page.
CninfoPage ==
  LET q == NewestFirst(InWindow)
      seen == Page(q, run.page)
      more == Len(q) > run.page * PageSize /\ Len(seen) >= PageSize
      latest == Latest(seen)
  IN  [Got(run, seen) EXCEPT
         !.latest = latest, !.page = @ + 1,
         !.warned = @ \/ ~AllSound(seen) \/ (more /\ run.page = MaxPages),
         !.next.mark = IF latest = None THEN @ ELSE latest,
         !.pc = IF ~more \/ run.page = MaxPages THEN "done" ELSE @]

\* (Mutant: the page budget is not reported.)
SamrPageQuiet ==
  LET q == NewestFirst(OnShelf(run.unit))
      seen == Page(q, run.page)
      exhausted == run.page * PageSize >= Len(q) \/ Len(seen) < PageSize
      r == [Got(run, seen) EXCEPT !.page = @ + 1, !.warned = @ \/ ~AllSound(seen)]
  IN  IF exhausted \/ run.page = MaxPages THEN NextUnit(r) ELSE r

SamrPage ==
  LET q == NewestFirst(OnShelf(run.unit))
      seen == Page(q, run.page)
      exhausted == run.page * PageSize >= Len(q) \/ Len(seen) < PageSize
      over == ~exhausted /\ run.page = MaxPages /\ MaxPages * PageSize < Len(q)
      r == [Got(run, seen) EXCEPT !.page = @ + 1, !.warned = @ \/ ~AllSound(seen) \/ over]
  IN  IF exhausted \/ run.page = MaxPages THEN NextUnit(r) ELSE r

\* The page budget of a venue is not reported.
OpenReviewPage ==
  LET seen == Page(NewestFirst(OnShelf(run.unit)), run.page)
      r == [Got(run, seen) EXCEPT !.page = @ + 1]
  IN  IF Len(seen) < PageSize \/ run.page = MaxPages THEN NextUnit(r) ELSE r

\* filings.recent, newest first, down to the last filing seen or the cutoff.
SecList ==
  LET inWindow(i) == site[i].date >= today - Lookback + 1
      new == {i \in Rows : i > cursor.last /\ inWindow(i)}
      found == \A i \in Rows : i > cursor.last => inWindow(i)
      details == First(DetailLimit, NewestFirst({i \in new : site[i].sound}))
  IN  [Got(run, OldestFirst(new)) EXCEPT
         !.warned = cursor.last > 0 /\ ~found,
         !.next.last = Len(site),
         !.next.tag = IF tags THEN Tag(1) ELSE None,
         !.todo = details,
         !.pc = IF details = <<>> THEN "done" ELSE "detail"]

\* (Mutant: the offset moves by the whole limit.)
NextOffsetByLimit(offset, tried, pool) == (offset + DetailLimit) % pool

\* Where the rotation through the details goes on in the next run.
NextOffset(offset, tried, pool) == (offset + tried) % pool

\* _detail_rank: how the URL and the title score, else the place on the page.
BetterLink(i, j) ==
  site[i].shelf > site[j].shelf \/ (site[i].shelf = site[j].shelf /\ Newer(i, j))

\* The first links of a listing, newest on top; a longer one is cut in silence.
Links == First(MaxItems, NewestFirst({i \in Rows : site[i].sound}))

\* The details are those of the best ranked links and of a window that rotates
\* through the others.
HtmlList ==
  LET ranked == Ranked(ToSet(Links), BetterLink)
      fresh == Max({1, DetailLimit \div 2})
      pool == From(Min({fresh, Len(ranked)}), ranked)
      tried == Min({DetailLimit - fresh, Len(pool)})
      rotating == [n \in 1..tried |-> pool[((cursor.offset + n - 1) % Len(pool)) + 1]]
      details == First(fresh, ranked) \o rotating
  IN  [Got(run, Links) EXCEPT
         !.next.tag = IF tags THEN Tag(1) ELSE None,
         !.next.offset = IF pool = <<>> THEN @ ELSE NextOffset(@, tried, Len(pool)),
         !.todo = details,
         !.pc = IF details = <<>> THEN "done" ELSE "detail"]

\* RSS, sitemaps, releases and models: one answer with the newest rows.
FeedList ==
  [Got(run, First(MaxItems, NewestFirst(Rows))) EXCEPT
     !.next.tag = IF tags THEN Tag(1) ELSE None, !.pc = "done"]

\* The year of an ACL event is the day its first paper appeared, here.
YearOf(u) == Min({site[i].date : i \in OnShelf(u)})

\* What is read of an index, highest number first: PMLR's latest volumes, or
\* ACL's events of the last years down to a limit.  The others are left out in
\* silence.
Volumes ==
  First(VolumeLimit,
        HighestFirst({u \in {site[i].shelf : i \in Rows} : YearOf(u) >= today - YearsBack}))

\* The index page, then one request for each entry.
VolumesList ==
  [Answered(run) EXCEPT !.next.tag = IF tags THEN Tag(1) ELSE None,
                        !.todo = Volumes,
                        !.pc = IF Volumes = <<>> THEN "done" ELSE "inner"]

VolumesInner == NextEntry(Got(run, OldestFirst(OnShelf(Head(run.todo)))))

Listed ==
  CASE kind = "arxiv" -> ArxivPage
    [] kind = "oai" -> OaiPage
    [] kind = "sse" -> SsePage
    [] kind = "cninfo" -> CninfoPage
    [] kind = "samr" -> SamrPage
    [] kind = "openreview" -> OpenReviewPage
    [] kind = "sec" -> SecList
    [] kind = "html" -> HtmlList
    [] kind = "feed" -> FeedList
    [] kind = "volumes" -> VolumesList

-----------------------------------------------------------------------------
(* A run.                                                                  *)

Start ==
  /\ run.pc = "idle"
  /\ run' = [NoRun EXCEPT !.pc = "list", !.next = cursor, !.from = QueryFrom,
                          !.unit = cursor.unit, !.token = cursor.token,
                          !.day = today, !.budget = Budget]
  /\ UNCHANGED <<kind, tags, site, today, cursor, stored, surprises, reported,
                 skipped, detailed, early>>

\* Nothing is collected, and the cursor is as it was.
Unmodified ==
  /\ run.pc = "list" /\ NotModified
  /\ Send
  /\ run' = [Answered(run) EXCEPT !.pc = "done"]
  /\ UNCHANGED <<kind, tags, site, today, cursor, stored, surprises, reported,
                 skipped, detailed>>

List ==
  /\ run.pc = "list" /\ ~NotModified
  /\ Send
  /\ run' = Listed
  /\ UNCHANGED <<kind, tags, site, today, cursor, stored, surprises, reported,
                 skipped, detailed>>

TokenExpires ==
  /\ kind = "oai" /\ run.pc = "list" /\ run.token > 0
  /\ Fault
  /\ run' = OaiExpired
  /\ UNCHANGED <<kind, tags, site, today, cursor, stored, reported, skipped, detailed>>

\* A feed that does not parse to its end: its first rows, and a warning.  A
\* page that is short for this reason ends an arXiv run too.
Garbled ==
  /\ kind = "arxiv" /\ run.pc = "list" /\ ~NotModified
  /\ Fault
  /\ LET whole == Page(NewestFirst(Since(Rows, run.from)), run.page)
         latest == Latest(First(Len(whole) - 1, whole))
     IN  /\ whole # <<>>
         /\ run' = [Got(run, First(Len(whole) - 1, whole)) EXCEPT
                      !.warned = TRUE, !.latest = latest, !.pc = "done",
                      !.next.tag = IF tags THEN Tag(run.page) ELSE None,
                      !.next.mark = IF latest = None THEN @ ELSE latest]
  /\ UNCHANGED <<kind, tags, site, today, cursor, stored, reported, skipped, detailed>>

Inner ==
  /\ run.pc = "inner"
  /\ Send
  /\ run' = VolumesInner
  /\ UNCHANGED <<kind, tags, site, today, cursor, stored, surprises, reported,
                 skipped, detailed>>

Detail ==
  /\ run.pc = "detail"
  /\ Send
  /\ run' = NextEntry(Answered(run))
  /\ detailed' = detailed \cup {Head(run.todo)}
  /\ UNCHANGED <<kind, tags, site, today, cursor, stored, surprises, reported, skipped>>

\* (Mutant: a failed deadline is not asked about again.)
CommitAnyway ==
  /\ run.pc = "done"
  /\ stored' = stored \cup run.got
  /\ cursor' = run.next
  /\ reported' = IF run.warned THEN reported \cup Accepted(Rows) ELSE reported
  /\ run' = NoRun
  /\ UNCHANGED <<kind, tags, site, today, surprises, skipped, detailed, early>>

\* The batch and its cursor are committed together; the deadline is asked again
\* before.
Commit ==
  /\ run.pc = "done" /\ ~run.latched
  /\ stored' = stored \cup run.got
  /\ cursor' = run.next
  /\ reported' = IF run.warned THEN reported \cup Accepted(Rows) ELSE reported
  /\ run' = NoRun
  /\ UNCHANGED <<kind, tags, site, today, surprises, skipped, detailed, early>>

-----------------------------------------------------------------------------
(* The environment.                                                        *)

\* The pass of an OAI source has listed this set already.
Passed(u) ==
  kind = "oai" /\ u < (IF run.pc = "idle" THEN cursor.unit
                       ELSE IF run.pc = "done" THEN Shelves[kind] + 1 ELSE run.unit)

Publish ==
  /\ Len(site) < MaxPosts[kind]
  /\ \E date \in IF kind = "arxiv" THEN Max({0, today - Lag})..today ELSE {today},
        u \in IF kind \in Shelved THEN 1..Shelves[kind] ELSE {1},
        sound \in BOOLEAN :
       /\ IF sound /\ date = today THEN UNCHANGED surprises ELSE Surprise
       /\ site' = Append(site, [date |-> date, shelf |-> u, sound |-> sound])
       /\ skipped' = IF Passed(u) THEN skipped \cup {Len(site) + 1} ELSE skipped
  /\ UNCHANGED <<kind, tags, today, cursor, stored, run, reported, detailed, early>>

\* A new version of a paper moves it to the front.
Revise ==
  /\ kind = "arxiv"
  /\ Surprise
  /\ \E i \in Rows : site[i].date < today /\ site' = [site EXCEPT ![i].date = today]
  /\ UNCHANGED <<kind, tags, today, cursor, stored, run, reported, skipped, detailed,
                 early>>

NewDay ==
  /\ today < MaxDay[kind]
  /\ today' = today + 1
  /\ UNCHANGED <<kind, tags, site, cursor, stored, run, surprises, reported, skipped,
                 detailed, early>>

Init ==
  /\ kind \in Kinds
  /\ tags \in IF kind \in Conditional THEN BOOLEAN ELSE {FALSE}
  /\ site = <<>>
  /\ today = 0
  /\ cursor = IF kind = "oai" THEN [NoCursor EXCEPT !.mark = 0] ELSE NoCursor
  /\ stored = {}
  /\ run = NoRun
  /\ surprises = MaxSurprises
  /\ reported = {}
  /\ skipped = {}
  /\ detailed = {}
  /\ early = FALSE

RunStep ==
  \/ Start \/ Unmodified \/ List \/ Inner \/ Detail \/ Commit \/ Unwind

Next ==
  \/ RunStep
  \/ TransportFails \/ Refused \/ OutOfTime \/ TokenExpires \/ Garbled
  \/ \E wait \in Waits \cup {0} : Busy(wait)
  \/ Publish \/ Revise \/ NewDay

Spec == Init /\ [][Next]_vars

\* Runs are scheduled for ever and go on.
FairSpec == Spec /\ WF_vars(RunStep)

\* The same, said without ENABLED for the larger instance: a step of a run is
\* always enabled -- a run that is not waiting starts, asks, unwinds or commits.
BusySpec == Spec /\ []<><<RunStep>>_vars

-----------------------------------------------------------------------------
\* Every row any instance may have.
Ids == UNION {1..MaxPosts[k] : k \in Kinds}

Dates == Int \cup {None}
RowSet == (1..MaxPosts[kind]) \X (0..MaxDay[kind])

\* The types, and what a run holds of its budget.
TypeOK ==
  /\ kind \in Kinds /\ tags \in BOOLEAN
  /\ site \in Seq([date : 0..MaxDay[kind], shelf : 1..Shelves[kind], sound : BOOLEAN])
  /\ Len(site) <= MaxPosts[kind] /\ today \in 0..MaxDay[kind]
  /\ cursor.mark \in Dates /\ cursor.unit \in 1..Shelves[kind]
  /\ {cursor.token, cursor.last, cursor.offset} \subseteq Nat
  /\ stored \subseteq RowSet /\ reported \subseteq RowSet
  /\ run.pc \in {"idle", "list", "inner", "detail", "done"}
  /\ run.unit \in 1..Shelves[kind] /\ run.page \in 1..(Max({MaxPages, Shelves[kind]}) + 1)
  /\ run.attempt \in 1..Attempts /\ run.budget \in 0..Budget
  /\ run.pc \notin {"idle", "done"} => run.latched \/ run.budget > 0
  /\ run.got \subseteq RowSet
  /\ surprises \in 0..MaxSurprises
  /\ skipped \cup detailed \subseteq 1..MaxPosts[kind] /\ early \in BOOLEAN

\* The row is out of sight, whatever the cursor: it is older than the days or
\* years looked back, or other rows have pushed it out of the part of a feed, a
\* listing or an index that is read.
Gone(i) ==
  CASE kind \in {"sec", "sse"} -> site[i].date < today - Lookback + 1
    [] kind = "cninfo" -> site[i].date < today - Lookback
    [] kind = "feed" -> Cardinality({j \in Rows : Newer(j, i)}) >= MaxItems
    [] kind = "html" -> Cardinality({j \in Rows : site[j].sound /\ Newer(j, i)}) >= MaxItems
    [] kind = "volumes" -> site[i].shelf \notin ToSet(Volumes)
    [] OTHER -> FALSE

\* The query of the next run, made from the committed cursor, covers the row.
Reachable(i) ==
  CASE kind \in {"arxiv", "sse", "cninfo"} -> i \in Since(Rows, QueryFrom)
    [] kind = "oai" ->
         LET q == OldestFirst(Since(OnShelf(site[i].shelf), cursor.mark))
         IN  \/ site[i].date >= cursor.mark /\ site[i].shelf > cursor.unit
             \/ /\ site[i].shelf = cursor.unit
                /\ i \in ToSet(From(Min({cursor.token, Len(q)}), q))
    [] kind = "sec" -> i > cursor.last
    [] OTHER -> TRUE

\* A watermark never passes a row in silence: whatever was published, revised
\* or dated back while the pages were read, a row that is not stored is still
\* covered by the next query, or a warning was committed while it was there
\* (docs/runbook.md: degraded, or reaching a pagination budget), or nobody
\* could read it in time.  Rows an OAI pass skips are excepted (a known hazard).
LossIsReported ==
  \A i \in Rows :
    site[i].sound =>
      \/ Row(i) \in stored \cup reported
      \/ Reachable(i) \/ Gone(i) \/ i \in skipped

\* No request goes out before the time a site asked for with Retry-After has
\* passed: not an attempt of the same request, and not one for another venue,
\* volume or detail page by a collector that caught the failure.
RetryAfterIsKept == ~early

\* A run that a site asked to wait longer than it may commits neither rows nor
\* a cursor, although two collectors swallow the failure and return a batch.
DeferredRunsCommitNothing ==
  [][run.latched \/ run.asked > 0 => UNCHANGED <<stored, cursor, reported>>]_vars

Published(i) == i \in Rows /\ site[i].sound

\* An OpenReview venue has more papers than are read of it.
PastVenueBudget(i) ==
  /\ kind = "openreview"
  /\ Cardinality({j \in OnShelf(site[i].shelf) : Newer(j, i)}) >= MaxPages * PageSize

\* Everything a site publishes is stored in the end, or a run reports that it
\* may not be: no cursor, token, validator or rotation makes the runs go round
\* a row for ever.  Excepted are, besides the rows no query can see, rows past
\* the budget of a venue (see VenueBudgetIsReported) and rows added to a volume
\* of an index that answers 304 (a known hazard).
EverythingIsRead ==
  \A i \in Ids :
    (Published(i) /\ ~(kind = "volumes" /\ tags))
      ~> /\ Published(i)
         /\ \/ Row(i) \in stored \cup reported
            \/ Gone(i) \/ i \in skipped \/ PastVenueBudget(i)

\* docs/runbook.md says that a backfill fails "if any source fails, degrades, or
\* reaches a pagination budget": a paper past the pages that are read of a venue
\* is reported, if an earlier run has not stored it.
VenueBudgetIsReported ==
  \A i \in Ids :
    (Published(i) /\ PastVenueBudget(i))
      ~> Published(i) /\ Row(i) \in stored \cup reported

\* The rotation reaches the detail page of every link of a listing, although it
\* is cut to a few pages a run, new links are ranked in between and move the
\* others, and a page may fail; a link that leaves the part of the listing that
\* is read is excepted, and a site that answers 304.  (The site stops
\* publishing: a listing that moves by a window with every run can carry a link
\* past the rotation until it is Gone.)
DetailsRotate ==
  \A i \in Ids :
    (kind = "html" /\ ~tags /\ Published(i))
      ~> i \in detailed \/ (Published(i) /\ Gone(i))
=============================================================================
