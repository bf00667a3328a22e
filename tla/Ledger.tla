------------------------------- MODULE Ledger -------------------------------
(***************************************************************************)
(* From a collected item to a line of the digest: ingest_item (db.py),     *)
(* the archive-only marker of collect_group, enrich_pending,               *)
(* recover_pending_embeddings, the upgrade of a cluster's evidence         *)
(* (pipeline.py), the backfill command (cli.py) and compose's selection    *)
(* through delivery_event_revisions (compose.py).                          *)
(*                                                                         *)
(* Three things keep an event out of the mail: it is a duplicate in a      *)
(* cluster, its embedding is pending after an outage of the model, or it   *)
(* was only ever seen by a backfill.  They overlap, they are lifted by     *)
(* different jobs, and their state is spread over flags of the item, the   *)
(* version and the event.  One action is one turn of a loop of the code:   *)
(* one item ingested, one item enriched, one version re-embedded.          *)
(*                                                                         *)
(* Data is reduced to what these decisions read.  A version is an item and *)
(* the number of its content; going back to an earlier content is the same *)
(* version again, as its hash is.  Similarity, relevance and the extent of *)
(* a change are free choices.                                              *)
(***************************************************************************)
EXTENDS Scoring, Sequences, FiniteSets

CONSTANTS
  Items,         \* identities of items; an item's event has its identity too
  Contents,      \* bound: different contents an item may have
  None,          \* no event, no embedding, no content
  Profiles,      \* [Items -> what an item's source is]: one is chosen in Init
  Strengths,     \* topic strengths the classifier gives
  FirstStatuses, \* labels a first collection gives
  DailyLimit,    \* re-embeddings a day
  MaxChanges,    \* bound: [Items -> changes collected for it]
  MaxBackfills   \* bound: backfills

\* The contents of an item are numbered in the order they are first seen.
Hashes == 1..Contents
Versions == Items \X Hashes

ASSUME LedgerAssumption ==
  /\ IsFiniteSet(Items) /\ Contents \in Nat \ {0}
  /\ None \notin Items /\ None \notin Hashes
  /\ None \notin Statuses \cup Verifications
  /\ Profiles \subseteq
       [Items -> [source : STRING, evidence : STRING, type : STRING,
                  routine : BOOLEAN, artifact : BOOLEAN]]
  /\ Strengths \subseteq 0..30
  /\ FirstStatuses \subseteq {"NEW_ENTITY", "DISCOVERED_LATE"}
  /\ MaxChanges \in [Items -> Nat]
  /\ {DailyLimit, MaxBackfills} \subseteq Nat

VARIABLES
  profile,  \* the sources of the items, fixed
  item,     \* [Items -> the item's row]
  version,  \* [Versions -> the embedding of the version's row]
  recent,   \* versions as they were fetched: fetched_at is the last time
  event,    \* [Items -> the event of the item, with relations and revisions]
  job,      \* "normal", or a backfill that is "replaying" or "archiving"
  spent,    \* usage_ledger: re-embeddings reserved today
  digest,   \* today's digest row: its lines, and whether it may be rewritten
  past,     \* revisions listed by the digests of earlier days
  alerted,  \* revisions listed by alerts
  left,     \* what is left of the bounds
  found     \* history: items a normal run discovered or found changed

vars == <<profile, item, version, recent, event, job, spent, digest, past,
          alerted, left, found>>

-----------------------------------------------------------------------------
(* Rows.  item.metadata_json: done is processed_hash, mark the content     *)
(* pending_archive_only names, arch archive_delivery_suppressed, outage    *)
(* embedding_delivery_suppressed, before                                   *)
(* embedding_previous_delivery_suppressed.                                 *)

NoItem == [hash |-> None, status |-> None, done |-> None, mark |-> None,
           arch |-> FALSE, outage |-> FALSE, before |-> FALSE]

NoEvent == [root |-> None, public |-> FALSE, suppressed |-> FALSE,
            status |-> None, verif |-> None, score |-> 0, url |-> None,
            links |-> {}, prim |-> {}, supp |-> {}, revs |-> <<>>]

Exists(e) == event[e].root # None
IsRoot(e) == event[e].root = e
Current(i) == <<i, item[i].hash>>
Related(x) == x.prim \cup x.supp
Seen(i) == {h \in Hashes : \E n \in DOMAIN recent : recent[n] = <<i, h>>}

Deliverable == {"NEW_ENTITY", "MATERIAL_UPDATE", "DISCOVERED_LATE"}

\* A revision is found by its content hash; only a new one is appended.
WithRevision(revs, key, status) ==
  IF \E n \in DOMAIN revs : revs[n].key = key
  THEN [n \in DOMAIN revs |->
          IF revs[n].key = key THEN [revs[n] EXCEPT !.status = status] ELSE revs[n]]
  ELSE Append(revs, [key |-> key, status |-> status])

\* _cluster_media_source_ids
MediaSources(x) ==
  {profile[v[1]].source : v \in {u \in Related(x) :
                            profile[u[1]].evidence = "reputable_media"}}

\* _has_two_independent_media_sources: publisher domains stand in for the
\* sources when no related source is reputable media.
TwoMediaSources(x) ==
  LET ids == IF MediaSources(x) # {} THEN MediaSources(x)
             ELSE {profile[u].source : u \in x.links \cup {x.url}}
  IN  Cardinality(ids) >= 2

\* The version a candidate is compared by: its latest primary one.
LatestPrimary(x) ==
  LET times == {n \in DOMAIN recent : recent[n] \in x.prim}
  IN  IF times = {} THEN None
      ELSE recent[CHOOSE n \in times : \A m \in times : m <= n]

\* (Mutant: duplicates are candidates too.)
CandidatesOfAnyRank(e, space) ==
  {c \in Items \ {e} :
     /\ Exists(c)
     /\ profile[c].type = profile[e].type
     /\ LatestPrimary(event[c]) # None
     /\ version[LatestPrimary(event[c])].space = space}

\* _choose_cluster, up to the similarity: the other roots of the same event
\* type whose latest primary version was embedded in the same space.
Candidates(e, space) ==
  {c \in Items \ {e} :
     /\ Exists(c) /\ IsRoot(c)
     /\ profile[c].type = profile[e].type
     /\ LatestPrimary(event[c]) # None
     /\ version[LatestPrimary(event[c])].space = space}

\* _choose_cluster: how similar they are decides, and may leave the event e
\* where it is.
ChosenCluster(e, space) == {e} \cup Candidates(e, space)

\* (Mutant: the verification is not asked.)
PublishableByScore(verif, score) == score >= DigestThreshold

\* What is_public needs of the verification and the score.
Publishable(verif, score) ==
  verif # "REPORTED_UNCONFIRMED" /\ score >= DigestThreshold

-----------------------------------------------------------------------------
(* Evidence that joins a cluster.                                          *)

Attach(c, i, v) ==
  [c EXCEPT !.links = IF c.url = i THEN @ ELSE @ \cup {i},
            !.supp = IF v \in Related(c) THEN @ ELSE @ \cup {v}]

\* _upgrade_canonical_evidence: s is the supporting event, v its version,
\* verif and score what it adds, suppress whether its run may not deliver.
Upgraded(c, s, v, verif, score, suppress) ==
  LET combined == CombinedVerification(c.verif, verif)
      twoMedia == /\ c.verif = "REPORTED_UNCONFIRMED"
                  /\ verif = "REPORTED_UNCONFIRMED"
                  /\ Cardinality(MediaSources(c)) >= 2
      primaryArrived ==
        /\ c.verif \in {"COMPANY_CLAIM", "REPORTED_UNCONFIRMED"}
        /\ Rank[verif] > Rank[c.verif]
      material == s.status = "MATERIAL_UPDATE"
      switch == primaryArrived \/ (material /\ c.url = s.url)
      shown == [c EXCEPT
                  !.verif = combined,
                  !.url = IF switch THEN s.url ELSE @,
                  !.links = IF switch THEN (@ \cup {c.url}) \ {s.url} ELSE @,
                  !.prim = IF switch THEN {v} ELSE @,
                  !.supp = IF switch THEN Related(c) \ {v} ELSE @,
                  !.score = IF score > @ THEN score ELSE @]
      public == [shown EXCEPT !.public = Publishable(combined, shown.score)]
  IN  IF combined # c.verif \/ primaryArrived \/ twoMedia \/ material
      THEN [public EXCEPT
              !.status = "MATERIAL_UPDATE",
              !.suppressed = suppress,
              !.revs = WithRevision(@, <<v, combined, shown.url, shown.links>>,
                                    "MATERIAL_UPDATE")]
      ELSE public

-----------------------------------------------------------------------------
Init ==
  /\ profile \in Profiles
  /\ item = [i \in Items |-> NoItem]
  /\ version = [v \in Versions |-> [space |-> None, pending |-> FALSE]]
  /\ recent = <<>>
  /\ event = [e \in Items |-> NoEvent]
  /\ job = "normal"
  /\ spent = 0
  /\ digest = [lines |-> {}, state |-> "none"]
  /\ past = {}
  /\ alerted = {}
  /\ left = [changes |-> MaxChanges,
             backfills |-> MaxBackfills]
  /\ found = {}

\* collect_group: a replay marks what is not processed yet, a normal run
\* lifts the mark of an item that has changed.
Marked(row, changed) ==
  IF job = "replaying" /\ row.done # row.hash
  THEN [row EXCEPT !.mark = row.hash]
  ELSE IF changed THEN [row EXCEPT !.mark = None] ELSE row

\* update_status: new and late items are told apart by their date, and what a
\* change amounts to by comparing version, title, summary and body.
Labels(i) ==
  IF item[i].hash = None THEN FirstStatuses ELSE {"MATERIAL_UPDATE", "MINOR_UPDATE"}

\* ingest_item with a content the item does not have now.
CollectChange(i, h, status) ==
  /\ job \in {"normal", "replaying"}
  /\ left.changes[i] > 0
  /\ h # item[i].hash
  /\ 1..(h - 1) \subseteq Seen(i)
  /\ status \in Labels(i)
  /\ item' = [item EXCEPT ![i] =
                Marked([@ EXCEPT !.hash = h, !.status = status], TRUE)]
  /\ recent' = Append(recent, <<i, h>>)
  /\ left' = [left EXCEPT !.changes[i] = @ - 1]
  /\ found' = IF job = "normal" /\ (status # "MINOR_UPDATE" \/ ~Exists(i))
              THEN found \cup {i} ELSE found
  /\ UNCHANGED <<profile, version, event, job, spent, digest, past, alerted>>

\* ingest_item with the content it has: nothing but the mark of a replay.
CollectUnchanged(i) ==
  /\ job = "replaying"
  /\ item[i].hash # None
  /\ item' = [item EXCEPT ![i] = Marked(@, FALSE)]
  /\ item' # item
  /\ UNCHANGED <<profile, version, recent, event, job, spent, digest, past,
                 alerted, left, found>>

-----------------------------------------------------------------------------
(* enrich_pending, one item.                                               *)

\* The run may not deliver what it enriches.
\* (Mutant: the marker of a dead backfill is not read.)
SuppressingRun(i) == job = "archiving"

Suppressing(i) == job = "archiving" \/ item[i].mark = item[i].hash

Pending(i) ==
  /\ job \in {"normal", "archiving"}
  /\ item[i].hash # None
  /\ item[i].done # item[i].hash

\* Outside the backfill's window, or about nothing the radar follows.
EnrichDiscard(i) ==
  /\ Pending(i)
  /\ item' = [item EXCEPT ![i].done = item[i].hash, ![i].mark = None]
  /\ UNCHANGED <<profile, version, recent, event, job, spent, digest, past,
                 alerted, left, found>>

\* (Mutant: an outage is forgotten.)
StaysSuppressedByArchive(i, pending) ==
  \/ Suppressing(i)
  \/ item[i].status = "MINOR_UPDATE" /\ event[i].suppressed

\* delivery_suppressed after an enrichment: an outage and an archive run set
\* it, a minor change leaves it as it is, and any other label lifts it.
StaysSuppressed(i, pending) ==
  \/ pending \/ Suppressing(i)
  \/ item[i].status = "MINOR_UPDATE" /\ event[i].suppressed

\* The event of the item after an enrichment; to is the cluster it is in.
Enriched(i, strength, pending, to) ==
  LET old == event[i]
      isNew == ~Exists(i)
      p == profile[i]
      status == item[i].status
      minor == status = "MINOR_UPDATE"
      verif == VerificationFor(p.evidence)
      total == ScoreEvent(strength, p.evidence, status, verif, p.type, to # i, p.routine)
      keep == ~isNew /\ Rank[old.verif] > Rank[verif] /\ old.url # i
      combined == IF isNew THEN verif ELSE CombinedVerification(old.verif, verif)
      higher == IF old.score > total THEN old.score ELSE total
      public == IF minor \/ keep THEN old.public
                ELSE /\ to = i
                     /\ ~p.routine
                     /\ Publishable(combined, higher)
  IN  [old EXCEPT
         !.root = to,
         !.public = public /\ ~pending,
         !.suppressed = StaysSuppressed(i, pending),
         !.status = status,
         !.verif = combined,
         !.score = IF minor \/ keep THEN higher ELSE total,
         !.url = IF keep THEN @ ELSE i,
         !.prim = IF keep \/ Current(i) \in Related(old) THEN @ ELSE @ \cup {Current(i)},
         !.supp = IF ~keep \/ Current(i) \in Related(old) THEN @ ELSE @ \cup {Current(i)},
         !.revs = WithRevision(@, <<Current(i)>>, status)]

\* The flags of the item after an enrichment.
Flagged(i, pending) ==
  LET release == ~Suppressing(i) /\ item[i].status # "MINOR_UPDATE"
      row == [item[i] EXCEPT
                !.done = item[i].hash, !.mark = None,
                !.arch = IF release THEN FALSE ELSE @ \/ Suppressing(i)]
  IN  IF pending
      THEN [row EXCEPT !.outage = TRUE,
                       !.before = event[i].suppressed /\ ~(item[i].arch /\ release)]
      ELSE row

\* What the item's cluster gains: c is the canonical event.
Gained(c, i, s, strength) ==
  LET p == profile[i]
      verif == VerificationFor(p.evidence)
      attached == Attach(c, i, Current(i))
      material == item[i].status = "MATERIAL_UPDATE"
      newLink == c.url # i /\ i \notin c.links
      member == Exists(i)
  IN  IF newLink \/ (material /\ (c.url # i \/ member))
      THEN Upgraded(attached, s, Current(i), verif,
                    ScoreEvent(strength, p.evidence, item[i].status, verif,
                               p.type, FALSE, p.routine),
                    Suppressing(i))
      ELSE attached

\* space is "remote", or "local" while the embedding service is failing.
Enrich(i, strength, space, to) ==
  /\ Pending(i)
  /\ IF Exists(i) THEN to = event[i].root
     ELSE to \in ChosenCluster(i, space)
  /\ LET pending == space = "local"
         own == Enriched(i, strength, pending, to)
     IN  /\ version' = [version EXCEPT ![Current(i)] =
                          [space |-> space, pending |-> pending]]
         /\ event' = [e \in Items |->
                        CASE e = i             -> own
                          [] e # i /\ e = to   -> Gained(event[e], i, own, strength)
                          [] OTHER             -> event[e]]
         /\ item' = [item EXCEPT ![i] = Flagged(i, pending)]
  /\ UNCHANGED <<profile, recent, job, spent, digest, past, alerted, left, found>>

-----------------------------------------------------------------------------
(* recover_pending_embeddings, one version.                                *)

Recoverable(i) ==
  /\ job = "normal"
  /\ item[i].hash # None
  /\ version[Current(i)].pending

\* (Mutant: the limit is not checked.)
ReserveUnchecked == spent' = spent + 1

\* reserve_daily_usage
Reserve == spent < DailyLimit /\ spent' = spent + 1

\* The service is still failing; the reservation is spent.
RecoverFail(i) ==
  /\ Recoverable(i)
  /\ Reserve
  /\ UNCHANGED <<profile, item, version, recent, event, job, digest, past,
                 alerted, left, found>>

\* The event is looked up through a primary relation to the version.
Owners(v) == {e \in Items : Exists(e) /\ v \in event[e].prim}

\* No event to reconcile: only the version is updated.
RecoverAlone(i) == Owners(Current(i)) = {} /\ UNCHANGED <<event, item>>

\* A duplicate stays hidden.
RecoverDuplicate(i, e) ==
  /\ ~IsRoot(e)
  /\ item' = [item EXCEPT ![i].outage = FALSE]
  /\ UNCHANGED event

\* A root is clustered again: it joins another root, or it is released.
RecoverRoot(i, e, to) ==
  LET withheld == item[i].arch \/ item[i].before
      own == event[e]
  IN  /\ IsRoot(e)
      /\ to \in ChosenCluster(e, "remote")
      /\ item' = [item EXCEPT ![i].outage = FALSE, ![i].before = FALSE]
      /\ event' =
           IF to # e
           THEN [event EXCEPT
                   ![e] = [@ EXCEPT !.root = to, !.public = FALSE, !.suppressed = TRUE],
                   ![to] = Upgraded(Attach(@, i, Current(i)), own, Current(i),
                                    own.verif, own.score, withheld)]
           ELSE IF item[i].outage
           THEN [event EXCEPT ![e] =
                   [@ EXCEPT !.suppressed = withheld,
                             !.public = Publishable(own.verif, own.score)]]
           ELSE event

Recover(i) ==
  /\ Recoverable(i)
  /\ Reserve
  /\ version' = [version EXCEPT ![Current(i)] = [space |-> "remote", pending |-> FALSE]]
  /\ \/ RecoverAlone(i)
     \/ \E e \in Owners(Current(i)) :
          RecoverDuplicate(i, e) \/ \E to \in Items : RecoverRoot(i, e, to)
  /\ UNCHANGED <<profile, recent, job, digest, past, alerted, left, found>>

-----------------------------------------------------------------------------
(* compose_delivery.                                                       *)

\* The number of the revision a card would show; 0 when there is none.
Latest(e) ==
  LET ns == {n \in DOMAIN event[e].revs : event[e].revs[n].status \in Deliverable}
  IN  IF ns = {} THEN 0 ELSE CHOOSE n \in ns : \A m \in ns : m <= n

\* _events_for_delivery, before the ledger is asked.
Carded(e) ==
  /\ Exists(e)
  /\ ~event[e].suppressed
  /\ Latest(e) > 0
  /\ event[e].score >= DigestThreshold
  /\ \/ event[e].public
     \/ event[e].verif = "REPORTED_UNCONFIRMED" /\ TwoMediaSources(event[e])

Line(e) == <<e, Latest(e)>>
\* (Mutant: an event that was mailed is never mailed again.)
SelectedOnce(used) ==
  {Line(e) : e \in {d \in Items : Carded(d) /\ \A l \in used : l[1] # d}}

Selected(used) == {Line(e) : e \in {d \in Items : Carded(d) /\ Line(d) \notin used}}

\* A row that may still be rewritten is filled again; its own lines do not
\* count as used.
ComposeDigest ==
  /\ job # "archiving"
  /\ digest.state \in {"none", "open"}
  /\ digest' = [lines |-> Selected(past), state |-> "open"]
  /\ UNCHANGED <<profile, item, version, recent, event, job, spent, past,
                 alerted, left, found>>

\* The send time has come, or the row has left the states compose rewrites.
Close ==
  /\ digest.state = "open"
  /\ digest' = [digest EXCEPT !.state = "closed"]
  /\ UNCHANGED <<profile, item, version, recent, event, job, spent, past,
                 alerted, left, found>>

Alerts ==
  {l \in Selected(alerted) :
     LET e == event[l[1]]
         p == profile[l[1]]
     IN  AlertEligible(e.score, e.verif, p.type, p.artifact \/ e.links # {})}

\* At most five in the code: no instance has as many.
ComposeAlert ==
  /\ job # "archiving"
  /\ Alerts # {}
  /\ alerted' = alerted \cup Alerts
  /\ UNCHANGED <<profile, item, version, recent, event, job, spent, digest, past,
                 left, found>>

\* (Mutant: the day is not part of the quota's key.)
NewDayKeepsSpent ==
  /\ past' = past \cup digest.lines
  /\ digest' = [lines |-> {}, state |-> "none"]
  /\ UNCHANGED <<profile, item, version, recent, event, job, spent, alerted, left, found>>

NewDay ==
  /\ past' = past \cup digest.lines
  /\ digest' = [lines |-> {}, state |-> "none"]
  /\ spent' = 0
  /\ UNCHANGED <<profile, item, version, recent, event, job, alerted, left, found>>

-----------------------------------------------------------------------------
(* backfill: replay every source from the cutoff, then enrich what is      *)
(* unprocessed with delivery suppressed, in one transaction.  It may die   *)
(* in between; what it collected stays.                                    *)

BackfillStart ==
  /\ job = "normal"
  /\ left.backfills > 0
  /\ job' = "replaying"
  /\ left' = [left EXCEPT !.backfills = @ - 1]
  /\ UNCHANGED <<profile, item, version, recent, event, spent, digest, past,
                 alerted, found>>

BackfillEnrich ==
  /\ job = "replaying"
  /\ job' = "archiving"
  /\ UNCHANGED <<profile, item, version, recent, event, spent, digest, past,
                 alerted, left, found>>

BackfillDies ==
  /\ job = "replaying"
  /\ job' = "normal"
  /\ UNCHANGED <<profile, item, version, recent, event, spent, digest, past,
                 alerted, left, found>>

BackfillEnd ==
  /\ job = "archiving"
  /\ \A i \in Items : ~Pending(i)
  /\ job' = "normal"
  /\ UNCHANGED <<profile, item, version, recent, event, spent, digest, past,
                 alerted, left, found>>
-----------------------------------------------------------------------------
EnrichItem(i) ==
  \/ EnrichDiscard(i)
  \/ \E strength \in Strengths, space \in {"remote", "local"}, to \in Items :
       Enrich(i, strength, space, to)

Next ==
  \/ \E i \in Items :
       \/ \E h \in Hashes, status \in Statuses : CollectChange(i, h, status)
       \/ CollectUnchanged(i)
       \/ EnrichItem(i)
       \/ RecoverFail(i)
       \/ Recover(i)
  \/ ComposeDigest
  \/ Close
  \/ ComposeAlert
  \/ NewDay
  \/ BackfillStart
  \/ BackfillEnrich
  \/ BackfillDies
  \/ BackfillEnd

Spec == Init /\ [][Next]_vars

\* The jobs are scheduled for ever: days pass, each day's digest is composed,
\* a backfill that is running comes to an end, and the embedding service is
\* not out for ever.
Fairness ==
  /\ WF_vars(NewDay)
  /\ WF_vars(ComposeDigest)
  /\ WF_vars(BackfillEnrich \/ BackfillDies)
  /\ WF_vars(BackfillEnd)
  /\ \A i \in Items : WF_vars(EnrichItem(i)) /\ SF_vars(Recover(i))

FairSpec == Spec /\ Fairness

-----------------------------------------------------------------------------
ItemRow ==
  [hash : Hashes \cup {None}, status : Statuses \cup {None},
   done : Hashes \cup {None}, mark : Hashes \cup {None},
   arch : BOOLEAN, outage : BOOLEAN, before : BOOLEAN]

\* A revision's key: the version for an item's own revision, and the version
\* with the evidence it led to for an upgrade.
Key == {<<v>> : v \in Versions} \cup (Versions \X Verifications \X Items \X SUBSET Items)

\* The rows keep their types, and every line a digest or an alert has listed
\* still names a revision of its event: nothing the jobs do unlists it.
TypeOK ==
  /\ profile \in Profiles
  /\ item \in [Items -> ItemRow]
  /\ version \in [Versions -> [space : {None, "local", "remote"}, pending : BOOLEAN]]
  /\ recent \in Seq(Versions)
  /\ \A e \in Items :
       LET x == event[e]
       IN  /\ x.root \in Items \cup {None} /\ x.url \in Items \cup {None}
           /\ {x.public, x.suppressed} \subseteq BOOLEAN
           /\ x.status \in Statuses \cup {None}
           /\ x.verif \in Verifications \cup {None}
           /\ x.score \in 0..100
           /\ x.links \subseteq Items /\ x.prim \subseteq Versions /\ x.supp \subseteq Versions
           /\ \A n \in DOMAIN x.revs : x.revs[n].key \in Key /\ x.revs[n].status \in Statuses
  /\ job \in {"normal", "replaying", "archiving"}
  /\ spent \in 0..DailyLimit
  /\ digest.state \in {"none", "open", "closed"}
  /\ \A l \in digest.lines \cup past \cup alerted : l[2] \in DOMAIN event[l[1]].revs
  /\ found \subseteq Items

\* What only a backfill has ever seen is never mailed.  Whatever joins and
\* leaves the cluster, whichever run enriches it, and however often a backfill
\* dies and its leftovers are enriched by a later run, an event that compose
\* would card has evidence from an item that a normal run discovered or found
\* changed (the marker of collect_group, archive_delivery_suppressed, and the
\* suppression inherited through _upgrade_canonical_evidence and recovery).
ArchiveStaysSilent ==
  \A e \in Items : Carded(e) => \E v \in Related(event[e]) : v[1] \in found

\* The public archive never holds an unconfirmed report.  Enrichment, the
\* cluster's upgrade and recovery each compute is_public from their own idea
\* of the verification and the score; none may publish what another job has
\* left, or has yet to lift, below a company's claim.
UnconfirmedStaysPrivate ==
  \A e \in Items : event[e].public => event[e].verif # "REPORTED_UNCONFIRMED"

\* Following canonical_event_id from any event ends at a root: merges made by
\* enrichment and by recovery, in any order, never close a cycle of duplicates
\* in which every member is hidden behind another one.
RootSurvives ==
  \A S \in SUBSET {e \in Items : Exists(e)} :
    S # {} => \E e \in S : IsRoot(e) \/ event[e].root \notin S

Shown(e) == event[e].revs[Latest(e)].key

\* No item has gone back to a content it had before.
NothingReturned == \A m, n \in DOMAIN recent : recent[m] = recent[n] => m = n

\* A root is not released before the model has embedded what it shows.  When
\* the card of an event is its item's own current content, enriched and
\* primary, the version's embedding is not pending: no other member's upgrade,
\* recovery or later run lifts the outage's suppression first.  (It does not
\* hold of a card that shows another member's version: see PendingIsWithheld;
\* nor once a content has come back, because a revision that is found again
\* is rewritten where it is, and the pending one before it stays the latest.)
OwnCardIsEmbedded ==
  NothingReturned =>
    \A e \in Items :
      ( /\ Carded(e)
        /\ item[e].done = item[e].hash
        /\ Shown(e) = <<Current(e)>>
        /\ Current(e) \in event[e].prim )
      => ~version[Current(e)].pending

\* docs/architecture.md says the hash fallback never publishes: a revision
\* whose version still waits for its embedding is not in the mail.
PendingIsWithheld ==
  \A e \in Items : Carded(e) => ~version[Shown(e)[1]].pending

\* No step lowers what an event is verified by: not a later item of weaker
\* evidence, not a minor change, not the merge of a duplicate, not recovery.
VerificationNeverFalls ==
  [][\A e \in Items : Exists(e) => Rank[event'[e].verif] >= Rank[event[e].verif]]_vars

AwaitsEmbedding(i) == item[i].hash # None /\ version[Current(i)].pending

\* Every version that waits for its embedding gets it, or is superseded,
\* although recovery shares a daily quota with failing attempts and with the
\* other items, is not run by a backfill, and looks at current versions only.
PendingIsRecovered == \A i \in Items : AwaitsEmbedding(i) ~> ~AwaitsEmbedding(i)

\* The event of the item waits for recovery, and for nothing else: its last
\* change is one that is delivered, and no backfill ever ran to withhold it.
WaitsForRecovery(i) ==
  /\ IsRoot(i)
  /\ Recoverable(i) /\ item[i].done = item[i].hash
  /\ item[i].outage /\ item[i].status \in Deliverable
  /\ Current(i) \in event[i].prim
  /\ left.backfills = MaxBackfills

\* docs/architecture.md: records of an outage "are withheld from delivery until
\* they are re-embedded and re-clustered".  Such an event is released, becomes
\* a duplicate or is enriched again.  (The code's previous flag also keeps what
\* the same outage has suppressed, pipeline.py:795.)
OutageEnds ==
  \A i \in Items :
    WaitsForRecovery(i)
      ~> \/ ~event[i].suppressed \/ ~IsRoot(i)
         \/ item[i].done # item[i].hash
         \/ Current(i) \notin event[i].prim

\* What may be mailed is mailed: an event that compose would card is listed by
\* a digest, unless it stops being one or its latest revision changes first.
\* Lines that a reopened row loses are taken up again on the same or next day.
CardIsListed ==
  \A e \in Items :
    Carded(e) ~> ~Carded(e) \/ Line(e) \in digest.lines \cup past
=============================================================================
