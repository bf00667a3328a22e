---------------------------- MODULE LedgerProofs ----------------------------
(***************************************************************************)
(* Proofs about Ledger, for any items, sources, bounds and topic           *)
(* strengths: what an event is verified by never falls, an unconfirmed     *)
(* report is never public, duplicates never hide each other, and the rows  *)
(* keep their types and the ledgers name revisions that exist.             *)
(*                                                                         *)
(* The first half needs of a row only that it is one; the second half says *)
(* what each row becomes field by field (Gains, Enriches, Merges,          *)
(* Releases), which module LedgerArchive builds on.                        *)
(***************************************************************************)
EXTENDS Ledger, TLAPS, FiniteSetTheorems, WellFoundedInduction

\* Combining keeps at least what was there.
LEMMA CombinedFact ==
  ASSUME NEW old \in Verifications, NEW new \in Verifications
  PROVE  /\ CombinedVerification(old, new) \in Verifications
         /\ Rank[CombinedVerification(old, new)] >= Rank[old]
BY DEF CombinedVerification, Verifications, Rank

\* Every kind of evidence verifies something.
LEMMA VerificationForFact ==
  ASSUME NEW evidence
  PROVE  VerificationFor(evidence) \in Verifications
BY DEF VerificationFor, Verifications

\* Anything that ranks above an unconfirmed report is confirmed.
LEMMA RankFact ==
  ASSUME NEW old \in Verifications, NEW new \in Verifications,
         Rank[new] >= Rank[old], old # "REPORTED_UNCONFIRMED"
  PROVE  new # "REPORTED_UNCONFIRMED"
BY DEF Verifications, Rank

-----------------------------------------------------------------------------
(* One row.                                                                *)

\* A row has the fields of an event and no others.
Shaped(x) ==
  x = [root |-> x.root, public |-> x.public, suppressed |-> x.suppressed,
       status |-> x.status, verif |-> x.verif, score |-> x.score, url |-> x.url,
       links |-> x.links, prim |-> x.prim, supp |-> x.supp, revs |-> x.revs]

\* What is there is verified by something, and by more than a report if public.
Verified(x) ==
  /\ x.public \in BOOLEAN
  /\ x.root # None => x.verif \in Verifications
  /\ x.public => x.root # None /\ x.verif # "REPORTED_UNCONFIRMED"

\* A step of one row.
Improves(old, new) ==
  /\ Shaped(new)
  /\ Verified(new)
  /\ old.root # None => new.root # None /\ Rank[new.verif] >= Rank[old.verif]

\* A row that does not change does not get worse.
LEMMA StandingStill ==
  ASSUME NEW x, Shaped(x), Verified(x)
  PROVE  Improves(x, x)
BY DEF Improves, Verified, Verifications, Rank

\* A new link or relation changes nothing else.
LEMMA Attachment ==
  ASSUME NEW x, Shaped(x), Verified(x), NEW i, NEW v
  PROVE  Shaped(Attach(x, i, v)) /\ Verified(Attach(x, i, v))
         /\ Attach(x, i, v).root = x.root /\ Attach(x, i, v).verif = x.verif
<1> DEFINE links == IF x.url = i THEN x.links ELSE x.links \cup {i}
           supp == IF v \in Related(x) THEN x.supp ELSE x.supp \cup {v}
<1>1. PICK q : q = Attach(x, i, v)
  OBVIOUS
<1>2. q = [x EXCEPT !.links = links, !.supp = supp]
  BY <1>1 DEF Attach
<1> HIDE DEF links, supp
<1>3. Shaped(q) /\ q.root = x.root /\ q.verif = x.verif /\ q.public = x.public
  BY <1>2 DEF Shaped
<1> QED BY <1>1, <1>3 DEF Verified

\* The upgrade of a cluster keeps its root, and publishes it only with what it
\* is now verified by.
LEMMA UpgradedImproves ==
  ASSUME NEW c, Shaped(c), Verified(c), c.root # None,
         NEW s, NEW v, NEW verif \in Verifications, NEW score, NEW suppress
  PROVE  /\ Improves(c, Upgraded(c, s, v, verif, score, suppress))
         /\ Upgraded(c, s, v, verif, score, suppress).root = c.root
<1> DEFINE combined == CombinedVerification(c.verif, verif)
           primaryArrived ==
             /\ c.verif \in {"COMPANY_CLAIM", "REPORTED_UNCONFIRMED"}
             /\ Rank[verif] > Rank[c.verif]
           switch == primaryArrived \/ (s.status = "MATERIAL_UPDATE" /\ c.url = s.url)
           url == IF switch THEN s.url ELSE c.url
           links == IF switch THEN (c.links \cup {c.url}) \ {s.url} ELSE c.links
           prim == IF switch THEN {v} ELSE c.prim
           supp == IF switch THEN Related(c) \ {v} ELSE c.supp
           sc == IF score > c.score THEN score ELSE c.score
<1>1. PICK shown : shown = [c EXCEPT !.verif = combined, !.url = url, !.links = links,
                                     !.prim = prim, !.supp = supp, !.score = sc]
  OBVIOUS
<1>2. PICK public : public = [shown EXCEPT !.public = Publishable(combined, shown.score)]
  OBVIOUS
<1>3. PICK u : u = Upgraded(c, s, v, verif, score, suppress)
  OBVIOUS
<1>4. \/ u = public
      \/ \E revs : u = [public EXCEPT !.status = "MATERIAL_UPDATE",
                                      !.suppressed = suppress, !.revs = revs]
  BY <1>1, <1>2, <1>3 DEF Upgraded
<1>5. combined \in Verifications /\ Rank[combined] >= Rank[c.verif]
  BY CombinedFact DEF Verified
<1>6. Publishable(combined, shown.score) \in BOOLEAN
      /\ (Publishable(combined, shown.score) => combined # "REPORTED_UNCONFIRMED")
  BY DEF Publishable
<1> HIDE DEF combined, url, links, prim, supp, sc
<1>7. Shaped(shown) /\ shown.root = c.root /\ shown.verif = combined
  BY <1>1 DEF Shaped
<1>8. /\ Shaped(public) /\ public.root = c.root /\ public.verif = combined
      /\ public.public = Publishable(combined, shown.score)
  BY <1>2, <1>7 DEF Shaped
<1>9. /\ Shaped(u) /\ u.root = c.root /\ u.verif = combined
      /\ u.public = Publishable(combined, shown.score)
  <2>1. CASE u = public
    BY <1>8, <2>1
  <2>2. ASSUME NEW revs, u = [public EXCEPT !.status = "MATERIAL_UPDATE",
                                            !.suppressed = suppress, !.revs = revs]
        PROVE  Shaped(u) /\ u.root = public.root /\ u.verif = public.verif
               /\ u.public = public.public
    BY <1>8, <2>2 DEF Shaped
  <2> QED BY <1>4, <1>8, <2>1, <2>2
<1> QED BY <1>3, <1>5, <1>6, <1>9 DEF Improves, Verified

\* An enrichment puts the event where the cluster is, and what it leaves public
\* it leaves confirmed.
LEMMA EnrichedImproves ==
  ASSUME NEW i \in Items, NEW to \in Items, NEW strength, NEW pending \in BOOLEAN,
         Shaped(event[i]), Verified(event[i])
  PROVE  /\ Improves(event[i], Enriched(i, strength, pending, to))
         /\ Enriched(i, strength, pending, to).root = to
<1> DEFINE old == event[i]
           p == profile[i]
           status == item[i].status
           minor == status = "MINOR_UPDATE"
           verif == VerificationFor(p.evidence)
           total == ScoreEvent(strength, p.evidence, status, verif, p.type, to # i, p.routine)
           keep == Exists(i) /\ Rank[old.verif] > Rank[verif] /\ old.url # i
           combined == IF ~Exists(i) THEN verif ELSE CombinedVerification(old.verif, verif)
           higher == IF old.score > total THEN old.score ELSE total
           public == IF minor \/ keep THEN old.public
                     ELSE to = i /\ ~p.routine /\ Publishable(combined, higher)
           score == IF minor \/ keep THEN higher ELSE total
           url == IF keep THEN old.url ELSE i
           prim == IF keep \/ Current(i) \in Related(old) THEN old.prim
                   ELSE old.prim \cup {Current(i)}
           supp == IF ~keep \/ Current(i) \in Related(old) THEN old.supp
                   ELSE old.supp \cup {Current(i)}
           revs == WithRevision(old.revs, <<Current(i)>>, status)
<1>1. PICK own : own = Enriched(i, strength, pending, to)
  OBVIOUS
<1>2. own = [old EXCEPT
               !.root = to, !.public = public /\ ~pending,
               !.suppressed = StaysSuppressed(i, pending), !.status = status,
               !.verif = combined, !.score = score, !.url = url,
               !.prim = prim, !.supp = supp, !.revs = revs]
  BY <1>1 DEF Enriched
<1>3. /\ combined \in Verifications
      /\ Exists(i) => Rank[combined] >= Rank[old.verif]
  BY VerificationForFact, CombinedFact DEF Verified, Exists
<1>4. public \in BOOLEAN /\ (public => combined # "REPORTED_UNCONFIRMED")
  <2>1. old.public => old.verif \in Verifications /\ Exists(i)
                      /\ old.verif # "REPORTED_UNCONFIRMED"
    BY DEF Verified, Exists
  <2>2. old.public => combined # "REPORTED_UNCONFIRMED"
    BY <1>3, <2>1, RankFact
  <2>3. old.public \in BOOLEAN
    BY DEF Verified
  <2>4. Publishable(combined, higher) => combined # "REPORTED_UNCONFIRMED"
    BY DEF Publishable
  <2>5. CASE minor \/ keep
    BY <2>2, <2>3, <2>5
  <2>6. CASE ~(minor \/ keep)
    BY <2>4, <2>6
  <2> QED BY <2>5, <2>6
<1> HIDE DEF public, combined, score, url, prim, supp, revs, status
<1>5. /\ Shaped(own) /\ own.root = to /\ own.verif = combined
      /\ own.public = (public /\ ~pending)
  BY <1>2 DEF Shaped
<1>6. None # to
  BY LedgerAssumption DEF LedgerAssumption
<1> QED BY <1>1, <1>3, <1>4, <1>5, <1>6 DEF Improves, Verified, Exists

\* What joins a cluster does not make it worse.
LEMMA GainedImproves ==
  ASSUME NEW c, Shaped(c), Verified(c), c.root # None, NEW i, NEW s, NEW strength
  PROVE  Improves(c, Gained(c, i, s, strength)) /\ Gained(c, i, s, strength).root = c.root
<1>1. PICK a : a = Attach(c, i, Current(i))
  OBVIOUS
<1>2. Shaped(a) /\ Verified(a) /\ a.root = c.root /\ a.verif = c.verif
  BY <1>1, Attachment
<1>3. \/ Gained(c, i, s, strength) = a
      \/ \E score, suppress :
           Gained(c, i, s, strength)
             = Upgraded(a, s, Current(i), VerificationFor(profile[i].evidence), score, suppress)
  BY <1>1 DEF Gained
<1>4. CASE Gained(c, i, s, strength) = a
  BY <1>2, <1>4, StandingStill DEF Improves
<1>5. ASSUME NEW score, NEW suppress,
             Gained(c, i, s, strength)
               = Upgraded(a, s, Current(i), VerificationFor(profile[i].evidence), score, suppress)
      PROVE  Improves(c, Gained(c, i, s, strength)) /\ Gained(c, i, s, strength).root = c.root
  BY <1>2, <1>5, VerificationForFact, UpgradedImproves DEF Improves
<1> QED BY <1>3, <1>4, <1>5

-----------------------------------------------------------------------------
(* One step.                                                               *)

\* The inductive invariant: rows are events, what is public is confirmed, and
\* every event's root is an event.
EventInv ==
  /\ event = [e \in Items |-> event[e]]
  /\ \A e \in Items : Shaped(event[e]) /\ Verified(event[e])
  /\ \A e \in Items : Exists(e) => event[e].root \in Items /\ Exists(event[e].root)

\* At most one event changes its root: one that is new or a root itself, which
\* becomes a root or a duplicate of a root.
Rerooted(e, to) ==
  /\ Exists(e) => IsRoot(e)
  /\ to # e => Exists(to) /\ IsRoot(to)
  /\ event'[e].root = to
  /\ \A d \in Items \ {e} : event'[d].root = event[d].root

\* What every step does to the events.
Steps ==
  /\ event' = [e \in Items |-> event'[e]]
  /\ \A e \in Items : Improves(event[e], event'[e])
  /\ \/ \E e, to \in Items : Rerooted(e, to)
     \/ \A d \in Items : event'[d].root = event[d].root

\* A step of another table.
LEMMA Stutters ==
  ASSUME EventInv, UNCHANGED event
  PROVE  Steps
BY StandingStill DEF EventInv, Steps

\* Where clustering may put an event.
LEMMA ClusterFact ==
  ASSUME NEW e, NEW space, NEW to \in ChosenCluster(e, space), to # e
  PROVE  to \in Items /\ Exists(to) /\ IsRoot(to)
BY DEF ChosenCluster, Candidates

\* Enriching an item changes the root of its own event only, when it is new.
LEMMA EnrichSteps ==
  ASSUME EventInv, NEW i \in Items, NEW strength, NEW space, NEW to \in Items,
         Enrich(i, strength, space, to)
  PROVE  Steps
<1> DEFINE own == Enriched(i, strength, space = "local", to)
<1>1. event' = [e \in Items |->
                  CASE e = i           -> own
                    [] e # i /\ e = to -> Gained(event[e], i, own, strength)
                    [] OTHER           -> event[e]]
  BY DEF Enrich
<1>2. Improves(event[i], own) /\ own.root = to
  BY EnrichedImproves DEF EventInv
<1>3. to # i => Exists(to)
  BY ClusterFact DEF Enrich, EventInv
<1>4. \A s : to # i => /\ Improves(event[to], Gained(event[to], i, s, strength))
                       /\ Gained(event[to], i, s, strength).root = event[to].root
  BY <1>3, GainedImproves DEF EventInv, Exists
<1> HIDE DEF own
<1>5. \A e \in Items : Improves(event[e], event'[e])
  BY <1>1, <1>2, <1>4, StandingStill DEF EventInv
<1>6. event'[i].root = to /\ \A d \in Items \ {i} : event'[d].root = event[d].root
  BY <1>1, <1>2, <1>4
<1>7. event' = [e \in Items |-> event'[e]]
  BY <1>1
<1>8. CASE Exists(i)
  <2>1. to = event[i].root
    BY <1>8 DEF Enrich
  <2> QED BY <1>5, <1>6, <1>7, <2>1 DEF Steps
<1>9. CASE ~Exists(i)
  <2>1. to # i => IsRoot(to)
    BY <1>9, ClusterFact DEF Enrich
  <2> QED BY <1>3, <1>5, <1>6, <1>7, <1>9, <2>1 DEF Steps, Rerooted
<1> QED BY <1>8, <1>9

\* Recovery clusters a root again: it changes that event and the one it joins.
LEMMA RecoverRootSteps ==
  ASSUME EventInv, NEW i \in Items, NEW e \in Owners(Current(i)), NEW to \in Items,
         RecoverRoot(i, e, to)
  PROVE  Steps
<1> DEFINE withheld == item[i].arch \/ item[i].before
           own == event[e]
<1>1. e \in Items /\ Exists(e) /\ IsRoot(e) /\ Shaped(own) /\ Verified(own)
  BY DEF Owners, RecoverRoot, EventInv
<1>2. CASE to # e
  <2>1. Exists(to) /\ IsRoot(to) /\ Shaped(event[to]) /\ Verified(event[to])
    BY <1>2, ClusterFact DEF RecoverRoot, EventInv
  <2>2. PICK hidden : hidden = [own EXCEPT !.root = to, !.public = FALSE, !.suppressed = TRUE]
    OBVIOUS
  <2>3. Improves(own, hidden) /\ hidden.root = to
    <3>1. Shaped(hidden) /\ hidden.root = to /\ hidden.verif = own.verif
          /\ hidden.public = FALSE
      BY <1>1, <2>2 DEF Shaped
    <3>2. to # None
      BY LedgerAssumption DEF LedgerAssumption
    <3>3. own.verif \in Verifications /\ Rank[own.verif] >= Rank[own.verif]
      BY <1>1, StandingStill DEF Improves, Verified, Exists
    <3> HIDE DEF own
    <3> QED BY <3>1, <3>2, <3>3 DEF Improves, Verified
  <2>4. PICK a : a = Attach(event[to], i, Current(i))
    OBVIOUS
  <2>5. Shaped(a) /\ Verified(a) /\ a.root = event[to].root /\ a.verif = event[to].verif
    BY <2>1, <2>4, Attachment
  <2>6. PICK gained : gained = Upgraded(a, own, Current(i), own.verif, own.score, withheld)
    OBVIOUS
  <2>7. Improves(event[to], gained) /\ gained.root = event[to].root
    <3>1. own.verif \in Verifications
      BY <1>1 DEF Verified, Exists
    <3>2. a.root # None
      BY <2>1, <2>5 DEF Exists
    <3>3. Improves(a, gained) /\ gained.root = a.root
      BY <2>5, <2>6, <3>1, <3>2, UpgradedImproves
    <3> QED BY <2>5, <3>3 DEF Improves
  <2>8. event' = [event EXCEPT ![e] = hidden, ![to] = gained]
    BY <1>2, <2>2, <2>4, <2>6 DEF RecoverRoot
  <2> HIDE DEF own, withheld
  <2>9. event' = [d \in Items |-> IF d = to THEN gained ELSE IF d = e THEN hidden ELSE event[d]]
    BY <1>1, <1>2, <2>8 DEF EventInv
  <2>10. \A d \in Items : Improves(event[d], event'[d])
    BY <1>1, <1>2, <2>3, <2>7, <2>9, StandingStill DEF EventInv, own
  <2>11. event'[e].root = to /\ \A d \in Items \ {e} : event'[d].root = event[d].root
    BY <1>1, <1>2, <2>3, <2>7, <2>9
  <2> QED BY <1>1, <2>1, <2>9, <2>10, <2>11 DEF Steps, Rerooted
<1>3. CASE to = e /\ item[i].outage
  <2>1. PICK shown : shown = [own EXCEPT !.suppressed = withheld,
                                         !.public = Publishable(own.verif, own.score)]
    OBVIOUS
  <2>2. Improves(own, shown) /\ shown.root = own.root
    <3>1. /\ Publishable(own.verif, own.score) \in BOOLEAN
          /\ Publishable(own.verif, own.score) => own.verif # "REPORTED_UNCONFIRMED"
      BY DEF Publishable
    <3> HIDE DEF withheld
    <3>2. Shaped(shown) /\ shown.root = own.root /\ shown.verif = own.verif
          /\ shown.public = Publishable(own.verif, own.score)
      BY <1>1, <2>1 DEF Shaped
    <3> QED BY <1>1, <3>1, <3>2 DEF Improves, Verified, Exists, Verifications, Rank
  <2>3. event' = [event EXCEPT ![e] = shown]
    BY <1>3, <2>1 DEF RecoverRoot
  <2>4. event' = [d \in Items |-> IF d = e THEN shown ELSE event[d]]
    BY <2>3 DEF EventInv
  <2>5. \A d \in Items : Improves(event[d], event'[d]) /\ event'[d].root = event[d].root
    BY <2>2, <2>4, StandingStill DEF EventInv
  <2> QED BY <2>4, <2>5 DEF Steps
<1>4. CASE to = e /\ ~item[i].outage
  BY <1>4, Stutters DEF RecoverRoot
<1> QED BY <1>2, <1>3, <1>4

\* Only these two touch the events.
LEMMA NextSteps ==
  ASSUME EventInv, [Next]_vars
  PROVE  Steps
<1>1. CASE UNCHANGED event
  BY <1>1, Stutters
<1>2. ASSUME NEW i \in Items, EnrichItem(i)
      PROVE  Steps
  <2>1. CASE EnrichDiscard(i)
    BY <1>1, <2>1 DEF EnrichDiscard
  <2> QED BY <1>2, <2>1, EnrichSteps DEF EnrichItem
<1>3. ASSUME NEW i \in Items, Recover(i)
      PROVE  Steps
  <2>1. CASE RecoverAlone(i)
    BY <1>1, <2>1 DEF RecoverAlone
  <2>2. ASSUME NEW e \in Owners(Current(i)), RecoverDuplicate(i, e)
        PROVE  Steps
    BY <1>1, <2>2 DEF RecoverDuplicate
  <2> QED BY <1>3, <2>1, <2>2, RecoverRootSteps DEF Recover
<1>4. ASSUME NEW i \in Items, NEW h, NEW status, CollectChange(i, h, status)
      PROVE  UNCHANGED event
  BY <1>4 DEF CollectChange
<1>5. ASSUME NEW i \in Items, CollectUnchanged(i) \/ RecoverFail(i)
      PROVE  UNCHANGED event
  BY <1>5 DEF CollectUnchanged, RecoverFail
<1>6. ASSUME ComposeDigest \/ Close \/ ComposeAlert \/ NewDay
      PROVE  UNCHANGED event
  BY <1>6 DEF ComposeDigest, Close, ComposeAlert, NewDay
<1>7. ASSUME BackfillStart \/ BackfillEnrich \/ BackfillDies \/ BackfillEnd
      PROVE  UNCHANGED event
  BY <1>7 DEF BackfillStart, BackfillEnrich, BackfillDies, BackfillEnd
<1>8. CASE UNCHANGED vars
  BY <1>1, <1>8 DEF vars
<1> QED BY <1>1, <1>2, <1>3, <1>4, <1>5, <1>6, <1>7, <1>8 DEF Next

-----------------------------------------------------------------------------
(* The invariant.                                                          *)

\* There are no events at first.
LEMMA InitInv == Init => EventInv
<1>1. Shaped(NoEvent) /\ Verified(NoEvent) /\ NoEvent.root = None
  BY DEF NoEvent, Shaped, Verified
<1>2. Init => event = [e \in Items |-> NoEvent]
  BY DEF Init
<1> QED BY <1>1, <1>2 DEF EventInv, Exists

\* Roots stay events, since events are never deleted.
LEMMA StepInv ==
  ASSUME EventInv, [Next]_vars
  PROVE  EventInv'
<1>1. Steps
  BY NextSteps
<1>2. \A e \in Items : Shaped(event'[e]) /\ Verified(event'[e])
  BY <1>1 DEF Steps, Improves
<1>3. \A e \in Items : Exists(e) => Exists(e)'
  BY <1>1 DEF Steps, Improves, Exists
<1>4. ASSUME NEW e \in Items, Exists(e)'
      PROVE  event'[e].root \in Items /\ event'[event'[e].root].root # None
  <2>1. CASE \A d \in Items : event'[d].root = event[d].root
    BY <1>3, <1>4, <2>1 DEF EventInv, Exists
  <2>2. ASSUME NEW d \in Items, NEW to \in Items, Rerooted(d, to)
        PROVE  event'[e].root \in Items /\ event'[event'[e].root].root # None
    BY <1>3, <1>4, <2>2 DEF Rerooted, EventInv, Exists
  <2> QED BY <1>1, <2>1, <2>2 DEF Steps
<1> QED BY <1>1, <1>2, <1>4 DEF EventInv, Steps, Exists, Shaped, Verified

\* The invariant holds.
LEMMA Inductive == Spec => []EventInv
BY InitInv, StepInv, PTL DEF Spec

\* The public archive never holds an unconfirmed report (enrich_pending,
\* _upgrade_canonical_evidence, recover_pending_embeddings): for any items and
\* sources, whatever is public is verified by more than a report.
THEOREM ConfirmedInPublic == Spec => []UnconfirmedStaysPrivate
<1>1. EventInv => UnconfirmedStaysPrivate
  BY DEF EventInv, Verified, UnconfirmedStaysPrivate
<1> QED BY <1>1, Inductive, PTL

\* No job lowers what an event is verified by (_combined_verification and its
\* uses): for any items and sources, each step keeps or raises it.
THEOREM VerificationKept == Spec => VerificationNeverFalls
<1>1. ASSUME EventInv, [Next]_vars
      PROVE  [\A e \in Items : Exists(e) => Rank[event'[e].verif] >= Rank[event[e].verif]]_vars
  BY <1>1, NextSteps DEF Steps, Improves, Exists
<1> QED BY <1>1, Inductive, PTL DEF Spec, VerificationNeverFalls

\* No events, no duplicates.
LEMMA RootInit == Init => RootSurvives
BY DEF Init, RootSurvives, NoEvent, Exists

\* An event that moves does so to an event that stays a root.
LEMMA RootStep ==
  ASSUME EventInv, RootSurvives, [Next]_vars
  PROVE  RootSurvives'
<1> SUFFICES ASSUME NEW S \in SUBSET Items, S # {},
                    \A e \in S : event'[e].root # None,
                    \A e \in S : event'[e].root # e /\ event'[e].root \in S
             PROVE  FALSE
  BY DEF RootSurvives, Exists, IsRoot
<1>1. Steps
  BY NextSteps
<1>2. CASE \A d \in Items : event'[d].root = event[d].root
  BY <1>2 DEF RootSurvives, Exists, IsRoot
<1>3. ASSUME NEW e \in Items, NEW to \in Items, Rerooted(e, to)
      PROVE  FALSE
  <2>1. CASE e \in S
    \* The new root would be in S, but it has not moved and is no duplicate.
    <3>1. to \in S /\ to # e
      BY <1>3, <2>1 DEF Rerooted
    <3>2. event'[to].root = to
      BY <1>3, <3>1 DEF Rerooted, IsRoot
    <3> QED BY <3>1, <3>2
  <2>2. CASE e \notin S
    <3>1. \A d \in S : event[d].root = event'[d].root
      BY <1>3, <2>2 DEF Rerooted
    <3> QED BY <3>1 DEF RootSurvives, Exists, IsRoot
  <2> QED BY <2>1, <2>2
<1> QED BY <1>1, <1>2, <1>3 DEF Steps

\* Duplicates never hide each other (_choose_cluster, and the merge in
\* recover_pending_embeddings): for any number of items, following
\* canonical_event_id never runs in a circle.
THEOREM RootsSurvive == Spec => []RootSurvives
BY Inductive, RootInit, RootStep, PTL DEF Spec

-----------------------------------------------------------------------------
(* The greatest number of a set, for compose's choice of a revision.       *)

\* A set of numbers up to a bound has a greatest one.
LEMMA GreatestExists ==
  ASSUME NEW bound \in Nat, NEW S \in SUBSET (1..bound), S # {}
  PROVE  \E n \in S : \A m \in S : m <= n
<1> DEFINE Greater(n) == {m \in S : m > n}
           T == {Greater(n) : n \in S}
           R == StrictSubsetOrdering(1..bound)
<1>1. FiniteSubsetsOf(1..bound) = SUBSET (1..bound)
  <2>1. IsFiniteSet(1..bound)
    BY FS_Interval
  <2> QED BY <2>1, FS_FiniteSubsetsOfFinite
<1>2. IsWellFoundedOn(R, SUBSET (1..bound))
  BY <1>1, FS_StrictSubsetOrderingWellFounded
<1>3. T \subseteq SUBSET (1..bound) /\ T # {}
  OBVIOUS
<1>4. \E U \in T : \A V \in T : ~(<<V, U>> \in R)
  <2> HIDE DEF T, R
  <2> QED BY <1>2, <1>3, WFMin
<1>5. PICK n \in S : \A V \in T : ~(<<V, Greater(n)>> \in R)
  BY <1>4
<1>6. ASSUME NEW m \in S, m > n PROVE FALSE
  <2>0. S \subseteq Int /\ m \in Int /\ n \in Int
    OBVIOUS
  <2>1. Greater(m) \subseteq Greater(n)
    <3> SUFFICES ASSUME NEW k \in S, k > m PROVE k > n
      OBVIOUS
    <3>1. k \in Int
      BY <2>0
    <3> QED BY <2>0, <3>1, <1>6
  <2>2. m \in Greater(n)
    BY <1>6
  <2>3. m \notin Greater(m)
    BY <2>0
  <2>4. Greater(m) \subseteq 1..bound /\ Greater(n) \subseteq 1..bound /\ Greater(m) \in T
    OBVIOUS
  <2>5. <<Greater(m), Greater(n)>> \in R
    <3> HIDE DEF Greater
    <3> QED BY <2>1, <2>2, <2>3, <2>4 DEF StrictSubsetOrdering
  <2> QED
    BY <1>5, <2>4, <2>5
<1>7. S \subseteq Int
  OBVIOUS
<1> QED
  BY <1>6, <1>7

-----------------------------------------------------------------------------
(* Rows and their types.                                                   *)

Revision == [key : Key, status : Statuses]

EventRow ==
  [root : Items \cup {None}, public : BOOLEAN, suppressed : BOOLEAN,
   status : Statuses \cup {None}, verif : Verifications \cup {None}, score : 0..100,
   url : Items \cup {None}, links : SUBSET Items, prim : SUBSET Versions,
   supp : SUBSET Versions, revs : Seq(Revision)]

\* An event that is there is filled in.
Filled(x) ==
  /\ x \in EventRow
  /\ x.root = None => x = NoEvent
  /\ x.root # None => x.url \in Items /\ x.verif \in Verifications /\ x.status \in Statuses

\* The links of an event, its canonical one included.
Links(x) == x.links \cup {x.url}

\* What the evidence of an item's own source verifies.
Own(i) == VerificationFor(profile[i].evidence)

\* Further evidence of this kind changes nothing.
Settled(old, new) ==
  CombinedVerification(old, new) = old /\ old # "REPORTED_UNCONFIRMED"

\* Combining does not unsettle.
LEMMA SettledStays ==
  ASSUME NEW old \in Verifications, NEW new \in Verifications, NEW other \in Verifications,
         Settled(old, other)
  PROVE  Settled(CombinedVerification(old, new), other)
BY DEF Settled, CombinedVerification, Verifications

\* What two pieces of evidence verify is more than one source's claim to be
\* primary.
LEMMA CombinedIsNotPrimary ==
  ASSUME NEW old \in Verifications, NEW new \in Verifications
  PROVE  CombinedVerification(old, new) # "VERIFIED_PRIMARY"
BY DEF CombinedVerification, Verifications

\* What ranks above an item's own evidence, and is not that of one primary
\* source, settles it for whatever it is combined with.
LEMMA BorrowedSettles ==
  ASSUME NEW old \in Verifications, NEW new \in Verifications, NEW own \in Verifications,
         Rank[new] > Rank[own], new # "VERIFIED_PRIMARY"
  PROVE  Settled(CombinedVerification(old, new), own)
BY DEF Settled, CombinedVerification, Verifications, Rank

\* A score is a number of points out of a hundred.
LEMMA ScoreFact ==
  ASSUME NEW strength \in 0..30, NEW evidence, NEW status \in Statuses, NEW verif, NEW type,
         NEW duplicate \in BOOLEAN, NEW routine \in BOOLEAN
  PROVE  ScoreEvent(strength, evidence, status, verif, type, duplicate, routine) \in 0..100
<1>1. EvidenceScore(evidence) \in 0..25
  BY DEF EvidenceScore
<1>2. Novelty(status) \in 0..20
  BY DEF Novelty, Statuses
<1>3. Impact(type) \in 0..18
  BY DEF Impact
<1>4. Clamp(0, 30, strength) \in 0..30
  BY DEF Clamp
<1>5. \A n \in Int : Clamp(0, 100, n) \in 0..100
  BY DEF Clamp
<1> DEFINE penalties == (IF duplicate THEN 40 ELSE 0)
                        + (IF verif = "REPORTED_UNCONFIRMED" THEN 25 ELSE 0)
                        + (IF routine THEN 20 ELSE 0)
           action == IF EvidenceScore(evidence) >= 22 THEN 10 ELSE 6
           points == Clamp(0, 30, strength) + EvidenceScore(evidence)
                     + Novelty(status) + Impact(type) + action - penalties
<1>6. penalties \in Int /\ action \in Int
  OBVIOUS
<1>7. points \in Int
  <2> HIDE DEF penalties, action
  <2> QED BY <1>1, <1>2, <1>3, <1>4, <1>6
<1>8. ScoreEvent(strength, evidence, status, verif, type, duplicate, routine)
        = Clamp(0, 100, points)
  BY DEF ScoreEvent
<1> QED BY <1>5, <1>7, <1>8

\* Revisions are only added, or get another label.
LEMMA RevisionFact ==
  ASSUME NEW revs \in Seq(Revision), NEW key \in Key, NEW status \in Statuses
  PROVE  /\ WithRevision(revs, key, status) \in Seq(Revision)
         /\ DOMAIN revs \subseteq DOMAIN WithRevision(revs, key, status)
<1>1. CASE \E n \in DOMAIN revs : revs[n].key = key
  <2> DEFINE new == [n \in DOMAIN revs |->
                       IF revs[n].key = key THEN [revs[n] EXCEPT !.status = status]
                       ELSE revs[n]]
  <2>1. WithRevision(revs, key, status) = new
    BY <1>1 DEF WithRevision
  <2>2. \A r \in Revision : [r EXCEPT !.status = status] \in Revision
    BY DEF Revision
  <2>3. new \in [1..Len(revs) -> Revision]
    <3>1. DOMAIN revs = 1..Len(revs) /\ \A n \in DOMAIN revs : revs[n] \in Revision
      OBVIOUS
    <3> QED BY <2>2, <3>1
  <2> HIDE DEF new
  <2>4. new \in Seq(Revision) /\ DOMAIN new = DOMAIN revs
    BY <2>3
  <2> QED BY <2>1, <2>4
<1>2. CASE ~\E n \in DOMAIN revs : revs[n].key = key
  <2>1. WithRevision(revs, key, status) = Append(revs, [key |-> key, status |-> status])
    BY <1>2 DEF WithRevision
  <2>2. [key |-> key, status |-> status] \in Revision
    BY DEF Revision
  <2> QED BY <2>1, <2>2
<1> QED BY <1>1, <1>2

\* A link and a relation more.
LEMMA AttachRow ==
  ASSUME NEW c, Filled(c), c.root # None, NEW i \in Items, NEW v \in Versions
  PROVE  /\ Filled(Attach(c, i, v))
         /\ \A f \in {"root", "url", "status", "verif", "suppressed", "prim", "revs"} :
              Attach(c, i, v)[f] = c[f]
         /\ Related(Attach(c, i, v)) = Related(c) \cup {v}
         /\ Links(Attach(c, i, v)) = Links(c) \cup {i}
<1> DEFINE links == IF c.url = i THEN c.links ELSE c.links \cup {i}
           supp == IF v \in Related(c) THEN c.supp ELSE c.supp \cup {v}
<1>1. PICK q : q = [c EXCEPT !.links = links, !.supp = supp]
  OBVIOUS
<1>2. q = Attach(c, i, v)
  BY <1>1 DEF Attach
<1>3. c \in EventRow /\ c.links \subseteq Items /\ c.supp \subseteq Versions
  BY DEF Filled, EventRow
<1>4. links \in SUBSET Items /\ supp \in SUBSET Versions
  BY <1>3
<1>5. links \cup {c.url} = Links(c) \cup {i}
  BY DEF Links
<1>6. c.prim \cup supp = Related(c) \cup {v}
  BY DEF Related
<1> HIDE DEF links, supp
<1>7. /\ q \in EventRow
      /\ q.root = c.root /\ q.url = c.url /\ q.status = c.status /\ q.verif = c.verif
      /\ q.suppressed = c.suppressed /\ q.prim = c.prim /\ q.revs = c.revs
      /\ q.links = links /\ q.supp = supp
  BY <1>1, <1>3, <1>4 DEF EventRow
<1>8. Filled(q)
  BY <1>7 DEF Filled
<1>9. Related(q) = Related(c) \cup {v} /\ Links(q) = Links(c) \cup {i}
  BY <1>5, <1>6, <1>7 DEF Related, Links
<1> QED BY <1>2, <1>7, <1>8, <1>9

\* A change of an event that suppresses or releases it is a revision of its
\* own, named for the version v.
Logs(c, u, v) ==
  \/ u.revs = c.revs /\ u.suppressed = c.suppressed
  \/ \E key \in Key : /\ key[1] = v /\ \A w : key # <<w>>
                     /\ u.revs = WithRevision(c.revs, key, "MATERIAL_UPDATE")

\* What becomes of an event c that gains the version v and the verification
\* verif from the event s, in a run that suppresses or not.
Gains(c, u, s, v, verif, suppress) ==
  /\ Filled(u)
  /\ u.root = c.root
  /\ u.verif \in {c.verif, CombinedVerification(c.verif, verif)}
  /\ u.url # c.url => u.url = s.url /\ Rank[u.verif] > Rank[c.verif]
  /\ Related(u) = Related(c) \cup {v}
  /\ \/ u.prim = c.prim
     \/ /\ u.prim = {v} /\ u.url = s.url /\ u.verif = CombinedVerification(c.verif, verif)
        /\ Rank[u.verif] > Rank[c.verif] \/ c.url = s.url
  /\ Links(c) \subseteq Links(u)
  /\ DOMAIN c.revs \subseteq DOMAIN u.revs
  /\ Logs(c, u, v)
  /\ u.suppressed # c.suppressed =>
       /\ u.suppressed = suppress
       /\ s.status = "MATERIAL_UPDATE" \/ ~Settled(c.verif, verif)

\* The upgrade of a cluster gains what is attached to it.
LEMMA UpgradedRow ==
  ASSUME NEW c, Filled(c), c.root # None, NEW s, s.url \in Items,
         NEW v \in Related(c), v \in Versions, NEW verif \in Verifications,
         NEW score \in 0..100, NEW suppress \in BOOLEAN
  PROVE  /\ Gains(c, Upgraded(c, s, v, verif, score, suppress), s, v, verif, suppress)
         /\ Upgraded(c, s, v, verif, score, suppress).verif
              = CombinedVerification(c.verif, verif)
<1> DEFINE combined == CombinedVerification(c.verif, verif)
           twoMedia ==
             /\ c.verif = "REPORTED_UNCONFIRMED"
             /\ verif = "REPORTED_UNCONFIRMED"
             /\ Cardinality(MediaSources(c)) >= 2
           primaryArrived ==
             /\ c.verif \in {"COMPANY_CLAIM", "REPORTED_UNCONFIRMED"}
             /\ Rank[verif] > Rank[c.verif]
           material == s.status = "MATERIAL_UPDATE"
           switch == primaryArrived \/ (material /\ c.url = s.url)
           url == IF switch THEN s.url ELSE c.url
           links == IF switch THEN (c.links \cup {c.url}) \ {s.url} ELSE c.links
           prim == IF switch THEN {v} ELSE c.prim
           supp == IF switch THEN Related(c) \ {v} ELSE c.supp
           sc == IF score > c.score THEN score ELSE c.score
           changed == combined # c.verif \/ primaryArrived \/ twoMedia \/ material
           public == Publishable(combined, sc)
           revs == WithRevision(c.revs, <<v, combined, url, links>>, "MATERIAL_UPDATE")
           u == Upgraded(c, s, v, verif, score, suppress)
<1>1. /\ c \in EventRow /\ c.url \in Items /\ c.verif \in Verifications
      /\ c.links \subseteq Items /\ c.prim \subseteq Versions /\ c.supp \subseteq Versions
      /\ c.score \in 0..100 /\ c.revs \in Seq(Revision)
  BY DEF Filled, EventRow
<1>2. /\ combined \in Verifications /\ Rank[combined] >= Rank[c.verif]
      /\ primaryArrived => Rank[combined] > Rank[c.verif]
      /\ combined # c.verif => Rank[combined] > Rank[c.verif]
      /\ primaryArrived \/ combined # c.verif \/ twoMedia => ~Settled(c.verif, verif)
  BY <1>1, CombinedFact DEF CombinedVerification, Verifications, Rank, Settled
<1>3. url \in Items /\ links \in SUBSET Items /\ sc \in 0..100
  BY <1>1
<1>4. prim \in SUBSET Versions /\ supp \in SUBSET Versions
  BY <1>1 DEF Related
<1>5. Links(c) \subseteq links \cup {url}
  BY DEF Links
<1>6. prim \cup supp = Related(c) \cup {v}
  BY DEF Related
<1>7. \/ prim = c.prim
      \/ prim = {v} /\ url = s.url /\ (Rank[combined] > Rank[c.verif] \/ c.url = s.url)
  BY <1>2
<1>8. url # c.url => url = s.url /\ Rank[combined] > Rank[c.verif]
  BY <1>2
<1>9. public \in BOOLEAN
  BY DEF Publishable
<1>10. /\ revs \in Seq(Revision) /\ DOMAIN c.revs \subseteq DOMAIN revs
       /\ \E key \in Key : /\ key[1] = v /\ \A w : key # <<w>>
                          /\ revs = WithRevision(c.revs, key, "MATERIAL_UPDATE")
  <2>1. <<v, combined, url, links>> \in Key
    BY <1>2, <1>3 DEF Key
  <2>2. <<v, combined, url, links>>[1] = v /\ \A w : <<v, combined, url, links>> # <<w>>
    OBVIOUS
  <2> QED BY <1>1, <2>1, <2>2, RevisionFact DEF Statuses
<1>11. PICK shown : shown = [c EXCEPT !.verif = combined, !.url = url, !.links = links,
                                      !.prim = prim, !.supp = supp, !.score = sc]
  OBVIOUS
<1>12. shown.score = sc /\ shown.url = url /\ shown.links = links /\ shown.revs = c.revs
  <2> HIDE DEF combined, url, links, prim, supp, sc
  <2> QED BY <1>1, <1>11 DEF EventRow
<1>13. PICK pub : pub = [shown EXCEPT !.public = public]
  OBVIOUS
<1>14. pub.revs = c.revs
  <2> HIDE DEF combined, url, links, prim, supp, sc, public
  <2> QED BY <1>1, <1>11, <1>13 DEF EventRow
<1>15. u = IF changed
           THEN [pub EXCEPT !.status = "MATERIAL_UPDATE", !.suppressed = suppress,
                            !.revs = revs]
           ELSE pub
  BY <1>11, <1>12, <1>13, <1>14 DEF Upgraded
<1>16. changed => s.status = "MATERIAL_UPDATE" \/ ~Settled(c.verif, verif)
  BY <1>2
<1>17. c.status \in Statuses /\ "MATERIAL_UPDATE" \in Statuses
  BY DEF Filled, Statuses
<1>18. PICK q : q = u
  OBVIOUS
<1> HIDE DEF combined, url, links, prim, supp, sc, public, revs, changed, u
<1>19. /\ pub \in EventRow
       /\ pub.root = c.root /\ pub.verif = combined /\ pub.url = url /\ pub.links = links
       /\ pub.prim = prim /\ pub.supp = supp /\ pub.status = c.status
       /\ pub.suppressed = c.suppressed /\ pub.revs = c.revs
  <2>1. combined \in Verifications \cup {None} /\ url \in Items \cup {None}
    BY <1>2, <1>3
  <2> QED BY <1>1, <1>3, <1>4, <1>9, <1>11, <1>13, <2>1 DEF EventRow
<1>20. /\ q \in EventRow
       /\ q.root = c.root /\ q.verif = combined /\ q.url = url /\ q.links = links
       /\ q.prim = prim /\ q.supp = supp /\ q.status \in Statuses
       /\ DOMAIN c.revs \subseteq DOMAIN q.revs
       /\ \/ q.suppressed = c.suppressed /\ q.revs = c.revs
          \/ changed /\ q.suppressed = suppress /\ q.revs = revs
  <2>1. CASE ~changed
    BY <1>15, <1>17, <1>18, <1>19, <2>1
  <2>2. CASE changed
    <3>1. q = [pub EXCEPT !.status = "MATERIAL_UPDATE", !.suppressed = suppress,
                          !.revs = revs]
      BY <1>15, <1>18, <2>2
    <3> QED BY <1>10, <1>17, <1>19, <2>2, <3>1 DEF EventRow
  <2> QED BY <2>1, <2>2
<1>21. Filled(q)
  BY <1>2, <1>3, <1>20 DEF Filled
<1>22. Related(q) = Related(c) \cup {v} /\ Links(c) \subseteq Links(q)
  <2>1. Related(q) = prim \cup supp /\ Links(q) = links \cup {url}
    BY <1>20 DEF Related, Links
  <2> QED BY <1>5, <1>6, <2>1
<1>23. \/ q.prim = c.prim
       \/ q.prim = {v} /\ q.url = s.url /\ (Rank[q.verif] > Rank[c.verif] \/ c.url = s.url)
  BY <1>7, <1>20
<1>24. q.url # c.url => q.url = s.url /\ Rank[q.verif] > Rank[c.verif]
  BY <1>8, <1>20
<1>25. q.verif = CombinedVerification(c.verif, verif)
  BY <1>20 DEF combined
<1>26. q.suppressed # c.suppressed =>
         q.suppressed = suppress /\ (s.status = "MATERIAL_UPDATE" \/ ~Settled(c.verif, verif))
  BY <1>16, <1>20
<1>27. Logs(c, q, v)
  BY <1>10, <1>20 DEF Logs
<1>28. Gains(c, q, s, v, verif, suppress)
  BY <1>20, <1>21, <1>22, <1>23, <1>24, <1>25, <1>26, <1>27 DEF Gains
<1> QED BY <1>18, <1>25, <1>28 DEF u

\* What is attached and upgraded.
Joined(c, i, s, v, verif, score, suppress) ==
  Upgraded(Attach(c, i, v), s, v, verif, score, suppress)

\* The verification is combined with what is gained.
Combines(c, u, verif) == u.verif = CombinedVerification(c.verif, verif)

\* It gains both.
LEMMA JoinedRow ==
  ASSUME NEW c, Filled(c), c.root # None, NEW s, s.url \in Items,
         NEW i \in Items, NEW v \in Versions, NEW verif \in Verifications,
         NEW score \in 0..100, NEW suppress \in BOOLEAN
  PROVE  /\ Gains(c, Joined(c, i, s, v, verif, score, suppress), s, v, verif, suppress)
         /\ i \in Links(Joined(c, i, s, v, verif, score, suppress))
         /\ Combines(c, Joined(c, i, s, v, verif, score, suppress), verif)
<1>1. PICK a : a = Attach(c, i, v)
  OBVIOUS
<1>2. /\ Filled(a)
      /\ a.root = c.root /\ a.url = c.url /\ a.verif = c.verif
      /\ a.suppressed = c.suppressed /\ a.prim = c.prim /\ a.revs = c.revs
      /\ Related(a) = Related(c) \cup {v}
      /\ Links(a) = Links(c) \cup {i}
  BY <1>1, AttachRow
<1>3. PICK u : u = Upgraded(a, s, v, verif, score, suppress)
  OBVIOUS
<1>4. Gains(a, u, s, v, verif, suppress) /\ u.verif = CombinedVerification(a.verif, verif)
  BY <1>2, <1>3, UpgradedRow
<1>5. u = Joined(c, i, s, v, verif, score, suppress)
  BY <1>1, <1>3 DEF Joined
<1>6. Gains(c, u, s, v, verif, suppress) /\ i \in Links(u)
  BY <1>2, <1>4 DEF Gains, Logs
<1>7. Combines(c, u, verif)
  BY <1>2, <1>4 DEF Combines
<1> QED BY <1>5, <1>6, <1>7

\* What the cluster of an enriched item gains.  It keeps its suppression, takes
\* over that of the run when the item brings a link or a material change.
LEMMA GainedRow ==
  ASSUME NEW c, Filled(c), c.root # None, NEW i \in Items, Current(i) \in Versions,
         NEW s, s.url \in Items, s.status = item[i].status, item[i].status \in Statuses,
         NEW strength \in 0..30, profile[i].routine \in BOOLEAN, Suppressing(i) \in BOOLEAN,
         NEW u, u = Gained(c, i, s, strength)
  PROVE  /\ Gains(c, u, s, Current(i), Own(i), Suppressing(i))
         /\ i \in Links(u)
         /\ u.suppressed # c.suppressed =>
              item[i].status = "MATERIAL_UPDATE" \/ (i \notin Links(c) /\ ~Settled(c.verif, Own(i)))
<1>1. PICK a : a = Attach(c, i, Current(i))
  OBVIOUS
<1>2. /\ Filled(a)
      /\ a.root = c.root /\ a.url = c.url /\ a.verif = c.verif
      /\ a.suppressed = c.suppressed /\ a.prim = c.prim /\ a.revs = c.revs
      /\ Related(a) = Related(c) \cup {Current(i)}
      /\ Links(a) = Links(c) \cup {i}
  BY <1>1, AttachRow
<1>3. PICK score : score = ScoreEvent(strength, profile[i].evidence, item[i].status, Own(i),
                                      profile[i].type, FALSE, profile[i].routine)
  OBVIOUS
<1>4. score \in 0..100 /\ Own(i) \in Verifications
  BY <1>3, ScoreFact, VerificationForFact DEF Own
<1>5. PICK w : w = Upgraded(a, s, Current(i), Own(i), score, Suppressing(i))
  OBVIOUS
<1>6. u = IF (c.url # i /\ i \notin c.links)
             \/ (item[i].status = "MATERIAL_UPDATE" /\ (c.url # i \/ Exists(i)))
          THEN w ELSE a
  BY <1>1, <1>3, <1>5 DEF Gained, Own
<1>7. Gains(c, w, s, Current(i), Own(i), Suppressing(i)) /\ i \in Links(w)
  <2>1. w = Joined(c, i, s, Current(i), Own(i), score, Suppressing(i))
    BY <1>1, <1>5 DEF Joined
  <2> QED BY <1>4, <2>1, JoinedRow
<1>8. Gains(c, a, s, Current(i), Own(i), Suppressing(i)) /\ i \in Links(a)
  BY <1>2 DEF Gains, Logs
<1>9. i \in Links(c) => c.url = i \/ i \in c.links
  BY DEF Links
<1>10. u = a \/ (u = w /\ (item[i].status = "MATERIAL_UPDATE" \/ i \notin Links(c)))
  BY <1>6 DEF Links
<1>11. w.suppressed # c.suppressed =>
         item[i].status = "MATERIAL_UPDATE" \/ ~Settled(c.verif, Own(i))
  BY <1>7 DEF Gains
<1> QED BY <1>2, <1>7, <1>8, <1>10, <1>11

\* What an item's own event becomes when it is enriched into the cluster to.
Becomes(i, q, pending, to) ==
  /\ Filled(q)
  /\ q.root = to /\ q.status = item[i].status /\ q.links = event[i].links
  /\ q.suppressed = StaysSuppressed(i, pending)
  /\ ~Exists(i) => q.verif = Own(i) /\ q.url = i
  /\ Exists(i) => /\ q.verif = CombinedVerification(event[i].verif, Own(i))
                  /\ \/ q.url = event[i].url
                     \/ q.url = i /\ ~(Rank[event[i].verif] > Rank[Own(i)])
  /\ Related(q) = Related(event[i]) \cup {Current(i)}
  /\ q.prim \subseteq event[i].prim \cup {Current(i)}
  /\ Exists(i) /\ event[i].url # i /\ Rank[event[i].verif] > Rank[Own(i)] =>
       q.prim = event[i].prim
  /\ q.revs = WithRevision(event[i].revs, <<Current(i)>>, item[i].status)
  /\ DOMAIN event[i].revs \subseteq DOMAIN q.revs

\* What becomes of the event of an enriched item.
LEMMA EnrichedRow ==
  ASSUME NEW i \in Items, NEW to \in Items, NEW strength \in 0..30, NEW pending \in BOOLEAN,
         Filled(event[i]), Current(i) \in Versions, item[i].status \in Statuses,
         profile[i].routine \in BOOLEAN, Suppressing(i) \in BOOLEAN,
         NEW q, q = Enriched(i, strength, pending, to)
  PROVE  Becomes(i, q, pending, to)
<1> DEFINE old == event[i]
           p == profile[i]
           status == item[i].status
           minor == status = "MINOR_UPDATE"
           verif == Own(i)
           total == ScoreEvent(strength, p.evidence, status, verif, p.type, to # i, p.routine)
           keep == Exists(i) /\ Rank[old.verif] > Rank[verif] /\ old.url # i
           combined == IF ~Exists(i) THEN verif ELSE CombinedVerification(old.verif, verif)
           higher == IF old.score > total THEN old.score ELSE total
           public == (IF minor \/ keep THEN old.public
                      ELSE to = i /\ ~p.routine /\ Publishable(combined, higher)) /\ ~pending
           stays == StaysSuppressed(i, pending)
           score == IF minor \/ keep THEN higher ELSE total
           url == IF keep THEN old.url ELSE i
           prim == IF keep \/ Current(i) \in Related(old) THEN old.prim
                   ELSE old.prim \cup {Current(i)}
           supp == IF ~keep \/ Current(i) \in Related(old) THEN old.supp
                   ELSE old.supp \cup {Current(i)}
           revs == WithRevision(old.revs, <<Current(i)>>, status)
<1>1. q = [old EXCEPT
             !.root = to, !.public = public, !.suppressed = stays, !.status = status,
             !.verif = combined, !.score = score, !.url = url,
             !.prim = prim, !.supp = supp, !.revs = revs]
  BY DEF Enriched, Own
<1>2. /\ old \in EventRow /\ old.links \subseteq Items /\ old.prim \subseteq Versions
      /\ old.supp \subseteq Versions /\ old.score \in 0..100 /\ old.revs \in Seq(Revision)
      /\ old.public \in BOOLEAN /\ old.suppressed \in BOOLEAN
      /\ Exists(i) => old.url \in Items /\ old.verif \in Verifications
  BY DEF Filled, EventRow, Exists
<1>3. verif \in Verifications
  BY VerificationForFact DEF Own
<1>4. combined \in Verifications
  BY <1>2, <1>3, CombinedFact
<1>5. total \in 0..100
  BY ScoreFact
<1>6. score \in 0..100
  <2> HIDE DEF total
  <2> QED BY <1>2, <1>5
<1>7. url \in Items /\ prim \in SUBSET Versions /\ supp \in SUBSET Versions
  BY <1>2
<1>8. prim \cup supp = Related(old) \cup {Current(i)}
      /\ prim \subseteq old.prim \cup {Current(i)}
  BY DEF Related
<1>9. public \in BOOLEAN
  <2>1. Publishable(combined, higher) \in BOOLEAN
    BY DEF Publishable
  <2> QED BY <1>2, <2>1
<1>10. stays \in BOOLEAN
  BY <1>2 DEF StaysSuppressed
<1>11. /\ revs \in Seq(Revision) /\ DOMAIN old.revs \subseteq DOMAIN revs
       /\ revs = WithRevision(old.revs, <<Current(i)>>, status)
  <2>1. <<Current(i)>> \in Key
    BY DEF Key
  <2> QED BY <1>2, <2>1, RevisionFact
<1>12. ~Exists(i) => combined = Own(i) /\ url = i
  OBVIOUS
<1>13. Exists(i) => /\ combined = CombinedVerification(old.verif, Own(i))
                    /\ url = old.url \/ (url = i /\ ~(Rank[old.verif] > Rank[Own(i)]))
  OBVIOUS
<1>14. to # None
  BY LedgerAssumption DEF LedgerAssumption
<1>15. Exists(i) /\ old.url # i /\ Rank[old.verif] > Rank[Own(i)] => prim = old.prim
  OBVIOUS
<1> HIDE DEF combined, total, higher, public, stays, score, url, prim, supp, revs, status
<1>16. /\ q \in EventRow
       /\ q.root = to /\ q.suppressed = stays /\ q.status = status /\ q.verif = combined
       /\ q.url = url /\ q.links = old.links /\ q.prim = prim /\ q.supp = supp /\ q.revs = revs
  <2>1. status \in Statuses
    BY DEF status
  <2>2. /\ to \in Items \cup {None} /\ url \in Items \cup {None}
        /\ status \in Statuses \cup {None} /\ combined \in Verifications \cup {None}
    BY <1>4, <1>7, <2>1
  <2> HIDE DEF old
  <2> QED BY <1>1, <1>2, <1>6, <1>7, <1>9, <1>10, <1>11, <2>2 DEF EventRow
<1>17. Filled(q)
  BY <1>4, <1>7, <1>14, <1>16 DEF Filled, status
<1>18. Related(q) = Related(old) \cup {Current(i)}
  BY <1>8, <1>16 DEF Related
<1>19. q.revs = WithRevision(old.revs, <<Current(i)>>, item[i].status)
  BY <1>11, <1>16 DEF status
<1>20. Exists(i) /\ event[i].url # i /\ Rank[event[i].verif] > Rank[Own(i)] =>
         q.prim = event[i].prim
  BY <1>15, <1>16
<1> QED BY <1>8, <1>11, <1>12, <1>13, <1>16, <1>17, <1>18, <1>19, <1>20 DEF status, stays, Becomes

-----------------------------------------------------------------------------
(* The tables and their types.                                             *)

\* A line names a revision of its event.
Names(l) == l \in Items \X Nat /\ l[2] \in DOMAIN event[l[1]].revs

\* The inductive invariant behind the types.
TypeInv ==
  /\ profile \in Profiles
  /\ item \in [Items -> ItemRow]
  /\ \A i \in Items : item[i].hash # None => item[i].status \in Statuses
  /\ version \in [Versions -> [space : {None, "local", "remote"}, pending : BOOLEAN]]
  /\ recent \in Seq(Versions)
  /\ \A e \in Items : Filled(event[e])
  /\ job \in {"normal", "replaying", "archiving"}
  /\ spent \in 0..DailyLimit
  /\ digest \in [lines : SUBSET (Items \X Nat), state : {"none", "open", "closed"}]
  /\ \A l \in digest.lines \cup past \cup alerted : Names(l)
  /\ found \subseteq Items

\* Enriching the item i, whose event is in the cluster to: what its own event
\* becomes, what the canonical event gains, and what the item remembers.
Enriches(i, to) ==
  /\ Filled(event'[i])
  /\ event'[i].root = to /\ event'[i].links = event[i].links
  /\ ~event'[i].suppressed =>
       ~Suppressing(i) /\ (item[i].status = "MINOR_UPDATE" => ~event[i].suppressed)
  /\ ~Exists(i) => event'[i].verif = Own(i) /\ event'[i].url = i
  /\ Exists(i) =>
       /\ event'[i].verif = CombinedVerification(event[i].verif, Own(i))
       /\ \/ event'[i].url = event[i].url
          \/ event'[i].url = i /\ ~(Rank[event[i].verif] > Rank[Own(i)])
  /\ Related(event'[i]) = Related(event[i]) \cup {Current(i)}
  /\ event'[i].prim \subseteq event[i].prim \cup {Current(i)}
  /\ Exists(i) /\ event[i].url # i /\ Rank[event[i].verif] > Rank[Own(i)] =>
       event'[i].prim = event[i].prim
  /\ event'[i].revs = WithRevision(event[i].revs, <<Current(i)>>, item[i].status)
  /\ DOMAIN event[i].revs \subseteq DOMAIN event'[i].revs
  /\ to # i =>
       /\ Gains(event[to], event'[to], event'[i], Current(i), Own(i), Suppressing(i))
       /\ i \in Links(event'[to])
       /\ event'[to].suppressed # event[to].suppressed =>
            \/ item[i].status = "MATERIAL_UPDATE"
            \/ i \notin Links(event[to]) /\ ~Settled(event[to].verif, Own(i))
  /\ \A d \in Items \ {i, to} : event'[d] = event[d]

\* What the item remembers.
Remembers(i) ==
  /\ item' = [item EXCEPT ![i] = item'[i]]
  /\ item'[i] \in ItemRow
  /\ item'[i].hash = item[i].hash /\ item'[i].status = item[i].status
  /\ item'[i].done = item[i].hash
  /\ item'[i].arch = IF ~Suppressing(i) /\ item[i].status # "MINOR_UPDATE" THEN FALSE
                     ELSE item[i].arch \/ Suppressing(i)

\* What the enrichment knows of the version: its event is suppressed when the
\* embedding is pending.
Embeds(i) ==
  /\ \A v \in Versions : v # Current(i) => version'[v] = version[v]
  /\ version'[Current(i)].pending => event'[i].suppressed

\* The current version of an item that has content.
LEMMA CurrentFact ==
  ASSUME TypeInv, NEW i \in Items, item[i].hash # None
  PROVE  /\ Current(i) \in Versions /\ Current(i)[1] = i /\ item[i].hash \in Hashes
         /\ item[i].status \in Statuses
         /\ profile[i].routine \in BOOLEAN
         /\ Suppressing(i) \in BOOLEAN
<1>1. item[i] \in ItemRow
  BY DEF TypeInv
<1>2. item[i].hash \in Hashes
  BY <1>1 DEF ItemRow
<1>3. profile \in [Items -> [source : STRING, evidence : STRING, type : STRING,
                             routine : BOOLEAN, artifact : BOOLEAN]]
  BY LedgerAssumption DEF LedgerAssumption, TypeInv
<1> QED BY <1>2, <1>3 DEF Current, Versions, Suppressing, TypeInv

\* Enriching does as said.
LEMMA EnrichShape ==
  ASSUME TypeInv, EventInv, NEW i \in Items, NEW strength \in Strengths,
         NEW space \in {"remote", "local"}, NEW to \in Items,
         Enrich(i, strength, space, to)
  PROVE  /\ Pending(i) /\ Current(i) \in Versions
         /\ Exists(i) => to = event[i].root
         /\ to # i => Exists(to)
         /\ Enriches(i, to)
         /\ Remembers(i)
         /\ Embeds(i)
<1>1. Pending(i) /\ item[i].hash # None /\ (Exists(i) => to = event[i].root)
  BY DEF Enrich, Pending
<1>2. /\ Current(i) \in Versions /\ item[i].status \in Statuses /\ item[i].hash \in Hashes
      /\ profile[i].routine \in BOOLEAN /\ Suppressing(i) \in BOOLEAN
  BY <1>1, CurrentFact
<1>3. to # i => Exists(to)
  BY ClusterFact DEF Enrich, EventInv
<1>4. strength \in 0..30
  BY LedgerAssumption DEF LedgerAssumption
<1>5. PICK pending \in BOOLEAN : pending = (space = "local")
  OBVIOUS
<1>6. PICK own : own = Enriched(i, strength, pending, to)
  OBVIOUS
<1>7. PICK u : u = Gained(event[to], i, own, strength)
  OBVIOUS
<1>8. event' = [e \in Items |->
                  CASE e = i           -> own
                    [] e # i /\ e = to -> Gained(event[e], i, own, strength)
                    [] OTHER           -> event[e]]
  BY <1>5, <1>6 DEF Enrich
<1>9. /\ event'[i] = own
      /\ to # i => event'[to] = u
      /\ \A d \in Items \ {i, to} : event'[d] = event[d]
  BY <1>7, <1>8
<1>10. /\ Filled(own)
       /\ own.root = to /\ own.status = item[i].status /\ own.links = event[i].links
       /\ own.suppressed = StaysSuppressed(i, pending)
       /\ ~Exists(i) => own.verif = Own(i) /\ own.url = i
       /\ Exists(i) => /\ own.verif = CombinedVerification(event[i].verif, Own(i))
                       /\ \/ own.url = event[i].url
                          \/ own.url = i /\ ~(Rank[event[i].verif] > Rank[Own(i)])
       /\ Related(own) = Related(event[i]) \cup {Current(i)}
       /\ own.prim \subseteq event[i].prim \cup {Current(i)}
       /\ Exists(i) /\ event[i].url # i /\ Rank[event[i].verif] > Rank[Own(i)] =>
            own.prim = event[i].prim
       /\ own.revs = WithRevision(event[i].revs, <<Current(i)>>, item[i].status)
       /\ DOMAIN event[i].revs \subseteq DOMAIN own.revs
  <2>1. Filled(event[i])
    BY DEF TypeInv
  <2>2. strength \in 0..30 /\ pending \in BOOLEAN
    BY <1>4, <1>5
  <2>3. Becomes(i, own, pending, to)
    BY <1>2, <1>6, <2>1, <2>2, EnrichedRow
  <2> QED BY <2>3 DEF Becomes
<1>11. own.url \in Items
  <2>1. to # None
    BY LedgerAssumption DEF LedgerAssumption
  <2> QED BY <1>10, <2>1 DEF Filled
<1>12. to # i =>
         /\ Gains(event[to], u, own, Current(i), Own(i), Suppressing(i))
         /\ i \in Links(u)
         /\ u.suppressed # event[to].suppressed =>
              \/ item[i].status = "MATERIAL_UPDATE"
              \/ i \notin Links(event[to]) /\ ~Settled(event[to].verif, Own(i))
  <2>1. SUFFICES ASSUME to # i
                 PROVE  /\ Gains(event[to], u, own, Current(i), Own(i), Suppressing(i))
                        /\ i \in Links(u)
                        /\ u.suppressed # event[to].suppressed =>
                             \/ item[i].status = "MATERIAL_UPDATE"
                             \/ i \notin Links(event[to]) /\ ~Settled(event[to].verif, Own(i))
    OBVIOUS
  <2>2. PICK c : c = event[to]
    OBVIOUS
  <2>3. Filled(c) /\ c.root # None
    BY <1>3, <2>1, <2>2 DEF TypeInv, Exists
  <2>4. u = Gained(c, i, own, strength)
    BY <1>7, <2>2
  <2>5. /\ Gains(c, u, own, Current(i), Own(i), Suppressing(i))
        /\ i \in Links(u)
        /\ u.suppressed # c.suppressed =>
             item[i].status = "MATERIAL_UPDATE" \/ (i \notin Links(c) /\ ~Settled(c.verif, Own(i)))
    BY <1>2, <1>4, <1>10, <1>11, <2>3, <2>4, GainedRow
  <2> QED BY <2>2, <2>5
<1>13. ~own.suppressed =>
         ~Suppressing(i) /\ (item[i].status = "MINOR_UPDATE" => ~event[i].suppressed)
  BY <1>10 DEF StaysSuppressed
<1>14. Enriches(i, to)
  BY <1>9, <1>10, <1>12, <1>13 DEF Enriches
<1>15. Remembers(i)
  <2> DEFINE release == ~Suppressing(i) /\ item[i].status # "MINOR_UPDATE"
             arch == IF release THEN FALSE ELSE item[i].arch \/ Suppressing(i)
             before == event[i].suppressed /\ ~(item[i].arch /\ release)
  <2>1. item[i] \in ItemRow /\ item[i].arch \in BOOLEAN /\ item' = [item EXCEPT ![i] = Flagged(i, pending)]
        /\ item \in [Items -> ItemRow]
    BY <1>5 DEF Enrich, TypeInv, ItemRow
  <2>2. arch \in BOOLEAN /\ before \in BOOLEAN
    BY <1>2, <2>1 DEF TypeInv, Filled, EventRow
  <2>3. PICK row : row = [item[i] EXCEPT !.done = item[i].hash, !.mark = None, !.arch = arch]
    OBVIOUS
  <2>4. PICK flagged : flagged = Flagged(i, pending)
    OBVIOUS
  <2>5. flagged = IF pending THEN [row EXCEPT !.outage = TRUE, !.before = before] ELSE row
    BY <2>3, <2>4 DEF Flagged
  <2>6. arch = IF ~Suppressing(i) /\ item[i].status # "MINOR_UPDATE" THEN FALSE
               ELSE item[i].arch \/ Suppressing(i)
    OBVIOUS
  <2> HIDE DEF release, arch, before
  <2>7. /\ row \in ItemRow /\ row.hash = item[i].hash /\ row.status = item[i].status
        /\ row.done = item[i].hash /\ row.arch = arch
    BY <1>2, <2>1, <2>2, <2>3 DEF ItemRow
  <2>8. /\ flagged \in ItemRow /\ flagged.hash = item[i].hash /\ flagged.status = item[i].status
        /\ flagged.done = item[i].hash /\ flagged.arch = arch
    <3>1. CASE ~pending
      BY <2>5, <2>7, <3>1
    <3>2. CASE pending
      <4>1. flagged = [row EXCEPT !.outage = TRUE, !.before = before]
        BY <2>5, <3>2
      <4> QED BY <2>2, <2>7, <4>1 DEF ItemRow
    <3> QED BY <3>1, <3>2
  <2>9. item'[i] = flagged /\ item' = [item EXCEPT ![i] = item'[i]]
    BY <2>1, <2>4
  <2> QED BY <2>6, <2>8, <2>9 DEF Remembers
<1>16. Embeds(i)
  <2>1. version' = [version EXCEPT ![Current(i)] = [space |-> space, pending |-> pending]]
        /\ version \in [Versions -> [space : {None, "local", "remote"}, pending : BOOLEAN]]
    BY <1>5 DEF Enrich, TypeInv
  <2>2. pending => own.suppressed
    BY <1>10 DEF StaysSuppressed
  <2> QED BY <1>2, <1>9, <2>1, <2>2 DEF Embeds
<1> QED BY <1>1, <1>2, <1>3, <1>14, <1>15, <1>16

\* The event d keeps everything but its root, what it is shown as and how.
SameEvidence(d) ==
  /\ Filled(event'[d])
  /\ event'[d].url = event[d].url /\ event'[d].verif = event[d].verif
  /\ event'[d].links = event[d].links /\ event'[d].prim = event[d].prim
  /\ event'[d].supp = event[d].supp /\ event'[d].revs = event[d].revs

\* Recovery of the item i merges the root e into the root to.
Merges(i, e, to) ==
  /\ e # to /\ IsRoot(e) /\ Exists(to) /\ IsRoot(to)
  /\ SameEvidence(e)
  /\ event'[e].root = to /\ event'[e].suppressed = TRUE
  /\ Gains(event[to], event'[to], event[e], Current(i), event[e].verif,
           item[i].arch \/ item[i].before)
  /\ i \in Links(event'[to])
  /\ Combines(event[to], event'[to], event[e].verif)
  /\ \A d \in Items \ {e, to} : event'[d] = event[d]

\* Recovery of the item i releases the root e, or leaves it hidden.
Releases(i, e) ==
  /\ IsRoot(e)
  /\ SameEvidence(e)
  /\ event'[e].root = e
  /\ event'[e].suppressed = (item[i].arch \/ item[i].before)
  /\ \A d \in Items \ {e} : event'[d] = event[d]

\* Recovering does as said.
LEMMA RecoverShape ==
  ASSUME TypeInv, EventInv, NEW i \in Items, item[i].hash # None,
         NEW e \in Owners(Current(i)), NEW to \in Items,
         RecoverRoot(i, e, to)
  PROVE  Merges(i, e, to) \/ Releases(i, e) \/ event' = event
<1> DEFINE withheld == item[i].arch \/ item[i].before
<1>1. e \in Items /\ Exists(e) /\ IsRoot(e) /\ Filled(event[e])
  BY DEF Owners, RecoverRoot, TypeInv
<1>2. Current(i) \in Versions
  BY CurrentFact
<1>3. withheld \in BOOLEAN
  BY DEF TypeInv, ItemRow
<1>4. PICK own : own = event[e]
  OBVIOUS
<1>5. own \in EventRow /\ own.url \in Items /\ own.verif \in Verifications
      /\ own.score \in 0..100 /\ own.root # None /\ Filled(own)
  BY <1>1, <1>4 DEF Filled, EventRow, Exists
<1>6. CASE to # e
  <2>1. Exists(to) /\ IsRoot(to) /\ Filled(event[to])
    BY <1>6, ClusterFact DEF RecoverRoot, TypeInv
  <2>2. PICK hidden : hidden = [own EXCEPT !.root = to, !.public = FALSE, !.suppressed = TRUE]
    OBVIOUS
  <2>3. /\ hidden \in EventRow /\ hidden.root = to /\ hidden.suppressed = TRUE
        /\ hidden.url = own.url /\ hidden.verif = own.verif /\ hidden.status = own.status
        /\ hidden.links = own.links /\ hidden.prim = own.prim /\ hidden.supp = own.supp
        /\ hidden.revs = own.revs
    BY <1>5, <2>2 DEF EventRow
  <2>4. to # None
    BY LedgerAssumption DEF LedgerAssumption
  <2>5. Filled(hidden)
    BY <1>5, <2>3, <2>4 DEF Filled
  <2>6. PICK c : c = event[to]
    OBVIOUS
  <2>7. PICK u : u = Joined(c, i, own, Current(i), own.verif, own.score, withheld)
    OBVIOUS
  <2>8. /\ Gains(c, u, own, Current(i), own.verif, withheld)
        /\ i \in Links(u)
        /\ Combines(c, u, own.verif)
    <3>1. Filled(c) /\ c.root # None
      BY <2>1, <2>6 DEF Exists
    <3>2. PICK verif : verif = own.verif
      OBVIOUS
    <3>3. PICK score : score = own.score
      OBVIOUS
    <3>4. PICK suppress \in BOOLEAN : suppress = withheld
      BY <1>3
    <3>5. u = Joined(c, i, own, Current(i), verif, score, suppress)
      BY <2>7, <3>2, <3>3, <3>4
    <3>6. verif \in Verifications /\ score \in 0..100 /\ own.url \in Items
      BY <1>5, <3>2, <3>3
    <3>7. /\ Gains(c, u, own, Current(i), verif, suppress)
          /\ i \in Links(u)
          /\ Combines(c, u, verif)
      BY <1>2, <3>1, <3>5, <3>6, JoinedRow
    <3> QED BY <3>2, <3>4, <3>7
  <2>9. event' = [event EXCEPT ![e] = hidden, ![to] = u]
    BY <1>4, <1>6, <2>2, <2>6, <2>7 DEF RecoverRoot, Joined
  <2>10. /\ event'[e] = hidden /\ event'[to] = u
         /\ \A d \in Items \ {e, to} : event'[d] = event[d]
    BY <1>1, <1>6, <2>9 DEF EventInv
  <2>11. SameEvidence(e)
    BY <1>4, <2>3, <2>5, <2>10 DEF SameEvidence
  <2> QED BY <1>1, <1>4, <1>6, <2>1, <2>3, <2>6, <2>8, <2>10, <2>11 DEF Merges
<1>7. CASE to = e /\ item[i].outage
  <2>1. PICK public \in BOOLEAN : public = Publishable(own.verif, own.score)
    BY DEF Publishable
  <2>2. PICK shown : shown = [own EXCEPT !.suppressed = withheld, !.public = public]
    OBVIOUS
  <2>3. /\ shown \in EventRow /\ shown.root = own.root /\ shown.suppressed = withheld
        /\ shown.url = own.url /\ shown.verif = own.verif /\ shown.status = own.status
        /\ shown.links = own.links /\ shown.prim = own.prim /\ shown.supp = own.supp
        /\ shown.revs = own.revs
    <3> HIDE DEF withheld
    <3> QED BY <1>3, <1>5, <2>2 DEF EventRow
  <2>4. Filled(shown)
    BY <1>5, <2>3 DEF Filled
  <2>5. event' = [event EXCEPT ![e] = shown]
    BY <1>4, <1>7, <2>1, <2>2 DEF RecoverRoot
  <2>6. event'[e] = shown /\ \A d \in Items \ {e} : event'[d] = event[d]
    BY <1>1, <2>5 DEF EventInv
  <2>7. SameEvidence(e)
    BY <1>4, <2>3, <2>4, <2>6 DEF SameEvidence
  <2> QED BY <1>1, <1>4, <2>3, <2>6, <2>7 DEF Releases, IsRoot
<1>8. CASE to = e /\ ~item[i].outage
  BY <1>8 DEF RecoverRoot
<1> QED BY <1>6, <1>7, <1>8

\* Recovery takes the outage's marks off the item and nothing else.
LEMMA RecoverItem ==
  ASSUME TypeInv, NEW i \in Items, Recover(i)
  PROVE  /\ item' \in [Items -> ItemRow]
         /\ \A j \in Items : /\ item'[j].hash = item[j].hash /\ item'[j].status = item[j].status
                             /\ item'[j].done = item[j].done /\ item'[j].mark = item[j].mark
                             /\ item'[j].arch = item[j].arch
<1>1. item \in [Items -> ItemRow]
  BY DEF TypeInv
<1>2. CASE item' = item
  BY <1>1, <1>2
<1>3. CASE item' = [item EXCEPT ![i].outage = FALSE]
  <2>1. PICK row : row = [item[i] EXCEPT !.outage = FALSE]
    OBVIOUS
  <2>2. /\ row \in ItemRow /\ row.hash = item[i].hash /\ row.status = item[i].status
        /\ row.done = item[i].done /\ row.mark = item[i].mark /\ row.arch = item[i].arch
    BY <1>1, <2>1 DEF ItemRow
  <2>3. item' = [item EXCEPT ![i] = row]
    BY <1>3, <2>1
  <2> QED BY <1>1, <2>2, <2>3
<1>4. CASE item' = [item EXCEPT ![i].outage = FALSE, ![i].before = FALSE]
  <2>1. PICK row : row = [item[i] EXCEPT !.outage = FALSE, !.before = FALSE]
    OBVIOUS
  <2>2. /\ row \in ItemRow /\ row.hash = item[i].hash /\ row.status = item[i].status
        /\ row.done = item[i].done /\ row.mark = item[i].mark /\ row.arch = item[i].arch
    BY <1>1, <2>1 DEF ItemRow
  <2>3. item' = [item EXCEPT ![i] = row]
    BY <1>1, <1>4, <2>1
  <2> QED BY <1>1, <2>2, <2>3
<1>5. item' = item \/ item' = [item EXCEPT ![i].outage = FALSE]
      \/ item' = [item EXCEPT ![i].outage = FALSE, ![i].before = FALSE]
  BY DEF Recover, RecoverAlone, RecoverDuplicate, RecoverRoot
<1> QED BY <1>2, <1>3, <1>4, <1>5

-----------------------------------------------------------------------------
(* Types.                                                                  *)

\* Every event is still one, with every revision it had.
RowsKept ==
  \A d \in Items : Filled(event'[d]) /\ DOMAIN event[d].revs \subseteq DOMAIN event'[d].revs

\* An event that does not change is kept.
LEMMA KeptStill ==
  ASSUME TypeInv, UNCHANGED event
  PROVE  RowsKept
BY DEF TypeInv, RowsKept

\* Enrichment and recovery keep the events.
LEMMA ShapesKeep ==
  ASSUME TypeInv,
         \/ \E i, to \in Items : Enriches(i, to)
         \/ \E i, e, to \in Items : Merges(i, e, to)
         \/ \E i, e \in Items : Releases(i, e)
  PROVE  RowsKept
<1>1. ASSUME NEW i \in Items, NEW to \in Items, Enriches(i, to)
      PROVE  RowsKept
  <2>1. ASSUME NEW d \in Items
        PROVE  Filled(event'[d]) /\ DOMAIN event[d].revs \subseteq DOMAIN event'[d].revs
    <3>1. CASE d = i
      BY <1>1, <3>1 DEF Enriches
    <3>2. CASE d # i /\ d = to
      BY <1>1, <3>2 DEF Enriches, Gains
    <3>3. CASE d \in Items \ {i, to}
      BY <1>1, <3>3 DEF Enriches, TypeInv
    <3> QED BY <3>1, <3>2, <3>3
  <2> QED BY <2>1 DEF RowsKept
<1>2. ASSUME NEW i \in Items, NEW e \in Items, NEW to \in Items, Merges(i, e, to)
      PROVE  RowsKept
  <2>1. ASSUME NEW d \in Items
        PROVE  Filled(event'[d]) /\ DOMAIN event[d].revs \subseteq DOMAIN event'[d].revs
    <3>1. CASE d = e
      BY <1>2, <3>1 DEF Merges, SameEvidence
    <3>2. CASE d = to
      BY <1>2, <3>2 DEF Merges, Gains
    <3>3. CASE d \in Items \ {e, to}
      BY <1>2, <3>3 DEF Merges, TypeInv
    <3> QED BY <3>1, <3>2, <3>3
  <2> QED BY <2>1 DEF RowsKept
<1>3. ASSUME NEW i \in Items, NEW e \in Items, Releases(i, e)
      PROVE  RowsKept
  <2>1. ASSUME NEW d \in Items
        PROVE  Filled(event'[d]) /\ DOMAIN event[d].revs \subseteq DOMAIN event'[d].revs
    <3>1. CASE d = e
      BY <1>3, <3>1 DEF Releases, SameEvidence
    <3>2. CASE d # e
      BY <1>3, <3>2 DEF Releases, TypeInv
    <3> QED BY <3>1, <3>2
  <2> QED BY <2>1 DEF RowsKept
<1> QED BY <1>1, <1>2, <1>3

\* What is listed stays listed while its events are kept.
LEMMA NamesStay ==
  ASSUME RowsKept, NEW l, Names(l)
  PROVE  Names(l)'
BY DEF RowsKept, Names

\* A card shows the event's last deliverable revision.
LEMMA LatestIsLast ==
  ASSUME TypeInv, NEW e \in Items, Latest(e) > 0
  PROVE  /\ Latest(e) \in DOMAIN event[e].revs
         /\ \A n \in DOMAIN event[e].revs :
              event[e].revs[n].status \in Deliverable => n <= Latest(e)
<1> DEFINE ns == {n \in DOMAIN event[e].revs : event[e].revs[n].status \in Deliverable}
<1>1. event[e].revs \in Seq(Revision)
  BY DEF TypeInv, Filled, EventRow
<1>2. Latest(e) = IF ns = {} THEN 0 ELSE CHOOSE n \in ns : \A m \in ns : m <= n
  BY DEF Latest
<1>3. ns # {}
  <2> HIDE DEF ns
  <2> QED BY <1>2
<1>4. ns \in SUBSET (1..Len(event[e].revs)) /\ Len(event[e].revs) \in Nat
  BY <1>1
<1>5. \E n \in ns : \A m \in ns : m <= n
  <2> HIDE DEF ns
  <2> QED BY <1>3, <1>4, GreatestExists
<1>6. Latest(e) \in ns /\ \A m \in ns : m <= Latest(e)
  <2> HIDE DEF ns
  <2> QED BY <1>2, <1>3, <1>5
<1> QED BY <1>6

\* A card shows a revision of its event.
LEMMA LineFact ==
  ASSUME TypeInv, NEW used, NEW l \in Selected(used)
  PROVE  Names(l)
<1>1. PICK e \in Items : Carded(e) /\ l = Line(e)
  BY DEF Selected
<1>2. Latest(e) \in DOMAIN event[e].revs
  BY <1>1, LatestIsLast DEF Carded
<1>3. event[e].revs \in Seq(Revision)
  BY DEF TypeInv, Filled, EventRow
<1>4. Latest(e) \in Nat
  BY <1>2, <1>3
<1> QED BY <1>1, <1>2, <1>4 DEF Names, Line

\* No rows, no lines.
LEMMA TypeInit == Init => TypeInv
<1>1. NoEvent \in EventRow /\ Filled(NoEvent)
  <2>1. <<>> \in Seq(Revision)
    OBVIOUS
  <2>2. NoEvent \in EventRow /\ NoEvent.root = None
    BY <2>1 DEF NoEvent, EventRow
  <2> QED BY <2>2 DEF Filled
<1>2. NoItem \in ItemRow /\ NoItem.hash = None
  BY DEF NoItem, ItemRow
<1>3. DailyLimit \in Nat
  BY LedgerAssumption DEF LedgerAssumption
<1> QED BY <1>1, <1>2, <1>3 DEF Init, TypeInv

\* Enriching an item keeps the types.
LEMMA TypeEnrich ==
  ASSUME TypeInv, EventInv, NEW i \in Items, EnrichItem(i)
  PROVE  TypeInv'
<1>1. CASE EnrichDiscard(i)
  <2>1. PICK row : row = [item[i] EXCEPT !.done = item[i].hash, !.mark = None]
    OBVIOUS
  <2>2. row \in ItemRow /\ row.hash = item[i].hash /\ row.status = item[i].status
    BY <2>1 DEF TypeInv, ItemRow
  <2>3. item' = [item EXCEPT ![i] = row]
    BY <1>1, <2>1 DEF EnrichDiscard
  <2>4. item' \in [Items -> ItemRow]
        /\ \A j \in Items : item'[j].hash # None => item'[j].status \in Statuses
    BY <2>2, <2>3 DEF TypeInv
  <2>5. \A l \in digest.lines \cup past \cup alerted : Names(l)'
    BY <1>1 DEF TypeInv, EnrichDiscard, Names
  <2> QED BY <1>1, <2>4, <2>5 DEF TypeInv, EnrichDiscard
<1>2. ASSUME NEW strength \in Strengths, NEW space \in {"remote", "local"}, NEW to \in Items,
             Enrich(i, strength, space, to)
      PROVE  TypeInv'
  <2>1. Enriches(i, to) /\ Remembers(i) /\ Current(i) \in Versions
    BY <1>2, EnrichShape
  <2>2. RowsKept
    BY <2>1, ShapesKeep
  <2>3. \A l \in digest.lines \cup past \cup alerted : Names(l)'
    BY <2>2, NamesStay DEF TypeInv
  <2>4. item' \in [Items -> ItemRow]
        /\ \A j \in Items : item'[j].hash # None => item'[j].status \in Statuses
    BY <2>1 DEF Remembers, TypeInv
  <2>5. version' \in [Versions -> [space : {None, "local", "remote"}, pending : BOOLEAN]]
    BY <1>2, <2>1 DEF Enrich, TypeInv
  <2>6. UNCHANGED <<profile, recent, job, spent, digest, past, alerted, left, found>>
    BY <1>2 DEF Enrich
  <2> QED BY <2>2, <2>3, <2>4, <2>5, <2>6 DEF TypeInv, RowsKept
<1> QED BY <1>1, <1>2 DEF EnrichItem

\* Recovering a version keeps the types, and the quota.
LEMMA TypeRecover ==
  ASSUME TypeInv, EventInv, NEW i \in Items, Recover(i)
  PROVE  TypeInv'
<1>1. item[i].hash # None /\ Current(i) \in Versions
  BY CurrentFact DEF Recover, Recoverable
<1>2. RowsKept
  <2>1. CASE UNCHANGED event
    BY <2>1, KeptStill
  <2>2. ASSUME NEW e \in Owners(Current(i)), NEW to \in Items, RecoverRoot(i, e, to)
        PROVE  RowsKept
    <3>1. e \in Items
      BY DEF Owners
    <3>2. Merges(i, e, to) \/ Releases(i, e) \/ event' = event
      BY <1>1, <2>2, RecoverShape
    <3> QED BY <2>1, <3>1, <3>2, ShapesKeep
  <2> QED BY <2>1, <2>2 DEF Recover, RecoverAlone, RecoverDuplicate
<1>3. \A l \in digest.lines \cup past \cup alerted : Names(l)'
  BY <1>2, NamesStay DEF TypeInv
<1>4. item' \in [Items -> ItemRow]
      /\ \A j \in Items : item'[j].hash # None => item'[j].status \in Statuses
  BY RecoverItem DEF TypeInv
<1>5. version' \in [Versions -> [space : {None, "local", "remote"}, pending : BOOLEAN]]
  BY <1>1 DEF Recover, TypeInv
<1>6. spent' \in 0..DailyLimit
  BY LedgerAssumption DEF Recover, Reserve, TypeInv, LedgerAssumption
<1>7. UNCHANGED <<profile, recent, job, digest, past, alerted, left, found>>
  BY DEF Recover
<1> QED BY <1>2, <1>3, <1>4, <1>5, <1>6, <1>7 DEF TypeInv, RowsKept

\* Collection keeps the types.
LEMMA TypeCollect ==
  ASSUME TypeInv, NEW i \in Items,
         \/ \E h \in Hashes, status \in Statuses : CollectChange(i, h, status)
         \/ CollectUnchanged(i)
  PROVE  TypeInv'
<1>1. ASSUME NEW row \in ItemRow, NEW changed \in BOOLEAN
      PROVE  /\ Marked(row, changed) \in ItemRow
             /\ Marked(row, changed).hash = row.hash /\ Marked(row, changed).status = row.status
  BY DEF Marked, ItemRow
<1>2. item \in [Items -> ItemRow]
  BY DEF TypeInv
<1>3. ASSUME NEW h \in Hashes, NEW status \in Statuses, CollectChange(i, h, status)
      PROVE  TypeInv'
  <2>1. PICK row : row = [item[i] EXCEPT !.hash = h, !.status = status]
    OBVIOUS
  <2>2. row \in ItemRow /\ row.status = status
    BY <1>2, <2>1 DEF ItemRow
  <2>3. item' = [item EXCEPT ![i] = Marked(row, TRUE)]
    BY <1>3, <2>1 DEF CollectChange
  <2>4. item' \in [Items -> ItemRow]
        /\ \A j \in Items : item'[j].hash # None => item'[j].status \in Statuses
    BY <1>1, <1>2, <2>2, <2>3 DEF TypeInv
  <2>5. recent' \in Seq(Versions)
    <3>1. <<i, h>> \in Versions
      BY DEF Versions
    <3>2. recent' = Append(recent, <<i, h>>) /\ recent \in Seq(Versions)
      BY <1>3 DEF CollectChange, TypeInv
    <3> QED BY <3>1, <3>2
  <2>6. found' \subseteq Items
    BY <1>3 DEF CollectChange, TypeInv
  <2>7. UNCHANGED <<profile, version, event, job, spent, digest, past, alerted>>
    BY <1>3 DEF CollectChange
  <2>8. \A l \in digest.lines \cup past \cup alerted : Names(l)'
    BY <2>7 DEF TypeInv, Names
  <2> QED BY <2>4, <2>5, <2>6, <2>7, <2>8 DEF TypeInv
<1>4. CASE CollectUnchanged(i)
  <2>1. item' = [item EXCEPT ![i] = Marked(item[i], FALSE)]
    BY <1>4 DEF CollectUnchanged
  <2>2. item' \in [Items -> ItemRow]
        /\ \A j \in Items : item'[j].hash # None => item'[j].status \in Statuses
    BY <1>1, <1>2, <2>1 DEF TypeInv
  <2>3. UNCHANGED <<profile, version, recent, event, job, spent, digest, past, alerted, found>>
    BY <1>4 DEF CollectUnchanged
  <2>4. \A l \in digest.lines \cup past \cup alerted : Names(l)'
    BY <2>3 DEF TypeInv, Names
  <2> QED BY <2>2, <2>3, <2>4 DEF TypeInv
<1> QED BY <1>3, <1>4

\* Composing lists revisions that exist.
LEMMA TypeCompose ==
  ASSUME TypeInv, ComposeDigest \/ Close \/ ComposeAlert \/ NewDay
  PROVE  TypeInv'
<1>1. /\ UNCHANGED <<profile, item, version, recent, event, job, left, found>>
      /\ spent' = spent \/ spent' = 0
  BY DEF ComposeDigest, Close, ComposeAlert, NewDay
<1>2. \A l : Names(l)' = Names(l)
  BY <1>1 DEF Names
<1>3. /\ digest' \in [lines : SUBSET (Items \X Nat), state : {"none", "open", "closed"}]
      /\ \A l \in digest'.lines \cup past' \cup alerted' : Names(l)
  <2>1. CASE ComposeDigest
    <3>1. Selected(past) \subseteq Items \X Nat /\ \A l \in Selected(past) : Names(l)
      BY LineFact DEF Names
    <3>2. digest' = [lines |-> Selected(past), state |-> "open"]
      BY <2>1 DEF ComposeDigest
    <3> QED BY <2>1, <3>1, <3>2 DEF ComposeDigest, TypeInv
  <2>2. CASE Close
    <3>1. digest' = [digest EXCEPT !.state = "closed"]
      BY <2>2 DEF Close
    <3> QED BY <2>2, <3>1 DEF Close, TypeInv
  <2>3. CASE ComposeAlert
    <3>1. \A l \in Alerts : Names(l)
      BY LineFact DEF Alerts
    <3> QED BY <2>3, <3>1 DEF ComposeAlert, TypeInv
  <2>4. CASE NewDay
    <3>1. digest' = [lines |-> {}, state |-> "none"]
      BY <2>4 DEF NewDay
    <3> QED BY <2>4, <3>1 DEF NewDay, TypeInv
  <2> QED BY <2>1, <2>2, <2>3, <2>4
<1>4. spent' \in 0..DailyLimit
  BY <1>1, LedgerAssumption DEF TypeInv, LedgerAssumption
<1> QED BY <1>1, <1>2, <1>3, <1>4 DEF TypeInv

\* Every step keeps the types.
LEMMA TypeStep ==
  ASSUME TypeInv, EventInv, [Next]_vars
  PROVE  TypeInv'
<1>1. ASSUME NEW i \in Items, RecoverFail(i)
      PROVE  TypeInv'
  <2>1. /\ UNCHANGED <<profile, item, version, recent, event, job, digest, past, alerted, found>>
        /\ spent' \in 0..DailyLimit
    BY <1>1, LedgerAssumption DEF RecoverFail, Reserve, TypeInv, LedgerAssumption
  <2> QED BY <2>1 DEF TypeInv, Names
<1>2. CASE BackfillStart \/ BackfillEnrich \/ BackfillDies \/ BackfillEnd
  <2>1. /\ UNCHANGED <<profile, item, version, recent, event, spent, digest, past, alerted, found>>
        /\ job' \in {"normal", "replaying", "archiving"}
    BY <1>2 DEF BackfillStart, BackfillEnrich, BackfillDies, BackfillEnd
  <2> QED BY <2>1 DEF TypeInv, Names
<1>3. CASE UNCHANGED vars
  BY <1>3 DEF TypeInv, Names, vars
<1> QED BY <1>1, <1>2, <1>3, TypeEnrich, TypeRecover, TypeCollect, TypeCompose DEF Next

\* The invariant holds.
LEMMA TypeInductive == Spec => [](TypeInv /\ EventInv)
<1>1. Init => TypeInv /\ EventInv
  BY TypeInit, InitInv
<1>2. TypeInv /\ EventInv /\ [Next]_vars => (TypeInv /\ EventInv)'
  BY TypeStep, StepInv
<1> QED BY <1>1, <1>2, PTL DEF Spec

\* The rows keep their types, the quota is never exceeded (reserve_daily_usage)
\* and every line that a digest or an alert has listed names a revision of its
\* event (delivery_event_revisions): for any items, sources and bounds.
THEOREM TypeCorrect == Spec => []TypeOK
<1>1. TypeInv => TypeOK
  <2> SUFFICES ASSUME TypeInv PROVE TypeOK
    OBVIOUS
  <2>1. ASSUME NEW e \in Items
        PROVE  LET x == event[e]
               IN  /\ x.root \in Items \cup {None} /\ x.url \in Items \cup {None}
                   /\ {x.public, x.suppressed} \subseteq BOOLEAN
                   /\ x.status \in Statuses \cup {None}
                   /\ x.verif \in Verifications \cup {None}
                   /\ x.score \in 0..100
                   /\ x.links \subseteq Items /\ x.prim \subseteq Versions
                   /\ x.supp \subseteq Versions
                   /\ \A n \in DOMAIN x.revs : x.revs[n].key \in Key /\ x.revs[n].status \in Statuses
    <3>1. PICK x : x = event[e]
      OBVIOUS
    <3>2. x \in EventRow
      BY <3>1 DEF TypeInv, Filled
    <3>3. \A n \in DOMAIN x.revs : x.revs[n] \in Revision
      <4>1. x.revs \in Seq(Revision)
        BY <3>2 DEF EventRow
      <4> QED BY <4>1
    <3> QED BY <3>1, <3>2, <3>3 DEF EventRow, Revision
  <2> QED BY <2>1 DEF TypeInv, TypeOK, Names
<1> QED BY <1>1, TypeInductive, PTL
=============================================================================
