---------------------------- MODULE LedgerArchive ----------------------------
(***************************************************************************)
(* More proofs about Ledger, for any items, sources and bounds: what only  *)
(* a backfill has ever seen is never mailed, and, until a content comes    *)
(* back, no event shows a card of its own that the model has not embedded. *)
(***************************************************************************)
EXTENDS LedgerProofs

-----------------------------------------------------------------------------
(* Clusters: where the evidence of an event comes from.                    *)

\* An event is verified by its own evidence at least, and by more when its
\* canonical link is another item's.
Ranked(e, x) ==
  /\ Rank[x.verif] >= Rank[Own(e)]
  /\ x.url # e => Rank[x.verif] > Rank[Own(e)]

\* An event whose primary version is another item's has been upgraded.
Borrows(e, x) ==
  (\E v \in x.prim : v[1] # e) =>
    Rank[x.verif] > Rank[Own(e)] /\ x.verif # "VERIFIED_PRIMARY"

\* A duplicate is a link of its canonical event x, or adds nothing to it.
LinkedTo(e, x) == e \in Links(x) \/ Settled(x.verif, Own(e))

\* With an event, its duplicates are in the set, and theirs.
Closed(S) == \A y \in Items : Exists(y) /\ event[y].root \in S => y \in S

\* The canonical link of an event is of an item of its own cluster.
Inside(e) == \A S \in SUBSET Items : e \in S /\ Closed(S) => event[e].url \in S

\* The inductive invariant about clusters.
ClusterInv ==
  \A e \in Items : Exists(e) =>
    /\ Ranked(e, event[e])
    /\ Borrows(e, event[e])
    /\ event[e].root # e => LinkedTo(e, event[event[e].root])
    /\ Inside(e)

\* The canonical link of an event is never of what it is a duplicate of, nor of
\* another root: the events below it would be a circle, or include that root.
LEMMA UrlIsBelow ==
  ASSUME EventInv, RootSurvives, ClusterInv, NEW e \in Items, Exists(e),
         NEW k \in Items, k # e, IsRoot(k) \/ event[e].root = k
  PROVE  event[e].url # k
<1> SUFFICES ASSUME event[e].url = k
             PROVE  FALSE
  OBVIOUS
<1> DEFINE S == {y \in Items : \A T \in SUBSET Items : e \in T /\ Closed(T) => y \in T}
<1>1. e \in S /\ S \in SUBSET Items
  OBVIOUS
<1>2. Closed(S)
  <2> SUFFICES ASSUME NEW y \in Items, Exists(y), event[y].root \in S,
                      NEW T \in SUBSET Items, e \in T, Closed(T)
               PROVE  y \in T
    BY DEF Closed
  <2>1. event[y].root \in T
    OBVIOUS
  <2> QED BY <2>1 DEF Closed
<1>3. k \in S
  <2> HIDE DEF S
  <2> QED BY <1>1, <1>2 DEF ClusterInv, Inside
<1>4. ASSUME NEW y \in S, y # e
      PROVE  Exists(y) /\ event[y].root \in S /\ event[y].root # y
  <2>1. ~Closed(S \ {y})
    <3>1. S \ {y} \in SUBSET Items /\ e \in S \ {y} /\ y \notin S \ {y}
      BY <1>1, <1>4
    <3>2. \A T \in SUBSET Items : e \in T /\ Closed(T) => y \in T
      OBVIOUS
    <3> HIDE DEF S
    <3> QED BY <3>1, <3>2
  <2> HIDE DEF S
  <2>2. PICK z \in Items : Exists(z) /\ event[z].root \in S \ {y} /\ z \notin S \ {y}
    BY <2>1 DEF Closed
  <2>3. z \in S
    BY <1>2, <2>2 DEF Closed
  <2> QED BY <2>2, <2>3
<1> HIDE DEF S
<1>5. CASE IsRoot(k)
  BY <1>3, <1>4, <1>5 DEF IsRoot
<1>6. CASE event[e].root = k
  <2>1. \A y \in S : Exists(y) /\ event[y].root \in S /\ event[y].root # y
    BY <1>3, <1>4, <1>6
  <2>2. S \in SUBSET {y \in Items : Exists(y)} /\ S # {}
    BY <1>1, <2>1
  <2> QED BY <2>1, <2>2 DEF RootSurvives, IsRoot
<1> QED BY <1>5, <1>6

\* Since an event that moves was a root, a set of clusters was one before.
LEMMA ClosedBefore ==
  ASSUME Steps, NEW S, Closed(S)'
  PROVE  Closed(S)
<1> SUFFICES ASSUME NEW y \in Items, Exists(y), event[y].root \in S
             PROVE  y \in S
  BY DEF Closed
<1>1. Exists(y)'
  BY DEF Steps, Improves, Exists
<1>2. CASE event'[y].root = event[y].root
  BY <1>1, <1>2 DEF Closed
<1>3. CASE event'[y].root # event[y].root
  BY <1>3 DEF Steps, Rerooted, IsRoot
<1> QED BY <1>2, <1>3

\* The evidence of an event grows.
Grows(x, u) ==
  /\ Links(x) \subseteq Links(u)
  /\ \/ u.verif = x.verif
     \/ \E w \in Verifications : u.verif = CombinedVerification(x.verif, w)

\* What has grown still links its duplicates.
LEMMA GrowsLinked ==
  ASSUME NEW x, NEW u, Grows(x, u), x.verif \in Verifications, NEW e, LinkedTo(e, x)
  PROVE  LinkedTo(e, u)
<1>1. Own(e) \in Verifications
  BY VerificationForFact DEF Own
<1> QED BY <1>1, SettledStays DEF Grows, LinkedTo

\* An event that gains from another one, whose canonical link is not itself,
\* stays verified by more than its own evidence where it has to be.
LEMMA GainsRanked ==
  ASSUME NEW k \in Items, NEW c, NEW u, NEW s, NEW v, NEW verif \in Verifications,
         NEW suppress, c.verif \in Verifications,
         Ranked(k, c), Borrows(k, c), Gains(c, u, s, v, verif, suppress), s.url # k
  PROVE  Ranked(k, u) /\ Borrows(k, u) /\ Grows(c, u)
<1>1. Own(k) \in Verifications /\ Rank[Own(k)] \in Int /\ Rank[c.verif] \in Int
  BY VerificationForFact DEF Own, Rank, Verifications
<1>2. /\ u.verif \in {c.verif, CombinedVerification(c.verif, verif)}
      /\ u.verif \in Verifications /\ Rank[u.verif] >= Rank[c.verif] /\ Rank[u.verif] \in Int
  <2>1. \A w \in Verifications : Rank[w] \in Int /\ Rank[w] >= Rank[w]
    BY DEF Rank, Verifications
  <2> QED BY <2>1, CombinedFact DEF Gains
<1>3. Ranked(k, u)
  BY <1>1, <1>2 DEF Ranked, Gains
<1>4. ASSUME NEW w \in u.prim, w[1] # k
      PROVE  Rank[u.verif] > Rank[Own(k)] /\ u.verif # "VERIFIED_PRIMARY"
  <2>1. CASE u.prim = c.prim
    <3>1. Rank[c.verif] > Rank[Own(k)] /\ c.verif # "VERIFIED_PRIMARY"
      BY <1>4, <2>1 DEF Borrows
    <3> QED BY <1>1, <1>2, <3>1, CombinedIsNotPrimary
  <2>2. CASE /\ u.verif = CombinedVerification(c.verif, verif)
             /\ Rank[u.verif] > Rank[c.verif] \/ c.url = s.url
    <3>1. u.verif # "VERIFIED_PRIMARY"
      BY <2>2, CombinedIsNotPrimary
    <3>2. Rank[u.verif] > Rank[Own(k)]
      BY <1>1, <1>2, <2>2 DEF Ranked
    <3> QED BY <3>1, <3>2
  <2> QED BY <2>1, <2>2 DEF Gains
<1>5. Borrows(k, u)
  BY <1>4 DEF Borrows
<1>6. Grows(c, u)
  BY DEF Gains, Grows
<1> QED BY <1>3, <1>5, <1>6

\* What does not change grows.
LEMMA GrowsStill ==
  ASSUME NEW x
  PROVE  Grows(x, x)
BY DEF Grows

\* Clusters grow when every event does, whose root either stays or becomes an
\* event that links it.
LEMMA ClusterGrows ==
  ASSUME TypeInv, EventInv, ClusterInv, profile' = profile,
         \A d \in Items : Exists(d) => Grows(event[d], event'[d]),
         \A d \in Items : Exists(d)' => Ranked(d, event'[d]) /\ Borrows(d, event'[d]),
         \A d \in Items : Exists(d)' =>
           \/ Exists(d) /\ event'[d].root = event[d].root
           \/ event'[d].root = d
           \/ LinkedTo(d, event'[event'[d].root]),
         \A d \in Items : Exists(d)' => Inside(d)'
  PROVE  ClusterInv'
<1>1. ASSUME NEW e \in Items, Exists(e)', event'[e].root # e
      PROVE  LinkedTo(e, event'[event'[e].root])
  <2>1. CASE Exists(e) /\ event'[e].root = event[e].root
    <3>1. PICK c \in Items : c = event[e].root
      BY <2>1 DEF EventInv
    <3>2. Exists(c)
      BY <2>1, <3>1 DEF EventInv
    <3>3. LinkedTo(e, event[c])
      BY <1>1, <2>1, <3>1 DEF ClusterInv
    <3>4. event[c].verif \in Verifications
      BY <3>2 DEF TypeInv, Filled, Exists
    <3> QED BY <2>1, <3>1, <3>2, <3>3, <3>4, GrowsLinked
  <2> QED BY <1>1, <2>1
<1>2. ASSUME NEW e \in Items, Exists(e)'
      PROVE  Ranked(e, event[e])' /\ Borrows(e, event[e])'
  BY <1>2 DEF Ranked, Borrows, Own
<1>3. ASSUME NEW e \in Items, Exists(e)', event'[e].root # e
      PROVE  LinkedTo(e, event[event[e].root])'
  BY <1>1, <1>3 DEF LinkedTo, Own
<1> QED BY <1>2, <1>3 DEF ClusterInv, Ranked, Borrows, Own

\* Enrichment: the item's own event keeps its canonical link, and its cluster
\* links it.
LEMMA ClusterEnrich ==
  ASSUME TypeInv, EventInv, RootSurvives, ClusterInv, Steps, profile' = profile,
         NEW i \in Items, NEW to \in Items, Current(i)[1] = i,
         Exists(i) => to = event[i].root, to # i => Exists(to), Enriches(i, to)
  PROVE  ClusterInv'
<1>1. Own(i) \in Verifications /\ Rank[Own(i)] \in Int
  BY VerificationForFact DEF Own, Rank, Verifications
<1>2. Exists(i)' /\ event'[i].root = to
  <2>1. to # None
    BY LedgerAssumption DEF LedgerAssumption
  <2> QED BY <2>1 DEF Enriches, Exists
<1>3. ~Exists(i) => Ranked(i, event'[i]) /\ Borrows(i, event'[i])
  <2>1. ~Exists(i) => event[i].prim = {}
    BY DEF TypeInv, Filled, Exists, NoEvent
  <2> QED BY <1>1, <2>1 DEF Ranked, Borrows, Enriches
<1>4. Exists(i) => /\ Ranked(i, event'[i]) /\ Borrows(i, event'[i])
                   /\ Grows(event[i], event'[i])
                   /\ event'[i].url = event[i].url
  <2> SUFFICES ASSUME Exists(i)
               PROVE  /\ Ranked(i, event'[i]) /\ Borrows(i, event'[i])
                      /\ Grows(event[i], event'[i])
                      /\ event'[i].url = event[i].url
    OBVIOUS
  <2>1. event[i].verif \in Verifications /\ Rank[event[i].verif] \in Int
    BY DEF TypeInv, Filled, Exists, Rank, Verifications
  <2>2. Ranked(i, event[i]) /\ Borrows(i, event[i])
    BY DEF ClusterInv
  <2>3. event'[i].url = event[i].url
    BY <2>2 DEF Enriches, Ranked
  <2>4. event'[i].verif = CombinedVerification(event[i].verif, Own(i))
    BY DEF Enriches
  <2>5. /\ event'[i].verif \in Verifications /\ Rank[event'[i].verif] \in Int
        /\ Rank[event'[i].verif] >= Rank[event[i].verif]
        /\ event'[i].verif # "VERIFIED_PRIMARY"
    BY <1>1, <2>1, <2>4, CombinedFact, CombinedIsNotPrimary DEF Rank, Verifications
  <2>6. Ranked(i, event'[i])
    BY <1>1, <2>1, <2>2, <2>3, <2>5 DEF Ranked
  <2>7. \A v \in event'[i].prim : v[1] # i => v \in event[i].prim
    BY DEF Enriches
  <2>8. Borrows(i, event'[i])
    BY <1>1, <2>1, <2>2, <2>5, <2>7 DEF Borrows
  <2>9. Grows(event[i], event'[i])
    BY <1>1, <2>3, <2>4 DEF Grows, Links, Enriches
  <2> QED BY <2>3, <2>6, <2>8, <2>9
<1>5. to # i => event'[i].url # to
  <2>1. CASE Exists(i)
    BY <1>4, <2>1, UrlIsBelow
  <2>2. CASE ~Exists(i)
    BY <2>2 DEF Enriches
  <2> QED BY <2>1, <2>2
<1>6. to # i => /\ Ranked(to, event'[to]) /\ Borrows(to, event'[to])
                /\ Grows(event[to], event'[to])
                /\ event'[to].root = event[to].root
                /\ event'[to].url \in {event[to].url, event'[i].url}
  <2> SUFFICES ASSUME to # i
               PROVE  /\ Ranked(to, event'[to]) /\ Borrows(to, event'[to])
                      /\ Grows(event[to], event'[to])
                      /\ event'[to].root = event[to].root
                      /\ event'[to].url \in {event[to].url, event'[i].url}
    OBVIOUS
  <2>1. PICK c : c = event[to]
    OBVIOUS
  <2>2. PICK u : u = event'[to]
    OBVIOUS
  <2>3. PICK s : s = event'[i]
    OBVIOUS
  <2>4. Ranked(to, c) /\ Borrows(to, c) /\ c.verif \in Verifications
    BY <2>1 DEF ClusterInv, TypeInv, Filled, Exists
  <2>5. Gains(c, u, s, Current(i), Own(i), Suppressing(i)) /\ s.url # to
    BY <1>5, <2>1, <2>2, <2>3 DEF Enriches
  <2>6. Ranked(to, u) /\ Borrows(to, u) /\ Grows(c, u)
    BY <1>1, <2>4, <2>5, GainsRanked
  <2> QED BY <2>1, <2>2, <2>3, <2>5, <2>6 DEF Gains
<1>7. \A d \in Items \ {i, to} : event'[d] = event[d]
  BY DEF Enriches
<1>8. \A d \in Items : Exists(d) => Grows(event[d], event'[d])
  BY <1>4, <1>6, <1>7, GrowsStill
<1>9. \A d \in Items : Exists(d)' => Ranked(d, event'[d]) /\ Borrows(d, event'[d])
  BY <1>3, <1>4, <1>6, <1>7 DEF ClusterInv, Exists
<1>10. ASSUME NEW d \in Items, Exists(d)'
       PROVE  \/ Exists(d) /\ event'[d].root = event[d].root
              \/ event'[d].root = d
              \/ LinkedTo(d, event'[event'[d].root])
  <2>1. CASE d = i
    BY <1>2, <2>1 DEF LinkedTo, Enriches
  <2>2. CASE d # i
    BY <1>6, <1>7, <1>10, <2>2 DEF Exists
  <2> QED BY <2>1, <2>2
<1>11. ASSUME NEW d \in Items, Exists(d)', NEW S \in SUBSET Items, d \in S, Closed(S)'
       PROVE  event'[d].url \in S
  <2>1. Closed(S)
    BY <1>11, ClosedBefore
  <2>2. Exists(d) => event[d].url \in S
    BY <1>11, <2>1 DEF ClusterInv, Inside
  <2>3. i \in S => event'[i].url \in S
    <3>1. Exists(i) /\ i \in S => event[i].url \in S
      BY <2>1 DEF ClusterInv, Inside
    <3> QED BY <1>4, <3>1 DEF Enriches
  <2>4. CASE d = i
    BY <1>11, <2>3, <2>4
  <2>5. CASE d = to /\ d # i
    <3>1. i \in S
      BY <1>2, <1>11, <2>5 DEF Closed
    <3> QED BY <1>6, <2>2, <2>3, <2>5, <3>1
  <2>6. CASE d \in Items \ {i, to}
    BY <1>7, <1>11, <2>2, <2>6 DEF Exists
  <2> QED BY <2>4, <2>5, <2>6
<1>12. \A d \in Items : Exists(d)' => Inside(d)'
  BY <1>11 DEF Inside
<1> QED BY <1>8, <1>9, <1>10, <1>12, ClusterGrows

\* Recovery: the root that joins another one brings more than its own item's
\* evidence where it was recovered through another item's version.
LEMMA ClusterMerge ==
  ASSUME TypeInv, EventInv, RootSurvives, ClusterInv, Steps, profile' = profile,
         NEW i \in Items, NEW e \in Owners(Current(i)), NEW to \in Items, Current(i)[1] = i,
         Merges(i, e, to)
  PROVE  ClusterInv'
<1>1. e \in Items /\ Exists(e) /\ Current(i) \in event[e].prim
  BY DEF Owners
<1>2. Exists(e)' /\ event'[e].root = to /\ e # to /\ IsRoot(e) /\ Exists(to) /\ IsRoot(to)
  <2>1. to # None
    BY LedgerAssumption DEF LedgerAssumption
  <2> QED BY <2>1 DEF Merges, Exists
<1>3. Ranked(e, event'[e]) /\ Borrows(e, event'[e]) /\ Grows(event[e], event'[e])
  BY <1>1 DEF ClusterInv, Merges, SameEvidence, Ranked, Borrows, Grows, Links
<1>4. event[e].url # to
  BY <1>1, <1>2, UrlIsBelow
<1>5. event[e].verif \in Verifications
  BY <1>1 DEF TypeInv, Filled, Exists
<1>6. event[to].verif \in Verifications
  BY <1>2 DEF TypeInv, Filled, Exists
<1>7. /\ Ranked(to, event'[to]) /\ Borrows(to, event'[to])
      /\ Grows(event[to], event'[to])
      /\ event'[to].root = event[to].root
      /\ event'[to].url \in {event[to].url, event[e].url}
  <2>1. PICK c : c = event[to]
    OBVIOUS
  <2>2. PICK u : u = event'[to]
    OBVIOUS
  <2>3. PICK s : s = event[e]
    OBVIOUS
  <2>4. PICK verif : verif = event[e].verif
    OBVIOUS
  <2>5. PICK suppress : suppress = (item[i].arch \/ item[i].before)
    OBVIOUS
  <2>6. Ranked(to, c) /\ Borrows(to, c) /\ c.verif \in Verifications /\ verif \in Verifications
    BY <1>2, <1>5, <1>6, <2>1, <2>4 DEF ClusterInv
  <2>7. Gains(c, u, s, Current(i), verif, suppress) /\ s.url # to
    BY <1>4, <2>1, <2>2, <2>3, <2>4, <2>5 DEF Merges
  <2>8. Ranked(to, u) /\ Borrows(to, u) /\ Grows(c, u)
    BY <2>6, <2>7, GainsRanked
  <2> QED BY <2>1, <2>2, <2>3, <2>7, <2>8 DEF Gains
<1>8. LinkedTo(e, event'[to])
  <2>1. CASE i = e
    BY <2>1 DEF Merges, LinkedTo
  <2>2. CASE i # e
    <3>1. Rank[event[e].verif] > Rank[Own(e)] /\ event[e].verif # "VERIFIED_PRIMARY"
      BY <1>1, <2>2 DEF ClusterInv, Borrows
    <3>2. Own(e) \in Verifications
      BY VerificationForFact DEF Own
    <3>3. event'[to].verif = CombinedVerification(event[to].verif, event[e].verif)
      BY DEF Merges, Combines
    <3> QED BY <1>5, <1>6, <3>1, <3>2, <3>3, BorrowedSettles DEF LinkedTo
  <2> QED BY <2>1, <2>2
<1>9. \A d \in Items \ {e, to} : event'[d] = event[d]
  BY DEF Merges
<1>10. \A d \in Items : Exists(d) => Grows(event[d], event'[d])
  BY <1>3, <1>7, <1>9, GrowsStill
<1>11. \A d \in Items : Exists(d)' => Ranked(d, event'[d]) /\ Borrows(d, event'[d])
  BY <1>3, <1>7, <1>9 DEF ClusterInv, Exists
<1>12. \A d \in Items : Exists(d)' =>
         \/ Exists(d) /\ event'[d].root = event[d].root
         \/ event'[d].root = d
         \/ LinkedTo(d, event'[event'[d].root])
  BY <1>2, <1>7, <1>8, <1>9 DEF Exists
<1>13. ASSUME NEW d \in Items, Exists(d)', NEW S \in SUBSET Items, d \in S, Closed(S)'
       PROVE  event'[d].url \in S
  <2>1. Closed(S)
    BY <1>13, ClosedBefore
  <2>2. Exists(d) => event[d].url \in S
    BY <1>13, <2>1 DEF ClusterInv, Inside
  <2>3. e \in S => event[e].url \in S
    BY <1>1, <2>1 DEF ClusterInv, Inside
  <2>4. CASE d = e
    BY <1>13, <2>3, <2>4 DEF Merges, SameEvidence
  <2>5. CASE d = to
    <3>1. e \in S
      BY <1>1, <1>2, <1>13, <2>5 DEF Closed
    <3> QED BY <1>2, <1>7, <2>2, <2>3, <2>5, <3>1
  <2>6. CASE d \in Items \ {e, to}
    BY <1>9, <1>13, <2>2, <2>6 DEF Exists
  <2> QED BY <2>4, <2>5, <2>6
<1>14. \A d \in Items : Exists(d)' => Inside(d)'
  BY <1>13 DEF Inside
<1> QED BY <1>10, <1>11, <1>12, <1>14, ClusterGrows

\* What is only shown or hidden stays where it is, with its evidence.
LEMMA ClusterRelease ==
  ASSUME TypeInv, EventInv, ClusterInv, Steps, profile' = profile,
         \/ \E i, e \in Items : Releases(i, e)
         \/ event' = event
  PROVE  ClusterInv'
<1>1. \A d \in Items : /\ event'[d].root = event[d].root /\ event'[d].url = event[d].url
                       /\ event'[d].verif = event[d].verif /\ event'[d].links = event[d].links
                       /\ event'[d].prim = event[d].prim
  BY DEF Releases, SameEvidence, IsRoot
<1>2. \A d \in Items : Grows(event[d], event'[d])
  BY <1>1 DEF Grows, Links
<1>3. \A d \in Items : Exists(d)' => Ranked(d, event'[d]) /\ Borrows(d, event'[d])
  BY <1>1 DEF ClusterInv, Exists, Ranked, Borrows
<1>4. \A d \in Items : Exists(d)' => Exists(d)
  BY <1>1 DEF Exists
<1>5. ASSUME NEW d \in Items, Exists(d)', NEW S \in SUBSET Items, d \in S, Closed(S)'
      PROVE  event'[d].url \in S
  <2>1. Closed(S)
    BY <1>5, ClosedBefore
  <2> QED BY <1>1, <1>4, <1>5, <2>1 DEF ClusterInv, Inside
<1>6. \A d \in Items : Exists(d)' => Inside(d)'
  BY <1>5 DEF Inside
<1> QED BY <1>1, <1>2, <1>3, <1>4, <1>6, ClusterGrows

-----------------------------------------------------------------------------
(* What a normal run has found.                                            *)

\* Content whose enrichment would release the item's event.
Releasing(i) ==
  /\ item[i].hash # None /\ item[i].done # item[i].hash /\ item[i].mark # item[i].hash
  /\ item[i].status # "MINOR_UPDATE" \/ ~Exists(i)

\* The event has evidence from an item a normal run found.
FoundIn(x) == \E v \in Related(x) : v[1] \in found

\* The inductive invariant: an item that is not flagged as archived was found,
\* so was one that a later enrichment releases, relations are to items that
\* have events, and an event that is not suppressed has found evidence.
ArchiveInv ==
  /\ \A i \in Items : Exists(i) /\ ~item[i].arch => i \in found
  /\ \A i \in Items : Releasing(i) => i \in found
  /\ \A e \in Items : \A v \in Related(event[e]) : v[1] \in Items /\ Exists(v[1])
  /\ \A e \in Items : Exists(e) /\ ~event[e].suppressed => FoundIn(event[e])

\* Collection: a replay marks what it cannot vouch for.
LEMMA ArchiveCollect ==
  ASSUME TypeInv, ArchiveInv, NEW i \in Items,
         \/ \E h \in Hashes, status \in Statuses : CollectChange(i, h, status)
         \/ CollectUnchanged(i)
  PROVE  ArchiveInv'
<1>1. ASSUME NEW row \in ItemRow, NEW changed \in BOOLEAN
      PROVE  /\ Marked(row, changed).hash = row.hash /\ Marked(row, changed).status = row.status
             /\ Marked(row, changed).done = row.done /\ Marked(row, changed).arch = row.arch
             /\ job = "replaying" /\ row.done # row.hash => Marked(row, changed).mark = row.hash
             /\ ~changed => Marked(row, changed).mark \in {row.mark, row.hash}
  BY DEF Marked, ItemRow
<1>2. item \in [Items -> ItemRow]
  BY DEF TypeInv
<1>3. event' = event /\ found \subseteq found'
  BY DEF CollectChange, CollectUnchanged
<1>4. /\ \A j \in Items : item'[j].arch = item[j].arch
      /\ \A j \in Items : Releasing(j)' => j \in found'
  <2>1. ASSUME NEW h \in Hashes, NEW status \in Statuses, CollectChange(i, h, status)
        PROVE  /\ \A j \in Items : item'[j].arch = item[j].arch
               /\ \A j \in Items : Releasing(j)' => j \in found'
    <3>1. PICK row : row = [item[i] EXCEPT !.hash = h, !.status = status]
      OBVIOUS
    <3>2. /\ row \in ItemRow /\ row.hash = h /\ row.status = status
          /\ row.arch = item[i].arch
      BY <1>2, <3>1 DEF ItemRow
    <3>3. item' = [item EXCEPT ![i] = Marked(row, TRUE)]
      BY <2>1, <3>1 DEF CollectChange
    <3>4. PICK new : new = Marked(row, TRUE)
      OBVIOUS
    <3>5. /\ new.hash = h /\ new.status = status /\ new.arch = item[i].arch
          /\ job = "replaying" /\ new.done # new.hash => new.mark = new.hash
      BY <1>1, <3>2, <3>4
    <3>6. /\ item'[i] = new
          /\ \A j \in Items \ {i} : item'[j] = item[j]
      BY <1>2, <3>3, <3>4
    <3>7. Releasing(i)' => i \in found'
      <4>1. CASE job = "replaying"
        BY <3>5, <3>6, <4>1 DEF Releasing
      <4>2. CASE job = "normal"
        BY <1>3, <2>1, <3>5, <3>6, <4>2 DEF Releasing, CollectChange, Exists
      <4> QED BY <2>1, <4>1, <4>2 DEF CollectChange
    <3>8. \A j \in Items \ {i} : Releasing(j)' => j \in found'
      BY <1>3, <3>6 DEF Releasing, Exists, ArchiveInv
    <3> QED BY <3>5, <3>6, <3>7, <3>8
  <2>2. CASE CollectUnchanged(i)
    <3>1. PICK new : new = Marked(item[i], FALSE)
      OBVIOUS
    <3>2. item' = [item EXCEPT ![i] = new]
      BY <2>2, <3>1 DEF CollectUnchanged
    <3>3. /\ item'[i] = new
          /\ \A j \in Items \ {i} : item'[j] = item[j]
      BY <1>2, <3>2
    <3>4. /\ new.hash = item[i].hash /\ new.status = item[i].status /\ new.arch = item[i].arch
          /\ new.done = item[i].done /\ new.mark \in {item[i].mark, item[i].hash}
      BY <1>1, <1>2, <3>1
    <3>5. \A j \in Items : Releasing(j)' => Releasing(j)
      BY <1>3, <3>3, <3>4 DEF Releasing, Exists
    <3> QED BY <1>3, <3>3, <3>4, <3>5 DEF ArchiveInv
  <2> QED BY <2>1, <2>2
<1> QED BY <1>3, <1>4 DEF ArchiveInv, Exists, FoundIn

\* An event has the evidence it had.
LEMMA FoundStays ==
  ASSUME NEW x, NEW u, Related(x) \subseteq Related(u), FoundIn(x)
  PROVE  FoundIn(u)
BY DEF FoundIn

\* Enrichment: a run that may deliver releases what was found, and a minor
\* change of a link that adds nothing releases nobody else's event.
LEMMA ArchiveEnrich ==
  ASSUME TypeInv, EventInv, ClusterInv, ArchiveInv, NEW i \in Items, NEW to \in Items,
         Pending(i), Current(i)[1] = i, item[i].status \in Statuses,
         Exists(i) => to = event[i].root, to # i => Exists(to),
         Enriches(i, to), Remembers(i), found' = found
  PROVE  ArchiveInv'
<1>1. Exists(i)'
  <2>1. to # None
    BY LedgerAssumption DEF LedgerAssumption
  <2> QED BY <2>1 DEF Enriches, Exists
<1>2. Current(i) \in Related(event'[i])
      /\ Related(event'[i]) = Related(event[i]) \cup {Current(i)}
  BY DEF Enriches
<1>3. to # i => /\ Related(event'[to]) = Related(event[to]) \cup {Current(i)}
                /\ event'[to].root = event[to].root
  BY DEF Enriches, Gains
<1>4. \A d \in Items \ {i, to} : event'[d] = event[d]
  BY DEF Enriches
<1>5. \A d \in Items \ {i} : Exists(d)' = Exists(d)
  BY <1>3, <1>4 DEF Exists
<1>6. ~Suppressing(i) /\ (item[i].status # "MINOR_UPDATE" \/ ~Exists(i)) => i \in found
  BY DEF ArchiveInv, Releasing, Pending, Suppressing
<1>7. /\ \A j \in Items \ {i} : item'[j] = item[j]
      /\ item'[i].arch = IF ~Suppressing(i) /\ item[i].status # "MINOR_UPDATE" THEN FALSE
                         ELSE item[i].arch \/ Suppressing(i)
      /\ item'[i].done = item'[i].hash
  BY DEF Remembers, TypeInv
<1>8. ASSUME NEW j \in Items, Exists(j)', ~item'[j].arch
      PROVE  j \in found
  <2>1. CASE j # i
    BY <1>5, <1>7, <1>8, <2>1 DEF ArchiveInv
  <2>2. CASE j = i
    <3>1. ~Suppressing(i)
      BY <1>7, <1>8, <2>2
    <3>2. item[i].status = "MINOR_UPDATE" => ~item[i].arch
      BY <1>7, <1>8, <2>2
    <3> QED BY <1>6, <2>2, <3>1, <3>2 DEF ArchiveInv
  <2> QED BY <2>1, <2>2
<1>9. \A j \in Items : Releasing(j)' => j \in found
  BY <1>5, <1>7 DEF Releasing, ArchiveInv
<1>10. ASSUME NEW d \in Items, NEW v \in Related(event'[d])
       PROVE  v[1] \in Items /\ Exists(v[1])'
  <2>1. v \in Related(event[d]) \/ v = Current(i)
    BY <1>2, <1>3, <1>4
  <2> QED BY <1>1, <1>5, <2>1 DEF ArchiveInv
<1>11. ASSUME NEW d \in Items, Exists(d)', ~event'[d].suppressed
       PROVE  FoundIn(event'[d])
  <2>1. CASE d = i
    <3>1. ~Suppressing(i) /\ (item[i].status = "MINOR_UPDATE" => ~event[i].suppressed)
      BY <1>11, <2>1 DEF Enriches
    <3>2. CASE item[i].status # "MINOR_UPDATE" \/ ~Exists(i)
      BY <1>2, <1>6, <2>1, <3>1, <3>2 DEF FoundIn
    <3>3. CASE item[i].status = "MINOR_UPDATE" /\ Exists(i)
      BY <1>2, <2>1, <3>1, <3>3 DEF FoundIn, ArchiveInv
    <3> QED BY <3>2, <3>3
  <2>2. CASE d = to /\ d # i
    <3>1. CASE event'[to].suppressed = event[to].suppressed
      BY <1>3, <1>5, <1>11, <2>2, <3>1 DEF FoundIn, ArchiveInv
    <3>2. CASE event'[to].suppressed # event[to].suppressed
      <4>1. ~Suppressing(i)
        BY <1>11, <2>2, <3>2 DEF Enriches, Gains
      <4>2. item[i].status # "MINOR_UPDATE" \/ ~Exists(i)
        <5>1. CASE item[i].status = "MATERIAL_UPDATE"
          BY <5>1
        <5>2. CASE i \notin Links(event[to]) /\ ~Settled(event[to].verif, Own(i))
          BY <2>2, <5>2 DEF ClusterInv, LinkedTo
        <5> QED BY <2>2, <3>2, <5>1, <5>2 DEF Enriches
      <4> QED BY <1>3, <1>6, <2>2, <4>1, <4>2 DEF FoundIn
    <3> QED BY <3>1, <3>2
  <2>3. CASE d \in Items \ {i, to}
    BY <1>4, <1>5, <1>11, <2>3 DEF ArchiveInv
  <2> QED BY <2>1, <2>2, <2>3
<1> QED BY <1>8, <1>9, <1>10, <1>11 DEF ArchiveInv, FoundIn

\* Recovery releases nothing that the archive withholds.
LEMMA ArchiveRecover ==
  ASSUME TypeInv, EventInv, ArchiveInv, NEW i \in Items, NEW e \in Owners(Current(i)),
         NEW to \in Items, Current(i)[1] = i, found' = found,
         Merges(i, e, to) \/ Releases(i, e) \/ event' = event,
         \A j \in Items : /\ item'[j].hash = item[j].hash /\ item'[j].status = item[j].status
                          /\ item'[j].done = item[j].done /\ item'[j].mark = item[j].mark
                          /\ item'[j].arch = item[j].arch
  PROVE  ArchiveInv'
<1>1. e \in Items /\ Exists(e) /\ Current(i) \in Related(event[e])
  BY DEF Owners, Related
<1>2. ~(item[i].arch \/ item[i].before) => i \in found
  BY <1>1 DEF ArchiveInv
<1>3. to # None
  BY LedgerAssumption DEF LedgerAssumption
<1>4. ASSUME NEW d \in Items
      PROVE  /\ Exists(d)' = Exists(d)
             /\ Related(event[d]) \subseteq Related(event'[d])
             /\ Related(event'[d]) \subseteq Related(event[d]) \cup {Current(i)}
             /\ ~event'[d].suppressed =>
                  \/ ~event[d].suppressed
                  \/ Current(i) \in Related(event'[d]) /\ i \in found
  <2>1. CASE Merges(i, e, to)
    <3>1. CASE d = e
      <4>1. Related(event'[d]) = Related(event[d])
        BY <2>1, <3>1 DEF Merges, SameEvidence, Related
      <4> QED BY <1>1, <1>3, <2>1, <3>1, <4>1 DEF Merges, Exists
    <3>2. CASE d = to
      <4>1. /\ Related(event'[d]) = Related(event[d]) \cup {Current(i)}
            /\ event'[d].root = event[d].root
            /\ event'[d].suppressed # event[d].suppressed =>
                 event'[d].suppressed = (item[i].arch \/ item[i].before)
        BY <2>1, <3>2 DEF Merges, Gains
      <4> QED BY <1>2, <4>1 DEF Exists
    <3>3. CASE d \in Items \ {e, to}
      BY <2>1, <3>3 DEF Merges, Exists
    <3> QED BY <3>1, <3>2, <3>3
  <2>2. CASE Releases(i, e)
    <3>1. CASE d = e
      <4>1. Related(event'[d]) = Related(event[d])
        BY <2>2, <3>1 DEF Releases, SameEvidence, Related
      <4> QED BY <1>1, <1>2, <2>2, <3>1, <4>1 DEF Releases, Exists, IsRoot
    <3>2. CASE d # e
      BY <2>2, <3>2 DEF Releases, Exists
    <3> QED BY <3>1, <3>2
  <2>3. CASE event' = event
    BY <2>3 DEF Exists
  <2> QED BY <2>1, <2>2, <2>3
<1>5. \A j \in Items : Exists(j)' /\ ~item'[j].arch => j \in found
  BY <1>4 DEF ArchiveInv
<1>6. \A j \in Items : Releasing(j)' => j \in found
  BY <1>4 DEF ArchiveInv, Releasing
<1>7. ASSUME NEW d \in Items, NEW v \in Related(event'[d])
      PROVE  v[1] \in Items /\ Exists(v[1])'
  <2>1. v \in Related(event[d]) \/ v = Current(i)
    BY <1>4
  <2>2. v[1] \in Items /\ Exists(v[1])
    BY <1>1, <2>1 DEF ArchiveInv
  <2> QED BY <1>4, <2>2
<1>8. ASSUME NEW d \in Items, Exists(d)', ~event'[d].suppressed
      PROVE  FoundIn(event'[d])
  <2>1. CASE ~event[d].suppressed
    BY <1>4, <1>8, <2>1, FoundStays DEF ArchiveInv
  <2>2. CASE Current(i) \in Related(event'[d]) /\ i \in found
    BY <2>2 DEF FoundIn
  <2> QED BY <1>4, <1>8, <2>1, <2>2
<1> QED BY <1>5, <1>6, <1>7, <1>8 DEF ArchiveInv, FoundIn

-----------------------------------------------------------------------------
(* The invariant.                                                          *)

SilenceInv == TypeInv /\ EventInv /\ RootSurvives /\ ClusterInv /\ ArchiveInv

\* Nothing is there, nothing is released.
LEMMA SilenceInit == Init => ClusterInv /\ ArchiveInv
BY DEF Init, ClusterInv, ArchiveInv, NoEvent, NoItem, Exists, Releasing, Related

\* Enriching an item keeps both.
LEMMA SilenceEnrich ==
  ASSUME SilenceInv, Steps, NEW i \in Items, EnrichItem(i)
  PROVE  ClusterInv' /\ ArchiveInv'
<1>1. CASE EnrichDiscard(i)
  <2>1. PICK row : row = [item[i] EXCEPT !.done = item[i].hash, !.mark = None]
    OBVIOUS
  <2>2. row.hash = item[i].hash /\ row.done = item[i].hash /\ row.arch = item[i].arch
    BY <2>1 DEF SilenceInv, TypeInv, ItemRow
  <2>3. item' = [item EXCEPT ![i] = row]
    BY <1>1, <2>1 DEF EnrichDiscard
  <2>4. item'[i] = row /\ \A j \in Items \ {i} : item'[j] = item[j]
    BY <2>3 DEF SilenceInv, TypeInv
  <2>5. event' = event /\ found' = found /\ profile' = profile
    BY <1>1 DEF EnrichDiscard
  <2>6. ArchiveInv'
    BY <2>2, <2>4, <2>5 DEF SilenceInv, ArchiveInv, Releasing, Exists, FoundIn
  <2>7. ClusterInv'
    BY <2>5, ClusterRelease DEF SilenceInv
  <2> QED BY <2>6, <2>7
<1>2. ASSUME NEW strength \in Strengths, NEW space \in {"remote", "local"}, NEW to \in Items,
             Enrich(i, strength, space, to)
      PROVE  ClusterInv' /\ ArchiveInv'
  <2>1. /\ Pending(i) /\ Current(i) \in Versions
        /\ Exists(i) => to = event[i].root
        /\ to # i => Exists(to)
        /\ Enriches(i, to)
        /\ Remembers(i)
    BY <1>2, EnrichShape DEF SilenceInv
  <2>2. Current(i)[1] = i
    BY DEF Current
  <2>3. item[i].status \in Statuses
    BY <2>1 DEF SilenceInv, TypeInv, Pending
  <2>4. profile' = profile /\ found' = found
    BY <1>2 DEF Enrich
  <2> QED BY <2>1, <2>2, <2>3, <2>4, ClusterEnrich, ArchiveEnrich DEF SilenceInv
<1> QED BY <1>1, <1>2 DEF EnrichItem

\* Recovering a version keeps both.
LEMMA SilenceRecover ==
  ASSUME SilenceInv, Steps, NEW i \in Items, Recover(i)
  PROVE  ClusterInv' /\ ArchiveInv'
<1>1. item[i].hash # None /\ Current(i)[1] = i
  BY DEF Recover, Recoverable, Current
<1>2. profile' = profile /\ found' = found
  BY DEF Recover
<1>3. \A j \in Items : /\ item'[j].hash = item[j].hash /\ item'[j].status = item[j].status
                       /\ item'[j].done = item[j].done /\ item'[j].mark = item[j].mark
                       /\ item'[j].arch = item[j].arch
  BY RecoverItem DEF SilenceInv
<1>4. CASE event' = event
  <2>1. ClusterInv'
    BY <1>2, <1>4, ClusterRelease DEF SilenceInv
  <2>2. ArchiveInv'
    BY <1>2, <1>3, <1>4 DEF SilenceInv, ArchiveInv, Releasing, Exists, FoundIn
  <2> QED BY <2>1, <2>2
<1>5. ASSUME NEW e \in Owners(Current(i)), NEW to \in Items, RecoverRoot(i, e, to)
      PROVE  ClusterInv' /\ ArchiveInv'
  <2>1. Merges(i, e, to) \/ Releases(i, e) \/ event' = event
    BY <1>1, <1>5, RecoverShape DEF SilenceInv
  <2>2. e \in Items
    BY DEF Owners
  <2>3. ArchiveInv'
    BY <1>1, <1>2, <1>3, <2>1, ArchiveRecover DEF SilenceInv
  <2>4. CASE Merges(i, e, to)
    BY <1>1, <1>2, <2>3, <2>4, ClusterMerge DEF SilenceInv
  <2>5. CASE Releases(i, e) \/ event' = event
    BY <1>2, <2>2, <2>3, <2>5, ClusterRelease DEF SilenceInv
  <2> QED BY <2>1, <2>4, <2>5
<1> QED BY <1>4, <1>5 DEF Recover, RecoverAlone, RecoverDuplicate

\* Every step keeps both.
LEMMA SilenceStep ==
  ASSUME SilenceInv, [Next]_vars
  PROVE  SilenceInv'
<1>1. Steps
  BY NextSteps DEF SilenceInv
<1>2. TypeInv' /\ EventInv' /\ RootSurvives'
  BY TypeStep, StepInv, RootStep DEF SilenceInv
<1>3. ASSUME NEW i \in Items,
             \/ \E h \in Hashes, status \in Statuses : CollectChange(i, h, status)
             \/ CollectUnchanged(i)
      PROVE  ClusterInv' /\ ArchiveInv'
  <2>1. profile' = profile /\ event' = event
    BY <1>3 DEF CollectChange, CollectUnchanged
  <2> QED BY <1>1, <1>3, <2>1, ArchiveCollect, ClusterRelease DEF SilenceInv
<1>4. ASSUME UNCHANGED <<profile, item, event, found>>
      PROVE  ClusterInv' /\ ArchiveInv'
  <2>1. ClusterInv'
    BY <1>1, <1>4, ClusterRelease DEF SilenceInv
  <2>2. item' = item /\ event' = event /\ found' = found
    BY <1>4
  <2>3. ArchiveInv'
    BY <2>2 DEF SilenceInv, ArchiveInv, Releasing, Exists, FoundIn
  <2> QED BY <2>1, <2>3
<1>5. ASSUME NEW i \in Items, RecoverFail(i)
      PROVE  UNCHANGED <<profile, item, event, found>>
  BY <1>5 DEF RecoverFail
<1>6. ASSUME ComposeDigest \/ Close \/ ComposeAlert \/ NewDay
      PROVE  UNCHANGED <<profile, item, event, found>>
  BY <1>6 DEF ComposeDigest, Close, ComposeAlert, NewDay
<1>7. ASSUME BackfillStart \/ BackfillEnrich \/ BackfillDies \/ BackfillEnd
      PROVE  UNCHANGED <<profile, item, event, found>>
  BY <1>7 DEF BackfillStart, BackfillEnrich, BackfillDies, BackfillEnd
<1>8. UNCHANGED vars => UNCHANGED <<profile, item, event, found>>
  BY DEF vars
<1>9. ClusterInv' /\ ArchiveInv'
  <2>1. \A i \in Items : EnrichItem(i) => ClusterInv' /\ ArchiveInv'
    BY <1>1, SilenceEnrich
  <2>2. \A i \in Items : Recover(i) => ClusterInv' /\ ArchiveInv'
    BY <1>1, SilenceRecover
  <2> QED BY <1>3, <1>4, <1>5, <1>6, <1>7, <1>8, <2>1, <2>2 DEF Next
<1> QED BY <1>2, <1>9 DEF SilenceInv

\* What only a backfill has ever seen is never mailed (the marker of
\* collect_group, archive_delivery_suppressed, and the suppression inherited
\* through _upgrade_canonical_evidence and recovery): for any items, sources,
\* clusters and backfills that die, whatever compose would card has evidence
\* from an item that a normal run found.
THEOREM ArchiveIsSilent == Spec => []ArchiveStaysSilent
<1>1. Init => SilenceInv
  BY TypeInit, InitInv, RootInit, SilenceInit DEF SilenceInv
<1>2. SilenceInv /\ [Next]_vars => SilenceInv'
  BY SilenceStep
<1>3. SilenceInv => ArchiveStaysSilent
  BY DEF SilenceInv, ArchiveInv, ArchiveStaysSilent, Carded, FoundIn
<1> QED BY <1>1, <1>2, <1>3, PTL DEF Spec

-----------------------------------------------------------------------------
(* What the model has embedded.                                            *)

\* The version has been fetched.
Fetched(v) == \E n \in DOMAIN recent : recent[n] = v

\* A revision of the event x is named for the version v, or x is related to it.
Keyed(v, x) == \E n \in DOMAIN x.revs : x.revs[n].key[1] = v
Touches(v, x) == v \in Related(x) \/ Keyed(v, x)

\* What enrichment works on was fetched.
FetchedInv ==
  /\ \A e \in Items : \A v \in Versions : Touches(v, event[e]) => Fetched(v)
  /\ \A v \in Versions : version[v].pending => Fetched(v)
  /\ \A i \in Items : /\ item[i].hash # None => Fetched(Current(i))
                      /\ item[i].done # None => Fetched(<<i, item[i].done>>)

\* The primary versions of an event are its own item's, or are another item's,
\* whose link is then the canonical one and whose event is a duplicate.
PrimaryInv ==
  \A e \in Items : \A v \in event[e].prim : v[1] # e =>
    /\ event[e].url # e
    /\ \A w \in event[e].prim : w[1] # e
    /\ Exists(v[1]) /\ event[v[1]].root # v[1]

\* Content that waits for its enrichment has left no trace.
UntouchedInv ==
  \A i \in Items : item[i].hash # None /\ item[i].done # item[i].hash =>
    /\ ~version[Current(i)].pending
    /\ \A e \in Items : ~Touches(Current(i), event[e])

\* Until a version is embedded, only its own event and what that is a duplicate
\* of know it.
PendingInv ==
  \A v \in Versions, k \in Items :
    version[v].pending /\ Touches(v, event[k]) /\ k # v[1] => event[v[1]].root = k

\* The event x shows a later revision than the item's own for the version v.
Superseded(x, v) ==
  \E n \in DOMAIN x.revs :
    /\ x.revs[n].status \in Deliverable
    /\ \A m \in DOMAIN x.revs : m >= n => x.revs[m].key # <<v>>

\* The event's own current content waits for its embedding.
Waits(e) ==
  /\ Exists(e)
  /\ item[e].done = item[e].hash
  /\ Current(e) \in event[e].prim
  /\ version[Current(e)].pending

\* Then it is suppressed, or shows something else.
EmbeddedInv ==
  \A e \in Items : Waits(e) /\ ~event[e].suppressed => Superseded(event[e], Current(e))

\* The inductive invariant: the last three hold until a content comes back.
OutageInv ==
  /\ FetchedInv
  /\ PrimaryInv
  /\ NothingReturned => UntouchedInv /\ PendingInv /\ EmbeddedInv

\* A revision that is new comes last.
LEMMA NewRevision ==
  ASSUME NEW revs \in Seq(Revision), NEW key \in Key, NEW status \in Statuses,
         \A n \in DOMAIN revs : revs[n].key # key
  PROVE  /\ WithRevision(revs, key, status) \in Seq(Revision)
         /\ Len(WithRevision(revs, key, status)) = Len(revs) + 1
         /\ \A n \in 1..Len(revs) : WithRevision(revs, key, status)[n] = revs[n]
         /\ WithRevision(revs, key, status)[Len(revs) + 1] = [key |-> key, status |-> status]
<1>1. WithRevision(revs, key, status) = Append(revs, [key |-> key, status |-> status])
  BY DEF WithRevision
<1>2. [key |-> key, status |-> status] \in Revision
  BY DEF Revision
<1> QED BY <1>1, <1>2

\* A revision, new or found again, adds its own name and no other.
LEMMA RevisionNames ==
  ASSUME NEW revs \in Seq(Revision), NEW key \in Key, NEW status \in Statuses,
         NEW n \in DOMAIN WithRevision(revs, key, status)
  PROVE  \/ WithRevision(revs, key, status)[n].key = key
         \/ n \in DOMAIN revs /\ WithRevision(revs, key, status)[n].key = revs[n].key
<1>1. CASE \E m \in DOMAIN revs : revs[m].key = key
  <2>1. WithRevision(revs, key, status)
          = [m \in DOMAIN revs |-> IF revs[m].key = key THEN [revs[m] EXCEPT !.status = status]
                                   ELSE revs[m]]
    BY <1>1 DEF WithRevision
  <2>2. n \in DOMAIN revs /\ revs[n] \in Revision
    BY <2>1
  <2>3. [revs[n] EXCEPT !.status = status].key = revs[n].key
    BY <2>2 DEF Revision
  <2> QED BY <2>1, <2>2, <2>3
<1>2. CASE ~\E m \in DOMAIN revs : revs[m].key = key
  <2>1. WithRevision(revs, key, status) = Append(revs, [key |-> key, status |-> status])
    BY <1>2 DEF WithRevision
  <2> QED BY <2>1
<1> QED BY <1>1, <1>2

\* The versions an event knows after a revision for v.
LEMMA TouchesMore ==
  ASSUME NEW x, NEW u, NEW v, x.revs \in Seq(Revision),
         Related(u) \subseteq Related(x) \cup {v},
         \/ u.revs = x.revs
         \/ \E key \in Key, status \in Statuses :
              key[1] = v /\ u.revs = WithRevision(x.revs, key, status),
         NEW w, Touches(w, u)
  PROVE  w = v \/ Touches(w, x)
<1>1. CASE w \in Related(u)
  BY <1>1 DEF Touches
<1>2. CASE Keyed(w, u)
  <2>1. CASE u.revs = x.revs
    BY <1>2, <2>1 DEF Touches, Keyed
  <2>2. ASSUME NEW key \in Key, NEW status \in Statuses,
               key[1] = v, u.revs = WithRevision(x.revs, key, status)
        PROVE  w = v \/ Touches(w, x)
    <3>1. PICK n \in DOMAIN WithRevision(x.revs, key, status) :
                 WithRevision(x.revs, key, status)[n].key[1] = w
      BY <1>2, <2>2 DEF Keyed
    <3>2. \/ WithRevision(x.revs, key, status)[n].key = key
          \/ n \in DOMAIN x.revs /\ WithRevision(x.revs, key, status)[n].key = x.revs[n].key
      BY RevisionNames
    <3> QED BY <2>2, <3>1, <3>2 DEF Touches, Keyed
  <2> QED BY <2>1, <2>2
<1> QED BY <1>1, <1>2 DEF Touches

\* The versions an event knows after it gained v.
LEMMA TouchesGained ==
  ASSUME NEW x, NEW u, NEW s, NEW v, NEW verif, NEW suppress, Filled(x),
         Gains(x, u, s, v, verif, suppress), NEW w, Touches(w, u)
  PROVE  w = v \/ Touches(w, x)
<1>1. x.revs \in Seq(Revision)
  BY DEF Filled, EventRow
<1>2. Related(u) \subseteq Related(x) \cup {v}
  BY DEF Gains
<1>3. u.revs = x.revs \/ \E key \in Key, status \in Statuses :
                           key[1] = v /\ u.revs = WithRevision(x.revs, key, status)
  BY DEF Gains, Logs, Statuses
<1> QED BY <1>1, <1>2, <1>3, TouchesMore

\* What an upgrade changes is shown in place of the item's own content.
LEMMA LogsSupersede ==
  ASSUME NEW x, NEW u, NEW v, x.revs \in Seq(Revision), Logs(x, u, v), ~Keyed(v, x), NEW w
  PROVE  \/ u.revs = x.revs /\ u.suppressed = x.suppressed
         \/ Superseded(u, w)
<1> SUFFICES ASSUME NEW key \in Key, key[1] = v, \A y : key # <<y>>,
                    u.revs = WithRevision(x.revs, key, "MATERIAL_UPDATE")
             PROVE  Superseded(u, w)
  BY DEF Logs
<1>1. \A n \in DOMAIN x.revs : x.revs[n].key # key
  BY DEF Keyed
<1>2. PICK last : last = Len(x.revs) + 1
  OBVIOUS
<1>3. "MATERIAL_UPDATE" \in Statuses /\ last \in Nat /\ last >= 1
  BY <1>2 DEF Statuses
<1>4. PICK revs : revs = WithRevision(x.revs, key, "MATERIAL_UPDATE")
  OBVIOUS
<1>5. /\ revs \in Seq(Revision) /\ Len(revs) = last
      /\ revs[last] = [key |-> key, status |-> "MATERIAL_UPDATE"]
  BY <1>1, <1>2, <1>3, <1>4, NewRevision
<1>6. DOMAIN revs = 1..last
  BY <1>5
<1>7. last \in DOMAIN revs /\ revs[last].status \in Deliverable /\ revs[last].key # <<w>>
  BY <1>3, <1>5, <1>6 DEF Deliverable
<1>8. \A m \in DOMAIN revs : m >= last => m = last
  BY <1>3, <1>6
<1> QED BY <1>4, <1>7, <1>8 DEF Superseded

\* The primary versions of an event that gains the version of another item.
LEMMA PrimaryGains ==
  ASSUME NEW k \in Items, NEW c, NEW u, NEW s, NEW v, NEW verif, NEW suppress,
         Gains(c, u, s, v, verif, suppress), s.url # k, v[1] # k,
         \A w \in c.prim : w[1] # k => c.url # k /\ \A y \in c.prim : y[1] # k
  PROVE  \A w \in u.prim : w[1] # k => u.url # k /\ \A y \in u.prim : y[1] # k
BY DEF Gains

\* A duplicate stays one, of the same event.
LEMMA DuplicateStays ==
  ASSUME Steps, NEW d \in Items, Exists(d), event[d].root # d
  PROVE  event'[d].root = event[d].root
BY DEF Steps, Rerooted, IsRoot

\* The canonical link of an enriched event is not its canonical event's.
LEMMA EnrichedUrl ==
  ASSUME EventInv, RootSurvives, ClusterInv, NEW i \in Items, NEW to \in Items, to # i,
         Exists(i) => to = event[i].root, Enriches(i, to)
  PROVE  event'[i].url # to
<1>1. CASE Exists(i)
  <2>1. event[i].url # to
    BY <1>1, UrlIsBelow
  <2> QED BY <1>1, <2>1 DEF Enriches
<1>2. CASE ~Exists(i)
  BY <1>2 DEF Enriches
<1> QED BY <1>1, <1>2

\* Who knows what after an enrichment.
LEMMA EnrichTouches ==
  ASSUME TypeInv, NEW i \in Items, NEW to \in Items, Enriches(i, to),
         item[i].status \in Statuses, Current(i) \in Versions,
         NEW k \in Items, NEW w, Touches(w, event'[k])
  PROVE  Touches(w, event[k]) \/ (w = Current(i) /\ k \in {i, to})
<1>1. Filled(event[k]) /\ event[k].revs \in Seq(Revision)
  BY DEF TypeInv, Filled, EventRow
<1>2. CASE k = i
  <2>1. PICK v : v = Current(i)
    OBVIOUS
  <2>2. PICK x : x = event[i]
    OBVIOUS
  <2>3. PICK u : u = event'[i]
    OBVIOUS
  <2>4. Related(u) \subseteq Related(x) \cup {v}
    BY <2>1, <2>2, <2>3 DEF Enriches
  <2>5. <<v>> \in Key /\ <<v>>[1] = v
    BY <2>1 DEF Key
  <2>6. u.revs = WithRevision(x.revs, <<v>>, item[i].status)
    BY <2>1, <2>2, <2>3 DEF Enriches
  <2>7. \E key \in Key, status \in Statuses :
          key[1] = v /\ u.revs = WithRevision(x.revs, key, status)
    BY <2>5, <2>6
  <2>8. w = v \/ Touches(w, x)
    BY <1>1, <1>2, <2>2, <2>3, <2>4, <2>7, TouchesMore
  <2> QED BY <1>2, <2>1, <2>2, <2>8
<1>3. CASE k # i /\ k = to
  <2>1. PICK v : v = Current(i)
    OBVIOUS
  <2>2. PICK x : x = event[to]
    OBVIOUS
  <2>3. PICK u : u = event'[to]
    OBVIOUS
  <2>4. PICK s : s = event'[i]
    OBVIOUS
  <2>5. Gains(x, u, s, v, Own(i), Suppressing(i))
    BY <1>3, <2>1, <2>2, <2>3, <2>4 DEF Enriches
  <2>6. w = v \/ Touches(w, x)
    BY <1>1, <1>3, <2>2, <2>3, <2>5, TouchesGained
  <2> QED BY <1>3, <2>1, <2>2, <2>6
<1>4. CASE k \in Items \ {i, to}
  BY <1>4 DEF Enriches
<1> QED BY <1>2, <1>3, <1>4

\* Who knows what after a recovery.
LEMMA RecoverTouches ==
  ASSUME TypeInv, NEW i \in Items, NEW e \in Items, NEW to \in Items,
         Merges(i, e, to) \/ Releases(i, e) \/ event' = event,
         NEW k \in Items, NEW w, Touches(w, event'[k])
  PROVE  Touches(w, event[k]) \/ (w = Current(i) /\ Merges(i, e, to) /\ k = to)
<1>1. Filled(event[k])
  BY DEF TypeInv
<1>2. ASSUME SameEvidence(k)
      PROVE  Touches(w, event[k])
  BY <1>2 DEF SameEvidence, Touches, Keyed, Related
<1>3. CASE Merges(i, e, to)
  <2>1. CASE k = to
    <3>1. PICK x : x = event[to]
      OBVIOUS
    <3>2. PICK u : u = event'[to]
      OBVIOUS
    <3>3. PICK s : s = event[e]
      OBVIOUS
    <3>4. PICK v : v = Current(i)
      OBVIOUS
    <3>5. \E verif, suppress : Gains(x, u, s, v, verif, suppress)
      BY <1>3, <3>1, <3>2, <3>3, <3>4 DEF Merges
    <3>6. w = v \/ Touches(w, x)
      BY <1>1, <2>1, <3>1, <3>2, <3>5, TouchesGained
    <3> QED BY <1>3, <2>1, <3>1, <3>4, <3>6
  <2>2. CASE k = e
    BY <1>2, <1>3, <2>2 DEF Merges
  <2>3. CASE k \in Items \ {e, to}
    BY <1>3, <2>3 DEF Merges
  <2> QED BY <2>1, <2>2, <2>3
<1>4. CASE Releases(i, e)
  <2>1. CASE k = e
    BY <1>2, <1>4, <2>1 DEF Releases
  <2>2. CASE k # e
    BY <1>4, <2>2 DEF Releases
  <2> QED BY <2>1, <2>2
<1> QED BY <1>3, <1>4

\* What is worked on stays fetched.
LEMMA FetchedKept ==
  ASSUME FetchedInv, recent' = recent, NEW i \in Items, item[i].hash # None,
         \A k \in Items : \A w \in Versions :
           Touches(w, event'[k]) => Touches(w, event[k]) \/ w = Current(i),
         \A v \in Versions : version'[v].pending => version[v].pending \/ v = Current(i),
         \A j \in Items : /\ item'[j].hash = item[j].hash
                          /\ item'[j].done \in {item[j].done, item[j].hash}
  PROVE  FetchedInv'
<1>1. \A v : Fetched(v)' = Fetched(v)
  BY DEF Fetched
<1>2. \A j \in Items : Current(j)' = Current(j)
  BY DEF Current
<1>3. Fetched(Current(i))
  BY DEF FetchedInv
<1>4. \A e \in Items : \A v \in Versions : Touches(v, event'[e]) => Fetched(v)'
  BY <1>1, <1>3 DEF FetchedInv
<1>5. \A v \in Versions : version'[v].pending => Fetched(v)'
  BY <1>1, <1>3 DEF FetchedInv
<1>6. \A j \in Items : item'[j].hash # None => Fetched(Current(j))'
  BY <1>1, <1>2 DEF FetchedInv
<1>7. \A j \in Items : item'[j].done # None => Fetched(<<j, item[j].done>>)'
  <2> SUFFICES ASSUME NEW j \in Items, item'[j].done # None
               PROVE  Fetched(<<j, item[j].done>>)'
    OBVIOUS
  <2>1. Fetched(<<j, item'[j].done>>)
    BY DEF FetchedInv, Current
  <2> QED BY <2>1 DEF Fetched
<1> QED BY <1>4, <1>5, <1>6, <1>7 DEF FetchedInv, Touches, Keyed, Related

\* An event that borrows a primary version does so after an enrichment.
LEMMA PrimaryEnrich ==
  ASSUME SilenceInv, Steps, PrimaryInv, NEW i \in Items, NEW to \in Items,
         Current(i)[1] = i, Exists(i) => to = event[i].root, to # i => Exists(to),
         Enriches(i, to)
  PROVE  PrimaryInv'
<1> USE DEF SilenceInv
<1>1. ASSUME NEW d \in Items, Exists(d), event[d].root # d
      PROVE  Exists(d)' /\ event'[d].root # d
  BY <1>1, DuplicateStays DEF Exists
<1>2. \A w \in event'[i].prim : w[1] # i =>
        /\ event'[i].url # i /\ \A y \in event'[i].prim : y[1] # i
        /\ Exists(w[1])' /\ event'[w[1]].root # w[1]
  <2> SUFFICES ASSUME NEW w \in event'[i].prim, w[1] # i
               PROVE  /\ event'[i].url # i /\ \A y \in event'[i].prim : y[1] # i
                      /\ Exists(w[1])' /\ event'[w[1]].root # w[1]
    OBVIOUS
  <2>1. w \in event[i].prim
    BY DEF Enriches
  <2>2. /\ event[i].url # i /\ \A y \in event[i].prim : y[1] # i
        /\ Exists(w[1]) /\ event[w[1]].root # w[1]
    BY <2>1 DEF PrimaryInv
  <2>3. Exists(i) /\ w \in Versions /\ w[1] \in Items
    <3>1. Filled(event[i])
      BY DEF TypeInv
    <3>2. Exists(i)
      BY <2>1, <3>1 DEF Filled, Exists, NoEvent
    <3>3. w \in Versions
      BY <2>1, <3>1 DEF Filled, EventRow
    <3> QED BY <3>2, <3>3 DEF Versions
  <2>4. Rank[event[i].verif] > Rank[Own(i)]
    BY <2>2, <2>3 DEF ClusterInv, Ranked
  <2>5. event'[i].prim = event[i].prim /\ event'[i].url = event[i].url
    BY <2>2, <2>3, <2>4 DEF Enriches
  <2> QED BY <1>1, <2>2, <2>3, <2>5
<1>3. to # i => \A w \in event'[to].prim : w[1] # to =>
        /\ event'[to].url # to /\ \A y \in event'[to].prim : y[1] # to
        /\ Exists(w[1])' /\ event'[w[1]].root # w[1]
  <2> SUFFICES ASSUME to # i, NEW w \in event'[to].prim, w[1] # to
               PROVE  /\ event'[to].url # to /\ \A y \in event'[to].prim : y[1] # to
                      /\ Exists(w[1])' /\ event'[w[1]].root # w[1]
    OBVIOUS
  <2>1. PICK c : c = event[to]
    OBVIOUS
  <2>2. PICK u : u = event'[to]
    OBVIOUS
  <2>3. PICK s : s = event'[i]
    OBVIOUS
  <2>4. PICK v : v = Current(i)
    OBVIOUS
  <2>5. Gains(c, u, s, v, Own(i), Suppressing(i))
    BY <2>1, <2>2, <2>3, <2>4 DEF Enriches
  <2>6. s.url # to
    BY <2>3, EnrichedUrl
  <2>7. \A y \in c.prim : y[1] # to => c.url # to /\ \A z \in c.prim : z[1] # to
    BY <2>1 DEF PrimaryInv
  <2>8. \A y \in u.prim : y[1] # to => u.url # to /\ \A z \in u.prim : z[1] # to
    BY <2>4, <2>5, <2>6, <2>7, PrimaryGains
  <2>9. w \in c.prim \/ w = v
    BY <2>2, <2>5 DEF Gains
  <2>10. CASE w \in c.prim
    <3>1. Exists(w[1]) /\ event[w[1]].root # w[1]
      BY <2>1, <2>10 DEF PrimaryInv
    <3>2. w[1] \in Items
      <4>1. w \in Versions
        BY <2>1, <2>10 DEF TypeInv, Filled, EventRow
      <4> QED BY <4>1 DEF Versions
    <3> QED BY <1>1, <2>2, <2>8, <3>1, <3>2
  <2>11. CASE w = v
    <3>1. event'[i].root = to /\ to # None
      BY LedgerAssumption DEF Enriches, LedgerAssumption
    <3> QED BY <2>2, <2>4, <2>8, <2>11, <3>1 DEF Exists
  <2> QED BY <2>9, <2>10, <2>11
<1>4. \A d \in Items \ {i, to} : \A w \in event'[d].prim : w[1] # d =>
        /\ event'[d].url # d /\ \A y \in event'[d].prim : y[1] # d
        /\ Exists(w[1])' /\ event'[w[1]].root # w[1]
  <2> SUFFICES ASSUME NEW d \in Items \ {i, to}, NEW w \in event'[d].prim, w[1] # d
               PROVE  /\ event'[d].url # d /\ \A y \in event'[d].prim : y[1] # d
                      /\ Exists(w[1])' /\ event'[w[1]].root # w[1]
    OBVIOUS
  <2>1. event'[d] = event[d]
    BY DEF Enriches
  <2>2. w[1] \in Items
    <3>1. w \in Versions
      BY <2>1 DEF TypeInv, Filled, EventRow
    <3> QED BY <3>1 DEF Versions
  <2> QED BY <1>1, <2>1, <2>2 DEF PrimaryInv
<1> QED BY <1>2, <1>3, <1>4 DEF PrimaryInv, Exists

\* Enriching content leaves what waits for its enrichment untouched.
LEMMA UntouchedEnrich ==
  ASSUME UntouchedInv, NEW i \in Items, Remembers(i), Embeds(i),
         \A j \in Items \ {i} : item'[j] = item[j],
         \A j \in Items : item[j].hash # None => Current(j) \in Versions,
         \A k \in Items : \A w \in Versions :
           Touches(w, event'[k]) => Touches(w, event[k]) \/ w = Current(i)
  PROVE  UntouchedInv'
<1> SUFFICES ASSUME NEW j \in Items, item'[j].hash # None, item'[j].done # item'[j].hash
             PROVE  /\ ~version'[Current(j)'].pending
                    /\ \A e \in Items : ~Touches(Current(j)', event'[e])
  BY DEF UntouchedInv, Touches, Keyed, Related
<1>1. j # i /\ item'[j] = item[j] /\ Current(j)' = Current(j)
  BY DEF Remembers, Current
<1>2. Current(j) \in Versions /\ Current(j) # Current(i)
  BY <1>1 DEF Current
<1>3. /\ ~version[Current(j)].pending
      /\ \A e \in Items : ~Touches(Current(j), event[e])
  BY <1>1 DEF UntouchedInv
<1> QED BY <1>1, <1>2, <1>3 DEF Embeds

\* The content that is enriched is known to its event and to its cluster only.
LEMMA PendingEnrich ==
  ASSUME Steps, UntouchedInv, PendingInv, NEW i \in Items, NEW to \in Items,
         Current(i)[1] = i, Pending(i), Embeds(i), event'[i].root = to,
         \A k \in Items : \A w \in Versions :
           Touches(w, event'[k]) => Touches(w, event[k]) \/ (w = Current(i) /\ k \in {i, to})
  PROVE  PendingInv'
<1> SUFFICES ASSUME NEW v \in Versions, NEW k \in Items, version'[v].pending,
                    Touches(v, event'[k]), k # v[1]
             PROVE  event'[v[1]].root = k
  BY DEF PendingInv, Touches, Keyed, Related
<1>1. v[1] \in Items
  BY DEF Versions
<1>2. CASE v = Current(i)
  <2>1. ~Touches(v, event[k])
    BY <1>2 DEF UntouchedInv, Pending
  <2> QED BY <1>2, <2>1
<1>3. CASE v # Current(i)
  <2>1. version[v].pending /\ Touches(v, event[k])
    BY <1>3 DEF Embeds
  <2>2. event[v[1]].root = k
    BY <2>1 DEF PendingInv
  <2>3. k # None
    BY LedgerAssumption DEF LedgerAssumption
  <2> QED BY <1>1, <2>2, <2>3, DuplicateStays DEF Exists
<1> QED BY <1>2, <1>3

\* What gains the version of another item, and waits, waited before.
LEMMA WaitsGained ==
  ASSUME TypeInv, NEW k \in Items, NEW s, NEW v, NEW verif, NEW suppress,
         Gains(event[k], event'[k], s, v, verif, suppress), v[1] # k,
         item'[k].hash = item[k].hash, item'[k].done = item[k].done,
         version'[Current(k)].pending => version[Current(k)].pending,
         ~Keyed(v, event[k]), EmbeddedInv, Waits(k)', ~event'[k].suppressed
  PROVE  Superseded(event'[k], Current(k))
<1>1. Current(k)' = Current(k) /\ Current(k)[1] = k
  BY DEF Current
<1>2. PICK c : c = event[k]
  OBVIOUS
<1>3. PICK u : u = event'[k]
  OBVIOUS
<1>4. Gains(c, u, s, v, verif, suppress)
  BY <1>2, <1>3
<1>5. Current(k) \in u.prim /\ u.root # None /\ version[Current(k)].pending
  BY <1>1, <1>3 DEF Waits, Exists
<1>6. Current(k) \in c.prim /\ c.root # None
  BY <1>1, <1>4, <1>5 DEF Gains
<1>7. Waits(k)
  BY <1>2, <1>5, <1>6 DEF Waits, Exists
<1>8. c.revs \in Seq(Revision)
  BY <1>2 DEF TypeInv, Filled, EventRow
<1>9. Logs(c, u, v) /\ ~Keyed(v, c)
  BY <1>2, <1>4 DEF Gains
<1>10. \/ u.revs = c.revs /\ u.suppressed = c.suppressed
       \/ Superseded(u, Current(k))
  BY <1>8, <1>9, LogsSupersede
<1> QED BY <1>2, <1>3, <1>7, <1>10 DEF EmbeddedInv, Superseded

\* An enriched event that waits is suppressed.
LEMMA EmbeddedEnrich ==
  ASSUME TypeInv, UntouchedInv, EmbeddedInv, NEW i \in Items, NEW to \in Items,
         Current(i)[1] = i, Pending(i), Enriches(i, to), Remembers(i), Embeds(i),
         \A j \in Items \ {i} : item'[j] = item[j]
  PROVE  EmbeddedInv'
<1> SUFFICES ASSUME NEW e \in Items, Waits(e)', ~event'[e].suppressed
             PROVE  Superseded(event'[e], Current(e)')
  BY DEF EmbeddedInv, Superseded
<1>1. CASE e = i
  BY <1>1 DEF Waits, Embeds, Current, Remembers
<1>2. ASSUME e # i
      PROVE  /\ Current(e)' = Current(e) /\ item'[e] = item[e]
             /\ version'[Current(e)].pending => version[Current(e)].pending
  <2>1. Current(e)' = Current(e) /\ item'[e] = item[e] /\ Current(e) # Current(i)
    BY <1>2 DEF Current
  <2>2. Current(e) \in Versions
    <3>1. Current(e) \in event'[e].prim /\ Filled(event'[e])
      <4>1. Current(e) \in event'[e].prim
        BY <2>1 DEF Waits
      <4>2. CASE e = to
        BY <1>2, <4>1, <4>2 DEF Enriches, Gains
      <4>3. CASE e # to
        BY <1>2, <4>1, <4>3 DEF Enriches, TypeInv
      <4> QED BY <4>2, <4>3
    <3> QED BY <3>1 DEF Filled, EventRow
  <2> QED BY <2>1, <2>2 DEF Embeds
<1>3. CASE e # i /\ e = to
  <2>1. PICK s : s = event'[i]
    OBVIOUS
  <2>2. PICK v : v = Current(i)
    OBVIOUS
  <2>3. Gains(event[e], event'[e], s, v, Own(i), Suppressing(i))
    BY <1>3, <2>1, <2>2 DEF Enriches
  <2>4. ~Keyed(v, event[e]) /\ v[1] # e
    BY <1>3, <2>2 DEF UntouchedInv, Pending, Touches
  <2>5. Superseded(event'[e], Current(e))
    BY <1>2, <1>3, <2>3, <2>4, WaitsGained
  <2> QED BY <1>2, <1>3, <2>5
<1>4. CASE e \in Items \ {i, to}
  <2>1. event'[e] = event[e]
    BY <1>4 DEF Enriches
  <2>2. Waits(e)
    BY <1>2, <1>4, <2>1 DEF Waits, Exists
  <2> QED BY <1>2, <1>4, <2>1, <2>2 DEF EmbeddedInv
<1> QED BY <1>1, <1>3, <1>4

\* Enriching an item keeps the invariant.
LEMMA OutageEnrich ==
  ASSUME SilenceInv, Steps, OutageInv, NEW i \in Items, NEW strength \in Strengths,
         NEW space \in {"remote", "local"}, NEW to \in Items,
         Enrich(i, strength, space, to)
  PROVE  OutageInv'
<1> USE DEF SilenceInv
<1>1. /\ Pending(i) /\ Current(i) \in Versions
      /\ Exists(i) => to = event[i].root
      /\ to # i => Exists(to)
      /\ Enriches(i, to)
      /\ Remembers(i)
      /\ Embeds(i)
  BY EnrichShape
<1>2. Current(i)[1] = i /\ item[i].hash # None /\ item[i].status \in Statuses
  BY <1>1 DEF Current, Pending, TypeInv
<1>3. recent' = recent
  BY DEF Enrich
<1>4. \A k \in Items : \A w \in Versions :
        Touches(w, event'[k]) => Touches(w, event[k]) \/ (w = Current(i) /\ k \in {i, to})
  BY <1>1, <1>2, EnrichTouches
<1>5. \A v \in Versions : version'[v].pending => version[v].pending \/ v = Current(i)
  BY <1>1 DEF Embeds
<1>6. \A j \in Items \ {i} : item'[j] = item[j]
  BY <1>1 DEF Remembers, TypeInv
<1>7. \A j \in Items : /\ item'[j].hash = item[j].hash
                       /\ item'[j].done \in {item[j].done, item[j].hash}
  BY <1>1, <1>6 DEF Remembers
<1>8. FetchedInv'
  BY <1>2, <1>3, <1>4, <1>5, <1>7, FetchedKept DEF OutageInv
<1>9. PrimaryInv'
  BY <1>1, <1>2, PrimaryEnrich DEF OutageInv
<1>10. NothingReturned' = NothingReturned
  BY <1>3 DEF NothingReturned
<1>11. \A j \in Items : item[j].hash # None => Current(j) \in Versions
  BY CurrentFact
<1>12. ASSUME UntouchedInv, PendingInv, EmbeddedInv
       PROVE  UntouchedInv' /\ PendingInv' /\ EmbeddedInv'
  <2>1. UntouchedInv'
    BY <1>1, <1>4, <1>6, <1>11, <1>12, UntouchedEnrich
  <2>2. event'[i].root = to
    BY <1>1 DEF Enriches
  <2>3. PendingInv'
    BY <1>1, <1>2, <1>4, <1>12, <2>2, PendingEnrich
  <2>4. EmbeddedInv'
    BY <1>1, <1>2, <1>6, <1>12, EmbeddedEnrich
  <2> QED BY <2>1, <2>3, <2>4
<1> QED BY <1>8, <1>9, <1>10, <1>12 DEF OutageInv

\* Content that is of no interest has left no trace: nothing waits for it.
LEMMA OutageDiscard ==
  ASSUME SilenceInv, OutageInv, NEW i \in Items, EnrichDiscard(i)
  PROVE  OutageInv'
<1>1. /\ item[i].hash # None /\ item[i].done # item[i].hash
      /\ version' = version /\ recent' = recent /\ event' = event
  BY DEF EnrichDiscard, Pending
<1>2. PICK row : row = [item[i] EXCEPT !.done = item[i].hash, !.mark = None]
  OBVIOUS
<1>3. row.hash = item[i].hash /\ row.done = item[i].hash
  BY <1>2 DEF SilenceInv, TypeInv, ItemRow
<1>4. item'[i] = row /\ \A j \in Items \ {i} : item'[j] = item[j]
  <2>1. item' = [item EXCEPT ![i] = row]
    BY <1>2 DEF EnrichDiscard
  <2> QED BY <2>1 DEF SilenceInv, TypeInv
<1>5. /\ \A j \in Items : Current(j)' = Current(j)
      /\ \A j \in Items : /\ item'[j].hash = item[j].hash
                          /\ item'[j].done \in {item[j].done, item[j].hash}
  BY <1>3, <1>4 DEF Current
<1>6. FetchedInv'
  BY <1>1, <1>5, FetchedKept DEF OutageInv
<1>7. PrimaryInv'
  BY <1>1 DEF OutageInv, PrimaryInv, Exists
<1>8. NothingReturned' = NothingReturned
  BY <1>1 DEF NothingReturned
<1>9. ASSUME UntouchedInv, PendingInv, EmbeddedInv
      PROVE  UntouchedInv' /\ PendingInv' /\ EmbeddedInv'
  <2>1. UntouchedInv'
    BY <1>1, <1>3, <1>4, <1>5, <1>9 DEF UntouchedInv, Touches, Keyed, Related
  <2>2. PendingInv'
    BY <1>1, <1>9 DEF PendingInv, Touches, Keyed, Related
  <2>3. ASSUME NEW e \in Items, Waits(e)'
        PROVE  Waits(e)
    <3>1. Current(i) \notin event[i].prim
      BY <1>1, <1>9 DEF UntouchedInv, Touches, Related
    <3>2. Current(e) \in event[e].prim /\ version[Current(e)].pending /\ Exists(e)
      BY <1>1, <1>5, <2>3 DEF Waits, Exists
    <3>3. e # i
      BY <3>1, <3>2
    <3>4. item'[e] = item[e] /\ item'[e].done = item'[e].hash
      BY <1>4, <2>3, <3>3 DEF Waits
    <3> QED BY <3>2, <3>4 DEF Waits
  <2>4. EmbeddedInv'
    <3> SUFFICES ASSUME NEW e \in Items, Waits(e)', ~event'[e].suppressed
                 PROVE  Superseded(event'[e], Current(e)')
      BY DEF EmbeddedInv, Superseded
    <3>1. Superseded(event[e], Current(e))
      BY <1>1, <1>9, <2>3 DEF EmbeddedInv
    <3>2. Current(e)' = Current(e)
      BY <1>5
    <3> QED BY <1>1, <3>1, <3>2
  <2> QED BY <2>1, <2>2, <2>4
<1> QED BY <1>6, <1>7, <1>8, <1>9 DEF OutageInv

\* Collection keeps the invariant: content that is new has left no trace.
LEMMA OutageCollect ==
  ASSUME SilenceInv, OutageInv, NEW i \in Items, NEW h \in Hashes, NEW status \in Statuses,
         CollectChange(i, h, status)
  PROVE  OutageInv'
<1> USE DEF SilenceInv
<1>1. version' = version /\ event' = event /\ recent' = Append(recent, <<i, h>>)
  BY DEF CollectChange
<1>2. PICK row : row = [item[i] EXCEPT !.hash = h, !.status = status]
  OBVIOUS
<1>3. row.hash = h /\ row.done = item[i].done /\ row \in ItemRow
  BY <1>2 DEF TypeInv, ItemRow
<1>4. item'[i].hash = h /\ item'[i].done = item[i].done
      /\ \A j \in Items \ {i} : item'[j] = item[j]
  <2>1. item' = [item EXCEPT ![i] = Marked(row, TRUE)]
    BY <1>2 DEF CollectChange
  <2>2. item'[i] = Marked(row, TRUE) /\ \A j \in Items \ {i} : item'[j] = item[j]
    BY <2>1 DEF TypeInv
  <2>3. Marked(row, TRUE).hash = row.hash /\ Marked(row, TRUE).done = row.done
    BY <1>3 DEF Marked, ItemRow
  <2> QED BY <1>3, <2>2, <2>3
<1>5. Current(i)' = <<i, h>> /\ \A j \in Items \ {i} : Current(j)' = Current(j)
  BY <1>4 DEF Current
<1>6. recent \in Seq(Versions) /\ <<i, h>> \in Versions
  BY DEF TypeInv, Versions
<1>7. /\ DOMAIN recent' = DOMAIN recent \cup {Len(recent) + 1}
      /\ \A n \in DOMAIN recent : recent'[n] = recent[n] /\ n # Len(recent) + 1
      /\ recent'[Len(recent) + 1] = <<i, h>>
  BY <1>1, <1>6
<1>8. \A v : Fetched(v) => Fetched(v)'
  BY <1>7 DEF Fetched
<1>9. Fetched(<<i, h>>)'
  BY <1>7 DEF Fetched
<1>10. \A j \in Items : item'[j].done = item[j].done
  BY <1>4
<1>11. FetchedInv'
  <2>1. \A e \in Items : \A v \in Versions : Touches(v, event'[e]) => Fetched(v)'
    BY <1>1, <1>8 DEF OutageInv, FetchedInv
  <2>2. \A v \in Versions : version'[v].pending => Fetched(v)'
    BY <1>1, <1>8 DEF OutageInv, FetchedInv
  <2>3. \A j \in Items : item'[j].hash # None => Fetched(Current(j))'
    <3>1. Fetched(Current(i))'
      BY <1>5, <1>9 DEF Fetched
    <3>2. \A j \in Items \ {i} : item'[j].hash # None => Fetched(Current(j))'
      <4> SUFFICES ASSUME NEW j \in Items \ {i}, item'[j].hash # None
                   PROVE  Fetched(Current(j))'
        OBVIOUS
      <4>1. Fetched(Current(j))
        BY <1>4 DEF OutageInv, FetchedInv
      <4>2. PICK v : v = Current(j)
        OBVIOUS
      <4> QED BY <1>5, <1>8, <4>1, <4>2 DEF Fetched
    <3> QED BY <3>1, <3>2
  <2>4. \A j \in Items : item'[j].done # None => Fetched(<<j, item[j].done>>)'
    <3> SUFFICES ASSUME NEW j \in Items, item'[j].done # None
                 PROVE  Fetched(<<j, item[j].done>>)'
      OBVIOUS
    <3>1. PICK v : v = <<j, item[j].done>>
      OBVIOUS
    <3>2. Fetched(v) /\ item'[j].done = item[j].done
      BY <1>10, <3>1 DEF OutageInv, FetchedInv
    <3> QED BY <1>8, <3>1, <3>2 DEF Fetched
  <2> QED BY <1>10, <2>1, <2>2, <2>3, <2>4 DEF FetchedInv, Touches, Keyed, Related, Fetched
<1>12. PrimaryInv'
  BY <1>1 DEF OutageInv, PrimaryInv, Exists
<1>13. ASSUME NothingReturned'
       PROVE  UntouchedInv' /\ PendingInv' /\ EmbeddedInv'
  <2>1. NothingReturned
    BY <1>7, <1>13 DEF NothingReturned
  <2>2. ~Fetched(<<i, h>>)
    BY <1>7, <1>13 DEF NothingReturned, Fetched
  <2>3. UntouchedInv /\ PendingInv /\ EmbeddedInv
    BY <2>1 DEF OutageInv
  <2>4. UntouchedInv'
    <3>1. /\ ~version[<<i, h>>].pending
          /\ \A e \in Items : ~Touches(<<i, h>>, event[e])
      BY <1>6, <2>2 DEF OutageInv, FetchedInv
    <3>2. \A j \in Items \ {i} :
            item'[j].hash # None /\ item'[j].done # item'[j].hash =>
              /\ ~version[Current(j)].pending
              /\ \A e \in Items : ~Touches(Current(j), event[e])
      BY <1>4, <2>3 DEF UntouchedInv
    <3>3. \A v : \A e \in Items : Touches(v, event[e])' = Touches(v, event[e])
      BY <1>1
    <3>4. ASSUME NEW j \in Items, item'[j].hash # None, item'[j].done # item'[j].hash
          PROVE  /\ ~version'[Current(j)'].pending
                 /\ \A e \in Items : ~Touches(Current(j)', event'[e])
      <4>1. CASE j = i
        BY <1>1, <1>5, <3>1, <4>1
      <4>2. CASE j # i
        BY <1>1, <1>5, <3>2, <3>4, <4>2
      <4> QED BY <4>1, <4>2
    <3> QED BY <3>4 DEF UntouchedInv, Touches, Keyed, Related
  <2>5. PendingInv'
    BY <1>1, <2>3 DEF PendingInv, Touches, Keyed, Related
  <2>6. ASSUME NEW e \in Items, Waits(e)'
        PROVE  Waits(e) /\ Current(e)' = Current(e)
    <3>1. CASE e = i
      <4>1. item[i].done = h /\ h # None
        BY <1>4, <2>6, <3>1, LedgerAssumption DEF Waits, LedgerAssumption
      <4> QED BY <2>2, <4>1 DEF OutageInv, FetchedInv
    <3>2. CASE e # i
      <4>1. Current(e)' = Current(e) /\ item'[e] = item[e]
        BY <1>4, <1>5, <3>2
      <4> QED BY <1>1, <2>6, <4>1 DEF Waits, Exists
    <3> QED BY <3>1, <3>2
  <2>7. EmbeddedInv'
    BY <1>1, <2>3, <2>6 DEF EmbeddedInv, Superseded
  <2> QED BY <2>4, <2>5, <2>7
<1> QED BY <1>11, <1>12, <1>13 DEF OutageInv

\* An event that borrows a primary version does so after a recovery.
LEMMA PrimaryRecover ==
  ASSUME SilenceInv, Steps, PrimaryInv, NEW i \in Items, Current(i)[1] = i,
         NEW e \in Owners(Current(i)), NEW to \in Items,
         Merges(i, e, to) \/ Releases(i, e) \/ event' = event
  PROVE  PrimaryInv'
<1> USE DEF SilenceInv
<1>1. e \in Items /\ Exists(e) /\ Current(i) \in event[e].prim
  BY DEF Owners
<1>2. ASSUME NEW d \in Items, Exists(d), event[d].root # d
      PROVE  Exists(d)' /\ event'[d].root # d
  BY <1>2, DuplicateStays DEF Exists
<1>3. ASSUME NEW d \in Items, event'[d].prim = event[d].prim, event'[d].url = event[d].url,
             NEW w \in event'[d].prim, w[1] # d
      PROVE  /\ event'[d].url # d /\ \A y \in event'[d].prim : y[1] # d
             /\ Exists(w[1])' /\ event'[w[1]].root # w[1]
  <2>1. w[1] \in Items
    <3>1. w \in Versions
      BY <1>3 DEF TypeInv, Filled, EventRow
    <3> QED BY <3>1 DEF Versions
  <2> QED BY <1>2, <1>3, <2>1 DEF PrimaryInv
<1>4. CASE Merges(i, e, to)
  <2>1. event[e].url # to
    BY <1>1, <1>4, UrlIsBelow DEF Merges
  <2>2. Exists(i)' /\ event'[i].root # i /\ i # to
    <3>1. CASE i = e
      <4>1. to # None
        BY LedgerAssumption DEF LedgerAssumption
      <4> QED BY <1>4, <3>1, <4>1 DEF Merges, Exists
    <3>2. CASE i # e
      <4>1. Exists(i) /\ event[i].root # i
        BY <1>1, <3>2 DEF PrimaryInv
      <4> QED BY <1>2, <1>4, <4>1 DEF Merges, IsRoot
    <3> QED BY <3>1, <3>2
  <2>3. ASSUME NEW w \in event'[to].prim, w[1] # to
        PROVE  /\ event'[to].url # to /\ \A y \in event'[to].prim : y[1] # to
               /\ Exists(w[1])' /\ event'[w[1]].root # w[1]
    <3>1. PICK c : c = event[to]
      OBVIOUS
    <3>2. PICK u : u = event'[to]
      OBVIOUS
    <3>3. PICK s : s = event[e]
      OBVIOUS
    <3>4. PICK v : v = Current(i)
      OBVIOUS
    <3>5. PICK suppress : suppress = (item[i].arch \/ item[i].before)
      OBVIOUS
    <3>6. Gains(c, u, s, v, s.verif, suppress) /\ s.url # to /\ v[1] # to
      BY <1>4, <2>1, <2>2, <3>1, <3>2, <3>3, <3>4, <3>5 DEF Merges
    <3>7. \A y \in c.prim : y[1] # to => c.url # to /\ \A z \in c.prim : z[1] # to
      BY <3>1 DEF PrimaryInv
    <3>8. \A y \in u.prim : y[1] # to => u.url # to /\ \A z \in u.prim : z[1] # to
      BY <3>6, <3>7, PrimaryGains
    <3>9. w \in c.prim \/ w = v
      BY <2>3, <3>2, <3>6 DEF Gains
    <3>10. CASE w \in c.prim
      <4>1. Exists(w[1]) /\ event[w[1]].root # w[1]
        BY <2>3, <3>1, <3>10 DEF PrimaryInv
      <4>2. w[1] \in Items
        <5>1. w \in Versions
          BY <3>1, <3>10 DEF TypeInv, Filled, EventRow
        <5> QED BY <5>1 DEF Versions
      <4> QED BY <1>2, <2>3, <3>2, <3>8, <4>1, <4>2
    <3>11. CASE w = v
      BY <2>2, <2>3, <3>2, <3>4, <3>8, <3>11
    <3> QED BY <3>9, <3>10, <3>11
  <2>4. \A d \in Items \ {to} : event'[d].prim = event[d].prim /\ event'[d].url = event[d].url
    BY <1>4 DEF Merges, SameEvidence
  <2> QED BY <1>3, <2>3, <2>4 DEF PrimaryInv, Exists
<1>5. CASE Releases(i, e) \/ event' = event
  <2>1. \A d \in Items : event'[d].prim = event[d].prim /\ event'[d].url = event[d].url
    BY <1>5 DEF Releases, SameEvidence
  <2> QED BY <1>3, <2>1 DEF PrimaryInv, Exists
<1> QED BY <1>4, <1>5

\* What has recovered is not released before its own content is embedded.
LEMMA EmbeddedRecover ==
  ASSUME SilenceInv, PrimaryInv, PendingInv, EmbeddedInv, NEW i \in Items,
         Current(i)[1] = i, Current(i) \in Versions, version[Current(i)].pending,
         NEW e \in Owners(Current(i)), NEW to \in Items,
         Merges(i, e, to) \/ Releases(i, e) \/ event' = event,
         ~version'[Current(i)].pending,
         \A v \in Versions : v # Current(i) => version'[v] = version[v],
         \A j \in Items : /\ item'[j].hash = item[j].hash
                          /\ item'[j].done = item[j].done
  PROVE  EmbeddedInv'
<1> USE DEF SilenceInv
<1>1. e \in Items /\ Exists(e) /\ Current(i) \in event[e].prim
  BY DEF Owners
<1> SUFFICES ASSUME NEW d \in Items, Waits(d)', ~event'[d].suppressed
             PROVE  Superseded(event'[d], Current(d)')
  BY DEF EmbeddedInv, Superseded
<1>2. Current(d)' = Current(d)
  BY DEF Current
<1>3. Filled(event'[d]) \/ event'[d] = event[d]
  BY DEF Merges, Releases, SameEvidence, Gains
<1>4. Current(d) \in event'[d].prim /\ version'[Current(d)].pending
      /\ item[d].done = item[d].hash
  BY <1>2 DEF Waits
<1>5. Current(d) \in Versions
  BY <1>3, <1>4 DEF TypeInv, Filled, EventRow
<1>6. d # i /\ version[Current(d)].pending
  BY <1>4, <1>5
<1>7. CASE event'[d] = event[d]
  <2>1. Waits(d)
    BY <1>4, <1>6, <1>7 DEF Waits, Exists
  <2> QED BY <1>2, <1>7, <2>1 DEF EmbeddedInv
<1>8. CASE Merges(i, e, to) /\ d = to
  <2>1. i # to
    <3>1. CASE i = e
      BY <1>8, <3>1 DEF Merges
    <3>2. CASE i # e
      BY <1>1, <1>8, <3>2 DEF PrimaryInv, Merges, IsRoot
    <3> QED BY <3>1, <3>2
  <2>2. ~Keyed(Current(i), event[to])
    <3>1. Touches(Current(i), event[to]) => event[i].root = to
      BY <2>1 DEF PendingInv
    <3>2. CASE i = e
      BY <1>8, <3>1, <3>2 DEF Merges, IsRoot, Touches
    <3>3. CASE i # e
      <4>1. Touches(Current(i), event[e])
        BY <1>1 DEF Touches, Related
      <4>2. event[i].root = e
        BY <1>1, <3>3, <4>1 DEF PendingInv
      <4> QED BY <1>8, <3>1, <4>2 DEF Merges, Touches
    <3> QED BY <3>2, <3>3
  <2>3. PICK s : s = event[e]
    OBVIOUS
  <2>4. PICK v : v = Current(i)
    OBVIOUS
  <2>5. PICK suppress : suppress = (item[i].arch \/ item[i].before)
    OBVIOUS
  <2>6. Gains(event[d], event'[d], s, v, s.verif, suppress)
    BY <1>8, <2>3, <2>4, <2>5 DEF Merges
  <2>7. Superseded(event'[d], Current(d))
    BY <1>6, <1>8, <2>1, <2>2, <2>4, <2>6, WaitsGained
  <2> QED BY <1>2, <2>7
<1>9. CASE Merges(i, e, to) /\ d = e
  BY <1>9 DEF Merges
<1>10. CASE Releases(i, e) /\ d = e
  <2>1. Current(d)[1] = d /\ Current(d) \in event[e].prim
    BY <1>4, <1>10 DEF Current, Releases, SameEvidence
  <2> QED BY <1>1, <1>6, <1>10, <2>1 DEF PrimaryInv
<1> QED BY <1>7, <1>8, <1>9, <1>10 DEF Merges, Releases

\* Recovering a version keeps the invariant.
LEMMA OutageRecover ==
  ASSUME SilenceInv, Steps, OutageInv, NEW i \in Items, Recover(i)
  PROVE  OutageInv'
<1> USE DEF SilenceInv
<1>1. item[i].hash # None /\ version[Current(i)].pending /\ recent' = recent
  BY DEF Recover, Recoverable
<1>2. Current(i) \in Versions /\ Current(i)[1] = i
  BY <1>1, CurrentFact
<1>3. /\ ~version'[Current(i)].pending
      /\ \A v \in Versions : v # Current(i) => version'[v] = version[v]
  <2>1. version' = [version EXCEPT ![Current(i)] = [space |-> "remote", pending |-> FALSE]]
    BY DEF Recover
  <2> QED BY <1>2, <2>1 DEF TypeInv
<1>4. \A j \in Items : /\ item'[j].hash = item[j].hash
                       /\ item'[j].done = item[j].done
  BY RecoverItem
<1>5. \A j \in Items : Current(j)' = Current(j)
  BY <1>4 DEF Current
<1>6. NothingReturned' = NothingReturned
  BY <1>1 DEF NothingReturned
<1>7. \A v \in Versions : version'[v].pending => version[v].pending
  BY <1>3
<1>8. CASE event' = event
  <2>1. FetchedInv'
    BY <1>1, <1>4, <1>7, <1>8, FetchedKept DEF OutageInv
  <2>2. PrimaryInv'
    BY <1>8 DEF OutageInv, PrimaryInv, Exists
  <2>3. ASSUME UntouchedInv, PendingInv, EmbeddedInv
        PROVE  UntouchedInv' /\ PendingInv' /\ EmbeddedInv'
    <3>1. UntouchedInv'
      <4> SUFFICES ASSUME NEW j \in Items, item[j].hash # None, item[j].done # item[j].hash
                   PROVE  /\ ~version'[Current(j)].pending
                          /\ \A d \in Items : ~Touches(Current(j), event'[d])
        BY <1>4, <1>5 DEF UntouchedInv, Touches, Keyed, Related
      <4>1. Current(j) \in Versions
        BY CurrentFact
      <4> QED BY <1>7, <1>8, <2>3, <4>1 DEF UntouchedInv
    <3>2. PendingInv'
      BY <1>7, <1>8, <2>3 DEF PendingInv, Touches, Keyed, Related
    <3>3. ASSUME NEW d \in Items, Waits(d)'
          PROVE  Waits(d)
      <4>1. Current(d) \in event[d].prim /\ version'[Current(d)].pending
        BY <1>5, <1>8, <3>3 DEF Waits
      <4>2. Current(d) \in Versions
        BY <4>1 DEF TypeInv, Filled, EventRow
      <4> QED BY <1>4, <1>7, <1>8, <3>3, <4>1, <4>2 DEF Waits, Exists
    <3>4. EmbeddedInv'
      BY <1>5, <1>8, <2>3, <3>3 DEF EmbeddedInv, Superseded
    <3> QED BY <3>1, <3>2, <3>4
  <2> QED BY <1>6, <2>1, <2>2, <2>3 DEF OutageInv
<1>9. ASSUME NEW e \in Owners(Current(i)), NEW to \in Items, RecoverRoot(i, e, to)
      PROVE  OutageInv'
  <2>1. Merges(i, e, to) \/ Releases(i, e) \/ event' = event
    BY <1>1, <1>9, RecoverShape
  <2>2. e \in Items
    BY DEF Owners
  <2>3. \A k \in Items : \A w \in Versions :
          Touches(w, event'[k]) => Touches(w, event[k]) \/ (w = Current(i) /\ Merges(i, e, to) /\ k = to)
    BY <2>1, <2>2, RecoverTouches
  <2>4. FetchedInv'
    BY <1>1, <1>4, <1>7, <2>3, FetchedKept DEF OutageInv
  <2>5. PrimaryInv'
    BY <1>2, <2>1, PrimaryRecover DEF OutageInv
  <2>6. ASSUME UntouchedInv, PendingInv, EmbeddedInv
        PROVE  UntouchedInv' /\ PendingInv' /\ EmbeddedInv'
    <3>1. UntouchedInv'
      <4> SUFFICES ASSUME NEW j \in Items, item[j].hash # None, item[j].done # item[j].hash
                   PROVE  /\ ~version'[Current(j)].pending
                          /\ \A d \in Items : ~Touches(Current(j), event'[d])
        BY <1>4, <1>5 DEF UntouchedInv, Touches, Keyed, Related
      <4>1. Current(j) \in Versions /\ ~version[Current(j)].pending
            /\ \A d \in Items : ~Touches(Current(j), event[d])
        BY <2>6, CurrentFact DEF UntouchedInv
      <4> QED BY <1>1, <1>7, <2>3, <4>1
    <3>2. PendingInv'
      <4> SUFFICES ASSUME NEW v \in Versions, NEW k \in Items, version'[v].pending,
                          Touches(v, event'[k]), k # v[1]
                   PROVE  event'[v[1]].root = k
        BY DEF PendingInv, Touches, Keyed, Related
      <4>1. version[v].pending /\ Touches(v, event[k]) /\ v[1] \in Items
        BY <1>3, <2>3 DEF Versions
      <4>2. event[v[1]].root = k
        BY <2>6, <4>1 DEF PendingInv
      <4>3. k # None
        BY LedgerAssumption DEF LedgerAssumption
      <4> QED BY <4>1, <4>2, <4>3, DuplicateStays DEF Exists
    <3>3. EmbeddedInv'
      BY <1>1, <1>2, <1>3, <1>4, <2>1, <2>6, EmbeddedRecover DEF OutageInv
    <3> QED BY <3>1, <3>2, <3>3
  <2> QED BY <1>6, <2>4, <2>5, <2>6 DEF OutageInv
<1> QED BY <1>8, <1>9 DEF Recover, RecoverAlone, RecoverDuplicate

\* Every step keeps the invariant.
LEMMA OutageStep ==
  ASSUME SilenceInv, OutageInv, [Next]_vars
  PROVE  OutageInv'
<1>1. Steps
  BY NextSteps DEF SilenceInv
<1>2. ASSUME /\ \A j \in Items : /\ item'[j].hash = item[j].hash
                                 /\ item'[j].done = item[j].done
             /\ version' = version /\ recent' = recent /\ event' = event
      PROVE  OutageInv'
  <2>1. \A j \in Items : Current(j)' = Current(j)
    BY <1>2 DEF Current
  <2>2. NothingReturned' = NothingReturned
    BY <1>2 DEF NothingReturned
  <2>3. FetchedInv'
    <3>1. \A v : Fetched(v)' = Fetched(v)
      BY <1>2 DEF Fetched
    <3>2. \A j \in Items : /\ item'[j].hash # None => Fetched(Current(j))
                           /\ item'[j].done # None => Fetched(<<j, item[j].done>>)
      BY <1>2 DEF OutageInv, FetchedInv
    <3> QED BY <1>2, <2>1, <3>1, <3>2 DEF OutageInv, FetchedInv, Touches, Keyed, Related, Fetched
  <2>4. PrimaryInv'
    BY <1>2 DEF OutageInv, PrimaryInv, Exists
  <2>5. UntouchedInv => UntouchedInv'
    BY <1>2, <2>1 DEF UntouchedInv, Touches, Keyed, Related
  <2>6. PendingInv => PendingInv'
    BY <1>2 DEF PendingInv, Touches, Keyed, Related
  <2>7. \A e \in Items : Waits(e)' = Waits(e)
    BY <1>2, <2>1 DEF Waits, Exists
  <2>8. EmbeddedInv => EmbeddedInv'
    BY <1>2, <2>1, <2>7 DEF EmbeddedInv, Superseded
  <2> QED BY <2>2, <2>3, <2>4, <2>5, <2>6, <2>8 DEF OutageInv
<1>3. ASSUME NEW i \in Items, CollectUnchanged(i)
      PROVE  OutageInv'
  <2>1. /\ version' = version /\ recent' = recent /\ event' = event
        /\ item' = [item EXCEPT ![i] = Marked(item[i], FALSE)]
    BY <1>3 DEF CollectUnchanged
  <2>2. /\ Marked(item[i], FALSE).hash = item[i].hash
        /\ Marked(item[i], FALSE).done = item[i].done
    <3>1. item[i] \in ItemRow
      BY DEF SilenceInv, TypeInv
    <3> QED BY <3>1 DEF Marked, ItemRow
  <2>3. \A j \in Items : /\ item'[j].hash = item[j].hash
                         /\ item'[j].done = item[j].done
    BY <2>1, <2>2 DEF SilenceInv, TypeInv
  <2> QED BY <1>2, <2>1, <2>3
<1>4. (UNCHANGED <<item, version, recent, event>>) => OutageInv'
  BY <1>2
<1>5. \A i \in Items : RecoverFail(i) => UNCHANGED <<item, version, recent, event>>
  BY DEF RecoverFail
<1>6. ComposeDigest \/ Close \/ ComposeAlert \/ NewDay
        => UNCHANGED <<item, version, recent, event>>
  BY DEF ComposeDigest, Close, ComposeAlert, NewDay
<1>7. BackfillStart \/ BackfillEnrich \/ BackfillDies \/ BackfillEnd
        => UNCHANGED <<item, version, recent, event>>
  BY DEF BackfillStart, BackfillEnrich, BackfillDies, BackfillEnd
<1>8. (UNCHANGED vars) => UNCHANGED <<item, version, recent, event>>
  BY DEF vars
<1>9. \A i \in Items : EnrichItem(i) => OutageInv'
  BY <1>1, OutageEnrich, OutageDiscard DEF EnrichItem
<1>10. \A i \in Items : Recover(i) => OutageInv'
  BY <1>1, OutageRecover
<1>11. \A i \in Items :
         (\E h \in Hashes, status \in Statuses : CollectChange(i, h, status)) => OutageInv'
  BY OutageCollect
<1> QED BY <1>3, <1>4, <1>5, <1>6, <1>7, <1>8, <1>9, <1>10, <1>11 DEF Next

\* Nothing has been fetched, nothing waits.
LEMMA OutageInit == Init => OutageInv
BY DEF Init, OutageInv, FetchedInv, PrimaryInv, UntouchedInv, PendingInv, EmbeddedInv, Waits,
       Touches, Keyed, Related, Exists, NoItem, NoEvent

\* A root is not released before the model has embedded what it shows
\* (recover_pending_embeddings, embedding_delivery_suppressed): for any items,
\* clusters, outages and backfills, until a content comes back, an event whose
\* card is its item's own current content has that content embedded.
THEOREM OwnCardsEmbedded == Spec => []OwnCardIsEmbedded
<1>1. Init => SilenceInv /\ OutageInv
  BY TypeInit, InitInv, RootInit, SilenceInit, OutageInit DEF SilenceInv
<1>2. SilenceInv /\ OutageInv /\ [Next]_vars => (SilenceInv /\ OutageInv)'
  BY SilenceStep, OutageStep
<1>3. SilenceInv /\ OutageInv => OwnCardIsEmbedded
  <2> SUFFICES ASSUME SilenceInv, OutageInv, NothingReturned, NEW e \in Items, Carded(e),
                      item[e].done = item[e].hash, Shown(e) = <<Current(e)>>,
                      Current(e) \in event[e].prim, version[Current(e)].pending
               PROVE  FALSE
    BY DEF OwnCardIsEmbedded
  <2>1. Waits(e) /\ ~event[e].suppressed
    BY DEF Waits, Carded
  <2>2. PICK n \in DOMAIN event[e].revs :
               /\ event[e].revs[n].status \in Deliverable
               /\ \A m \in DOMAIN event[e].revs : m >= n => event[e].revs[m].key # <<Current(e)>>
    BY <2>1 DEF OutageInv, EmbeddedInv, Superseded
  <2>3. Latest(e) \in DOMAIN event[e].revs /\ n <= Latest(e)
    BY <2>2, LatestIsLast DEF SilenceInv, Carded
  <2>4. Latest(e) >= n
    <3>1. event[e].revs \in Seq(Revision)
      BY DEF SilenceInv, TypeInv, Filled, EventRow
    <3>2. n \in Int /\ Latest(e) \in Int
      BY <2>3, <3>1
    <3> QED BY <2>3, <3>2
  <2> QED BY <2>2, <2>3, <2>4 DEF Shown
<1> QED BY <1>1, <1>2, <1>3, PTL DEF Spec
=============================================================================
