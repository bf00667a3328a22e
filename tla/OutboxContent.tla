--------------------------- MODULE OutboxContent ---------------------------
(***************************************************************************)
(* Proofs about module Outbox: what is mailed.  A receipt stands for the   *)
(* content the ledger lists, a review Draft is not mailed unless a live    *)
(* run took it over, and a row recorded as scheduled has a send time.      *)
(*                                                                         *)
(* The three arguments look at the same steps.  The first half of the      *)
(* module says once what a step does to the service's Drafts and to the    *)
(* rows (AskStep, SendStep, LookStep, LoadStep, ...), and the invariants   *)
(* of the second half are proved from that.                                *)
(***************************************************************************)
EXTENDS OutboxClaims

USE OutboxAssumption, BoundsAssumption

\* The one Draft a key ever has.
Home(k) == <<k, 0>>

-----------------------------------------------------------------------------
(* The service's Drafts.                                                   *)

\* A message shows the Draft it came from, which nothing changes any more.
MailShowsDraft ==
  /\ \A m \in mail : m.ver = draft[m.draft].ver /\ m.by = draft[m.draft].by
  /\ \A d \in DraftId : draft[d].st = "none" => ~draft[d].sched

\* What is written in a Draft stays as it is ...
KeptDraft(d) ==
  /\ draft'[d].sched = draft[d].sched /\ draft'[d].ver = draft[d].ver
  /\ draft'[d].by = draft[d].by
  /\ draft'[d].st = "none" <=> draft[d].st = "none"

\* ... or is what a request says, with the send time of the Draft if it has one.
WrittenBy(d, q) ==
  /\ q.draft = d /\ draft'[d].ver = q.ver /\ draft'[d].by = q.by /\ draft'[d].st # "none"
  /\ \/ q.op = "create" /\ draft[d].st = "none" /\ draft'[d].sched = q.sched
     \/ /\ q.op = "update" /\ draft[d].st # "none"
        /\ draft'[d].sched = (q.sched \/ draft[d].sched)

DraftSteps(q) == \A d \in DraftId : KeptDraft(d) \/ WrittenBy(d, q)

\* A Draft is sent: it keeps its content, and the message shows it.
LEMMA ConsumeDraft ==
  ASSUME MailInv, MailShowsDraft, NEW d \in DraftId, draft[d].st \in {"open", "sending"},
         Consume(d)
  PROVE  MailShowsDraft' /\ \A e \in DraftId : KeptDraft(e)
<1> DEFINE new == [draft |-> d, ver |-> draft[d].ver, by |-> draft[d].by]
<1>1. \A e \in DraftId :
        /\ draft'[e].sched = draft[e].sched /\ draft'[e].ver = draft[e].ver
        /\ draft'[e].by = draft[e].by
        /\ draft'[e].st = IF e = d THEN "gone" ELSE draft[e].st
  BY DEF Consume, MailInv, TypeInv, TypeOK, MailTypeOK, DraftRecord
<1>2. mail' = mail \cup {new} /\ new.draft = d /\ new.ver = draft[d].ver /\ new.by = draft[d].by
  BY DEF Consume
<1>3. \A m \in mail : m.draft \in DraftId
  BY DEF MailInv, TypeInv, TypeOK, MailTypeOK, Message
<1> HIDE DEF new
<1> QED
  BY <1>1, <1>2, <1>3 DEF MailShowsDraft, KeptDraft

\* What a request does when the service executes it.
LEMMA ExecuteDraft ==
  ASSUME MailInv, MailShowsDraft, NEW q \in Request, Execute(q)
  PROVE  MailShowsDraft' /\ DraftSteps(q)
<1> DEFINE d == q.draft
<1>0. d \in DraftId /\ q.sched \in BOOLEAN
  BY DEF Request
<1>a. \A m \in mail : m.draft \in DraftId /\ draft[m.draft].st = "gone"
  BY DEF MailInv, OneDraft, TypeInv, TypeOK, MailTypeOK, Message
<1>b. draft \in [DraftId -> DraftRecord]
  BY DEF MailInv, TypeInv, TypeOK, MailTypeOK
<1> HIDE DEF d
<1>1. CASE q.op = "create" /\ draft[d].st = "none" /\ UNCHANGED mail
           /\ draft' = [draft EXCEPT ![d] = [st |-> "open", sched |-> q.sched,
                                             ver |-> q.ver, by |-> q.by]]
  <2>1. /\ \A e \in DraftId \ {d} : draft'[e] = draft[e]
        /\ draft'[d].st = "open" /\ draft'[d].sched = q.sched /\ draft'[d].ver = q.ver
        /\ draft'[d].by = q.by
    BY <1>0, <1>1, <1>b
  <2>2. DraftSteps(q)
    BY <1>1, <2>1 DEF DraftSteps, KeptDraft, WrittenBy, d
  <2> QED
    BY <1>1, <1>a, <2>1, <2>2 DEF MailShowsDraft
<1>2. CASE q.op = "update" /\ draft[d].st = "open" /\ UNCHANGED mail
           /\ draft' = [draft EXCEPT ![d] = [st |-> "open", sched |-> q.sched \/ draft[d].sched,
                                             ver |-> q.ver, by |-> q.by]]
  <2>1. /\ \A e \in DraftId \ {d} : draft'[e] = draft[e]
        /\ draft'[d].st = "open" /\ draft'[d].sched = (q.sched \/ draft[d].sched)
        /\ draft'[d].ver = q.ver /\ draft'[d].by = q.by
    BY <1>0, <1>2, <1>b
  <2>2. DraftSteps(q)
    BY <1>2, <2>1 DEF DraftSteps, KeptDraft, WrittenBy, d
  <2> QED
    BY <1>2, <1>a, <2>1, <2>2 DEF MailShowsDraft
<1>3. CASE q.op = "send" /\ draft[d].st = "open" /\ Consume(d)
  BY <1>0, <1>3, ConsumeDraft DEF DraftSteps
<1>4. CASE UNCHANGED <<draft, mail>>
  BY <1>4 DEF MailShowsDraft, DraftSteps, KeptDraft
<1> QED
  BY <1>1, <1>2, <1>3, <1>4 DEF Execute, d

\* So for a call, however it turns out.
LEMMA CallDraft ==
  ASSUME MailInv, MailShowsDraft, NEW q \in Request, NEW answer, Call(q, answer)
  PROVE  /\ MailShowsDraft' /\ DraftSteps(q)
         /\ net' \subseteq net \cup {q}
         /\ answer = "ok" => net' = net
         /\ answer = "ok" /\ q.op = "create" /\ draft[q.draft].st = "none"
              => WrittenBy(q.draft, q)
         /\ answer = "ok" /\ q.op = "update" => WrittenBy(q.draft, q)
<1>1. CASE answer = "ok" /\ Accepts(q) /\ Execute(q) /\ UNCHANGED <<net, faults>>
  <2>1. MailShowsDraft' /\ DraftSteps(q) /\ net' = net
    BY <1>1, ExecuteDraft
  <2>2. q.draft \in DraftId /\ draft \in [DraftId -> DraftRecord]
    BY DEF Request, MailInv, TypeInv, TypeOK, MailTypeOK
  <2>3. q.op = "create" /\ draft[q.draft].st = "none" => WrittenBy(q.draft, q)
    BY <1>1, <2>2 DEF Execute, WrittenBy
  <2>4. q.op = "update" => WrittenBy(q.draft, q)
    BY <1>1, <2>2 DEF Accepts, Execute, WrittenBy
  <2> QED
    BY <2>1, <2>3, <2>4
<1>2. CASE answer # "ok" /\ Execute(q) /\ UNCHANGED net
  BY <1>2, ExecuteDraft
<1>3. CASE answer # "ok" /\ net' \subseteq net \cup {q} /\ UNCHANGED <<draft, mail>>
  BY <1>3 DEF MailShowsDraft, DraftSteps, KeptDraft
<1> QED
  BY <1>1, <1>2, <1>3 DEF Call, Refusals, mailVars

\* The service's own steps keep what is written in a Draft.
LEMMA ServiceDraft ==
  ASSUME MailInv, MailShowsDraft, TimedSends, NEW d \in DraftId,
         Fire(d) \/ FinishFire(d) \/ FailFire(d)
  PROVE  MailShowsDraft' /\ (\A e \in DraftId : KeptDraft(e)) /\ net' = net
<1>1. CASE FinishFire(d)
  BY <1>1, ConsumeDraft DEF FinishFire
<1>2. CASE Fire(d) \/ FailFire(d)
  <2>1. PICK s \in {"sending", "failed"} : draft' = [draft EXCEPT ![d].st = s]
    BY <1>2 DEF Fire, FailFire
  <2>2. \A e \in DraftId :
          /\ draft'[e].sched = draft[e].sched /\ draft'[e].ver = draft[e].ver
          /\ draft'[e].by = draft[e].by
          /\ draft'[e].st = IF e = d THEN s ELSE draft[e].st
    BY <2>1 DEF MailInv, TypeInv, TypeOK, MailTypeOK, DraftRecord
  <2>3. draft[d].st # "none" /\ mail' = mail /\ net' = net
    BY <1>2 DEF Fire, FailFire
  <2>4. \A m \in mail : m.draft \in DraftId
    BY DEF MailInv, TypeInv, TypeOK, MailTypeOK, Message
  <2> QED
    BY <2>2, <2>3, <2>4 DEF MailShowsDraft, KeptDraft
<1> QED
  BY <1>1, <1>2

-----------------------------------------------------------------------------
(* The rows.                                                               *)

\* A row knows no Draft but the one of its key.
HomeDrafts == \A k \in Key : {row[k].draft, sess[k].draft} \subseteq {None, Home(k)}

\* Two rows agree in everything but the state.
SameButState(r, s) ==
  /\ r.draft = s.draft /\ r.msg = s.msg /\ r.shadow = s.shadow
  /\ r.sendmode = s.sendmode /\ r.ver = s.ver

\* A copy the job has not changed differs from its row in the state at most,
\* which a webhook may have moved.
Copies == \A k \in Key \ dirty : sess[k].state # "absent" => SameButState(sess[k], row[k])

\* What a session still takes for pending nobody has claimed; what is absent
\* has no Draft.
Fresh == \A k \in Key :
  /\ sess[k].state = "pending" => row[k].state \in {"absent", "pending"}
  /\ row[k].state = "absent" => row[k].draft = None
  /\ sess[k].state = "absent" => sess[k].draft = None

HomeInv == ClaimInv /\ MailShowsDraft /\ HomeDrafts /\ Copies /\ Fresh

\* A job leaves r as its copy of the row it has in hand.
Leaves(k, r) ==
  /\ sess' = [sess EXCEPT ![k] = r]
  /\ \/ row' = row /\ dirty' = dirty \cup {k}
     \/ /\ row' = [j \in Key |-> IF j = k THEN r ELSE Stored(j)]
        /\ dirty' = {} /\ r.state = "sending"
  /\ job'.cmd = job.cmd /\ job'.past = job.past /\ job'.at \in {None, k}

\* deliver_outbox asks for the Draft of a pending row.
AskStep(k, r, q, answer) ==
  /\ Call(q, answer) /\ q \in Request
  /\ q.op = (IF sess[k].draft = None THEN "create" ELSE "update")
  /\ q.draft = Home(k) /\ q.ver = sess[k].ver /\ q.by = mode
  /\ sess[k].state = "pending"
  /\ r.draft = (IF answer = "ok" THEN Home(k) ELSE sess[k].draft)
  /\ \/ /\ mode = "shadow" /\ q.sched = FALSE
        /\ r.state = "draft" /\ r.sendmode = "shadow" /\ job'.at = None
     \/ /\ mode = "live" /\ q.sched = Scheduled(k) /\ r.shadow = sess[k].shadow
        /\ r.sendmode = (IF Scheduled(k) THEN "scheduled" ELSE "immediate")
        /\ \/ answer = "ok" /\ r.state = IF Scheduled(k) THEN "scheduled" ELSE "sending"
           \/ answer \in {"timeout", "retryable", "fatal"} /\ r.state = AfterDraftError(answer)

\* A claimed row is sent.
SendStep(k, r) ==
  /\ job.at = k /\ job'.at = None /\ sess[k].state = "sending"
  /\ SendCall(k) \in Request /\ SendCall(k).draft = Home(k) /\ SendCall(k).op = "send"
  /\ \E answer : Call(SendCall(k), answer)
  /\ r.draft = sess[k].draft /\ r.shadow = sess[k].shadow /\ r.sendmode = sess[k].sendmode
  /\ r.state \in Receipts \cup {"unknown", "failed"}

\* reconcile_drafts takes over what it finds.
LookStep(k, r) ==
  /\ UNCHANGED <<draft, mail, net>>
  /\ sess[k].state \in {"scheduled", "sending", "unknown"}
  /\ r.draft \in {sess[k].draft, Home(k)}
  /\ r.shadow = sess[k].shadow /\ r.sendmode = sess[k].sendmode
  /\ r.state \in Receipts \cup {"draft", "failed", "sending", "scheduled", "unknown"}
  /\ r.state = "draft" => sess[k].shadow
  /\ r.state = "scheduled" =>
       /\ r.draft = Home(k) /\ draft[Home(k)].st # "none"
       /\ draft[Home(k)].sched \/ SendMode(k) # "immediate"
  /\ job'.at = k => SendMode(k) = "immediate"

RowStep(k, r) ==
  /\ r.ver = sess[k].ver /\ UNCHANGED envVars /\ Leaves(k, r) /\ job.cmd # "idle"
  /\ (\E q, answer : AskStep(k, r, q, answer)) \/ SendStep(k, r) \/ LookStep(k, r)

LEMMA LeavesFacts ==
  ASSUME MailInv, NEW k \in Key, NEW r \in Row,
         \/ Write(k, r) /\ Done(k)
         \/ WriteAndCommit(k, r) /\ Claim(k) /\ r.state = "sending"
  PROVE  /\ Leaves(k, r)
         /\ Write(k, r) /\ Done(k) => job'.at = None
         /\ WriteAndCommit(k, r) /\ Claim(k) => job'.at = k
BY DEF Leaves, Write, WriteAndCommit, Done, Claim, MailInv, TypeInv, TypeOK, Job

\* A review.
LEMMA ShadowStep ==
  ASSUME HomeInv, NEW k \in Key, DeliverShadow(k)
  PROVE  \E r \in Row : RowStep(k, r)
<1>a. MailInv /\ sess[k] \in Row /\ None # Home(k)
  BY Basics DEF HomeInv, ClaimInv, MailInv, TypeInv, TypeOK, Home, ClientId
<1> DEFINE r == [sess[k] EXCEPT !.state = "draft", !.shadow = TRUE, !.sendmode = "shadow"]
           q == DraftCall(r, k, "shadow", FALSE)
<1>1. r \in Row /\ r.state = "draft" /\ r.sendmode = "shadow" /\ r.ver = sess[k].ver
      /\ r.draft = sess[k].draft
  BY <1>a, ShadowRow DEF Row
<1>2. Delivering(k) /\ mode = "shadow" /\ Done(k) /\ UNCHANGED envVars
  BY DEF DeliverShadow
<1>3. sess[k].draft \in {None, Home(k)}
  BY DEF HomeInv, HomeDrafts
<1> HIDE DEF r
<1>4. q \in Request /\ q.draft \in DraftId
  BY <1>1, DraftCallType DEF Writers
<1>5. /\ q.op = (IF sess[k].draft = None THEN "create" ELSE "update")
      /\ q.draft = Home(k) /\ q.ver = sess[k].ver /\ q.by = "shadow" /\ q.sched = FALSE
  BY <1>1, <1>3 DEF DraftCall, ClientId, Home
<1> HIDE DEF q
<1> DEFINE x == [r EXCEPT !.draft = q.draft]
<1>6. x \in Row /\ x.state = "draft" /\ x.sendmode = "shadow" /\ x.ver = r.ver /\ x.draft = q.draft
  BY <1>1, <1>4 DEF Row
<1> HIDE DEF x
<1>7. PICK answer : Call(q, answer) /\ Write(k, IF answer = "ok" THEN x ELSE r)
  BY DEF DeliverShadow, q, r, x
<1> DEFINE y == IF answer = "ok" THEN x ELSE r
<1>8. y \in Row /\ y.state = "draft" /\ y.sendmode = "shadow" /\ y.ver = sess[k].ver
      /\ y.draft = IF answer = "ok" THEN Home(k) ELSE sess[k].draft
  BY <1>1, <1>5, <1>6
<1>9. Write(k, y)
  BY <1>7
<1> HIDE DEF y
<1>10. Leaves(k, y) /\ job'.at = None
  BY <1>a, <1>2, <1>8, <1>9, LeavesFacts
<1>11. sess[k].state = "pending" /\ job.cmd # "idle"
  BY <1>2, PendingRow DEF HomeInv
<1>12. AskStep(k, y, q, answer)
  BY <1>2, <1>4, <1>5, <1>7, <1>8, <1>10, <1>11 DEF AskStep
<1> QED
  BY <1>2, <1>8, <1>10, <1>11, <1>12 DEF RowStep

\* A live delivery: a Draft with its send time, a claim, or a failed call.
LEMMA LiveStep ==
  ASSUME HomeInv, NEW k \in Key,
         DeliverScheduled(k) \/ DeliverClaim(k) \/ DeliverDraftError(k)
  PROVE  \E r \in Row : RowStep(k, r)
<1>a. MailInv /\ TypeOK /\ sess[k] \in Row /\ None # Home(k)
  BY Basics DEF HomeInv, ClaimInv, MailInv, TypeInv, TypeOK, Home, ClientId
<1> DEFINE q == LiveCall(k)
           l == LiveRow(k)
<1>b. Delivering(k) /\ mode = "live" /\ UNCHANGED envVars
  BY DEF DeliverScheduled, DeliverClaim, DeliverDraftError
<1>c. sess[k].state = "pending" /\ job.cmd # "idle"
  BY <1>b, PendingRow DEF HomeInv
<1>d. sess[k].draft \in {None, Home(k)}
  BY DEF HomeInv, HomeDrafts
<1>e. l \in Row /\ q \in Request /\ q.draft \in DraftId
  BY <1>a, LiveType
<1>f. /\ l.draft = sess[k].draft /\ l.ver = sess[k].ver /\ l.shadow = sess[k].shadow
      /\ l.sendmode = IF Scheduled(k) THEN "scheduled" ELSE "immediate"
  <2> DEFINE n == IF sess[k].attempts < MaxAttempts THEN sess[k].attempts + 1
                  ELSE sess[k].attempts
             m == IF Scheduled(k) THEN "scheduled" ELSE "immediate"
             x == Counted(sess[k])
  <2>1. x = [sess[k] EXCEPT !.attempts = n] /\ x \in Row
    BY <1>a, CountedType DEF Counted
  <2> HIDE DEF n
  <2>2. x.ver = sess[k].ver /\ x.shadow = sess[k].shadow
    BY <1>a, <2>1 DEF Row
  <2>3. l = [x EXCEPT !.sendmode = m]
    BY DEF LiveRow
  <2> HIDE DEF m, x, l
  <2>4. l.ver = x.ver /\ l.shadow = x.shadow
    BY <2>1, <2>3 DEF Row
  <2> QED
    BY <1>a, <2>2, <2>4, LiveFields DEF l
<1>g. /\ q.op = (IF sess[k].draft = None THEN "create" ELSE "update")
      /\ q.draft = Home(k) /\ q.ver = sess[k].ver /\ q.by = "live" /\ q.sched = Scheduled(k)
  BY <1>d, <1>f DEF LiveCall, DraftCall, ClientId, Home
<1> HIDE DEF q, l
<1> SUFFICES \E r \in Row : \E answer : /\ Call(q, answer) /\ Leaves(k, r) /\ r.ver = l.ver
               /\ r.draft = (IF answer = "ok" THEN Home(k) ELSE l.draft)
               /\ r.shadow = l.shadow /\ r.sendmode = l.sendmode
               /\ \/ answer = "ok" /\ r.state = IF Scheduled(k) THEN "scheduled" ELSE "sending"
                  \/ answer \in {"timeout", "retryable", "fatal"}
                     /\ r.state = AfterDraftError(answer)
  BY <1>b, <1>c, <1>e, <1>f, <1>g DEF RowStep, AskStep
<1>1. CASE DeliverScheduled(k)
  <2> DEFINE r == [l EXCEPT !.draft = q.draft, !.state = "scheduled"]
  <2>1. Scheduled(k) /\ Call(q, "ok") /\ Write(k, r) /\ Done(k)
    BY <1>1 DEF DeliverScheduled, q, l
  <2>2. r \in Row /\ r.draft = q.draft /\ r.state = "scheduled" /\ r.ver = l.ver
        /\ r.shadow = l.shadow /\ r.sendmode = l.sendmode
    BY <1>e, StateTypes DEF Row
  <2> HIDE DEF r
  <2>3. Leaves(k, r)
    BY <1>a, <2>1, <2>2, LeavesFacts
  <2> QED
    BY <1>g, <2>1, <2>2, <2>3
<1>2. CASE DeliverClaim(k)
  <2> DEFINE r == [l EXCEPT !.draft = q.draft, !.state = "sending"]
  <2>1. ~Scheduled(k) /\ Call(q, "ok") /\ WriteAndCommit(k, r) /\ Claim(k)
    BY <1>2 DEF DeliverClaim, q, l
  <2>2. r \in Row /\ r.draft = q.draft /\ r.state = "sending" /\ r.ver = l.ver
        /\ r.shadow = l.shadow /\ r.sendmode = l.sendmode
    BY <1>e, StateTypes DEF Row
  <2> HIDE DEF r
  <2>3. Leaves(k, r)
    BY <1>a, <2>1, <2>2, LeavesFacts
  <2> QED
    BY <1>g, <2>1, <2>2, <2>3
<1>3. CASE DeliverDraftError(k)
  <2>1. PICK answer \in {"timeout", "retryable", "fatal"} :
          /\ Call(q, answer)
          /\ Write(k, [l EXCEPT !.state = AfterDraftError(answer)])
    BY <1>3 DEF DeliverDraftError, q, l
  <2> DEFINE s == AfterDraftError(answer)
             r == [l EXCEPT !.state = s]
  <2>2. s \in States
    BY StateTypes DEF AfterDraftError
  <2> HIDE DEF s
  <2>3. r \in Row /\ r.draft = l.draft /\ r.state = s /\ r.ver = l.ver
        /\ r.shadow = l.shadow /\ r.sendmode = l.sendmode
    BY <1>e, <2>2 DEF Row
  <2>4. Write(k, r) /\ Done(k)
    BY <1>3, <2>1 DEF DeliverDraftError, s
  <2> HIDE DEF r
  <2>5. Leaves(k, r)
    BY <1>a, <2>3, <2>4, LeavesFacts
  <2>6. answer # "ok"
    BY <2>1
  <2> QED
    BY <2>1, <2>3, <2>5, <2>6 DEF s
<1> QED
  BY <1>1, <1>2, <1>3

\* The send of a claimed row, from either command, and its failures.
LEMMA SentStep ==
  ASSUME HomeInv, NEW k \in Key,
         \/ DeliverSend(k) \/ DeliverSendError(k) \/ ReconcileSend(k) \/ ReconcileSendError(k)
  PROVE  \E r \in Row : RowStep(k, r)
<1>a. MailInv /\ sess[k] \in Row /\ None # Home(k)
  BY Basics DEF HomeInv, ClaimInv, MailInv, TypeInv, TypeOK, Home, ClientId
<1>b. job.cmd # "idle" /\ job.at = k /\ job.at # None /\ Done(k) /\ UNCHANGED envVars
  BY DEF DeliverSend, DeliverSendError, ReconcileSend, ReconcileSendError, AtSend, SendFails
<1>c. sess[k].state = "sending"
  BY <1>b DEF HomeInv, ClaimInv, Work
<1>d. SendCall(k) \in Request /\ SendCall(k).draft = Home(k) /\ SendCall(k).op = "send"
  <2>1. sess[k].draft \in DraftId
    BY <1>b DEF HomeInv, ClaimInv, MailInv, TypeInv, ClaimHasDraft
  <2>2. sess[k].draft = Home(k)
    BY <2>1 DEF HomeInv, HomeDrafts
  <2> QED
    BY <2>1, <2>2, Basics DEF SendCall, Request, Writers
<1> SUFFICES \E r \in Row : \E answer : /\ Call(SendCall(k), answer) /\ Write(k, r)
               /\ r.ver = sess[k].ver /\ r.draft = sess[k].draft /\ r.shadow = sess[k].shadow
               /\ r.sendmode = sess[k].sendmode
               /\ r.state \in Receipts \cup {"unknown", "failed"}
  <2>r. PICK r \in Row : \E answer : /\ Call(SendCall(k), answer) /\ Write(k, r)
               /\ r.ver = sess[k].ver /\ r.draft = sess[k].draft /\ r.shadow = sess[k].shadow
               /\ r.sendmode = sess[k].sendmode
               /\ r.state \in Receipts \cup {"unknown", "failed"}
    OBVIOUS
  <2>1. PICK answer : /\ Call(SendCall(k), answer) /\ Write(k, r)
               /\ r.ver = sess[k].ver /\ r.draft = sess[k].draft /\ r.shadow = sess[k].shadow
               /\ r.sendmode = sess[k].sendmode
               /\ r.state \in Receipts \cup {"unknown", "failed"}
    BY <2>r
  <2>2. Leaves(k, r) /\ job'.at = None
    BY <1>a, <1>b, <2>1, LeavesFacts
  <2>3. SendStep(k, r)
    BY <1>b, <1>c, <1>d, <2>1, <2>2 DEF SendStep
  <2> QED
    BY <1>b, <2>1, <2>2, <2>3 DEF RowStep
<1>1. ASSUME NEW s \in Receipts,
             Write(k, [sess[k] EXCEPT !.msg = sess[k].draft, !.state = s]),
             Call(SendCall(k), "ok")
      PROVE  \E r \in Row : \E answer : /\ Call(SendCall(k), answer) /\ Write(k, r)
               /\ r.ver = sess[k].ver /\ r.draft = sess[k].draft /\ r.shadow = sess[k].shadow
               /\ r.sendmode = sess[k].sendmode
               /\ r.state \in Receipts \cup {"unknown", "failed"}
  <2> DEFINE r == [sess[k] EXCEPT !.msg = sess[k].draft, !.state = s]
  <2>1. /\ r \in Row /\ r.state = s /\ r.ver = sess[k].ver /\ r.draft = sess[k].draft
        /\ r.shadow = sess[k].shadow /\ r.sendmode = sess[k].sendmode
    BY <1>a, StateTypes DEF Row
  <2>2. Write(k, r)
    BY <1>1
  <2> HIDE DEF r
  <2> QED
    BY <1>1, <2>1, <2>2
<1>2. CASE DeliverSend(k)
  <2>1. "sent" \in Receipts
    BY DEF Receipts
  <2> QED
    BY <1>1, <1>2, <2>1 DEF DeliverSend
<1>3. CASE ReconcileSend(k)
  <2>1. PICK s \in Applied(sess[k].draft, "sent") :
          Write(k, [sess[k] EXCEPT !.msg = sess[k].draft, !.state = s])
    BY <1>3 DEF ReconcileSend
  <2>2. s \in Receipts
    BY ReconciledRow DEF HomeInv
  <2> QED
    BY <1>1, <1>3, <2>1, <2>2 DEF ReconcileSend
<1>4. CASE SendFails(k)
  <2>1. PICK answer \in {"timeout", "retryable", "fatal"} :
          /\ Call(SendCall(k), answer)
          /\ Write(k, [sess[k] EXCEPT !.state = AfterSendError(answer)])
    BY <1>4 DEF SendFails
  <2> DEFINE s == AfterSendError(answer)
             r == [sess[k] EXCEPT !.state = s]
  <2>2. s \in {"unknown", "failed"} /\ s \in States
    BY StateTypes DEF AfterSendError
  <2>3. Write(k, r)
    BY <2>1
  <2> HIDE DEF s
  <2>4. /\ r \in Row /\ r.state = s /\ r.ver = sess[k].ver /\ r.draft = sess[k].draft
        /\ r.shadow = sess[k].shadow /\ r.sendmode = sess[k].sendmode
    BY <1>a, <2>2 DEF Row
  <2> HIDE DEF r
  <2> QED
    BY <2>1, <2>2, <2>3, <2>4
<1> QED
  BY <1>2, <1>3, <1>4 DEF DeliverSendError, ReconcileSendError

\* What get_draft's answer makes of a row that is not sent again.
LEMMA DraftStates ==
  ASSUME NEW k \in Key, NEW d \in Visible(k), ~Resends(k, d)
  PROVE  /\ StateOfDraft(k, d) \in {"draft", "failed", "sending", "scheduled"}
         /\ StateOfDraft(k, d) = "draft" => sess[k].shadow
         /\ StateOfDraft(k, d) = "scheduled" => draft[d].sched \/ SendMode(k) # "immediate"
BY DEF StateOfDraft, Resends, SendStatus, Visible

\* One row of reconcile_drafts, up to the send.
LEMMA LookedStep ==
  ASSUME HomeInv, NEW k \in Key,
         ReconcileDraft(k) \/ ReconcileClaim(k) \/ ReconcileMessage(k) \/ ReconcileNothing(k)
  PROVE  \E r \in Row : RowStep(k, r)
<1>a. MailInv /\ sess[k] \in Row
  BY DEF HomeInv, ClaimInv, MailInv, TypeInv, TypeOK
<1>b. /\ job.cmd # "idle" /\ UNCHANGED envVars /\ UNCHANGED <<draft, mail, net>>
      /\ sess[k].state \in {"scheduled", "sending", "unknown"}
  BY DEF ReconcileDraft, ReconcileClaim, ReconcileMessage, ReconcileNothing, Reconciling,
         NoDraftRead, mailVars, HomeInv, ClaimInv, Work
<1>c. /\ \A d \in Visible(k) : d \in DraftId /\ d = Home(k) /\ draft[d].st # "none"
      /\ Tracked(k) \subseteq Visible(k)
      /\ LearnedDraft(k) \subseteq {sess[k].draft, Home(k)} /\ LearnedDraft(k) \subseteq DraftId \cup {None}
  <2>1. \A d \in Visible(k) : d \in DraftId /\ d[1] = k /\ draft[d].st # "none"
    BY DEF Visible, DraftId
  <2>2. \A d \in Visible(k) : d = Home(k)
    <3>1. \A d \in Visible(k) : d[2] = 0 /\ d = <<d[1], d[2]>>
      BY <2>1 DEF HomeInv, ClaimInv, MailInv, OneDraft, DraftId
    <3> QED
      BY <2>1, <3>1 DEF Home
  <2>3. Tracked(k) \subseteq Visible(k)
    BY DEF Tracked
  <2>4. LearnedDraft(k) \subseteq {sess[k].draft, Home(k)} /\ LearnedDraft(k) \subseteq DraftId \cup {None}
    BY <1>a, <2>1, <2>2 DEF LearnedDraft, Row
  <2> QED
    BY <2>1, <2>2, <2>3, <2>4
<1>1. CASE ReconcileDraft(k)
  <2>1. PICK d \in Tracked(k) :
          /\ ~Resends(k, d)
          /\ Write(k, [sess[k] EXCEPT !.draft = d, !.state = StateOfDraft(k, d)])
    BY <1>1 DEF ReconcileDraft
  <2> DEFINE s == StateOfDraft(k, d)
             r == [sess[k] EXCEPT !.draft = d, !.state = s]
  <2>2. d = Home(k) /\ draft[d].st # "none" /\ d \in DraftId
    BY <1>c
  <2>3. /\ s \in {"draft", "failed", "sending", "scheduled"}
        /\ s = "draft" => sess[k].shadow
        /\ s = "scheduled" => draft[d].sched \/ SendMode(k) # "immediate"
    BY <1>c, <2>1, DraftStates
  <2>4. Write(k, r) /\ Done(k)
    BY <1>1, <2>1 DEF ReconcileDraft
  <2>5. s \in States
    BY <2>3, StateTypes
  <2> HIDE DEF s
  <2>6. /\ r \in Row /\ r.state = s /\ r.ver = sess[k].ver /\ r.draft = d
        /\ r.shadow = sess[k].shadow /\ r.sendmode = sess[k].sendmode
    BY <1>a, <2>2, <2>5 DEF Row
  <2> HIDE DEF r
  <2>7. Leaves(k, r) /\ job'.at = None
    BY <1>a, <2>4, <2>6, LeavesFacts
  <2>8. LookStep(k, r)
    BY <1>b, <2>2, <2>3, <2>6, <2>7 DEF LookStep
  <2> QED
    BY <1>b, <2>6, <2>7, <2>8 DEF RowStep
<1>2. CASE ReconcileClaim(k)
  <2>1. PICK d \in Tracked(k) :
          /\ Resends(k, d)
          /\ WriteAndCommit(k, [sess[k] EXCEPT !.draft = d, !.state = "sending"])
    BY <1>2 DEF ReconcileClaim
  <2> DEFINE r == [sess[k] EXCEPT !.draft = d, !.state = "sending"]
  <2>2. d = Home(k) /\ d \in DraftId
    BY <1>c
  <2>4. WriteAndCommit(k, r) /\ Claim(k)
    BY <1>2, <2>1 DEF ReconcileClaim
  <2>6. /\ r \in Row /\ r.state = "sending" /\ r.ver = sess[k].ver /\ r.draft = d
        /\ r.shadow = sess[k].shadow /\ r.sendmode = sess[k].sendmode
    BY <1>a, <2>2, StateTypes DEF Row
  <2> HIDE DEF r
  <2>7. Leaves(k, r)
    BY <1>a, <2>4, <2>6, LeavesFacts
  <2>8. LookStep(k, r)
    BY <1>b, <2>1, <2>2, <2>6 DEF LookStep, Resends
  <2> QED
    BY <1>b, <2>6, <2>7, <2>8 DEF RowStep
<1>3. CASE ReconcileMessage(k)
  <2>1. PICK m \in MessagesOf(k), d \in LearnedDraft(k) : \E s \in Applied(m.draft, "sent") :
          Write(k, [sess[k] EXCEPT !.draft = d, !.msg = m.draft, !.state = s])
    BY <1>3 DEF ReconcileMessage
  <2>2. PICK s \in Applied(m.draft, "sent") :
          Write(k, [sess[k] EXCEPT !.draft = d, !.msg = m.draft, !.state = s])
    BY <2>1
  <2> DEFINE e == m.draft
             r == [sess[k] EXCEPT !.draft = d, !.msg = e, !.state = s]
  <2>3. s \in Receipts /\ s \in States
    BY ReconciledRow, StateTypes DEF HomeInv
  <2>4. e \in DraftId
    BY <1>a DEF MessagesOf, MailInv, TypeInv, TypeOK, MailTypeOK, Message
  <2>5. Write(k, r) /\ Done(k)
    BY <1>3, <2>2 DEF ReconcileMessage
  <2> HIDE DEF e
  <2>6. /\ r \in Row /\ r.state = s /\ r.ver = sess[k].ver /\ r.draft = d
        /\ r.shadow = sess[k].shadow /\ r.sendmode = sess[k].sendmode
    BY <1>a, <1>c, <2>3, <2>4 DEF Row
  <2> HIDE DEF r
  <2>7. Leaves(k, r) /\ job'.at = None
    BY <1>a, <2>5, <2>6, LeavesFacts
  <2>8. LookStep(k, r)
    BY <1>a, <1>b, <1>c, <2>3, <2>6, <2>7 DEF LookStep, Receipts
  <2> QED
    BY <1>b, <2>6, <2>7, <2>8 DEF RowStep
<1>4. CASE ReconcileNothing(k)
  <2>1. PICK d \in LearnedDraft(k) : Write(k, [sess[k] EXCEPT !.draft = d, !.state = "unknown"])
    BY <1>4 DEF ReconcileNothing
  <2> DEFINE r == [sess[k] EXCEPT !.draft = d, !.state = "unknown"]
  <2>5. Write(k, r) /\ Done(k)
    BY <1>4, <2>1 DEF ReconcileNothing
  <2>6. /\ r \in Row /\ r.state = "unknown" /\ r.ver = sess[k].ver /\ r.draft = d
        /\ r.shadow = sess[k].shadow /\ r.sendmode = sess[k].sendmode
    BY <1>a, <1>c, StateTypes DEF Row
  <2> HIDE DEF r
  <2>7. Leaves(k, r) /\ job'.at = None
    BY <1>a, <2>5, <2>6, LeavesFacts
  <2>8. LookStep(k, r)
    BY <1>a, <1>b, <1>c, <2>6, <2>7 DEF LookStep
  <2> QED
    BY <1>b, <2>6, <2>7, <2>8 DEF RowStep
<1> QED
  BY <1>1, <1>2, <1>3, <1>4

\* Every step of the two loops is one of these.
LEMMA LoopSteps ==
  ASSUME HomeInv, DeliverStep \/ ReconcileStep
  PROVE  \E k \in Key, r \in Row : RowStep(k, r)
BY ShadowStep, LiveStep, SentStep, LookedStep DEF DeliverStep, ReconcileStep

\* What the ledger and the session hold after such a step.
LEMMA LeftRows ==
  ASSUME MailInv, NEW k \in Key, NEW r \in Row, Leaves(k, r)
  PROVE  /\ sess'[k] = r /\ \A j \in Key \ {k} : sess'[j] = sess[j]
         /\ Stored(k)' = r /\ \A j \in Key \ {k} : Stored(j)' = Stored(j)
         /\ row'[k] \in {row[k], r}
         /\ row'[k] = row[k] \/ (k \notin dirty' /\ r.state = "sending")
         /\ \A j \in Key \ {k} : \/ row'[j] = row[j] /\ (j \in dirty' <=> j \in dirty)
                                 \/ row'[j] = sess[j] /\ j \in dirty /\ j \notin dirty'
BY DEF Leaves, Stored, MailInv, TypeInv, TypeOK

\* Rows are loaded for the next part of a job; a notice may be new.
LoadStep ==
  /\ UNCHANGED <<row, mailVars, envVars>>
  /\ job'.cmd # "idle" /\ job'.at = None
  /\ ~job'.past => ~due \/ (job.cmd # "idle" /\ ~job.past)
  /\ \A k \in Key :
       \/ sess'[k] = sess[k] /\ (k \in dirty' <=> k \in dirty)
       \/ sess'[k] = row[k] /\ sess[k].state = "absent" /\ k \notin dirty \cup dirty'
       \/ /\ sess'[k] = NewRow /\ row[k].state = "absent" /\ sess[k].state = "absent"
          /\ k \notin dirty /\ k \in dirty'

LEMMA LoadSteps ==
  ASSUME HomeInv, StartDeliver \/ StartReconcile \/ ToReconcile \/ ToNotice
  PROVE  LoadStep
<1>a. /\ TypeOK /\ sess \in [Key -> Row] /\ job \in Job /\ dirty \subseteq Key
      /\ \A k \in dirty : sess[k].state # "absent"
  BY DEF HomeInv, ClaimInv, MailInv, TypeInv, TypeOK, Session
<1>b. \A K : \A k \in Key : \/ Load(K)[k] = sess[k]
                            \/ Load(K)[k] = row[k] /\ sess[k].state = "absent" /\ k \notin dirty
  BY <1>a, Loaded
<1>1. CASE StartDeliver \/ StartReconcile
  <2>1. PICK cmd \in {"deliver", "reconcile"} : Begin(cmd)
    BY <1>1 DEF StartDeliver, StartReconcile
  <2>2. job'.cmd = cmd /\ job'.at = None /\ job'.past = due
    BY <2>1 DEF Begin, Idle
  <2>3. UNCHANGED <<row, dirty, mailVars, envVars>> /\ sess' = Load(InState({"pending"}))
    BY <2>1 DEF Begin
  <2> QED
    BY <1>b, <2>2, <2>3 DEF LoadStep
<1>2. CASE ToReconcile
  <2>1. job'.cmd = job.cmd /\ job'.at = None /\ job'.past = job.past /\ job.cmd # "idle"
    BY <1>a, <1>2 DEF ToReconcile, PartDone, Job
  <2>2. /\ UNCHANGED <<row, dirty, mailVars, envVars>>
        /\ sess' = Load(InState({"scheduled", "sending", "unknown"}))
    BY <1>2 DEF ToReconcile
  <2> QED
    BY <1>b, <2>1, <2>2 DEF LoadStep
<1>3. CASE ToNotice
  <2> DEFINE K == InState({"pending"}) \cup {Notice}
             new == Held(Notice).state = "absent"
             n == IF new THEN NewRow ELSE Held(Notice)
  <2>1. job'.cmd = job.cmd /\ job'.at = None /\ job'.past = due /\ job.cmd # "idle"
    BY <1>a, <1>3 DEF ToNotice, PartDone, Job
  <2>2. /\ UNCHANGED <<row, mailVars, envVars>> /\ sess' = [Load(K) EXCEPT ![Notice] = n]
        /\ dirty' = IF new THEN dirty \cup {Notice} ELSE dirty
    BY <1>3 DEF ToNotice
  <2>3. Load(K) \in [Key -> Row]
    BY <1>a, LoadType
  <2>4. /\ Held(Notice) = IF sess[Notice].state # "absent" THEN sess[Notice] ELSE row[Notice]
        /\ new <=> Held(Notice).state = "absent"
    BY DEF Held
  <2> HIDE DEF K, new
  <2>5. /\ n = IF new THEN NewRow ELSE Held(Notice)
        /\ new => sess[Notice].state = "absent" /\ row[Notice].state = "absent" /\ Notice \notin dirty
    BY <1>a, <2>4
  <2> HIDE DEF n
  <2>6. sess'[Notice] = n /\ \A k \in Key \ {Notice} : sess'[k] = Load(K)[k]
    BY <2>2, <2>3
  <2>7. ASSUME NEW k \in Key
        PROVE  \/ sess'[k] = sess[k] /\ (k \in dirty' <=> k \in dirty)
               \/ sess'[k] = row[k] /\ sess[k].state = "absent" /\ k \notin dirty \cup dirty'
               \/ /\ sess'[k] = NewRow /\ row[k].state = "absent" /\ sess[k].state = "absent"
                  /\ k \notin dirty /\ k \in dirty'
    <3>1. CASE k # Notice
      BY <3>1, <1>b, <2>2, <2>6
    <3>2. CASE k = Notice /\ new
      BY <3>2, <2>2, <2>5, <2>6
    <3>3. CASE k = Notice /\ ~new
      BY <3>3, <1>a, <2>2, <2>4, <2>5, <2>6
    <3> QED
      BY <3>1, <3>2, <3>3
  <2> QED
    BY <2>1, <2>2, <2>7 DEF LoadStep
<1> QED
  BY <1>1, <1>2, <1>3

\* A job is over: it has committed what it changed, or lost it.
OverStep ==
  /\ sess' = Unloaded /\ dirty' = {} /\ job' = Idle /\ UNCHANGED <<draft, mail, hooks, mode, due>>
  /\ \/ row' = [k \in Key |-> Stored(k)] /\ UNCHANGED <<net, crashes, faults>>
     \/ /\ row' = row /\ crashes' = crashes - 1 /\ crashes > 0 /\ job.cmd # "idle"
        /\ \/ net' = net
           \/ /\ job.at \in Key /\ net' = net \cup {SendCall(job.at)}
              /\ SendCall(job.at).draft = Home(job.at)
              /\ SendCall(job.at).op = "send" /\ SendCall(job.at).by = "live"
              /\ sess[job.at].state = "sending" /\ SendCall(job.at) \in Request

LEMMA OverSteps ==
  ASSUME HomeInv, EndJob \/ Crash
  PROVE  OverStep
<1>1. CASE EndJob
  BY <1>1 DEF EndJob, Finish, OverStep, mailVars, envVars
<1>2. CASE Crash
  <2>1. job.at # None => /\ job.at \in Key /\ SendCall(job.at).draft = Home(job.at)
                         /\ SendCall(job.at).op = "send" /\ SendCall(job.at).by = "live"
                         /\ sess[job.at].state = "sending" /\ SendCall(job.at) \in Request
    <3>1. job.at # None => job.at \in Key /\ sess[job.at].draft \in DraftId
                           /\ sess[job.at].state = "sending"
      BY DEF HomeInv, ClaimInv, MailInv, TypeInv, TypeOK, Job, ClaimHasDraft, Work
    <3>2. job.at # None => sess[job.at].draft = Home(job.at)
      BY <3>1 DEF HomeInv, HomeDrafts
    <3> QED
      BY <3>1, <3>2, Basics DEF SendCall, Request, Writers
  <2> QED
    BY <1>2, <2>1 DEF Crash, OverStep
<1> QED
  BY <1>1, <1>2

\* A row is composed, for the first time or again.
ComposeStep(k) ==
  /\ UNCHANGED <<sess, dirty, job, envVars, mailVars>>
  /\ job.cmd = "idle" /\ sess = Unloaded /\ dirty = {}
  /\ \A j \in Key \ {k} : row'[j] = row[j]
  /\ row[k].state \in {"absent"} \cup Mutable
  /\ row'[k].state = "pending"
  /\ row'[k].draft = row[k].draft
  /\ \/ row'[k].sendmode = row[k].sendmode /\ row'[k].shadow = row[k].shadow
     \/ row[k].state = "absent" /\ row'[k].sendmode = "" /\ ~row'[k].shadow

LEMMA ComposeSteps ==
  ASSUME HomeInv, Compose
  PROVE  \E k \in Key : ComposeStep(k)
<1>0. PICK k \in Key : ComposeNew(k) \/ Recompose(k)
  BY DEF Compose
<1>1. row \in [Key -> Row] /\ row[k] \in Row
  BY DEF HomeInv, ClaimInv, MailInv, TypeInv, TypeOK
<1>2. /\ job.cmd = "idle" /\ UNCHANGED <<sess, dirty, job, envVars, mailVars>>
      /\ sess = Unloaded /\ dirty = {}
  BY <1>0 DEF ComposeNew, Recompose, HomeInv, ClaimInv, Session
<1>3. CASE ComposeNew(k)
  <2>1. /\ NewRow.state = "pending" /\ NewRow.draft = None /\ NewRow.sendmode = ""
        /\ NewRow.shadow = FALSE
    BY DEF NewRow, NoRow
  <2>2. row[k].state = "absent" /\ row[k].draft = None
    BY <1>3 DEF ComposeNew, HomeInv, Fresh
  <2>3. row'[k] = NewRow /\ \A j \in Key \ {k} : row'[j] = row[j]
    BY <1>1, <1>3 DEF ComposeNew
  <2> QED
    BY <1>2, <2>1, <2>2, <2>3 DEF ComposeStep
<1>4. CASE Recompose(k)
  <2> DEFINE v == row[k].ver + 1
             r == [row[k] EXCEPT !.state = "pending", !.ver = v]
  <2>1. row' = [row EXCEPT ![k] = r] /\ row[k].state \in Mutable
    BY <1>1, <1>4 DEF Recompose, StillMutable
  <2> HIDE DEF v
  <2>2. r.state = "pending" /\ r.draft = row[k].draft /\ r.sendmode = row[k].sendmode
        /\ r.shadow = row[k].shadow
    BY <1>1 DEF Row
  <2> HIDE DEF r
  <2> QED
    BY <1>1, <1>2, <2>1, <2>2 DEF ComposeStep
<1> QED
  BY <1>0, <1>3, <1>4

\* Webhooks, the clock and the operator: rows change their state only.
HookStep ==
  /\ UNCHANGED <<sess, dirty, job, mode, due, crashes, mailVars>>
  /\ \A k \in Key : /\ SameButState(row'[k], row[k])
                    /\ \/ row'[k].state = row[k].state
                       \/ {row'[k].state, row[k].state} \subseteq Receipts

LEMMA HookSteps ==
  ASSUME HomeInv, NEW m \in mail, NEW t \in HookTypes, Webhook(m, t)
  PROVE  HookStep
<1>1. ASSUME NEW k \in Key
      PROVE  /\ SameButState(row'[k], row[k])
             /\ \/ row'[k].state = row[k].state
                \/ {row'[k].state, row[k].state} \subseteq Receipts
  <2>1. row \in [Key -> Row] /\ row[k] \in Row
    BY DEF HomeInv, ClaimInv, MailInv, TypeInv, TypeOK
  <2> DEFINE r == [row[k] EXCEPT !.state = t]
  <2>2. SameButState(r, row[k])
    BY <2>1 DEF Row, SameButState
  <2>3. row'[k] = r \/ row'[k] = row[k]
    BY DEF Webhook
  <2> HIDE DEF r
  <2>4. SameButState(row'[k], row[k])
    BY <2>2, <2>3 DEF SameButState
  <2> QED
    BY <2>4, WebhookRows DEF HomeInv
<1> QED
  BY <1>1 DEF HookStep, Webhook

-----------------------------------------------------------------------------
(* The common invariant.                                                   *)

LEMMA HomeInit == Init => HomeInv
<1> SUFFICES ASSUME Init PROVE HomeInv
  OBVIOUS
<1>1. ClaimInv
  BY ClaimInit
<1>2. MailShowsDraft
  BY DEF Init, MailInit, MailShowsDraft, NoDraftRecord
<1>3. NoRow.state = "absent" /\ NoRow.draft = None
  BY DEF NoRow
<1>4. \A k \in Key : row[k] = NoRow /\ sess[k] = NoRow
  BY DEF Init, Unloaded
<1>5. HomeDrafts /\ Copies /\ Fresh
  BY <1>3, <1>4 DEF HomeDrafts, Copies, Fresh
<1> QED
  BY <1>1, <1>2, <1>5 DEF HomeInv

LEMMA RowStepHome ==
  ASSUME HomeInv, ClaimInv', NEW k \in Key, NEW r \in Row, RowStep(k, r)
  PROVE  HomeInv'
<1>a. MailInv /\ MailShowsDraft
  BY DEF HomeInv, ClaimInv
<1>b. /\ sess'[k] = r /\ \A j \in Key \ {k} : sess'[j] = sess[j]
      /\ row'[k] \in {row[k], r} /\ (row'[k] = row[k] \/ (k \notin dirty' /\ r.state = "sending"))
      /\ \A j \in Key \ {k} : \/ row'[j] = row[j] /\ (j \in dirty' <=> j \in dirty)
                              \/ row'[j] = sess[j] /\ j \in dirty /\ j \notin dirty'
  BY <1>a, LeftRows DEF RowStep
<1>1. MailShowsDraft'
  <2>1. ASSUME NEW q, NEW answer, AskStep(k, r, q, answer) PROVE MailShowsDraft'
    BY <1>a, <2>1, CallDraft DEF AskStep
  <2>2. ASSUME SendStep(k, r) PROVE MailShowsDraft'
    BY <1>a, <2>2, CallDraft DEF SendStep
  <2>3. ASSUME LookStep(k, r) PROVE MailShowsDraft'
    BY <1>a, <2>3 DEF LookStep, MailShowsDraft
  <2> QED
    BY <2>1, <2>2, <2>3 DEF RowStep
<1>2. r.draft \in {None, Home(k)}
  BY DEF RowStep, AskStep, SendStep, LookStep, HomeInv, HomeDrafts
<1>3. HomeDrafts'
  BY <1>b, <1>2 DEF HomeInv, HomeDrafts
<1>4. r.state # "absent" /\ (r.state = "pending" => sess[k].state = "pending")
  BY DEF RowStep, AskStep, AfterDraftError, SendStep, LookStep, Receipts
<1>5. Copies'
  <2> SUFFICES ASSUME NEW j \in Key \ dirty', sess'[j].state # "absent"
               PROVE  SameButState(sess'[j], row'[j])
    BY DEF Copies
  <2>1. CASE j = k
    <3>1. row'[k] = r
      BY <2>1 DEF RowStep, Leaves, HomeInv, ClaimInv, MailInv, TypeInv, TypeOK
    <3> QED
      BY <1>b, <2>1, <3>1 DEF SameButState
  <2>2. CASE j # k
    <3>1. CASE j \in dirty
      <4>1. row'[j] = sess[j]
        BY <2>2, <3>1, <1>b
      <4> QED
        BY <1>b, <2>2, <4>1 DEF SameButState
    <3>2. CASE j \notin dirty
      BY <1>b, <2>2, <3>2 DEF HomeInv, Copies
    <3> QED
      BY <3>1, <3>2
  <2> QED
    BY <2>1, <2>2
<1>6. Fresh'
  <2> SUFFICES ASSUME NEW j \in Key
               PROVE  /\ sess'[j].state = "pending" => row'[j].state \in {"absent", "pending"}
                      /\ row'[j].state = "absent" => row'[j].draft = None
                      /\ sess'[j].state = "absent" => sess'[j].draft = None
    BY DEF Fresh
  <2>1. CASE j = k
    BY <1>b, <1>4, <2>1 DEF HomeInv, Fresh
  <2>2. CASE j # k
    BY <1>b, <2>2 DEF HomeInv, Fresh
  <2> QED
    BY <2>1, <2>2
<1> QED
  BY <1>1, <1>3, <1>5, <1>6 DEF HomeInv

LEMMA LoadHome ==
  ASSUME HomeInv, ClaimInv', LoadStep
  PROVE  HomeInv'
<1>1. MailShowsDraft'
  BY DEF LoadStep, HomeInv, MailShowsDraft, mailVars
<1>2. NewRow.state = "pending" /\ NewRow.draft = None
  BY DEF NewRow, NoRow
<1>3. HomeDrafts' /\ Fresh'
  BY <1>2 DEF LoadStep, HomeInv, HomeDrafts, Fresh
<1>4. Copies'
  <2> SUFFICES ASSUME NEW k \in Key \ dirty', sess'[k].state # "absent"
               PROVE  SameButState(sess'[k], row'[k])
    BY DEF Copies
  <2>1. row'[k] = row[k]
    BY DEF LoadStep
  <2>2. CASE sess'[k] = sess[k] /\ k \notin dirty
    BY <2>1, <2>2 DEF HomeInv, Copies
  <2>3. CASE sess'[k] = row[k]
    BY <2>1, <2>3 DEF SameButState
  <2> QED
    BY <2>2, <2>3 DEF LoadStep
<1> QED
  BY <1>1, <1>3, <1>4 DEF HomeInv

LEMMA OverHome ==
  ASSUME HomeInv, ClaimInv', OverStep
  PROVE  HomeInv'
<1>1. MailShowsDraft'
  BY DEF OverStep, HomeInv, MailShowsDraft
<1>2. \A k \in Key : sess'[k].state = "absent" /\ sess'[k].draft = None
  BY DEF OverStep, Unloaded, NoRow
<1>3. \A k \in Key : row'[k] = row[k] \/ (row'[k] = sess[k] /\ k \in dirty)
  BY DEF OverStep, Stored
<1>4. HomeDrafts' /\ Copies' /\ Fresh'
  BY <1>2, <1>3 DEF HomeInv, HomeDrafts, Copies, Fresh, ClaimInv, Session
<1> QED
  BY <1>1, <1>4 DEF HomeInv

LEMMA OutsideHome ==
  ASSUME HomeInv, ClaimInv', Outside \/ UNCHANGED vars
  PROVE  HomeInv'
<1>a. MailInv /\ MailShowsDraft /\ TimedSends /\ net \subseteq Request
  BY DEF HomeInv, ClaimInv, MailInv, TypeInv, TypeOK, MailTypeOK
<1>b. ASSUME UNCHANGED jobVars PROVE HomeDrafts' /\ Copies' /\ Fresh'
  BY <1>b DEF jobVars, HomeInv, HomeDrafts, Copies, Fresh, SameButState
<1>1. CASE \E m \in mail, t \in HookTypes : Webhook(m, t)
  <2>1. HookStep
    BY <1>1, HookSteps
  <2>2. MailShowsDraft'
    BY <2>1 DEF HookStep, HomeInv, MailShowsDraft, mailVars
  <2>3. HomeDrafts' /\ Copies'
    BY <2>1 DEF HookStep, HomeInv, HomeDrafts, Copies, SameButState
  <2>4. Fresh'
    BY <2>1 DEF HookStep, HomeInv, Fresh, SameButState, Receipts
  <2> QED
    BY <2>2, <2>3, <2>4 DEF HomeInv
<1>2. CASE (\E to \in Writers : SwitchMode(to)) \/ PassSendTime \/ UNCHANGED vars
  <2>1. UNCHANGED jobVars /\ UNCHANGED <<draft, mail>>
    BY <1>2 DEF SwitchMode, PassSendTime, vars, mailVars
  <2>2. MailShowsDraft'
    BY <1>a, <2>1 DEF MailShowsDraft
  <2> QED
    BY <1>b, <2>1, <2>2 DEF HomeInv
<1>3. CASE Service
  BY <1>3, <1>a, <1>b, ServiceDraft DEF Service, HomeInv
<1>4. CASE Late
  BY <1>4, <1>a, <1>b, ExecuteDraft DEF Late, LateRequest, HomeInv
<1> QED
  BY <1>1, <1>2, <1>3, <1>4 DEF Outside

LEMMA ComposeHome ==
  ASSUME HomeInv, ClaimInv', NEW k \in Key, ComposeStep(k)
  PROVE  HomeInv'
<1>1. MailShowsDraft'
  BY DEF ComposeStep, HomeInv, MailShowsDraft, mailVars
<1>2. \A j \in Key : sess'[j].state = "absent" /\ sess'[j].draft = None
  BY DEF ComposeStep, Unloaded, NoRow
<1>3. \A j \in Key : row'[j].draft = row[j].draft /\ (row'[j].state = "absent" => row'[j] = row[j])
  <2> SUFFICES ASSUME NEW j \in Key
               PROVE  row'[j].draft = row[j].draft /\ (row'[j].state = "absent" => row'[j] = row[j])
    OBVIOUS
  <2>1. CASE j = k
    BY <2>1 DEF ComposeStep
  <2>2. CASE j # k
    BY <2>2 DEF ComposeStep
  <2> QED
    BY <2>1, <2>2
<1>4. HomeDrafts' /\ Copies' /\ Fresh'
  BY <1>2, <1>3 DEF HomeInv, HomeDrafts, Copies, Fresh
<1> QED
  BY <1>1, <1>4 DEF HomeInv

\* Each step, as the rest of the module takes it.
LEMMA AllSteps ==
  ASSUME HomeInv, [Next]_vars
  PROVE  \/ \E k \in Key, r \in Row : RowStep(k, r)
         \/ LoadStep \/ OverStep \/ (\E k \in Key : ComposeStep(k))
         \/ Outside \/ UNCHANGED vars
BY LoopSteps, LoadSteps, OverSteps, ComposeSteps DEF Next, JobStep

LEMMA HomeNext == HomeInv /\ [Next]_vars => HomeInv'
<1> SUFFICES ASSUME HomeInv, [Next]_vars PROVE HomeInv'
  OBVIOUS
<1>1. ClaimInv'
  BY ClaimNext DEF HomeInv
<1> QED
  BY <1>1, AllSteps, RowStepHome, LoadHome, OverHome, ComposeHome, OutsideHome

-----------------------------------------------------------------------------
(* The content of a receipt.                                               *)

\* States of a row that a Draft stands behind.
Open == {"scheduled", "sending", "unknown"}

\* No call has failed and no job has died.
Untouched == faults = MaxFaults /\ crashes = MaxCrashes

\* Then a row that is out has the content of its Draft, and every Draft there
\* is is known to the row as a query would see it.
OneContent ==
  Untouched =>
    /\ net = {}
    /\ \A k \in Key : draft[Home(k)].st # "none" => Stored(k).draft = Home(k)
    /\ \A k \in Key : \A r \in {row[k], sess[k]} :
         r.state \in Open \cup Receipts
           => draft[Home(k)].st # "none" /\ draft[Home(k)].ver = r.ver

\* Faults and crashes are only ever spent.
LEMMA CallSpends ==
  ASSUME NEW q, NEW answer, Call(q, answer)
  PROVE  faults' = faults \/ SpendFault
BY DEF Call, mailVars

LEMMA UntouchedBefore ==
  ASSUME HomeInv, HomeInv', [Next]_vars, Untouched'
  PROVE  Untouched
<1>a. /\ faults \in 0..MaxFaults /\ crashes \in 0..MaxCrashes
      /\ faults' \in 0..MaxFaults /\ crashes' \in 0..MaxCrashes
  BY DEF HomeInv, ClaimInv, MailInv, TypeInv, TypeOK, MailTypeOK
<1>1. faults' = faults \/ SpendFault
  <2>1. CASE DeliverStep
    BY <2>1, CallSpends DEF DeliverStep, DeliverShadow, DeliverScheduled, DeliverClaim,
                            DeliverDraftError, DeliverSend, DeliverSendError, SendFails
  <2>2. CASE ReconcileStep
    BY <2>2, CallSpends DEF ReconcileStep, ReconcileDraft, ReconcileClaim, ReconcileSend,
                            ReconcileSendError, SendFails, ReconcileMessage, ReconcileNothing,
                            NoDraftRead, mailVars
  <2>3. CASE \/ Compose \/ StartDeliver \/ StartReconcile \/ ToReconcile \/ ToNotice \/ EndJob
             \/ Crash
    BY <2>3 DEF Compose, ComposeNew, Recompose, StartDeliver, StartReconcile, Begin, ToReconcile,
                ToNotice, EndJob, Crash, mailVars
  <2>4. CASE Outside \/ UNCHANGED vars
    BY <2>4 DEF Outside, Webhook, SwitchMode, PassSendTime, Service, Fire, FinishFire, FailFire,
                Late, LateRequest, vars, mailVars
  <2> QED
    BY <2>1, <2>2, <2>3, <2>4 DEF Next, JobStep
<1>2. crashes' = crashes \/ (crashes > 0 /\ crashes' = crashes - 1)
  <2>1. ASSUME NEW k \in Key, NEW r \in Row, RowStep(k, r) PROVE crashes' = crashes
    BY <2>1 DEF RowStep, envVars
  <2>2. CASE LoadStep \/ \E k \in Key : ComposeStep(k)
    BY <2>2 DEF LoadStep, ComposeStep, envVars
  <2>3. CASE OverStep
    BY <2>3 DEF OverStep
  <2>4. CASE Outside \/ UNCHANGED vars
    BY <2>4 DEF Outside, Webhook, SwitchMode, PassSendTime, Service, Late, vars, envVars
  <2> QED
    BY <2>1, <2>2, <2>3, <2>4, AllSteps
<1> QED
  BY <1>a, <1>1, <1>2 DEF Untouched, SpendFault

\* A call that costs no fault is executed, or refused for a good reason.
LEMMA CleanCall ==
  ASSUME HomeInv, NEW q \in Request, NEW answer, Call(q, answer), faults = MaxFaults,
         faults' = MaxFaults
  PROVE  /\ net' = net
         /\ \/ answer = "ok"
            \/ answer \in {"fatal", "retryable"} /\ draft' = draft
BY DEF Call, SpendFault, Refusals, mailVars, HomeInv, ClaimInv, MailInv, TypeInv, TypeOK, MailTypeOK

\* The Draft a copy in the session knows is the one a query would see.
LEMMA StoredDraft ==
  ASSUME HomeInv, NEW k \in Key, sess[k].state # "absent"
  PROVE  Stored(k).draft = sess[k].draft
BY DEF HomeInv, Copies, Stored, SameButState

\* Different keys have different Drafts.
LEMMA Homes ==
  /\ \A k \in Key : Home(k) \in DraftId
  /\ \A j, k \in Key : Home(j) = Home(k) => j = k
BY DEF Home, DraftId

LEMMA RowStepContent ==
  ASSUME HomeInv, Untouched, Untouched', OneContent,
         NEW k \in Key, NEW r \in Row, RowStep(k, r)
  PROVE  OneContent'
<1>a. MailInv /\ MailShowsDraft
  BY DEF HomeInv, ClaimInv
<1>b. /\ sess'[k] = r /\ \A j \in Key \ {k} : sess'[j] = sess[j]
      /\ Stored(k)' = r /\ \A j \in Key \ {k} : Stored(j)' = Stored(j)
      /\ row'[k] \in {row[k], r}
      /\ \A j \in Key \ {k} : row'[j] \in {row[j], sess[j]}
  BY <1>a, LeftRows DEF RowStep
<1>c. /\ net = {} /\ \A j \in Key : draft[Home(j)].st # "none" => Stored(j).draft = Home(j)
      /\ \A j \in Key : \A x \in {row[j], sess[j]} :
           x.state \in Open \cup Receipts => draft[Home(j)].st # "none" /\ draft[Home(j)].ver = x.ver
  BY DEF OneContent
<1>d. faults = MaxFaults /\ faults' = MaxFaults
  BY DEF Untouched
<1>e. r.ver = sess[k].ver
  BY DEF RowStep
<1> SUFFICES
      /\ net' = {}
      /\ \A j \in Key \ {k} : KeptDraft(Home(j))
      /\ draft'[Home(k)].st # "none" => r.draft = Home(k)
      /\ \A x \in {row'[k], r} : x.state \in Open \cup Receipts
           => draft'[Home(k)].st # "none" /\ draft'[Home(k)].ver = x.ver
  <2>1. ASSUME NEW j \in Key \ {k}, \A i \in Key \ {k} : KeptDraft(Home(i))
        PROVE  /\ draft'[Home(j)].st # "none" => Stored(j)'.draft = Home(j)
               /\ \A x \in {row'[j], sess'[j]} : x.state \in Open \cup Receipts
                    => draft'[Home(j)].st # "none" /\ draft'[Home(j)].ver = x.ver
    BY <1>b, <1>c, <2>1 DEF KeptDraft
  <2> QED
    BY <1>b, <2>1 DEF OneContent
<1>1. ASSUME NEW q, NEW answer, AskStep(k, r, q, answer)
      PROVE  /\ net' = {}
             /\ \A j \in Key \ {k} : KeptDraft(Home(j))
             /\ draft'[Home(k)].st # "none" => r.draft = Home(k)
             /\ \A x \in {row'[k], r} : x.state \in Open \cup Receipts
                  => draft'[Home(k)].st # "none" /\ draft'[Home(k)].ver = x.ver
  <2>1. q \in Request /\ Call(q, answer) /\ q.draft = Home(k) /\ sess[k].state = "pending"
    BY <1>1 DEF AskStep
  <2>2. net' = {} /\ (answer = "ok" \/ (answer \in {"fatal", "retryable"} /\ draft' = draft))
    BY <1>c, <1>d, <2>1, CleanCall
  <2>3. \A j \in Key \ {k} : KeptDraft(Home(j))
    <3>1. DraftSteps(q)
      BY <1>a, <2>1, CallDraft
    <3> QED
      BY <2>1, <3>1, Homes DEF DraftSteps, WrittenBy
  <2>4. row[k].state \notin Open \cup Receipts
    BY <2>1 DEF HomeInv, Fresh, Open, Receipts
  <2>5. draft[Home(k)].st # "none" => sess[k].draft = Home(k)
    BY <1>c, <2>1, StoredDraft
  <2>6. CASE answer = "ok"
    <3>1. sess[k].draft = None => q.op = "create" /\ draft[q.draft].st = "none"
      <4>1. Home(k) # None
        BY Homes
      <4> QED
        BY <1>1, <2>1, <2>5, <4>1 DEF AskStep
    <3>2. sess[k].draft # None => q.op = "update"
      BY <1>1 DEF AskStep
    <3>3. WrittenBy(Home(k), q)
      BY <1>a, <2>1, <2>6, <3>1, <3>2, CallDraft
    <3>4. draft'[Home(k)].st # "none" /\ draft'[Home(k)].ver = r.ver /\ r.draft = Home(k)
      BY <1>1, <1>e, <2>6, <3>3 DEF WrittenBy, AskStep
    <3> QED
      BY <1>b, <2>2, <2>3, <2>4, <3>4
  <2>7. CASE answer # "ok"
    <3>1. draft' = draft /\ r.draft = sess[k].draft
      BY <1>1, <2>2, <2>7 DEF AskStep
    <3>2. r.state \in {"draft", "failed", "pending"}
      BY <1>1, <2>2, <2>7 DEF AskStep, AfterDraftError
    <3>3. r.state \notin Open \cup Receipts
      BY <3>2 DEF Open, Receipts
    <3> QED
      BY <1>b, <2>2, <2>3, <2>4, <2>5, <3>1, <3>3
  <2> QED
    BY <2>6, <2>7
<1>2. ASSUME SendStep(k, r)
      PROVE  /\ net' = {}
             /\ \A j \in Key : KeptDraft(Home(j))
             /\ r.draft = sess[k].draft /\ sess[k].state = "sending"
  <2>1. PICK answer : Call(SendCall(k), answer)
    BY <1>2 DEF SendStep
  <2>2. SendCall(k) \in Request /\ SendCall(k).op = "send"
    BY <1>2 DEF SendStep
  <2>3. net' = {}
    BY <1>c, <1>d, <2>1, <2>2, CleanCall
  <2>4. DraftSteps(SendCall(k))
    BY <1>a, <2>1, <2>2, CallDraft
  <2> QED
    BY <1>2, <2>2, <2>3, <2>4, Homes DEF DraftSteps, WrittenBy, SendStep
<1>3. ASSUME LookStep(k, r)
      PROVE  /\ net' = {}
             /\ \A j \in Key : KeptDraft(Home(j))
             /\ r.draft \in {sess[k].draft, Home(k)} /\ sess[k].state \in Open
  BY <1>3, <1>c DEF LookStep, KeptDraft, Open
<1>4. ASSUME net' = {}, \A j \in Key : KeptDraft(Home(j)),
             r.draft \in {sess[k].draft, Home(k)}, sess[k].state \in Open
      PROVE  /\ draft'[Home(k)].st # "none" => r.draft = Home(k)
             /\ \A x \in {row'[k], r} : x.state \in Open \cup Receipts
                  => draft'[Home(k)].st # "none" /\ draft'[Home(k)].ver = x.ver
  <2>1. sess[k].state # "absent"
    BY <1>4 DEF Open
  <2>2. draft[Home(k)].st # "none" => sess[k].draft = Home(k)
    BY <1>c, <2>1, StoredDraft
  <2>3. draft[Home(k)].st # "none" /\ draft[Home(k)].ver = r.ver
    BY <1>4, <1>c, <1>e
  <2> QED
    BY <1>4, <1>b, <1>c, <2>2, <2>3 DEF KeptDraft
<1> QED
  BY <1>1, <1>2, <1>3, <1>4 DEF RowStep, Open

LEMMA ContentNext == HomeInv /\ OneContent /\ [Next]_vars => OneContent'
<1> SUFFICES ASSUME HomeInv, OneContent, [Next]_vars, Untouched' PROVE OneContent'
  BY DEF OneContent
<1>a. HomeInv' /\ Untouched
  BY HomeNext, UntouchedBefore
<1>b. /\ net = {} /\ \A j \in Key : draft[Home(j)].st # "none" => Stored(j).draft = Home(j)
      /\ \A j \in Key : \A x \in {row[j], sess[j]} :
           x.state \in Open \cup Receipts => draft[Home(j)].st # "none" /\ draft[Home(j)].ver = x.ver
  BY <1>a DEF OneContent
<1>c. MailInv /\ MailShowsDraft /\ TimedSends
  BY DEF HomeInv, ClaimInv
<1>1. ASSUME NEW k \in Key, NEW r \in Row, RowStep(k, r) PROVE OneContent'
  BY <1>1, <1>a, RowStepContent
<1>2. CASE LoadStep
  <2>1. NewRow.draft = None /\ NewRow.state = "pending"
    BY DEF NewRow, NoRow
  <2>2. ASSUME NEW k \in Key
        PROVE  /\ draft[Home(k)].st # "none" => Stored(k)'.draft = Home(k)
               /\ \A x \in {row'[k], sess'[k]} : x.state \in Open \cup Receipts
                    => draft[Home(k)].st # "none" /\ draft[Home(k)].ver = x.ver
    <3>1. CASE sess'[k] = sess[k] /\ (k \in dirty' <=> k \in dirty)
      BY <1>2, <1>b, <3>1 DEF LoadStep, Stored
    <3>2. CASE sess'[k] = row[k] /\ sess[k].state = "absent" /\ k \notin dirty \cup dirty'
      BY <1>2, <1>b, <3>2 DEF LoadStep, Stored
    <3>3. CASE sess'[k] = NewRow /\ row[k].state = "absent" /\ k \notin dirty /\ k \in dirty'
      <4>1. Stored(k).draft = None
        BY <3>3 DEF Stored, HomeInv, Fresh
      <4>2. draft[Home(k)].st = "none"
        BY <1>b, <4>1, Homes
      <4> QED
        BY <1>2, <1>b, <2>1, <3>3, <4>2 DEF LoadStep, Open, Receipts
    <3> QED
      BY <1>2, <3>1, <3>2, <3>3 DEF LoadStep
  <2>3. draft' = draft /\ net' = net
    BY <1>2 DEF LoadStep, mailVars
  <2> QED
    BY <1>b, <2>2, <2>3 DEF OneContent
<1>3. CASE OverStep
  <2>1. crashes' = MaxCrashes /\ crashes = MaxCrashes /\ MaxCrashes \in Nat
    BY <1>a DEF Untouched
  <2>2. /\ \A k \in Key : row'[k] = Stored(k) /\ Stored(k)' = Stored(k) /\ sess'[k].state = "absent"
        /\ draft' = draft /\ net' = net
    <3>1. row' = [k \in Key |-> Stored(k)] /\ net' = net
      <4>1. crashes' # crashes - 1
        BY <2>1
      <4> QED
        BY <1>3, <4>1 DEF OverStep
    <3>2. dirty' = {} /\ sess' = Unloaded /\ draft' = draft
      BY <1>3 DEF OverStep
    <3>3. \A k \in Key : Stored(k)' = row'[k]
      BY <3>2 DEF Stored
    <3> QED
      BY <3>1, <3>2, <3>3 DEF Unloaded, NoRow
  <2>3. \A k \in Key : Stored(k) \in {row[k], sess[k]}
    BY DEF Stored
  <2> QED
    BY <1>b, <2>2, <2>3 DEF OneContent, Open, Receipts
<1>4. ASSUME NEW k \in Key, ComposeStep(k) PROVE OneContent'
  <2>1. /\ draft' = draft /\ net' = net /\ sess' = sess
        /\ \A j \in Key : Stored(j) = row[j] /\ Stored(j)' = row'[j]
    BY <1>4 DEF ComposeStep, Stored, mailVars
  <2>2. \A j \in Key : /\ row'[j].draft = row[j].draft
                       /\ row'[j] = row[j] \/ row'[j].state = "pending"
    <3> TAKE j \in Key
    <3>1. CASE j = k
      BY <1>4, <3>1 DEF ComposeStep
    <3>2. CASE j # k
      BY <1>4, <3>2 DEF ComposeStep
    <3> QED
      BY <3>1, <3>2
  <2> QED
    BY <1>b, <2>1, <2>2 DEF OneContent, Open, Receipts
<1>5. CASE \E m \in mail, t \in HookTypes : Webhook(m, t)
  <2>1. HookStep
    BY <1>5, HookSteps DEF HomeInv
  <2>2. /\ draft' = draft /\ net' = net /\ sess' = sess /\ dirty' = dirty
        /\ \A k \in Key : /\ row'[k].draft = row[k].draft /\ row'[k].ver = row[k].ver
                          /\ row'[k].state \in Open \cup Receipts => row[k].state \in Open \cup Receipts
    BY <2>1 DEF HookStep, SameButState, mailVars
  <2> QED
    BY <1>b, <2>2 DEF OneContent, Stored
<1>6. CASE (\E to \in Writers : SwitchMode(to)) \/ PassSendTime \/ Service \/ UNCHANGED vars
  <2>1. UNCHANGED jobVars /\ net' = net /\ \A d \in DraftId : KeptDraft(d)
    <3>1. CASE Service
      BY <1>c, <3>1, ServiceDraft DEF Service
    <3>2. CASE (\E to \in Writers : SwitchMode(to)) \/ PassSendTime \/ UNCHANGED vars
      BY <3>2 DEF SwitchMode, PassSendTime, vars, mailVars, KeptDraft
    <3> QED
      BY <1>6, <3>1, <3>2
  <2>2. \A k \in Key : row'[k] = row[k] /\ sess'[k] = sess[k] /\ Stored(k)' = Stored(k)
    BY <2>1 DEF jobVars, Stored
  <2> QED
    BY <1>b, <2>1, <2>2, Homes DEF OneContent, KeptDraft
<1>7. CASE Late
  BY <1>7, <1>b DEF Late
<1> QED
  BY <1>1, <1>2, <1>3, <1>4, <1>5, <1>6, <1>7, AllSteps DEF Outside

\* While no call has failed and no job has died, what is recorded as sent had
\* the content the ledger lists for it, however compose, deliver, reconcile and
\* the send time interleave.
THEOREM ReceiptsMatch == Spec => []ReceiptsMatchContent
<1>1. Init => OneContent
  <2> SUFFICES ASSUME Init PROVE OneContent
    OBVIOUS
  <2>1. /\ net = {} /\ NoRow.state = "absent"
        /\ \A k \in Key : row[k] = NoRow /\ sess[k] = NoRow
        /\ \A d \in DraftId : draft[d].st = "none"
    BY DEF Init, MailInit, Unloaded, NoRow, NoDraftRecord
  <2> QED
    BY <2>1, Homes DEF OneContent, Open, Receipts
<1>2. HomeInv /\ OneContent => ReceiptsMatchContent
  <2> SUFFICES ASSUME HomeInv, OneContent, Untouched, NEW k \in Key, row[k].state \in Receipts,
                      NEW m \in MessagesOf(k)
               PROVE  m.ver = row[k].ver
    BY DEF ReceiptsMatchContent, Untouched
  <2>1. m \in mail /\ m.draft \in DraftId /\ m.draft[1] = k
    BY DEF MessagesOf, HomeInv, ClaimInv, MailInv, TypeInv, TypeOK, MailTypeOK, Message
  <2>2. draft[m.draft].st = "gone" /\ m.draft[2] = 0
    BY <2>1 DEF HomeInv, ClaimInv, MailInv, OneDraft
  <2>3. m.draft = Home(k)
    BY <2>1, <2>2 DEF DraftId, Home
  <2>4. m.ver = draft[Home(k)].ver
    BY <2>1, <2>3 DEF HomeInv, MailShowsDraft
  <2> QED
    BY <2>4 DEF OneContent
<1> QED
  BY <1>1, <1>2, HomeInit, HomeNext, ContentNext, PTL DEF Spec
=============================================================================
