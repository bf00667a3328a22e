---------------------------- MODULE OutboxClaims ----------------------------
(***************************************************************************)
(* Proofs about module Outbox: claims are committed before a send and are  *)
(* never taken back, and the outbox implements module DeliveryPromise.     *)
(*                                                                         *)
(* The argument follows a row through the session of the running job.  A   *)
(* job works on a row only in the states it loaded it for (Work), and as   *)
(* long as its copy is not committed nobody else moves the row (Session):  *)
(* the webhook only finds rows whose message is recorded, and those are    *)
(* receipts already (Receipted), which no job works on.                    *)
(***************************************************************************)
EXTENDS OutboxProofs

USE OutboxAssumption, BoundsAssumption

-----------------------------------------------------------------------------
(* The inductive invariant.                                                *)

\* A row only ever knows Drafts of its own key.
OwnDrafts == \A k \in Key : /\ row[k].draft # None => row[k].draft[1] = k
                            /\ sess[k].draft # None => sess[k].draft[1] = k

\* The service itself only sends Drafts that have a send time.
TimedSends == \A d \in DraftId : draft[d].st = "sending" => draft[d].sched

\* Until its send time the digest is not sent at once.
NotDueYet ==
  ~due => /\ ~job.past /\ job.at # Digest /\ ~Posted(Digest)
          /\ row[Digest].sendmode # "immediate" /\ sess[Digest].sendmode # "immediate"

\* What a job's copy of a row and the committed row have to do with each other.
Session ==
  /\ job.cmd = "idle" => job = Idle /\ sess = Unloaded /\ dirty = {}
  /\ \A k \in dirty : sess[k].state # "absent" /\ row[k].state \notin Receipts \cup {"failed"}
  /\ \A k \in Key \ dirty :
       sess[k].state # "absent"
         => row[k].state = sess[k].state \/ {row[k].state, sess[k].state} \subseteq Receipts

\* The states of the rows a job has in hand.
Work ==
  /\ \A k \in job.todo :
       sess[k].state \in IF job.phase = "reconcile" THEN {"scheduled", "sending", "unknown"}
                         ELSE {"pending"}
  /\ job.at # None => job.at \notin dirty /\ sess[job.at].state = "sending"

\* A posted or claimed row is not started over, in the ledger or in a session.
Claims == \A k \in Key :
  /\ Posted(k) => row[k].state \notin {"absent", "pending"}
  /\ Posted(k) \/ row[k].state \in {"sending", "unknown"} => sess[k].state # "pending"

\* A receipt stands for a message, and a recorded message for a receipt.
Receipted == \A k \in Key :
  /\ row[k].state \in Receipts \/ sess[k].state \in Receipts => MessagesOf(k) # {}
  /\ row[k].msg # None => row[k].state \in Receipts
  /\ sess[k].msg # None => sess[k].state \in Receipts

ClaimInv == /\ MailInv /\ OwnDrafts /\ TimedSends /\ NotDueYet
            /\ Session /\ Work /\ Claims /\ Receipted

-----------------------------------------------------------------------------
(* What the mail service does to what is posted.                           *)

\* A Draft that changes but is not consumed posts nothing.
LEMMA RewritePosts ==
  ASSUME MailInv, TimedSends, NEW d \in DraftId, NEW r \in DraftRecord,
         draft[d].st # "gone", r.st = "sending" => r.sched,
         draft' = [draft EXCEPT ![d] = r], UNCHANGED mail, net' \subseteq net
  PROVE  TimedSends' /\ \A k \in Key : Posted(k)' => Posted(k)
<1>1. \A e \in DraftId : draft'[e] = IF e = d THEN r ELSE draft[e]
  BY DEF MailInv, TypeInv, TypeOK, MailTypeOK
<1>2. \A m \in mail : m.draft \in DraftId /\ draft'[m.draft] = draft[m.draft]
  BY <1>1 DEF MailInv, OneDraft, TypeInv, TypeOK, MailTypeOK, Message
<1> QED
  BY <1>1, <1>2 DEF TimedSends, Posted, MessagesOf

\* A message of a Draft without a send time stands for a posted send of its key.
LEMMA ConsumePosts ==
  ASSUME MailInv, TimedSends, NEW d \in DraftId, draft[d].st # "gone", Consume(d),
         net' \subseteq net
  PROVE  /\ TimedSends'
         /\ \A k \in Key : Posted(k)' => Posted(k) \/ (~draft[d].sched /\ d[1] = k)
         /\ MessagesOf(d[1])' # {}
<1> DEFINE new == [draft |-> d, ver |-> draft[d].ver, by |-> draft[d].by]
<1>1. \A e \in DraftId : /\ draft'[e].sched = draft[e].sched
                         /\ draft'[e].st = IF e = d THEN "gone" ELSE draft[e].st
  BY DEF Consume, MailInv, TypeInv, TypeOK, MailTypeOK, DraftRecord
<1>2. mail' = mail \cup {new} /\ new.draft = d
  BY DEF Consume
<1>3. \A m \in mail : m.draft \in DraftId
  BY DEF MailInv, TypeInv, TypeOK, MailTypeOK, Message
<1> HIDE DEF new
<1>4. TimedSends'
  BY <1>1 DEF TimedSends
<1>5. MessagesOf(d[1])' # {}
  BY <1>2 DEF MessagesOf
<1>6. ASSUME NEW k \in Key, Posted(k)' PROVE Posted(k) \/ (~draft[d].sched /\ d[1] = k)
  BY <1>1, <1>2, <1>3, <1>6 DEF Posted, MessagesOf
<1> QED
  BY <1>4, <1>5, <1>6

\* A request that is executed posts nothing unless it is a send of that key.
LEMMA ExecutePosts ==
  ASSUME MailInv, TimedSends, NEW q \in Request, Execute(q), net' \subseteq net
  PROVE  /\ TimedSends'
         /\ \A k \in Key : Posted(k)' => Posted(k) \/ (q.op = "send" /\ q.draft[1] = k)
         /\ mail \subseteq mail'
         /\ q.op = "send" /\ draft[q.draft].st = "open" => MessagesOf(q.draft[1])' # {}
<1> DEFINE d == q.draft
<1>0. d \in DraftId /\ q.sched \in BOOLEAN /\ q.ver \in Version /\ q.by \in Writers
  BY DEF Request
<1>1. CASE q.op = "create" /\ draft[d].st = "none" /\ UNCHANGED mail
           /\ draft' = [draft EXCEPT ![d] = [st |-> "open", sched |-> q.sched,
                                             ver |-> q.ver, by |-> q.by]]
  <2>1. [st |-> "open", sched |-> q.sched, ver |-> q.ver, by |-> q.by] \in DraftRecord
    BY <1>0 DEF DraftRecord
  <2> QED
    BY <1>0, <1>1, <2>1, RewritePosts
<1>2. CASE q.op = "update" /\ draft[d].st = "open" /\ UNCHANGED mail
           /\ draft' = [draft EXCEPT ![d] = [st |-> "open", sched |-> q.sched \/ draft[d].sched,
                                             ver |-> q.ver, by |-> q.by]]
  <2>1. [st |-> "open", sched |-> q.sched \/ draft[d].sched, ver |-> q.ver, by |-> q.by]
          \in DraftRecord
    BY <1>0 DEF DraftRecord
  <2> QED
    BY <1>0, <1>2, <2>1, RewritePosts
<1>3. CASE q.op = "send" /\ draft[d].st = "open" /\ Consume(d)
  <2>1. mail \subseteq mail'
    BY <1>3 DEF Consume
  <2> QED
    BY <1>0, <1>3, <2>1, ConsumePosts
<1>4. CASE UNCHANGED <<draft, mail>> /\ draft[d].st # IF q.op = "create" THEN "none" ELSE "open"
  BY <1>4 DEF TimedSends, Posted, MessagesOf
<1> QED
  BY <1>1, <1>2, <1>3, <1>4 DEF Execute

\* So for a call, however it turns out.
LEMMA CallPosts ==
  ASSUME MailInv, TimedSends, NEW q \in Request, NEW answer, Call(q, answer)
  PROVE  /\ TimedSends'
         /\ \A k \in Key : Posted(k)' => Posted(k) \/ (q.op = "send" /\ q.draft[1] = k)
         /\ mail \subseteq mail'
         /\ q.op = "send" /\ answer = "ok" => MessagesOf(q.draft[1])' # {}
<1>1. CASE answer = "ok" /\ Accepts(q) /\ Execute(q) /\ UNCHANGED <<net, faults>>
  BY <1>1, ExecutePosts DEF Accepts
<1>2. CASE answer # "ok" /\ Execute(q) /\ UNCHANGED net
  BY <1>2, ExecutePosts
<1>3. CASE answer # "ok" /\ net' = net \cup {q} /\ UNCHANGED <<draft, mail>>
  BY <1>3 DEF TimedSends, Posted, MessagesOf
<1>4. CASE answer # "ok" /\ UNCHANGED <<draft, mail, net>>
  BY <1>4 DEF TimedSends, Posted, MessagesOf
<1> QED
  BY <1>1, <1>2, <1>3, <1>4 DEF Call, Refusals, mailVars

\* When nothing happens at the service nothing is posted.
LEMMA QuietPosts ==
  ASSUME TimedSends, UNCHANGED <<draft, mail, net>>
  PROVE  /\ TimedSends' /\ mail \subseteq mail'
         /\ \A k \in Key : Posted(k)' = Posted(k) /\ MessagesOf(k)' = MessagesOf(k)
  BY DEF TimedSends, Posted, MessagesOf

\* Messages stay.
LEMMA MessagesStay ==
  ASSUME mail \subseteq mail', NEW k, MessagesOf(k) # {}
  PROVE  MessagesOf(k)' # {}
  BY DEF MessagesOf

-----------------------------------------------------------------------------
(* The steps of a job.                                                     *)

\* A job calls the service for a row it has in hand and writes the row ...
LEMMA WriteStepClaims ==
  ASSUME ClaimInv, MailInv', TimedSends', mail \subseteq mail', NEW k \in Key, NEW r \in Row,
         job.cmd # "idle", (job.at = None /\ k \in job.todo) \/ job.at = k,
         Write(k, r), Done(k), UNCHANGED envVars,
         \A j \in Key : Posted(j)' => Posted(j) \/ (j = k /\ job.at = k),
         r.state # "absent", r.state = "pending" => job.at = None /\ sess[k].state = "pending",
         r.state \in Receipts => MessagesOf(k)' # {}, r.msg # None => r.state \in Receipts,
         r.draft # None => r.draft[1] = k, k = Digest /\ r.sendmode = "immediate" => due
  PROVE  ClaimInv'
<1> USE DEF ClaimInv
<1>a. /\ row \in [Key -> Row] /\ sess \in [Key -> Row] /\ dirty \subseteq Key /\ job \in Job
      /\ job.todo \subseteq Key /\ k # None
  BY DEF MailInv, TypeInv, TypeOK, Job
<1>b. /\ sess' = [sess EXCEPT ![k] = r] /\ dirty' = dirty \cup {k} /\ row' = row
      /\ sess'[k] = r /\ \A j \in Key \ {k} : sess'[j] = sess[j]
  BY <1>a DEF Write
<1>c. /\ job'.cmd = job.cmd /\ job'.phase = job.phase /\ job'.past = job.past
      /\ job'.todo = job.todo \ {k} /\ job'.at = None
  BY <1>a DEF Done, Job
<1>d. due' = due
  BY DEF envVars
<1>e. job.at = k => sess[k].state = "sending" /\ k \notin dirty
  BY <1>a DEF Work
<1>f. sess[k].state \in {"pending", "scheduled", "sending", "unknown"}
  BY <1>e DEF Work
<1>g. row[k].state \notin Receipts \cup {"failed"}
  BY <1>f DEF Session, Receipts
<1>h. job.at = k => row[k].state = "sending"
  BY <1>e, <1>g DEF Session
<1>1. OwnDrafts'
  BY <1>b DEF OwnDrafts
<1>2. NotDueYet'
  BY <1>b, <1>c, <1>d DEF NotDueYet
<1>3. Session'
  BY <1>b, <1>c, <1>g DEF Session
<1>4. Work'
  BY <1>a, <1>b, <1>c DEF Work
<1>5. Claims'
  BY <1>b, <1>h DEF Claims
<1>6. Receipted'
  BY <1>b, MessagesStay DEF Receipted
<1> QED
  BY <1>1, <1>2, <1>3, <1>4, <1>5, <1>6

\* ... or claims it for a send, with everything it has changed so far.
LEMMA ClaimStepClaims ==
  ASSUME ClaimInv, MailInv', TimedSends', mail \subseteq mail', NEW k \in Key, NEW r \in Row,
         job.cmd # "idle", job.at = None, k \in job.todo,
         WriteAndCommit(k, r), Claim(k), UNCHANGED envVars,
         \A j \in Key : Posted(j)' => Posted(j),
         r.state = "sending", r.msg = None, r.draft[1] = k, k = Digest => due
  PROVE  ClaimInv'
<1> USE DEF ClaimInv
<1>a. /\ row \in [Key -> Row] /\ sess \in [Key -> Row] /\ dirty \subseteq Key /\ job \in Job
      /\ job.todo \subseteq Key /\ k # None
  BY DEF MailInv, TypeInv, TypeOK, Job
<1>b. /\ dirty' = {} /\ sess'[k] = r /\ row'[k] = r
      /\ \A j \in Key \ {k} : /\ sess'[j] = sess[j]
                              /\ row'[j] = IF j \in dirty THEN sess[j] ELSE row[j]
  BY <1>a DEF WriteAndCommit, Stored
<1>c. /\ job'.cmd = job.cmd /\ job'.phase = job.phase /\ job'.past = job.past
      /\ job'.todo = job.todo \ {k} /\ job'.at = k
  BY <1>a DEF Claim, Job
<1>d. due' = due
  BY DEF envVars
<1>1. OwnDrafts'
  BY <1>b DEF OwnDrafts
<1>2. NotDueYet'
  BY <1>b, <1>c, <1>d DEF NotDueYet
<1>3. Session'
  BY <1>b, <1>c DEF Session
<1>4. Work'
  BY <1>a, <1>b, <1>c DEF Work
<1>5. Claims'
  BY <1>b DEF Claims, Session
<1>6. Receipted'
  BY <1>b, MessagesStay DEF Receipted, Receipts
<1> QED
  BY <1>1, <1>2, <1>3, <1>4, <1>5, <1>6

\* The Draft a row of k asks for is one of k.
LEMMA OwnCall ==
  ASSUME NEW r \in Row, NEW k \in Key, NEW w, NEW s, r.draft # None => r.draft[1] = k
  PROVE  DraftCall(r, k, w, s).draft[1] = k
  BY DEF DraftCall, ClientId

\* What a live job makes of a row before the call.
LEMMA LiveFields ==
  ASSUME TypeOK, NEW k \in Key
  PROVE  /\ LiveRow(k).state = sess[k].state /\ LiveRow(k).msg = sess[k].msg
         /\ LiveRow(k).draft = sess[k].draft
         /\ LiveRow(k).sendmode = IF Scheduled(k) THEN "scheduled" ELSE "immediate"
<1>1. sess[k] \in Row
  BY DEF TypeOK
<1> DEFINE m == IF Scheduled(k) THEN "scheduled" ELSE "immediate"
           x == Counted(sess[k])
<1>2. x \in Row /\ LiveRow(k) = [x EXCEPT !.sendmode = m]
  BY <1>1, CountedType DEF LiveRow
<1>3. x.state = sess[k].state /\ x.msg = sess[k].msg /\ x.draft = sess[k].draft
  <2> DEFINE n == IF sess[k].attempts < MaxAttempts THEN sess[k].attempts + 1
                  ELSE sess[k].attempts
  <2>1. x = [sess[k] EXCEPT !.attempts = n]
    BY DEF Counted
  <2> HIDE DEF n, x
  <2> QED
    BY <1>1, <2>1 DEF Row
<1> HIDE DEF x, m
<1>4. LiveRow(k).sendmode = m /\ LiveRow(k).state = x.state /\ LiveRow(k).msg = x.msg
      /\ LiveRow(k).draft = x.draft
  BY <1>2 DEF Row
<1> QED
  BY <1>3, <1>4 DEF m

\* A row in hand for deliver has no message yet.
LEMMA PendingRow ==
  ASSUME ClaimInv, NEW k \in Key, Delivering(k)
  PROVE  /\ sess[k] \in Row /\ sess[k].state = "pending" /\ sess[k].msg = None
         /\ sess[k].draft # None => sess[k].draft[1] = k
         /\ job.cmd # "idle" /\ job.at = None /\ k \in job.todo
  BY DEF Delivering, ClaimInv, Work, Receipted, Receipts, OwnDrafts, MailInv, TypeInv, TypeOK

\* The send of a claimed row posts a send of its key and of no other ...
LEMMA SentCall ==
  ASSUME ClaimInv, NEW k \in Key, job.at = k, NEW answer, Call(SendCall(k), answer)
  PROVE  /\ TimedSends' /\ mail \subseteq mail'
         /\ \A j \in Key : Posted(j)' => Posted(j) \/ (j = k /\ job.at = k)
         /\ answer = "ok" => MessagesOf(k)' # {}
         /\ sess[k].draft[1] = k /\ sess[k].state = "sending" /\ sess[k].msg = None
         /\ k = Digest => due
<1>1. job.at # None
  OBVIOUS
<1>2. /\ SendCall(k) \in Request /\ SendCall(k).op = "send"
      /\ SendCall(k).draft = sess[k].draft /\ sess[k].draft # None
  BY <1>1, Basics DEF ClaimInv, MailInv, TypeInv, ClaimHasDraft, SendCall, Request, Writers
<1>3. sess[k].draft[1] = k
  BY <1>2 DEF ClaimInv, OwnDrafts
<1>4. sess[k].state = "sending" /\ sess[k].msg = None
  BY <1>1 DEF ClaimInv, Work, Receipted, Receipts
<1>5. k = Digest => due
  BY DEF ClaimInv, NotDueYet
<1> QED
  BY <1>2, <1>3, <1>4, <1>5, CallPosts DEF ClaimInv

\* ... and when it fails the row is left to reconciliation.
LEMMA SendFailsClaims ==
  ASSUME ClaimInv, MailInv', NEW k \in Key, job.cmd # "idle", job.at = k, SendFails(k)
  PROVE  ClaimInv'
<1>1. PICK answer \in {"timeout", "retryable", "fatal"} :
        /\ Call(SendCall(k), answer)
        /\ Write(k, [sess[k] EXCEPT !.state = AfterSendError(answer)])
  BY DEF SendFails
<1> DEFINE s == AfterSendError(answer)
           r == [sess[k] EXCEPT !.state = s]
<1>2. s \in {"failed", "unknown"} /\ s \in States
  BY StateTypes DEF AfterSendError
<1> HIDE DEF s
<1>3. sess[k] \in Row
  BY DEF ClaimInv, MailInv, TypeInv, TypeOK
<1>4. r \in Row /\ r.state = s /\ r.draft = sess[k].draft /\ r.msg = sess[k].msg
      /\ r.sendmode = sess[k].sendmode
  BY <1>2, <1>3 DEF Row
<1>5. Write(k, r) /\ Done(k) /\ UNCHANGED envVars
  BY <1>1 DEF SendFails, s
<1> HIDE DEF r
<1> QED
  BY <1>1, <1>2, <1>4, <1>5, SentCall, WriteStepClaims DEF Receipts

LEMMA DeliverStepClaims ==
  ASSUME ClaimInv, MailInv', DeliverStep
  PROVE  ClaimInv'
<1>0. PICK k \in Key :
        \/ DeliverShadow(k) \/ DeliverScheduled(k) \/ DeliverClaim(k)
        \/ DeliverDraftError(k) \/ DeliverSend(k) \/ DeliverSendError(k)
  BY DEF DeliverStep
<1>a. MailInv /\ TimedSends /\ TypeOK /\ sess[k] \in Row
  BY DEF ClaimInv, MailInv, TypeInv, TypeOK
<1>1. CASE DeliverShadow(k)
  <2> DEFINE r == [sess[k] EXCEPT !.state = "draft", !.shadow = TRUE, !.sendmode = "shadow"]
             q == DraftCall(r, k, "shadow", FALSE)
  <2>1. r \in Row /\ r.state = "draft" /\ r.sendmode = "shadow" /\ r.msg = sess[k].msg
        /\ r.draft = sess[k].draft
    BY <1>a, ShadowRow DEF Row
  <2>2. Delivering(k)
    BY <1>1 DEF DeliverShadow
  <2>3. r.msg = None /\ (r.draft # None => r.draft[1] = k)
    BY <2>1, <2>2, PendingRow
  <2> HIDE DEF r
  <2>4. q \in Request /\ q.draft \in DraftId /\ q.draft[1] = k
    <3>1. q \in Request /\ q.draft \in DraftId
      BY <2>1, DraftCallType DEF Writers
    <3>2. q.draft[1] = k
      BY <2>3 DEF DraftCall, ClientId
    <3> QED
      BY <3>1, <3>2
  <2>5. q.op # "send"
    BY DEF DraftCall
  <2> HIDE DEF q
  <2> DEFINE x == [r EXCEPT !.draft = q.draft]
  <2>6. x \in Row /\ x.state = "draft" /\ x.sendmode = "shadow" /\ x.msg = None /\ x.draft = q.draft
    BY <2>1, <2>3, <2>4 DEF Row
  <2> HIDE DEF x
  <2>7. PICK answer : Call(q, answer) /\ Write(k, IF answer = "ok" THEN x ELSE r)
    BY <1>1 DEF DeliverShadow, q, r, x
  <2>8. TimedSends' /\ mail \subseteq mail' /\ \A j \in Key : Posted(j)' => Posted(j)
    BY <1>a, <2>4, <2>5, <2>7, CallPosts
  <2> DEFINE y == IF answer = "ok" THEN x ELSE r
  <2>9. y \in Row /\ y.state = "draft" /\ y.sendmode = "shadow" /\ y.msg = None
        /\ (y.draft # None => y.draft[1] = k)
    BY <2>1, <2>3, <2>4, <2>6
  <2>10. Write(k, y) /\ Done(k) /\ UNCHANGED envVars
    BY <2>7, <1>1 DEF DeliverShadow
  <2> HIDE DEF y
  <2>11. job.cmd # "idle" /\ job.at = None /\ k \in job.todo
    BY <2>2, PendingRow
  <2> QED
    BY <2>8, <2>9, <2>10, <2>11, WriteStepClaims DEF Receipts
<1> DEFINE q == LiveCall(k)
           l == LiveRow(k)
<1>b. l \in Row /\ q \in Request /\ q.draft \in DraftId
  BY <1>a, LiveType
<1>c. ASSUME Delivering(k)
      PROVE  /\ q.op # "send" /\ q.draft[1] = k
             /\ l.state = "pending" /\ l.msg = None /\ (l.draft # None => l.draft[1] = k)
             /\ l.sendmode = IF Scheduled(k) THEN "scheduled" ELSE "immediate"
             /\ job.cmd # "idle" /\ job.at = None /\ k \in job.todo
             /\ sess[k].state = "pending"
  <2>1. l.state = "pending" /\ l.msg = None /\ (l.draft # None => l.draft[1] = k)
        /\ l.sendmode = IF Scheduled(k) THEN "scheduled" ELSE "immediate"
    BY <1>a, <1>c, PendingRow, LiveFields
  <2>2. q.draft[1] = k
    BY <1>b, <2>1, OwnCall DEF LiveCall
  <2>3. q.op # "send"
    BY DEF LiveCall, DraftCall
  <2> QED
    BY <1>c, <2>1, <2>2, <2>3, PendingRow
<1>d. ~Scheduled(k) /\ k = Digest => due
  BY DEF Scheduled, ClaimInv, NotDueYet, MailInv, TypeInv, TypeOK, Job
<1> HIDE DEF q, l
<1>e. ASSUME NEW answer, Delivering(k), Call(q, answer)
      PROVE  TimedSends' /\ mail \subseteq mail' /\ \A j \in Key : Posted(j)' => Posted(j)
  BY <1>a, <1>b, <1>c, <1>e, CallPosts
<1>2. CASE DeliverScheduled(k)
  <2> DEFINE r == [l EXCEPT !.draft = q.draft, !.state = "scheduled"]
  <2>1. Delivering(k) /\ Scheduled(k) /\ Call(q, "ok") /\ Write(k, r) /\ Done(k) /\ UNCHANGED envVars
    BY <1>2 DEF DeliverScheduled, q, l
  <2>2. r \in Row /\ r.draft = q.draft /\ r.state = "scheduled" /\ r.msg = l.msg
        /\ r.sendmode = l.sendmode
    BY <1>b, StateTypes DEF Row
  <2> HIDE DEF r
  <2> QED
    BY <1>c, <1>e, <2>1, <2>2, WriteStepClaims DEF Receipts
<1>3. CASE DeliverClaim(k)
  <2> DEFINE r == [l EXCEPT !.draft = q.draft, !.state = "sending"]
  <2>1. /\ Delivering(k) /\ ~Scheduled(k) /\ Call(q, "ok") /\ WriteAndCommit(k, r) /\ Claim(k)
        /\ UNCHANGED envVars
    BY <1>3 DEF DeliverClaim, q, l
  <2>2. r \in Row /\ r.draft = q.draft /\ r.state = "sending" /\ r.msg = l.msg
        /\ r.sendmode = l.sendmode
    BY <1>b, StateTypes DEF Row
  <2> HIDE DEF r
  <2> QED
    BY <1>c, <1>d, <1>e, <2>1, <2>2, ClaimStepClaims
<1>4. CASE DeliverDraftError(k)
  <2>1. PICK answer \in {"timeout", "retryable", "fatal"} :
          /\ Call(q, answer)
          /\ Write(k, [l EXCEPT !.state = AfterDraftError(answer)])
    BY <1>4 DEF DeliverDraftError, q, l
  <2> DEFINE s == AfterDraftError(answer)
             r == [l EXCEPT !.state = s]
  <2>2. s \in {"unknown", "pending", "failed"}
    BY DEF AfterDraftError
  <2>3. s \in States
    BY <2>2, StateTypes
  <2> HIDE DEF s
  <2>4. r \in Row /\ r.draft = l.draft /\ r.state = s /\ r.msg = l.msg /\ r.sendmode = l.sendmode
    BY <1>b, <2>3 DEF Row
  <2>5. Delivering(k) /\ Write(k, r) /\ Done(k) /\ UNCHANGED envVars
    BY <1>4, <2>1 DEF DeliverDraftError, s
  <2> HIDE DEF r
  <2> QED
    BY <1>c, <1>d, <1>e, <2>1, <2>2, <2>4, <2>5, WriteStepClaims DEF Receipts
<1>5. CASE DeliverSend(k)
  <2> DEFINE r == [sess[k] EXCEPT !.msg = sess[k].draft, !.state = "sent"]
  <2>1. /\ AtSend(k, {"deliver", "notice"}) /\ Call(SendCall(k), "ok")
        /\ Write(k, r) /\ Done(k) /\ UNCHANGED envVars
    BY <1>5 DEF DeliverSend
  <2>2. r \in Row /\ r.draft = sess[k].draft /\ r.state = "sent" /\ r.sendmode = sess[k].sendmode
    BY <1>a, StateTypes DEF Row
  <2> HIDE DEF r
  <2>3. job.cmd # "idle" /\ job.at = k
    BY <2>1 DEF AtSend
  <2>4. /\ TimedSends' /\ mail \subseteq mail'
        /\ \A j \in Key : Posted(j)' => Posted(j) \/ (j = k /\ job.at = k)
        /\ MessagesOf(k)' # {}
        /\ sess[k].draft[1] = k /\ (k = Digest => due)
    BY <2>1, <2>3, SentCall
  <2>5. r.state \in Receipts /\ r.state # "absent" /\ r.state # "pending"
    BY <2>2 DEF Receipts
  <2> QED
    BY <2>1, <2>2, <2>3, <2>4, <2>5, WriteStepClaims
<1>6. CASE DeliverSendError(k)
  BY <1>6, SendFailsClaims DEF DeliverSendError, AtSend
<1> QED
  BY <1>0, <1>1, <1>2, <1>3, <1>4, <1>5, <1>6

\* A row in hand for reconciliation has no message yet; what it learns about its
\* Draft is its own, and what recorded webhooks say of a message are receipts.
LEMMA ReconciledRow ==
  ASSUME ClaimInv, NEW k \in Key
  PROVE  /\ sess[k] \in Row
         /\ \A d \in Tracked(k) : d \in DraftId /\ d[1] = k
         /\ \A d \in LearnedDraft(k) : d \in DraftId \cup {None} /\ (d # None => d[1] = k)
         /\ \A d : Applied(d, "sent") \subseteq Receipts
         /\ Reconciling(k) => /\ sess[k].state # "absent" /\ sess[k].msg = None
                              /\ job.cmd # "idle" /\ job.at = None /\ k \in job.todo
<1>1. sess[k] \in Row /\ hooks \subseteq Hook
  BY DEF ClaimInv, MailInv, TypeInv, TypeOK
<1>2. \A d \in Visible(k) : d \in DraftId /\ d[1] = k
  BY DEF Visible, DraftId
<1>3. \A d \in Tracked(k) : d \in DraftId /\ d[1] = k
  BY <1>2 DEF Tracked
<1>4. \A d \in LearnedDraft(k) : d \in DraftId \cup {None} /\ (d # None => d[1] = k)
  BY <1>1, <1>2 DEF LearnedDraft, Row, ClaimInv, OwnDrafts
<1>5. \A d : Applied(d, "sent") \subseteq Receipts
  BY <1>1 DEF Applied, Hook, Receipts
<1>6. Reconciling(k) => /\ sess[k].state # "absent" /\ sess[k].msg = None
                        /\ job.cmd # "idle" /\ job.at = None /\ k \in job.todo
  BY DEF Reconciling, ClaimInv, Work, Receipted, Receipts
<1> QED
  BY <1>1, <1>3, <1>4, <1>5, <1>6

LEMMA ReconcileStepClaims ==
  ASSUME ClaimInv, MailInv', ReconcileStep
  PROVE  ClaimInv'
<1>0. PICK k \in Key :
        \/ ReconcileDraft(k) \/ ReconcileClaim(k) \/ ReconcileSend(k)
        \/ ReconcileSendError(k) \/ ReconcileMessage(k) \/ ReconcileNothing(k)
  BY DEF ReconcileStep
<1>a. sess[k] \in Row
  BY ReconciledRow
<1>b. ASSUME UNCHANGED <<draft, mail, net>>
      PROVE  /\ TimedSends' /\ mail \subseteq mail'
             /\ \A j \in Key : Posted(j)' => Posted(j)
             /\ MessagesOf(k)' = MessagesOf(k)
  BY <1>b, QuietPosts DEF ClaimInv
<1>c. k = Digest /\ sess[k].sendmode = "immediate" => due
  BY DEF ClaimInv, NotDueYet
<1>1. CASE ReconcileDraft(k)
  <2>1. PICK d \in Tracked(k) :
          Write(k, [sess[k] EXCEPT !.draft = d, !.state = StateOfDraft(k, d)])
    BY <1>1 DEF ReconcileDraft
  <2> DEFINE s == StateOfDraft(k, d)
             r == [sess[k] EXCEPT !.draft = d, !.state = s]
  <2>2. s \in {"draft", "failed", "sending", "scheduled"} /\ s \in States
    BY StateTypes DEF StateOfDraft
  <2>3. d \in DraftId /\ d[1] = k
    BY ReconciledRow
  <2> HIDE DEF s
  <2>4. r \in Row /\ r.draft = d /\ r.state = s /\ r.msg = sess[k].msg
        /\ r.sendmode = sess[k].sendmode
    BY <1>a, <2>2, <2>3 DEF Row
  <2>5. /\ Reconciling(k) /\ Write(k, r) /\ Done(k) /\ UNCHANGED envVars
        /\ UNCHANGED <<draft, mail, net>>
    BY <1>1, <2>1 DEF ReconcileDraft, mailVars, s
  <2> HIDE DEF r
  <2> QED
    BY <1>b, <1>c, <2>2, <2>3, <2>4, <2>5, ReconciledRow, WriteStepClaims DEF Receipts
<1>2. CASE ReconcileClaim(k)
  <2>1. PICK d \in Tracked(k) :
          /\ Resends(k, d)
          /\ WriteAndCommit(k, [sess[k] EXCEPT !.draft = d, !.state = "sending"])
    BY <1>2 DEF ReconcileClaim
  <2> DEFINE r == [sess[k] EXCEPT !.draft = d, !.state = "sending"]
  <2>2. d \in DraftId /\ d[1] = k
    BY ReconciledRow
  <2>3. r \in Row /\ r.draft = d /\ r.state = "sending" /\ r.msg = sess[k].msg
    BY <1>a, <2>2, StateTypes DEF Row
  <2>4. /\ Reconciling(k) /\ WriteAndCommit(k, r) /\ Claim(k) /\ UNCHANGED envVars
        /\ UNCHANGED <<draft, mail, net>>
    BY <1>2, <2>1 DEF ReconcileClaim, mailVars
  <2> HIDE DEF r
  <2>5. k = Digest => due
    BY <1>c, <2>1 DEF Resends, SendMode
  <2> QED
    BY <1>b, <2>2, <2>3, <2>4, <2>5, ReconciledRow, ClaimStepClaims
<1>3. CASE ReconcileSend(k)
  <2>1. PICK s \in Applied(sess[k].draft, "sent") :
          Write(k, [sess[k] EXCEPT !.msg = sess[k].draft, !.state = s])
    BY <1>3 DEF ReconcileSend
  <2> DEFINE r == [sess[k] EXCEPT !.msg = sess[k].draft, !.state = s]
  <2>2. s \in Receipts
    BY ReconciledRow
  <2>3. r \in Row /\ r.draft = sess[k].draft /\ r.state = s /\ r.sendmode = sess[k].sendmode
    BY <1>a, <2>2, StateTypes DEF Row
  <2>4. /\ AtSend(k, {"reconcile"}) /\ Call(SendCall(k), "ok") /\ Write(k, r) /\ Done(k)
        /\ UNCHANGED envVars
    BY <1>3, <2>1 DEF ReconcileSend
  <2> HIDE DEF r
  <2>5. job.cmd # "idle" /\ job.at = k
    BY <2>4 DEF AtSend
  <2>6. /\ TimedSends' /\ mail \subseteq mail'
        /\ \A j \in Key : Posted(j)' => Posted(j) \/ (j = k /\ job.at = k)
        /\ MessagesOf(k)' # {} /\ sess[k].draft[1] = k /\ (k = Digest => due)
    BY <2>4, <2>5, SentCall
  <2>7. r.state # "absent" /\ r.state # "pending"
    BY <2>2, <2>3 DEF Receipts
  <2> QED
    BY <2>2, <2>3, <2>4, <2>5, <2>6, <2>7, WriteStepClaims
<1>4. CASE ReconcileSendError(k)
  BY <1>4, SendFailsClaims DEF ReconcileSendError, AtSend
<1>5. CASE ReconcileMessage(k)
  <2>1. PICK m \in MessagesOf(k), d \in LearnedDraft(k) : \E s \in Applied(m.draft, "sent") :
          Write(k, [sess[k] EXCEPT !.draft = d, !.msg = m.draft, !.state = s])
    BY <1>5 DEF ReconcileMessage
  <2>2. PICK s \in Applied(m.draft, "sent") :
          Write(k, [sess[k] EXCEPT !.draft = d, !.msg = m.draft, !.state = s])
    BY <2>1
  <2> DEFINE e == m.draft
             r == [sess[k] EXCEPT !.draft = d, !.msg = e, !.state = s]
  <2>3. s \in Receipts /\ d \in DraftId \cup {None} /\ (d # None => d[1] = k)
    BY ReconciledRow
  <2>4. e \in DraftId /\ s \in States
    BY <2>3, StateTypes DEF MessagesOf, ClaimInv, MailInv, TypeInv, TypeOK, MailTypeOK, Message
  <2> HIDE DEF e
  <2>5. r \in Row /\ r.draft = d /\ r.state = s /\ r.sendmode = sess[k].sendmode
    BY <1>a, <2>3, <2>4 DEF Row
  <2>6. /\ Reconciling(k) /\ Write(k, r) /\ Done(k) /\ UNCHANGED envVars
        /\ UNCHANGED <<draft, mail, net>>
    BY <1>5, <2>2 DEF ReconcileMessage, NoDraftRead, mailVars, e
  <2> HIDE DEF r
  <2>7. r.state # "absent" /\ r.state # "pending"
    BY <2>3, <2>5 DEF Receipts
  <2>8. MessagesOf(k)' # {}
    BY <1>b, <2>6
  <2> QED
    BY <1>b, <1>c, <2>3, <2>5, <2>6, <2>7, <2>8, ReconciledRow, WriteStepClaims
<1>6. CASE ReconcileNothing(k)
  <2>1. PICK d \in LearnedDraft(k) : Write(k, [sess[k] EXCEPT !.draft = d, !.state = "unknown"])
    BY <1>6 DEF ReconcileNothing
  <2> DEFINE r == [sess[k] EXCEPT !.draft = d, !.state = "unknown"]
  <2>2. d \in DraftId \cup {None} /\ (d # None => d[1] = k)
    BY ReconciledRow
  <2>3. r \in Row /\ r.draft = d /\ r.state = "unknown" /\ r.msg = sess[k].msg
        /\ r.sendmode = sess[k].sendmode
    BY <1>a, <2>2, StateTypes DEF Row
  <2>4. /\ Reconciling(k) /\ Write(k, r) /\ Done(k) /\ UNCHANGED envVars
        /\ UNCHANGED <<draft, mail, net>>
    BY <1>6, <2>1 DEF ReconcileNothing, NoDraftRead, mailVars
  <2> HIDE DEF r
  <2> QED
    BY <1>b, <1>c, <2>2, <2>3, <2>4, ReconciledRow, WriteStepClaims DEF Receipts
<1> QED
  BY <1>0, <1>1, <1>2, <1>3, <1>4, <1>5, <1>6

\* Loading rows into the session.
LEMMA Loaded ==
  ASSUME TypeOK, NEW K, NEW k \in Key
  PROVE  Load(K)[k] = IF k \in K /\ sess[k].state = "absent" THEN row[k] ELSE sess[k]
  BY DEF Load

\* A job starts, goes on to its next part, or ends and commits.
LEMMA JobShapeClaims ==
  ASSUME ClaimInv, MailInv', StartDeliver \/ StartReconcile \/ ToReconcile \/ ToNotice \/ EndJob
  PROVE  ClaimInv'
<1> USE DEF ClaimInv
<1>a. /\ TypeOK /\ row \in [Key -> Row] /\ sess \in [Key -> Row] /\ dirty \subseteq Key
      /\ job \in Job /\ job.todo \subseteq Key
  BY DEF MailInv, TypeInv, TypeOK, Job
<1>b. UNCHANGED <<draft, mail, net>> /\ due' = due
  BY DEF StartDeliver, StartReconcile, Begin, ToReconcile, ToNotice, EndJob, mailVars, envVars
<1>c. /\ TimedSends'
      /\ \A k \in Key : Posted(k)' = Posted(k) /\ MessagesOf(k)' = MessagesOf(k)
  BY <1>b, QuietPosts
<1>1. CASE StartDeliver \/ StartReconcile
  <2>1. PICK cmd \in {"deliver", "reconcile"} : Begin(cmd)
    BY <1>1 DEF StartDeliver, StartReconcile
  <2> DEFINE K == InState({"pending"})
  <2>2. job.cmd = "idle" /\ sess = Unloaded /\ dirty = {}
    BY <2>1 DEF Begin, Session
  <2>3. /\ row' = row /\ dirty' = {} /\ sess' = Load(K)
        /\ job'.cmd = cmd /\ job'.phase = "deliver" /\ job'.todo = K /\ job'.at = None
        /\ job'.past = due
    BY <2>1, <2>2 DEF Begin, Idle
  <2>4. \A k \in Key : sess[k].state = "absent" /\ sess[k].draft = None /\ sess[k].msg = None
                       /\ sess[k].sendmode # "immediate"
    BY <2>2 DEF Unloaded, NoRow
  <2>5. \A k \in Key : k \in K <=> row[k].state = "pending"
    BY <2>2 DEF InState, Stored
  <2> HIDE DEF K
  <2>6. \A k \in Key : sess'[k] = IF k \in K THEN row[k] ELSE sess[k]
    BY <1>a, <2>3, <2>4, Loaded
  <2>7. K \subseteq Key
    BY DEF K, InState
  <2>8. OwnDrafts' /\ Receipted' /\ Claims'
    BY <1>c, <2>3, <2>4, <2>5, <2>6 DEF OwnDrafts, Receipted, Claims, Receipts
  <2>9. NotDueYet'
    BY <1>b, <1>c, <2>3, <2>4, <2>6 DEF NotDueYet
  <2>10. Session'
    BY <2>1, <2>3, <2>4, <2>6 DEF Session
  <2>11. Work'
    BY <2>3, <2>5, <2>6, <2>7 DEF Work
  <2> QED
    BY <1>c, <2>8, <2>9, <2>10, <2>11
<1>2. CASE ToReconcile
  <2> DEFINE K == InState({"scheduled", "sending", "unknown"})
  <2>1. /\ PartDone /\ row' = row /\ dirty' = dirty /\ sess' = Load(K)
        /\ job'.cmd = job.cmd /\ job'.phase = "reconcile" /\ job'.todo = K /\ job'.at = None
        /\ job'.past = job.past /\ job.cmd # "idle"
    BY <1>2, <1>a DEF ToReconcile, PartDone, Job
  <2>2. \A k \in K : k \in Key /\ Stored(k).state \in {"scheduled", "sending", "unknown"}
    BY DEF InState
  <2> HIDE DEF K
  <2>3. \A k \in Key : sess'[k] = IF k \in K /\ sess[k].state = "absent" THEN row[k] ELSE sess[k]
    BY <1>a, <2>1, Loaded
  <2>4. \A k \in K : sess'[k].state \in {"scheduled", "sending", "unknown"}
    BY <2>2, <2>3 DEF Stored, Session, Receipts
  <2>5. OwnDrafts' /\ Receipted' /\ NotDueYet'
    BY <1>b, <1>c, <2>1, <2>3 DEF OwnDrafts, Receipted, NotDueYet
  <2>6. Session'
    <3>1. \A k \in dirty' : sess'[k].state # "absent" /\ row'[k].state \notin Receipts \cup {"failed"}
      BY <1>a, <2>1, <2>3 DEF Session
    <3>2. ASSUME NEW k \in Key \ dirty', sess'[k].state # "absent"
          PROVE  row'[k].state = sess'[k].state \/ {row'[k].state, sess'[k].state} \subseteq Receipts
      BY <3>2, <2>1, <2>3 DEF Session
    <3> QED
      BY <2>1, <3>1, <3>2 DEF Session
  <2>7. Work'
    BY <2>1, <2>4 DEF Work
  <2>8. Claims'
    BY <1>c, <2>1, <2>3 DEF Claims
  <2> QED
    BY <1>c, <2>5, <2>6, <2>7, <2>8
<1>3. CASE ToNotice
  <2> DEFINE K == InState({"pending"}) \cup {Notice}
             new == Held(Notice).state = "absent"
             n == IF new THEN NewRow ELSE Held(Notice)
  <2>1. /\ NoticeNeeded /\ row' = row /\ dirty' = (IF new THEN dirty \cup {Notice} ELSE dirty)
        /\ sess' = [Load(K) EXCEPT ![Notice] = n]
        /\ job'.cmd = job.cmd /\ job'.phase = "notice" /\ job'.todo = K /\ job'.at = None
        /\ job'.past = due /\ job.cmd # "idle"
    BY <1>3, <1>a DEF ToNotice, PartDone, Job
  <2>2. /\ K \subseteq Key /\ \A k \in K \ {Notice} : Stored(k).state = "pending"
    BY DEF InState
  <2>3. /\ n.state = "pending" /\ n = IF new THEN NewRow ELSE Held(Notice)
        /\ Held(Notice).state \in {"absent", "pending"}
    BY <2>1 DEF NoticeNeeded, NewRow, NoRow
  <2>4. NewRow.draft = None /\ NewRow.msg = None /\ NewRow.sendmode = ""
    BY DEF NewRow, NoRow
  <2>5. \A k \in Key : Load(K)[k] = IF k \in K /\ sess[k].state = "absent" THEN row[k] ELSE sess[k]
    BY <1>a, Loaded
  <2>6. sess'[Notice] = n /\ \A k \in Key \ {Notice} :
          sess'[k] = IF k \in K /\ sess[k].state = "absent" THEN row[k] ELSE sess[k]
    <3>1. Load(K) \in [Key -> Row]
      BY <1>a, LoadType
    <3> HIDE DEF K, n
    <3> QED
      BY <2>1, <2>5, <3>1
  <2>a. /\ Held(Notice) = IF sess[Notice].state # "absent" THEN sess[Notice] ELSE row[Notice]
        /\ new <=> Held(Notice).state = "absent"
    BY DEF Held
  <2>b. Notice # Digest /\ Notice \in Key /\ Notice \in K
    OBVIOUS
  <2> HIDE DEF K, n, new
  <2>7. new => Notice \notin dirty /\ row[Notice].state = "absent" /\ sess[Notice].state = "absent"
    BY <2>a, <2>b DEF Session
  <2>c. \/ n = NewRow /\ Notice \in dirty' /\ row[Notice].state = "absent"
        \/ n = sess[Notice] /\ sess[Notice].state = "pending" /\ dirty' = dirty
        \/ n = row[Notice] /\ row[Notice].state = "pending" /\ dirty' = dirty
    <3>1. CASE new
      BY <3>1, <2>1, <2>3, <2>7
    <3>2. CASE ~new
      BY <3>2, <2>1, <2>3, <2>a
    <3> QED
      BY <3>1, <3>2
  <2>8. OwnDrafts' /\ NotDueYet'
    <3>1. n.draft # None => n.draft[1] = Notice
      BY <2>4, <2>b, <2>c DEF OwnDrafts
    <3>3. OwnDrafts'
      BY <2>1, <2>6, <2>b, <3>1 DEF OwnDrafts
    <3>2. sess'[Digest].sendmode \in {sess[Digest].sendmode, row[Digest].sendmode}
      BY <2>6, <2>b
    <3> QED
      BY <1>b, <1>c, <2>1, <3>2, <3>3 DEF NotDueYet
  <2>9. Receipted'
    <3>1. n.msg = None /\ n.state \notin Receipts
      BY <2>3, <2>4, <2>b, <2>c DEF Receipted, Receipts
    <3> QED
      BY <1>c, <2>1, <2>6, <2>b, <3>1 DEF Receipted
  <2>10. Session'
    <3>1. ASSUME NEW k \in dirty'
          PROVE  sess'[k].state # "absent" /\ row'[k].state \notin Receipts \cup {"failed"}
      <4>1. CASE k = Notice
        BY <3>1, <4>1, <2>1, <2>3, <2>6, <2>7 DEF Session, Receipts
      <4>2. CASE k # Notice
        BY <3>1, <4>2, <1>a, <2>1, <2>6 DEF Session
      <4> QED
        BY <4>1, <4>2
    <3>2. ASSUME NEW k \in Key \ dirty', sess'[k].state # "absent"
          PROVE  row'[k].state = sess'[k].state \/ {row'[k].state, sess'[k].state} \subseteq Receipts
      <4>1. CASE k = Notice
        BY <3>2, <4>1, <2>1, <2>3, <2>6, <2>c DEF Session
      <4>2. CASE k # Notice
        BY <3>2, <4>2, <2>1, <2>6 DEF Session
      <4> QED
        BY <4>1, <4>2
    <3> QED
      BY <2>1, <3>1, <3>2 DEF Session
  <2>11. Work'
    <3>1. \A k \in K \ {Notice} : sess'[k].state = "pending"
      BY <2>2, <2>6 DEF Stored, Session, Receipts
    <3> QED
      BY <2>1, <2>3, <2>6, <3>1 DEF Work
  <2>12. Claims'
    <3>1. ~Posted(Notice) /\ row[Notice].state \notin {"sending", "unknown"}
      BY <2>3, <2>a, <2>b DEF Claims
    <3> QED
      BY <1>c, <2>1, <2>6, <3>1 DEF Claims
  <2> QED
    BY <1>c, <2>8, <2>9, <2>10, <2>11, <2>12
<1>4. CASE EndJob
  <2>1. /\ sess' = Unloaded /\ dirty' = {} /\ job' = Idle
        /\ \A k \in Key : row'[k] = IF k \in dirty THEN sess[k] ELSE row[k]
    BY <1>4 DEF EndJob, Finish, Stored
  <2>2. \A k \in Key : sess'[k].state = "absent" /\ sess'[k].draft = None /\ sess'[k].msg = None
                       /\ sess'[k].sendmode # "immediate"
    BY <2>1 DEF Unloaded, NoRow
  <2>3. job'.todo = {} /\ job'.at = None /\ ~job'.past
    BY <2>1 DEF Idle
  <2>4. OwnDrafts' /\ Receipted'
    BY <1>c, <2>1, <2>2 DEF OwnDrafts, Receipted, Receipts
  <2>5. NotDueYet' /\ Work' /\ Session'
    BY <1>b, <1>c, <2>1, <2>2, <2>3 DEF NotDueYet, Work, Session
  <2>6. Claims'
    BY <1>c, <2>1, <2>2 DEF Claims, Session
  <2> QED
    BY <1>c, <2>4, <2>5, <2>6
<1> QED
  BY <1>1, <1>2, <1>3, <1>4

-----------------------------------------------------------------------------
(* Compose, crashes, the webhook and the service.                          *)

LEMMA ComposeClaims ==
  ASSUME ClaimInv, MailInv', Compose
  PROVE  ClaimInv'
<1> USE DEF ClaimInv
<1>0. PICK k \in Key : ComposeNew(k) \/ Recompose(k)
  BY DEF Compose
<1>1. /\ job.cmd = "idle" /\ UNCHANGED <<sess, dirty, job, draft, mail, net, due>>
  BY <1>0 DEF ComposeNew, Recompose, envVars, mailVars
<1>2. /\ TimedSends'
      /\ \A j \in Key : Posted(j)' = Posted(j) /\ MessagesOf(j)' = MessagesOf(j)
  BY <1>1, QuietPosts
<1>3. row \in [Key -> Row] /\ row[k] \in Row
  BY DEF MailInv, TypeInv, TypeOK
<1>4. ~Posted(k)
  BY <1>0 DEF ComposeNew, Recompose, StillMutable, Claims, NotDueYet
<1>5. /\ \A j \in Key \ {k} : row'[j] = row[j]
      /\ row'[k].state = "pending" /\ row'[k].draft \in {None, row[k].draft}
      /\ row'[k].msg = None /\ row'[k].sendmode \in {"", row[k].sendmode}
  <2>1. CASE ComposeNew(k)
    BY <2>1, <1>3 DEF ComposeNew, NewRow, NoRow
  <2>2. CASE Recompose(k)
    <3> DEFINE v == row[k].ver + 1
               r == [row[k] EXCEPT !.state = "pending", !.ver = v]
    <3>1. row' = [row EXCEPT ![k] = r]
      BY <2>2, <1>3 DEF Recompose
    <3>2. row[k].msg = None
      BY <2>2 DEF Recompose, StillMutable, Mutable, Receipted, Receipts
    <3> HIDE DEF v
    <3>3. r.state = "pending" /\ r.draft = row[k].draft /\ r.msg = row[k].msg
          /\ r.sendmode = row[k].sendmode
      BY <1>3 DEF Row
    <3> HIDE DEF r
    <3> QED
      BY <1>3, <3>1, <3>2, <3>3
  <2> QED
    BY <1>0, <2>1, <2>2
<1>6. \A j \in Key : sess[j].state = "absent"
  <2>1. sess = Unloaded
    BY <1>1 DEF Session
  <2> QED
    BY <2>1 DEF Unloaded, NoRow
<1>7. OwnDrafts' /\ NotDueYet'
  <2>1. OwnDrafts'
    BY <1>1, <1>5 DEF OwnDrafts
  <2>2. row'[Digest].sendmode = "immediate" => row[Digest].sendmode = "immediate"
    BY <1>5
  <2> QED
    BY <1>1, <1>2, <2>1, <2>2 DEF NotDueYet
<1>8. Session' /\ Work'
  BY <1>1, <1>6 DEF Session, Work, Idle
<1>9. Claims' /\ Receipted'
  BY <1>1, <1>2, <1>4, <1>5, <1>6 DEF Claims, Receipted, Receipts
<1> QED
  BY <1>2, <1>7, <1>8, <1>9

LEMMA CrashClaims ==
  ASSUME ClaimInv, MailInv', Crash
  PROVE  ClaimInv'
<1> USE DEF ClaimInv
<1>1. /\ job' = Idle /\ sess' = Unloaded /\ dirty' = {}
      /\ UNCHANGED <<row, due, draft, mail>>
  BY DEF Crash
<1>2. /\ job'.at = None /\ job'.todo = {} /\ ~job'.past
      /\ \A k \in Key : sess'[k].state = "absent" /\ sess'[k].draft = None /\ sess'[k].msg = None
                        /\ sess'[k].sendmode # "immediate"
  BY <1>1 DEF Idle, Unloaded, NoRow
<1>3. \A k \in Key : MessagesOf(k)' = MessagesOf(k) /\ (Posted(k)' => Posted(k) \/ k = job.at)
  <2>1. job.at # None => /\ job.at \in Key
                         /\ SendCall(job.at).draft = sess[job.at].draft
                         /\ sess[job.at].draft[1] = job.at
    <3>1. job.at # None => job.at \in Key /\ sess[job.at].draft # None
      BY DEF MailInv, TypeInv, TypeOK, Job, ClaimHasDraft
    <3> QED
      BY <3>1 DEF SendCall, OwnDrafts
  <2>2. net' = net \/ (job.at # None /\ net' = net \cup {SendCall(job.at)})
    BY DEF Crash
  <2> QED
    BY <1>1, <2>1, <2>2 DEF Posted, MessagesOf
<1>4. job.at # None => row[job.at].state = "sending"
  BY DEF MailInv, TypeInv, TypeOK, Job, Work, Session, Receipts
<1>5. OwnDrafts' /\ TimedSends'
  BY <1>1, <1>2 DEF OwnDrafts, TimedSends
<1>6. NotDueYet'
  BY <1>1, <1>2, <1>3 DEF NotDueYet
<1>7. Session' /\ Work'
  BY <1>1, <1>2 DEF Session, Work
<1>8. Claims'
  BY <1>1, <1>2, <1>3, <1>4 DEF Claims
<1>9. Receipted'
  BY <1>1, <1>2, <1>3 DEF Receipted, Receipts
<1> QED
  BY <1>5, <1>6, <1>7, <1>8, <1>9

\* A webhook only moves rows whose message is recorded: receipts.
LEMMA WebhookRows ==
  ASSUME ClaimInv, NEW m \in mail, NEW t \in HookTypes, Webhook(m, t), NEW k \in Key
  PROVE  /\ row'[k].draft = row[k].draft /\ row'[k].msg = row[k].msg
         /\ row'[k].sendmode = row[k].sendmode
         /\ \/ row'[k].state = row[k].state
            \/ /\ row[k].state \in Receipts /\ row'[k].state = t /\ t \in Receipts
               /\ Rank(t) >= Rank(row[k].state)
<1>1. row \in [Key -> Row] /\ row[k] \in Row /\ m.draft \in DraftId
  BY DEF ClaimInv, MailInv, TypeInv, TypeOK, MailTypeOK, Message
<1>2. t \in Receipts
  BY DEF Receipts
<1> DEFINE r == [row[k] EXCEPT !.state = t]
<1>3. r.state = t /\ r.draft = row[k].draft /\ r.msg = row[k].msg /\ r.sendmode = row[k].sendmode
  BY <1>1 DEF Row
<1>4. row'[k] = IF row[k].msg = m.draft /\ Rank(t) >= StoredRank(row[k].state) THEN r ELSE row[k]
  BY DEF Webhook
<1> HIDE DEF r
<1>5. row[k].msg = m.draft => row[k].state \in Receipts
  BY <1>1 DEF ClaimInv, Receipted
<1>6. row[k].state \in Receipts => StoredRank(row[k].state) = Rank(row[k].state)
  BY DEF StoredRank, Receipts
<1> QED
  BY <1>2, <1>3, <1>4, <1>5, <1>6

LEMMA WebhookClaims ==
  ASSUME ClaimInv, MailInv', NEW m \in mail, NEW t \in HookTypes, Webhook(m, t)
  PROVE  ClaimInv'
<1> USE DEF ClaimInv
<1>1. UNCHANGED <<sess, dirty, job, due, draft, mail, net>>
  BY DEF Webhook, mailVars
<1>2. /\ TimedSends'
      /\ \A k \in Key : Posted(k)' = Posted(k) /\ MessagesOf(k)' = MessagesOf(k)
  BY <1>1, QuietPosts
<1>3. \A k \in Key :
        /\ row'[k].draft = row[k].draft /\ row'[k].msg = row[k].msg
        /\ row'[k].sendmode = row[k].sendmode
        /\ row'[k].state = row[k].state \/ {row[k].state, row'[k].state} \subseteq Receipts
  BY WebhookRows
<1>4. OwnDrafts' /\ NotDueYet' /\ Work'
  BY <1>1, <1>2, <1>3 DEF OwnDrafts, NotDueYet, Work
<1>5. Session'
  BY <1>1, <1>3 DEF Session, MailInv, TypeInv, TypeOK
<1>6. Claims'
  BY <1>1, <1>2, <1>3 DEF Claims, Receipts
<1>7. Receipted'
  BY <1>1, <1>2, <1>3 DEF Receipted
<1> QED
  BY <1>2, <1>4, <1>5, <1>6, <1>7

\* What changes nothing but the service, and posts nothing.
LEMMA ServiceClaims ==
  ASSUME ClaimInv, MailInv', TimedSends', mail \subseteq mail', UNCHANGED jobVars, due => due',
         \A k \in Key : Posted(k)' => Posted(k)
  PROVE  ClaimInv'
<1> USE DEF ClaimInv
<1>1. UNCHANGED <<row, sess, dirty, job>>
  BY DEF jobVars
<1>2. OwnDrafts' /\ NotDueYet' /\ Work' /\ Session' /\ Claims'
  BY <1>1 DEF OwnDrafts, NotDueYet, Work, Session, Claims
<1>3. Receipted'
  BY <1>1, MessagesStay DEF Receipted
<1> QED
  BY <1>2, <1>3

LEMMA OutsideClaims ==
  ASSUME ClaimInv, MailInv', Outside
  PROVE  ClaimInv'
<1>a. MailInv /\ TimedSends /\ MailTypeOK
  BY DEF ClaimInv, MailInv, TypeInv, TypeOK
<1>1. CASE \E m \in mail, t \in HookTypes : Webhook(m, t)
  BY <1>1, WebhookClaims
<1>2. CASE (\E to \in Writers : SwitchMode(to)) \/ PassSendTime
  <2>1. UNCHANGED <<draft, mail, net>> /\ UNCHANGED jobVars /\ (due' = due \/ due' = TRUE)
    BY <1>2 DEF SwitchMode, PassSendTime, mailVars
  <2> QED
    BY <1>a, <2>1, QuietPosts, ServiceClaims
<1>3. CASE Service
  <2>1. PICK d \in DraftId : Fire(d) \/ FinishFire(d) \/ FailFire(d)
    BY <1>3 DEF Service
  <2>2. UNCHANGED jobVars /\ due' = due
    BY <1>3 DEF Service, envVars
  <2>3. draft[d] \in DraftRecord
    BY <1>a DEF MailTypeOK
  <2>4. TimedSends' /\ mail \subseteq mail' /\ \A k \in Key : Posted(k)' => Posted(k)
    <3>1. CASE FinishFire(d)
      BY <1>a, <3>1, ConsumePosts DEF FinishFire, Consume, TimedSends
    <3>2. CASE Fire(d)
      <4> DEFINE r == [draft[d] EXCEPT !.st = "sending"]
      <4>1. r \in DraftRecord /\ r.sched
        BY <2>3, <3>2 DEF DraftRecord, Fire
      <4>2. draft' = [draft EXCEPT ![d] = r] /\ UNCHANGED <<mail, net>> /\ draft[d].st # "gone"
        BY <3>2, <1>a DEF Fire, MailTypeOK
      <4> HIDE DEF r
      <4> QED
        BY <1>a, <4>1, <4>2, RewritePosts
    <3>3. CASE FailFire(d)
      <4> DEFINE r == [draft[d] EXCEPT !.st = "failed"]
      <4>1. r \in DraftRecord /\ r.st = "failed"
        BY <2>3 DEF DraftRecord
      <4>2. draft' = [draft EXCEPT ![d] = r] /\ UNCHANGED <<mail, net>> /\ draft[d].st # "gone"
        BY <3>3, <1>a DEF FailFire, MailTypeOK
      <4> HIDE DEF r
      <4> QED
        BY <1>a, <4>1, <4>2, RewritePosts
    <3> QED
      BY <2>1, <3>1, <3>2, <3>3
  <2> QED
    BY <2>2, <2>4, ServiceClaims
<1>4. CASE Late
  <2>1. PICK q \in net : LateRequest(q)
    BY <1>4 DEF Late
  <2>2. UNCHANGED jobVars /\ due' = due
    BY <1>4 DEF Late, envVars
  <2>3. q \in Request /\ Execute(q) /\ net' \subseteq net
    BY <1>a, <2>1 DEF LateRequest, MailTypeOK
  <2>4. \A k \in Key : q.op = "send" /\ q.draft[1] = k => Posted(k)
    BY DEF Posted
  <2> QED
    BY <1>a, <2>2, <2>3, <2>4, ExecutePosts, ServiceClaims
<1> QED
  BY <1>1, <1>2, <1>3, <1>4 DEF Outside

LEMMA ClaimNext == ClaimInv /\ [Next]_vars => ClaimInv'
<1> SUFFICES ASSUME ClaimInv, [Next]_vars PROVE ClaimInv'
  OBVIOUS
<1>0. MailInv'
  BY OneNext DEF ClaimInv
<1>1. CASE Compose
  BY <1>0, <1>1, ComposeClaims
<1>2. CASE StartDeliver \/ StartReconcile
  BY <1>0, <1>2, JobShapeClaims
<1>3. CASE JobStep
  BY <1>0, <1>3, DeliverStepClaims, ReconcileStepClaims, JobShapeClaims DEF JobStep
<1>4. CASE Crash
  BY <1>0, <1>4, CrashClaims
<1>5. CASE Outside
  BY <1>0, <1>5, OutsideClaims
<1>6. CASE UNCHANGED vars
  <2>1. UNCHANGED <<draft, mail, net>> /\ UNCHANGED jobVars /\ due' = due
    BY <1>6 DEF vars, jobVars, envVars, mailVars
  <2> QED
    BY <1>0, <2>1, QuietPosts, ServiceClaims DEF ClaimInv
<1> QED
  BY <1>1, <1>2, <1>3, <1>4, <1>5, <1>6 DEF Next

LEMMA ClaimInit == Init => ClaimInv
<1> SUFFICES ASSUME Init PROVE ClaimInv
  OBVIOUS
<1>1. MailInv
  BY OneInit
<1>2. /\ \A k \in Key : /\ row[k] = NoRow /\ sess[k] = NoRow /\ ~Posted(k)
      /\ job = Idle /\ sess = Unloaded /\ dirty = {}
  BY DEF Init, MailInit, Unloaded, Posted, MessagesOf
<1>3. TimedSends
  BY DEF Init, MailInit, TimedSends, NoDraftRecord
<1>a. /\ NoRow.state = "absent" /\ NoRow.draft = None /\ NoRow.msg = None
      /\ NoRow.sendmode = ""
  BY DEF NoRow
<1>4. OwnDrafts /\ Claims /\ Receipted
  BY <1>2, <1>a DEF OwnDrafts, Claims, Receipted, Receipts
<1>5. NotDueYet /\ Session /\ Work
  <2>1. job.at = None /\ job.todo = {} /\ ~job.past
    BY <1>2 DEF Idle
  <2> QED
    BY <1>2, <1>a, <2>1 DEF NotDueYet, Session, Work
<1> QED
  BY <1>1, <1>3, <1>4, <1>5 DEF ClaimInv

LEMMA ClaimInvariant == Spec => []ClaimInv
  BY ClaimInit, ClaimNext, PTL DEF Spec

-----------------------------------------------------------------------------
(* The theorems.                                                           *)

\* A row leaves a claim or a receipt only upwards.
RowMoves == \A k \in Key :
  \/ row'[k].state = row[k].state
  \/ /\ row[k].state \notin Receipts \cup {"failed"}
     /\ row'[k].state \in Receipts => MessagesOf(k) # {}
     /\ row[k].state \in {"sending", "unknown"} => row'[k].state \notin {"absent", "pending"}
  \/ /\ {row[k].state, row'[k].state} \subseteq Receipts
     /\ Rank(row'[k].state) >= Rank(row[k].state)

\* A commit publishes the rows the job has changed, and none of them was a
\* receipt or a failure.
LEMMA CommitMoves ==
  ASSUME ClaimInv, NEW k \in Key, row'[k] = Stored(k)
  PROVE  \/ row'[k].state = row[k].state
         \/ /\ row[k].state \notin Receipts \cup {"failed"}
            /\ row'[k].state \in Receipts => MessagesOf(k) # {}
            /\ row[k].state \in {"sending", "unknown"} => row'[k].state \notin {"absent", "pending"}
  BY DEF Stored, ClaimInv, Session, Claims, Receipted

\* So does a claim, which takes a row in hand to "sending".
LEMMA ClaimMoves ==
  ASSUME ClaimInv, NEW k \in Key, k \in job.todo, NEW r, r.state = "sending", WriteAndCommit(k, r)
  PROVE  RowMoves
<1>1. /\ row'[k] = r /\ \A j \in Key \ {k} : row'[j] = Stored(j)
  BY DEF WriteAndCommit
<1>2. sess[k].state \in {"pending", "scheduled", "sending", "unknown"}
  BY DEF ClaimInv, Work
<1>3. row[k].state \notin Receipts \cup {"failed"}
  BY <1>2 DEF ClaimInv, Session, Receipts
<1> QED
  BY <1>1, <1>3, CommitMoves DEF RowMoves, Receipts

LEMMA RowSteps == ClaimInv /\ [Next]_vars => RowMoves
<1> SUFFICES ASSUME ClaimInv, [Next]_vars PROVE RowMoves
  OBVIOUS
<1>a. ASSUME row' = row PROVE RowMoves
  BY <1>a DEF RowMoves
<1>1. CASE Compose
  <2>1. PICK k \in Key : ComposeNew(k) \/ Recompose(k)
    BY <1>1 DEF Compose
  <2>2. /\ row[k].state \in {"absent", "pending", "draft", "scheduled"}
        /\ row'[k].state = "pending" /\ \A j \in Key \ {k} : row'[j] = row[j]
    <3>1. row \in [Key -> Row] /\ row[k] \in Row
      BY DEF ClaimInv, MailInv, TypeInv, TypeOK
    <3>2. CASE ComposeNew(k)
      BY <3>1, <3>2 DEF ComposeNew, NewRow, NoRow
    <3>3. CASE Recompose(k)
      <4> DEFINE v == row[k].ver + 1
                 r == [row[k] EXCEPT !.state = "pending", !.ver = v]
      <4>1. row' = [row EXCEPT ![k] = r] /\ row[k].state \in Mutable
        BY <3>1, <3>3 DEF Recompose, StillMutable
      <4> HIDE DEF v
      <4>2. r.state = "pending"
        BY <3>1 DEF Row
      <4> HIDE DEF r
      <4> QED
        BY <3>1, <4>1, <4>2 DEF Mutable, Row, States, DeliveryState, Receipts
    <3> QED
      BY <2>1, <3>2, <3>3
  <2> QED
    BY <2>2 DEF RowMoves, Receipts
<1>2. CASE StartDeliver \/ StartReconcile \/ ToReconcile \/ ToNotice
  BY <1>2, <1>a DEF StartDeliver, StartReconcile, Begin, ToReconcile, ToNotice
<1>3. CASE EndJob
  BY <1>3, CommitMoves DEF EndJob, Finish, RowMoves
<1>4. CASE DeliverStep
  <2>0. PICK k \in Key :
          \/ DeliverShadow(k) \/ DeliverScheduled(k) \/ DeliverClaim(k)
          \/ DeliverDraftError(k) \/ DeliverSend(k) \/ DeliverSendError(k)
    BY <1>4 DEF DeliverStep
  <2>1. CASE DeliverClaim(k)
    <3> DEFINE d == LiveCall(k).draft
               r == [LiveRow(k) EXCEPT !.draft = d, !.state = "sending"]
    <3>1. k \in job.todo /\ WriteAndCommit(k, r)
      BY <2>1 DEF DeliverClaim, Delivering
    <3>2. LiveRow(k) \in Row
      BY LiveType DEF ClaimInv, MailInv, TypeInv
    <3> HIDE DEF d
    <3>3. r.state = "sending"
      BY <3>2 DEF Row
    <3> HIDE DEF r
    <3> QED
      BY <3>1, <3>3, ClaimMoves
  <2>2. CASE ~DeliverClaim(k)
    BY <2>0, <2>2, <1>a DEF DeliverShadow, DeliverScheduled, DeliverDraftError, DeliverSend,
                            DeliverSendError, SendFails, Write
  <2> QED
    BY <2>1, <2>2
<1>5. CASE ReconcileStep
  <2>0. PICK k \in Key :
          \/ ReconcileDraft(k) \/ ReconcileClaim(k) \/ ReconcileSend(k)
          \/ ReconcileSendError(k) \/ ReconcileMessage(k) \/ ReconcileNothing(k)
    BY <1>5 DEF ReconcileStep
  <2>1. CASE ReconcileClaim(k)
    <3>1. PICK d \in Tracked(k) : WriteAndCommit(k, [sess[k] EXCEPT !.draft = d, !.state = "sending"])
      BY <2>1 DEF ReconcileClaim
    <3> DEFINE r == [sess[k] EXCEPT !.draft = d, !.state = "sending"]
    <3>2. k \in job.todo /\ WriteAndCommit(k, r)
      BY <2>1, <3>1 DEF ReconcileClaim, Reconciling
    <3>3. r.state = "sending"
      <4>1. sess[k] \in Row
        BY DEF ClaimInv, MailInv, TypeInv, TypeOK
      <4> QED
        BY <4>1 DEF Row
    <3> HIDE DEF r
    <3> QED
      BY <3>2, <3>3, ClaimMoves
  <2>2. CASE ~ReconcileClaim(k)
    BY <2>0, <2>2, <1>a DEF ReconcileDraft, ReconcileSend, ReconcileSendError, ReconcileMessage,
                            ReconcileNothing, SendFails, Write
  <2> QED
    BY <2>1, <2>2
<1>6. CASE \E m \in mail, t \in HookTypes : Webhook(m, t)
  BY <1>6, WebhookRows DEF RowMoves
<1>7. CASE Crash \/ (\E to \in Writers : SwitchMode(to)) \/ PassSendTime \/ Service \/ Late
            \/ UNCHANGED vars
  BY <1>7, <1>a DEF Crash, SwitchMode, PassSendTime, Service, Late, vars, jobVars
<1> QED
  BY <1>1, <1>2, <1>3, <1>4, <1>5, <1>6, <1>7 DEF Next, JobStep, Outside

\* A message stays.
LEMMA CallMail ==
  ASSUME NEW q, NEW answer, Call(q, answer)
  PROVE  mail \subseteq mail'
  BY DEF Call, Execute, Consume, mailVars

LEMMA MailGrows == [Next]_vars => mail \subseteq mail'
<1> SUFFICES ASSUME [Next]_vars PROVE mail \subseteq mail'
  OBVIOUS
<1>1. CASE DeliverStep
  BY <1>1, CallMail DEF DeliverStep, DeliverShadow, DeliverScheduled, DeliverClaim,
                        DeliverDraftError, DeliverSend, DeliverSendError, SendFails
<1>2. CASE ReconcileStep
  BY <1>2, CallMail DEF ReconcileStep, ReconcileDraft, ReconcileClaim, ReconcileSend,
                        ReconcileSendError, SendFails, ReconcileMessage, ReconcileNothing,
                        NoDraftRead, mailVars
<1>3. CASE Compose \/ StartDeliver \/ StartReconcile \/ ToReconcile \/ ToNotice \/ EndJob \/ Crash
  BY <1>3 DEF Compose, ComposeNew, Recompose, StartDeliver, StartReconcile, Begin, ToReconcile,
              ToNotice, EndJob, Crash, mailVars
<1>4. CASE Outside
  BY <1>4 DEF Outside, Webhook, SwitchMode, PassSendTime, Service, Fire, FinishFire, FailFire,
              Late, LateRequest, Execute, Consume, mailVars
<1>5. CASE UNCHANGED vars
  BY <1>5 DEF vars, mailVars
<1> QED
  BY <1>1, <1>2, <1>3, <1>4, <1>5 DEF Next, JobStep

\* Whatever crashes, recomposes, late requests and changes of mode come between,
\* a posted send is claimed in the ledger first (deliver_outbox commits
\* "sending" before it calls send_draft).
THEOREM ClaimBeforeSend == Spec => []PostedIsClaimed
<1>1. ClaimInv => PostedIsClaimed
  BY DEF ClaimInv, Claims, PostedIsClaimed
<1> QED
  BY <1>1, ClaimInvariant, PTL

\* No compose, no commit of a job and no webhook returns a claimed row to the
\* rows deliver_outbox starts over.
THEOREM ClaimsStay == Spec => ClaimedStaysClaimed
<1>1. ClaimInv /\ [Next]_vars =>
        [\A k \in Key : row[k].state \in {"sending", "unknown"}
                          => row'[k].state \notin {"absent", "pending"}]_vars
  <2> SUFFICES ASSUME ClaimInv, [Next]_vars, NEW k \in Key, row[k].state \in {"sending", "unknown"}
               PROVE  row'[k].state \notin {"absent", "pending"}
    OBVIOUS
  <2> QED
    BY RowSteps DEF RowMoves, Receipts
<1> QED
  BY <1>1, ClaimInvariant, PTL DEF Spec, ClaimedStaysClaimed

\* The outbox keeps the promise: what it records as sent was mailed, receipts
\* only climb, and neither a receipt nor a failure is taken back.
THEOREM PromiseKept == Spec => KeepsPromise
<1>1. Init => Promise!Init
  <2> SUFFICES ASSUME Init PROVE Promise!Init
    OBVIOUS
  <2>1. \A k \in Key : MessagesOf(k) = {}
    BY DEF Init, MailInit, MessagesOf
  <2>2. \A k \in Key : row[k].state = "absent"
    BY DEF Init, NoRow
  <2> QED
    BY <2>1, <2>2 DEF Promise!Init, Receipts
<1>2. ClaimInv /\ [Next]_vars =>
        [Promise!Next]_<<{k \in Key : MessagesOf(k) # {}},
                         [k \in Key |-> IF row[k].state \in Receipts \cup {"failed"}
                                          THEN row[k].state ELSE "open"]>>
  <2> SUFFICES ASSUME ClaimInv, [Next]_vars PROVE Promise!Next
    OBVIOUS
  <2> DEFINE mailed == {k \in Key : MessagesOf(k) # {}}
             outcome == [k \in Key |-> IF row[k].state \in Receipts \cup {"failed"}
                                         THEN row[k].state ELSE "open"]
  <2>1. mailed \subseteq mailed' /\ mailed' \subseteq Key
    BY MailGrows DEF MessagesOf
  <2>2. outcome' \in [Key -> Promise!Outcome]
    BY DEF Promise!Outcome, Promise!Receipts, Receipts
  <2>3. ASSUME NEW k \in Key
        PROVE  outcome'[k] = outcome[k] \/ Promise!Settles(k) \/ Promise!Climbs(k)
    <3>1. CASE row'[k].state = row[k].state
      BY <3>1
    <3>2. CASE row[k].state \notin Receipts \cup {"failed"} /\ (row'[k].state \in Receipts => MessagesOf(k) # {})
      BY <3>2 DEF Promise!Settles, Promise!Receipts, Receipts
    <3>3. CASE /\ {row[k].state, row'[k].state} \subseteq Receipts
               /\ Rank(row'[k].state) >= Rank(row[k].state)
      BY <3>3 DEF Promise!Climbs, Promise!Rank, Promise!Receipts, Rank, Receipts
    <3> QED
      BY <3>1, <3>2, <3>3, RowSteps DEF RowMoves
  <2> QED
    BY <2>1, <2>2, <2>3 DEF Promise!Next
<1> QED
  BY <1>1, <1>2, ClaimInvariant, PTL DEF Spec, KeepsPromise, Promise!Spec
=============================================================================
