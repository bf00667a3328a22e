---------------------------- MODULE OutboxModes ----------------------------
(***************************************************************************)
(* Proofs about module Outbox: how a delivery is handled.  As long as a    *)
(* deployment that has gone live stays live, a review Draft is not mailed; *)
(* in one that was always live, a row recorded as scheduled has a Draft    *)
(* with a send time.  Both use the kinds of steps of module OutboxContent. *)
(***************************************************************************)
EXTENDS OutboxContent

USE OutboxAssumption, BoundsAssumption

-----------------------------------------------------------------------------
(* What every kind of step posts.                                          *)

\* Only a send makes a message.
LEMMA ExecuteMail ==
  ASSUME NEW q, Execute(q), q.op # "send"
  PROVE  mail' = mail
BY DEF Execute

LEMMA CallMails ==
  ASSUME NEW q, NEW answer, Call(q, answer), q.op # "send"
  PROVE  mail' = mail
BY ExecuteMail DEF Call, mailVars

\* The service posts nothing for a key by itself.
LEMMA ServicePosts ==
  ASSUME MailInv, TimedSends, NEW d \in DraftId, Fire(d) \/ FinishFire(d) \/ FailFire(d)
  PROVE  \A k \in Key : Posted(k)' => Posted(k)
<1>1. draft[d] \in DraftRecord /\ draft \in [DraftId -> DraftRecord]
  BY DEF MailInv, TypeInv, TypeOK, MailTypeOK
<1>2. CASE FinishFire(d)
  BY <1>2, ConsumePosts DEF FinishFire, Consume, TimedSends
<1>3. CASE Fire(d)
  <2> DEFINE r == [draft[d] EXCEPT !.st = "sending"]
  <2>1. r \in DraftRecord /\ r.sched
    BY <1>1, <1>3 DEF DraftRecord, Fire
  <2>2. draft' = [draft EXCEPT ![d] = r] /\ UNCHANGED <<mail, net>> /\ draft[d].st # "gone"
    BY <1>1, <1>3 DEF Fire
  <2> HIDE DEF r
  <2> QED
    BY <2>1, <2>2, RewritePosts
<1>4. CASE FailFire(d)
  <2> DEFINE r == [draft[d] EXCEPT !.st = "failed"]
  <2>1. r \in DraftRecord /\ r.st = "failed"
    BY <1>1 DEF DraftRecord
  <2>2. draft' = [draft EXCEPT ![d] = r] /\ UNCHANGED <<mail, net>> /\ draft[d].st # "gone"
    BY <1>1, <1>4 DEF FailFire
  <2> HIDE DEF r
  <2> QED
    BY <2>1, <2>2, RewritePosts
<1> QED
  BY <1>2, <1>3, <1>4

\* A send is posted for a row that was posted or is claimed, and for no other.
LEMMA PostedSteps ==
  ASSUME HomeInv, [Next]_vars, NEW j \in Key, Posted(j)'
  PROVE  Posted(j) \/ job.at = j
<1>a. MailInv /\ TimedSends /\ net \subseteq Request
  BY DEF HomeInv, ClaimInv, MailInv, TypeInv, TypeOK, MailTypeOK
<1>b. ASSUME UNCHANGED <<draft, mail, net>> PROVE Posted(j)
  BY <1>a, <1>b, QuietPosts
<1>1. ASSUME NEW k \in Key, NEW r \in Row, RowStep(k, r) PROVE Posted(j) \/ job.at = j
  <2>1. ASSUME NEW q, NEW answer, AskStep(k, r, q, answer) PROVE Posted(j)
    <3>1. q \in Request /\ q.op # "send" /\ Call(q, answer)
      BY <2>1 DEF AskStep
    <3> QED
      BY <1>a, <3>1, CallPosts
  <2>2. ASSUME SendStep(k, r) PROVE Posted(j) \/ job.at = j
    <3>1. PICK answer : Call(SendCall(k), answer)
      BY <2>2 DEF SendStep
    <3>2. SendCall(k) \in Request /\ SendCall(k).draft[1] = k /\ job.at = k
      BY <2>2 DEF SendStep, Home
    <3> QED
      BY <1>a, <3>1, <3>2, CallPosts
  <2>3. ASSUME LookStep(k, r) PROVE Posted(j)
    BY <2>3, <1>b DEF LookStep
  <2> QED
    BY <1>1, <2>1, <2>2, <2>3 DEF RowStep
<1>2. CASE LoadStep \/ \E k \in Key : ComposeStep(k)
  BY <1>2, <1>b DEF LoadStep, ComposeStep, mailVars
<1>3. CASE OverStep
  <2>1. /\ UNCHANGED <<draft, mail>>
        /\ net' = net \/ (net' = net \cup {SendCall(job.at)} /\ SendCall(job.at).draft[1] = job.at)
    BY <1>3 DEF OverStep, Home
  <2> QED
    BY <2>1 DEF Posted, MessagesOf
<1>4. CASE Service
  <2>1. PICK d \in DraftId : Fire(d) \/ FinishFire(d) \/ FailFire(d)
    BY <1>4 DEF Service
  <2> QED
    BY <1>a, <2>1, ServicePosts
<1>5. CASE Late
  <2>1. PICK q \in net : LateRequest(q)
    BY <1>5 DEF Late
  <2>2. q \in Request /\ Execute(q) /\ net' \subseteq net
    BY <1>a, <2>1 DEF LateRequest
  <2>3. q.op = "send" /\ q.draft[1] = j => Posted(j)
    BY DEF Posted
  <2> QED
    BY <1>a, <2>2, <2>3, ExecutePosts
<1>6. CASE \/ \E m \in mail, t \in HookTypes : Webhook(m, t)
           \/ \E to \in Writers : SwitchMode(to)
           \/ PassSendTime \/ UNCHANGED vars
  BY <1>6, <1>b DEF Webhook, SwitchMode, PassSendTime, vars, mailVars
<1> QED
  BY <1>1, <1>2, <1>3, <1>4, <1>5, <1>6, AllSteps DEF Outside

\* The rows a step leaves are the ones there were, up to the state of a receipt,
\* or the job's changed copies; only the row in hand is new.
LEMMA LeftWhere ==
  ASSUME HomeInv, HomeInv', NEW k \in Key, NEW r \in Row, RowStep(k, r)
  PROVE  /\ sess'[k] = r /\ \A j \in Key \ {k} : sess'[j] = sess[j]
         /\ row'[k] \in {row[k], r} /\ (row'[k] = r \/ k \in dirty')
         /\ \A j \in Key \ {k} : \/ row'[j] = row[j] /\ (j \in dirty' <=> j \in dirty)
                                 \/ row'[j] = sess[j] /\ j \in dirty /\ j \notin dirty'
         /\ job'.at \in {None, k} /\ (job'.at = k => row'[k] = r /\ k \notin dirty')
         /\ UNCHANGED envVars
<1>a. MailInv /\ Leaves(k, r) /\ UNCHANGED envVars
  BY DEF HomeInv, ClaimInv, RowStep
<1>1. row'[k] = r \/ k \in dirty'
  BY <1>a DEF Leaves, MailInv, TypeInv, TypeOK
<1>2. job'.at = k => k \notin dirty'
  BY DEF HomeInv, ClaimInv, Work
<1> QED
  BY <1>a, <1>1, <1>2, LeftRows DEF Leaves

-----------------------------------------------------------------------------
(* Review Drafts.                                                          *)

\* A deployment that has gone live does not go back to reviews.
OneWay == <<"live", "shadow">> \notin Switches

LiveModes == {"scheduled", "immediate"}

\* While the deployment is in shadow mode nothing is timed, sent or claimed.
InShadow ==
  mode = "shadow" =>
    /\ mail = {}
    /\ \A d \in DraftId : ~draft[d].sched
    /\ \A q \in net : ~q.sched /\ q.op # "send"
    /\ \A k \in Key : {row[k].state, sess[k].state} \subseteq {"absent", "pending", "draft"}

\* Once it is live no request of a shadow run is left, so that only what the
\* Drafts still show is a shadow run's, and none of those is timed.
InLive == mode = "live" => \A q \in net : q.by = "live"
ReviewsUntimed == \A d \in DraftId : draft[d].by = "shadow" => ~draft[d].sched

\* What is posted or claimed was taken over by a live run, in the ledger and in
\* the copy a job is about to commit; so is what waits for reconciliation.
LivePosted == \A k \in Key :
  Posted(k) \/ job.at = k =>
    /\ row[k].sendmode \in LiveModes
    /\ k \in dirty => sess[k].sendmode \in LiveModes
LiveOpen == \A k \in Key : \A r \in {row[k], sess[k]} : r.state \in Open => r.sendmode \in LiveModes

ReviewInv == HomeInv /\ InShadow /\ InLive /\ ReviewsUntimed /\ LivePosted /\ LiveOpen

\* Between the rows and what is posted, in a step of a live job for k.
LEMMA LiveRows ==
  ASSUME ReviewInv, HomeInv', [Next]_vars, NEW k \in Key, NEW r \in Row, RowStep(k, r),
         r.sendmode \in LiveModes
  PROVE  LivePosted' /\ LiveOpen'
<1>a. /\ sess'[k] = r /\ \A j \in Key \ {k} : sess'[j] = sess[j]
      /\ row'[k] \in {row[k], r} /\ (row'[k] = r \/ k \in dirty')
      /\ \A j \in Key \ {k} : \/ row'[j] = row[j] /\ (j \in dirty' <=> j \in dirty)
                              \/ row'[j] = sess[j] /\ j \in dirty /\ j \notin dirty'
      /\ job'.at \in {None, k} /\ (job'.at = k => row'[k] = r /\ k \notin dirty')
  BY LeftWhere DEF ReviewInv
<1>1. LiveOpen'
  BY <1>a DEF ReviewInv, LiveOpen
<1>2. ASSUME NEW j \in Key, (Posted(j) \/ job.at = j)'
      PROVE  /\ row'[j].sendmode \in LiveModes
             /\ j \in dirty' => sess'[j].sendmode \in LiveModes
  <2>1. Posted(j)' => Posted(j) \/ job.at = j
    BY PostedSteps DEF ReviewInv
  <2>2. CASE j = k
    BY <1>2, <1>a, <2>1, <2>2 DEF ReviewInv, LivePosted
  <2>3. CASE j # k
    BY <1>2, <1>a, <2>1, <2>3 DEF ReviewInv, LivePosted
  <2> QED
    BY <2>2, <2>3
<1> QED
  BY <1>1, <1>2 DEF LivePosted

LEMMA RowStepReview ==
  ASSUME ReviewInv, HomeInv', [Next]_vars, NEW k \in Key, NEW r \in Row, RowStep(k, r)
  PROVE  ReviewInv'
<1>a. /\ MailInv /\ MailShowsDraft /\ mode \in Writers /\ mode' = mode
      /\ \A d \in DraftId : draft[d].sched \in BOOLEAN
  BY DEF ReviewInv, HomeInv, ClaimInv, MailInv, TypeInv, TypeOK, MailTypeOK, DraftRecord,
         RowStep, envVars
<1>b. /\ sess'[k] = r /\ \A j \in Key \ {k} : sess'[j] = sess[j]
      /\ row'[k] \in {row[k], r}
      /\ \A j \in Key \ {k} : row'[j] \in {row[j], sess[j]}
      /\ job'.at \in {None, k}
  BY LeftWhere DEF ReviewInv
<1>1. ASSUME NEW q, NEW answer, AskStep(k, r, q, answer), mode = "shadow" PROVE ReviewInv'
  <2>1. /\ q \in Request /\ Call(q, answer) /\ q.op # "send" /\ q.sched = FALSE
        /\ r.state = "draft" /\ job'.at = None
    BY <1>1 DEF AskStep
  <2>2. mail' = mail
    BY <2>1, CallMails
  <2>3. DraftSteps(q) /\ net' \subseteq net \cup {q}
    BY <1>a, <2>1, CallDraft
  <2>4. \A d \in DraftId : ~draft'[d].sched
    BY <1>1, <2>1, <2>3 DEF DraftSteps, KeptDraft, WrittenBy, ReviewInv, InShadow
  <2>5. \A x \in net' : ~x.sched /\ x.op # "send"
    BY <1>1, <2>1, <2>3 DEF ReviewInv, InShadow
  <2>6. \A j \in Key : {row'[j].state, sess'[j].state} \subseteq {"absent", "pending", "draft"}
    BY <1>1, <1>b, <2>1 DEF ReviewInv, InShadow
  <2>7. InShadow' /\ InLive' /\ ReviewsUntimed'
    BY <1>1, <1>a, <2>2, <2>4, <2>5, <2>6 DEF ReviewInv, InShadow, InLive, ReviewsUntimed
  <2>8. LiveOpen'
    BY <2>6 DEF LiveOpen, Open
  <2>9. LivePosted'
    <3>1. \A j \in Key : ~Posted(j)'
      BY <1>1, <2>2, <2>5 DEF Posted, MessagesOf, ReviewInv, InShadow
    <3> QED
      BY <2>1, <3>1 DEF LivePosted
  <2> QED
    BY <2>7, <2>8, <2>9 DEF ReviewInv
<1>2. ASSUME mode = "live", r.sendmode \in LiveModes, \A q \in net' : q.by = "live",
             ReviewsUntimed'
      PROVE  ReviewInv'
  <2>1. LivePosted' /\ LiveOpen'
    BY <1>2, LiveRows
  <2> QED
    BY <1>2, <1>a, <2>1 DEF ReviewInv, InShadow, InLive
<1>3. ASSUME NEW q, NEW answer, AskStep(k, r, q, answer), mode = "live" PROVE ReviewInv'
  <2>1. q \in Request /\ Call(q, answer) /\ q.by = "live" /\ r.sendmode \in LiveModes
    BY <1>3 DEF AskStep, LiveModes
  <2>2. DraftSteps(q) /\ net' \subseteq net \cup {q}
    BY <1>a, <2>1, CallDraft
  <2>3. ReviewsUntimed'
    BY <2>1, <2>2 DEF DraftSteps, KeptDraft, WrittenBy, ReviewInv, ReviewsUntimed
  <2>4. \A x \in net' : x.by = "live"
    BY <1>3, <2>1, <2>2 DEF ReviewInv, InLive
  <2> QED
    BY <1>2, <1>3, <2>1, <2>3, <2>4
<1>4. ASSUME sess[k].state \in Open, r.sendmode = sess[k].sendmode
      PROVE  mode = "live" /\ r.sendmode \in LiveModes
  BY <1>4, <1>a DEF ReviewInv, InShadow, LiveOpen, Open, Writers
<1>5. ASSUME SendStep(k, r) PROVE ReviewInv'
  <2>1. PICK answer : Call(SendCall(k), answer)
    BY <1>5 DEF SendStep
  <2>2. SendCall(k) \in Request /\ SendCall(k).op = "send" /\ SendCall(k).by = "live"
    BY <1>5 DEF SendStep, SendCall
  <2>3. sess[k].state \in Open /\ r.sendmode = sess[k].sendmode
    BY <1>5 DEF SendStep, Open
  <2>4. DraftSteps(SendCall(k)) /\ net' \subseteq net \cup {SendCall(k)}
    BY <1>a, <2>1, <2>2, CallDraft
  <2>5. ReviewsUntimed'
    BY <2>2, <2>4 DEF DraftSteps, KeptDraft, WrittenBy, ReviewInv, ReviewsUntimed
  <2>6. mode = "live" /\ r.sendmode \in LiveModes
    BY <1>4, <2>3
  <2>7. \A x \in net' : x.by = "live"
    BY <2>2, <2>4, <2>6 DEF ReviewInv, InLive
  <2> QED
    BY <1>2, <2>5, <2>6, <2>7
<1>6. ASSUME LookStep(k, r) PROVE ReviewInv'
  <2>1. UNCHANGED <<draft, net>> /\ sess[k].state \in Open /\ r.sendmode = sess[k].sendmode
    BY <1>6 DEF LookStep, Open
  <2>2. mode = "live" /\ r.sendmode \in LiveModes
    BY <1>4, <2>1
  <2> QED
    BY <1>2, <2>1, <2>2 DEF ReviewInv, InLive, ReviewsUntimed
<1> QED
  BY <1>1, <1>3, <1>5, <1>6, <1>a DEF RowStep, Writers

LEMMA ReviewNext ==
  ASSUME OneWay
  PROVE  ReviewInv /\ [Next]_vars => ReviewInv'
<1> SUFFICES ASSUME ReviewInv, [Next]_vars PROVE ReviewInv'
  OBVIOUS
<1>a. HomeInv /\ HomeInv'
  BY HomeNext DEF ReviewInv
<1>b. /\ MailInv /\ MailShowsDraft /\ TimedSends /\ mode \in Writers /\ net \subseteq Request
      /\ \A d \in DraftId : draft[d].sched \in BOOLEAN
  BY <1>a DEF HomeInv, ClaimInv, MailInv, TypeInv, TypeOK, MailTypeOK, DraftRecord
<1>c. \A j \in Key : Posted(j)' => Posted(j) \/ job.at = j
  BY <1>a, PostedSteps
<1>d. \A j \in Key : Posted(j) => row[j].state \notin {"absent", "pending"}
  BY <1>a DEF HomeInv, ClaimInv, Claims
<1>1. ASSUME NEW k \in Key, NEW r \in Row, RowStep(k, r) PROVE ReviewInv'
  BY <1>1, <1>a, RowStepReview
<1>2. CASE LoadStep
  <2>1. NewRow.state = "pending"
    BY DEF NewRow, NoRow
  <2>2. /\ UNCHANGED <<row, draft, mail, net, mode>> /\ job'.at = None
        /\ \A k \in Key : \/ sess'[k] = sess[k] /\ (k \in dirty' <=> k \in dirty)
                          \/ sess'[k] = row[k] /\ k \notin dirty'
                          \/ sess'[k] = NewRow /\ row[k].state = "absent"
    BY <1>2 DEF LoadStep, mailVars, envVars
  <2>3. InShadow' /\ InLive' /\ ReviewsUntimed'
    BY <2>1, <2>2 DEF ReviewInv, InShadow, InLive, ReviewsUntimed
  <2>4. LiveOpen'
    BY <2>1, <2>2 DEF ReviewInv, LiveOpen, Open
  <2>5. \A k \in Key : Posted(k)' = Posted(k)
    BY <1>b, <2>2, QuietPosts
  <2>6. LivePosted'
    BY <1>d, <2>2, <2>5 DEF ReviewInv, LivePosted
  <2> QED
    BY <1>a, <2>3, <2>4, <2>6 DEF ReviewInv
<1>3. CASE OverStep
  <2>1. NoRow.state = "absent"
    BY DEF NoRow
  <2>2. /\ UNCHANGED <<draft, mail, mode>> /\ dirty' = {} /\ job'.at = None
        /\ \A k \in Key : sess'[k].state = "absent"
        /\ \A k \in Key : row'[k] = row[k] \/ (row'[k] = sess[k] /\ k \in dirty)
    <3>1. UNCHANGED <<draft, mail, mode>> /\ dirty' = {} /\ sess' = Unloaded /\ job' = Idle
      BY <1>3 DEF OverStep
    <3>2. \A k \in Key : row'[k] = row[k] \/ (row'[k] = sess[k] /\ k \in dirty)
      BY <1>3 DEF OverStep, Stored
    <3> QED
      BY <2>1, <3>1, <3>2 DEF Unloaded, Idle
  <2>3. \/ net' = net
        \/ mode = "live" /\ \A q \in net' : q \in net \/ q.by = "live"
    <3>1. CASE sess[job.at].state = "sending" /\ job.at \in Key /\ SendCall(job.at).by = "live"
               /\ net' = net \cup {SendCall(job.at)}
      BY <3>1, <1>b DEF ReviewInv, InShadow, Writers
    <3> QED
      BY <1>3, <3>1 DEF OverStep
  <2>4. InShadow' /\ InLive' /\ ReviewsUntimed'
    <3>1. InShadow'
      BY <2>2, <2>3 DEF ReviewInv, InShadow
    <3>2. InLive' /\ ReviewsUntimed'
      BY <2>2, <2>3 DEF ReviewInv, InLive, ReviewsUntimed
    <3> QED
      BY <3>1, <3>2
  <2>5. LiveOpen'
    BY <2>2 DEF ReviewInv, LiveOpen, Open
  <2>6. LivePosted'
    BY <1>c, <2>2 DEF ReviewInv, LivePosted
  <2> QED
    BY <1>a, <2>4, <2>5, <2>6 DEF ReviewInv
<1>4. ASSUME NEW k \in Key, ComposeStep(k) PROVE ReviewInv'
  <2>1. UNCHANGED <<sess, dirty, job, draft, mail, net, mode>>
    BY <1>4 DEF ComposeStep, mailVars, envVars
  <2>2. \A j \in Key :
          \/ row'[j] = row[j]
          \/ row'[j].state = "pending" /\ (row'[j].sendmode = row[j].sendmode \/ row[j].state = "absent")
    <3> TAKE j \in Key
    <3>1. CASE j = k
      BY <1>4, <3>1 DEF ComposeStep
    <3>2. CASE j # k
      BY <1>4, <3>2 DEF ComposeStep
    <3> QED
      BY <3>1, <3>2
  <2>3. InShadow' /\ InLive' /\ ReviewsUntimed'
    BY <2>1, <2>2 DEF ReviewInv, InShadow, InLive, ReviewsUntimed
  <2>4. LiveOpen'
    BY <2>1, <2>2 DEF ReviewInv, LiveOpen, Open
  <2>5. \A j \in Key : (Posted(j)' = Posted(j)) /\ job'.at # j
    <3>1. job' = job /\ job = Idle
      BY <1>4 DEF ComposeStep, ReviewInv, HomeInv, ClaimInv, Session
    <3> QED
      BY <1>b, <2>1, <3>1, QuietPosts DEF Idle
  <2>6. LivePosted'
    BY <1>d, <2>1, <2>2, <2>5 DEF ReviewInv, LivePosted
  <2> QED
    BY <1>a, <2>3, <2>4, <2>6 DEF ReviewInv
<1>5. ASSUME NEW m \in mail, NEW t \in HookTypes, Webhook(m, t) PROVE ReviewInv'
  <2>1. HookStep
    BY <1>5, <1>a, HookSteps
  <2>2. /\ UNCHANGED <<sess, dirty, job, draft, mail, net, mode>>
        /\ \A k \in Key : /\ row'[k].sendmode = row[k].sendmode
                          /\ row'[k].state = row[k].state \/ row'[k].state \in Receipts
    BY <2>1 DEF HookStep, mailVars, SameButState
  <2>3. mode # "shadow"
    BY <1>5 DEF ReviewInv, InShadow
  <2>4. InShadow' /\ InLive' /\ ReviewsUntimed' /\ LiveOpen'
    BY <2>2, <2>3 DEF ReviewInv, InShadow, InLive, ReviewsUntimed, LiveOpen, Open, Receipts
  <2>5. LivePosted'
    BY <1>b, <2>2, QuietPosts DEF ReviewInv, LivePosted
  <2> QED
    BY <1>a, <2>4, <2>5 DEF ReviewInv
<1>6. CASE (\E to \in Writers : SwitchMode(to)) \/ PassSendTime \/ UNCHANGED vars
  <2>1. /\ UNCHANGED <<row, sess, dirty, job, draft, mail, net>>
        /\ mode' = mode \/ (net = {} /\ <<mode, mode'>> \in Switches)
    BY <1>6 DEF SwitchMode, PassSendTime, vars, envVars, jobVars, mailVars
  <2>2. mode' = "shadow" => mode = "shadow"
    BY <1>b, <2>1 DEF OneWay, Writers
  <2>3. InShadow' /\ InLive' /\ ReviewsUntimed' /\ LiveOpen'
    BY <2>1, <2>2 DEF ReviewInv, InShadow, InLive, ReviewsUntimed, LiveOpen
  <2>4. LivePosted'
    BY <1>b, <2>1, QuietPosts DEF ReviewInv, LivePosted
  <2> QED
    BY <1>a, <2>3, <2>4 DEF ReviewInv
<1>7. CASE Service \/ Late
  <2>1. UNCHANGED <<row, sess, dirty, job, mode>>
    BY <1>7 DEF Service, Late, jobVars, envVars
  <2>2. LivePosted'
    <3>1. \A k \in Key : Posted(k)' => Posted(k) \/ job.at = k
      BY <1>c
    <3> QED
      BY <2>1, <3>1 DEF ReviewInv, LivePosted
  <2>3. LiveOpen'
    BY <2>1 DEF ReviewInv, LiveOpen
  <2>4. InShadow' /\ InLive' /\ ReviewsUntimed'
    <3>1. CASE Service
      <4>1. PICK d \in DraftId : Fire(d) \/ FinishFire(d) \/ FailFire(d)
        BY <3>1 DEF Service
      <4>2. mode # "shadow"
        BY <1>b, <4>1 DEF Fire, FinishFire, FailFire, TimedSends, ReviewInv, InShadow
      <4>3. (\A e \in DraftId : KeptDraft(e)) /\ net' = net
        BY <1>b, <4>1, ServiceDraft
      <4> QED
        BY <2>1, <4>2, <4>3 DEF KeptDraft, ReviewInv, InShadow, InLive, ReviewsUntimed
    <3>2. CASE Late
      <4>1. PICK q \in net : LateRequest(q)
        BY <3>2 DEF Late
      <4>2. q \in Request /\ Execute(q) /\ net' \subseteq net
        BY <1>b, <4>1 DEF LateRequest
      <4>3. DraftSteps(q)
        BY <1>b, <4>2, ExecuteDraft
      <4>4. q.op # "send" => mail' = mail
        BY <4>2, ExecuteMail
      <4>5. InShadow'
        BY <2>1, <4>2, <4>3, <4>4 DEF DraftSteps, KeptDraft, WrittenBy, ReviewInv, InShadow
      <4>6. InLive'
        BY <2>1, <4>2 DEF ReviewInv, InLive
      <4>7. ReviewsUntimed'
        <5>1. CASE mode = "shadow"
          BY <2>1, <4>5, <5>1 DEF InShadow, ReviewsUntimed
        <5>2. CASE mode = "live"
          BY <4>3, <5>2 DEF DraftSteps, KeptDraft, WrittenBy, ReviewInv, InLive, ReviewsUntimed
        <5> QED
          BY <1>b, <5>1, <5>2 DEF Writers
      <4> QED
        BY <4>5, <4>6, <4>7
    <3> QED
      BY <1>7, <3>1, <3>2
  <2> QED
    BY <1>a, <2>2, <2>3, <2>4 DEF ReviewInv
<1> QED
  BY <1>1, <1>2, <1>3, <1>4, <1>5, <1>6, <1>7, <1>a, AllSteps DEF Outside

LEMMA ReviewInit == Init => ReviewInv
<1> SUFFICES ASSUME Init PROVE ReviewInv
  OBVIOUS
<1>1. HomeInv
  BY HomeInit
<1>2. /\ mail = {} /\ net = {} /\ NoRow.state = "absent" /\ job.at = None
      /\ \A k \in Key : row[k] = NoRow /\ sess[k] = NoRow /\ ~Posted(k) /\ k # None
      /\ \A d \in DraftId : ~draft[d].sched
  BY DEF Init, MailInit, Unloaded, NoRow, NoDraftRecord, Idle, Posted, MessagesOf
<1> QED
  BY <1>1, <1>2 DEF ReviewInv, InShadow, InLive, ReviewsUntimed, LivePosted, LiveOpen, Open

\* In a deployment that never leaves live mode for shadow mode, no review Draft
\* is mailed that a live run has not taken over (deliver_outbox writes shadow
\* Drafts without a send time and sends none of them).
THEOREM ReviewsStay ==
  ASSUME OneWay
  PROVE  Spec => []ReviewDraftsAreNotMailed
<1>1. ReviewInv => ReviewDraftsAreNotMailed
  <2> SUFFICES ASSUME ReviewInv, NEW m \in mail, m.by # "live"
               PROVE  row[m.draft[1]].sendmode \in {"scheduled", "immediate"}
    BY DEF ReviewDraftsAreNotMailed
  <2>1. m.draft \in DraftId /\ m.draft[1] \in Key /\ m.by = "shadow"
    BY DEF ReviewInv, HomeInv, ClaimInv, MailInv, TypeInv, TypeOK, MailTypeOK, Message, Writers,
           DraftId
  <2>2. ~draft[m.draft].sched
    BY <2>1 DEF ReviewInv, HomeInv, MailShowsDraft, ReviewsUntimed
  <2>3. Posted(m.draft[1])
    BY <2>2 DEF Posted, MessagesOf
  <2> QED
    BY <2>1, <2>3 DEF ReviewInv, LivePosted, LiveModes
<1> QED
  BY <1>1, ReviewInit, ReviewNext, PTL DEF Spec

-----------------------------------------------------------------------------
(* Scheduled deliveries.                                                   *)

\* The deployment starts live and stays so.
AlwaysLive == StartModes = {"live"} /\ Switches = {}

\* The Draft of k, if there is one, has a send time, and so has every Draft a
\* request still under way would create.
HomeTimed(k) ==
  /\ draft[Home(k)].st # "none" => draft[Home(k)].sched
  /\ \A q \in net : q.op = "create" /\ q.draft = Home(k) => q.sched

NoReviews == mode = "live" /\ \A k \in Key : ~row[k].shadow /\ ~sess[k].shadow

\* A row recorded as scheduled knows a Draft with a send time; one that was to
\* be scheduled, whatever became of it, is the digest's and can only get one.
TimedRows == \A k \in Key : \A r \in {row[k], sess[k]} :
  /\ r.state \in Open => r.sendmode \in LiveModes
  /\ r.state = "scheduled" => r.draft = Home(k) /\ draft[Home(k)].sched
  /\ r.state \notin {"absent", "pending"} /\ r.sendmode = "scheduled"
       => k = Digest /\ HomeTimed(k)

\* No job that could ask for an untimed Draft of the digest has run yet.
Early == ~due \/ (job.cmd # "idle" /\ ~job.past)
TimedDigest == Early => HomeTimed(Digest)

TimedInv == HomeInv /\ NoReviews /\ TimedRows /\ TimedDigest

\* Only a request that creates an untimed Draft of k can make it untimed.
LEMMA CallTimed ==
  ASSUME HomeInv, NEW q \in Request, NEW k \in Key, DraftSteps(q), net' \subseteq net \cup {q},
         q.op = "create" /\ q.draft = Home(k) => q.sched
  PROVE  /\ HomeTimed(k) => HomeTimed(k)'
         /\ draft[Home(k)].st # "none" /\ draft[Home(k)].sched => draft'[Home(k)].sched
BY Homes DEF DraftSteps, KeptDraft, WrittenBy, HomeTimed

\* What a Draft that exists has, it keeps.
LEMMA TimedStays ==
  ASSUME HomeInv, NEW k \in Key, draft[Home(k)].sched
  PROVE  draft[Home(k)].st # "none"
BY Homes DEF HomeInv, MailShowsDraft

\* A step of a job for k, which leaves r.
LEMMA TimedRowStep ==
  ASSUME TimedInv, HomeInv', NEW k \in Key, NEW r \in Row, RowStep(k, r), ~r.shadow,
         \A j \in Key : \/ HomeTimed(j) => HomeTimed(j)'
                        \/ j = k /\ (k = Digest => ~Early) /\ sess[k].state = "pending",
         \A j \in Key : draft[Home(j)].sched => draft'[Home(j)].sched,
         r.state \in Open => r.sendmode \in LiveModes,
         r.state = "scheduled" => r.draft = Home(k) /\ draft'[Home(k)].sched,
         r.state \notin {"absent", "pending"} /\ r.sendmode = "scheduled"
           => k = Digest /\ HomeTimed(k)'
  PROVE  TimedInv'
<1>a. /\ sess'[k] = r /\ \A j \in Key \ {k} : sess'[j] = sess[j]
      /\ row'[k] \in {row[k], r}
      /\ \A j \in Key \ {k} : row'[j] \in {row[j], sess[j]}
      /\ UNCHANGED envVars
  BY LeftWhere DEF TimedInv
<1>1. NoReviews'
  BY <1>a DEF TimedInv, NoReviews, envVars
<1>2. TimedDigest'
  <2>1. Early' => Early
    BY <1>a DEF Early, envVars, RowStep, Leaves
  <2> QED
    BY <2>1 DEF TimedInv, TimedDigest
<1>3. sess[k].state = "pending" => row[k].state \in {"absent", "pending"}
  BY DEF TimedInv, HomeInv, Fresh
<1>4. ASSUME NEW j \in Key, NEW x, x \in {row[j], sess[j]},
             j # k \/ (x = row[k] /\ x.state \notin {"absent", "pending"}) \/ x.state = "absent"
      PROVE  /\ x.state \in Open => x.sendmode \in LiveModes
             /\ x.state = "scheduled" => x.draft = Home(j) /\ draft'[Home(j)].sched
             /\ x.state \notin {"absent", "pending"} /\ x.sendmode = "scheduled"
                  => j = Digest /\ HomeTimed(j)'
  BY <1>3, <1>4 DEF TimedInv, TimedRows, Open
<1>5. ASSUME NEW j \in Key, NEW x, x \in {row'[j], sess'[j]}
      PROVE  /\ x.state \in Open => x.sendmode \in LiveModes
             /\ x.state = "scheduled" => x.draft = Home(j) /\ draft'[Home(j)].sched
             /\ x.state \notin {"absent", "pending"} /\ x.sendmode = "scheduled"
                  => j = Digest /\ HomeTimed(j)'
  <2>1. CASE j = k
    <3>1. CASE x = r
      BY <2>1, <3>1
    <3>2. CASE x = row[k] /\ x.state \in {"absent", "pending"}
      BY <2>1, <3>2 DEF Open
    <3>3. CASE x = row[k] /\ x.state \notin {"absent", "pending"}
      BY <2>1, <3>3, <1>4
    <3> QED
      BY <1>5, <2>1, <1>a, <3>1, <3>2, <3>3
  <2>2. CASE j # k
    BY <1>5, <2>2, <1>a, <1>4
  <2> QED
    BY <2>1, <2>2
<1>6. TimedRows'
  BY <1>5 DEF TimedRows
<1> QED
  BY <1>1, <1>2, <1>6 DEF TimedInv

LEMMA RowStepTimed ==
  ASSUME TimedInv, HomeInv', NEW k \in Key, NEW r \in Row, RowStep(k, r)
  PROVE  TimedInv'
<1>a. /\ HomeInv /\ MailInv /\ MailShowsDraft /\ mode = "live" /\ ~sess[k].shadow
      /\ \A d \in DraftId : draft[d].sched \in BOOLEAN
  BY DEF TimedInv, NoReviews, HomeInv, ClaimInv, MailInv, TypeInv, TypeOK, MailTypeOK, DraftRecord
<1>b. job.cmd # "idle" /\ \A j \in Key : draft[Home(j)].sched => draft[Home(j)].st # "none"
  BY <1>a, TimedStays DEF RowStep
<1>1. ASSUME NEW q, NEW answer, AskStep(k, r, q, answer) PROVE TimedInv'
  <2>1. /\ q \in Request /\ Call(q, answer) /\ q.draft = Home(k) /\ q.sched = Scheduled(k)
        /\ sess[k].state = "pending" /\ ~r.shadow
        /\ q.op = (IF sess[k].draft = None THEN "create" ELSE "update")
        /\ r.sendmode = (IF Scheduled(k) THEN "scheduled" ELSE "immediate")
        /\ r.draft = (IF answer = "ok" THEN Home(k) ELSE sess[k].draft)
    BY <1>1, <1>a DEF AskStep
  <2>2. DraftSteps(q) /\ net' \subseteq net \cup {q}
    BY <1>a, <2>1, CallDraft
  <2>3. \A j \in Key : \/ HomeTimed(j) => HomeTimed(j)'
                       \/ j = k /\ ~Scheduled(k)
    BY <1>a, <2>1, <2>2, CallTimed, Homes
  <2>4. \A j \in Key : draft[Home(j)].sched => draft'[Home(j)].sched
    <3> TAKE j \in Key
    <3>1. KeptDraft(Home(j)) \/ WrittenBy(Home(j), q)
      BY <2>2, Homes DEF DraftSteps
    <3> QED
      BY <1>b, <3>1 DEF KeptDraft, WrittenBy
  <2>5. r.state \in Open => r.sendmode \in LiveModes
    BY <2>1 DEF LiveModes
  <2>6. CASE Scheduled(k)
    <3>1. k = Digest /\ HomeTimed(k) /\ HomeTimed(k)'
      <4>1. k = Digest /\ Early
        BY <1>b, <2>6 DEF Scheduled, Early
      <4> QED
        BY <2>3, <2>6, <4>1 DEF TimedInv, TimedDigest
    <3>2. ASSUME r.state = "scheduled" PROVE r.draft = Home(k) /\ draft'[Home(k)].sched
      <4>1. answer = "ok"
        BY <1>1, <1>a, <3>2 DEF AskStep, AfterDraftError
      <4>2. CASE q.op = "create" /\ draft[Home(k)].st # "none"
        BY <2>1, <2>4, <3>1, <4>1, <4>2 DEF HomeTimed
      <4>3. CASE (q.op = "create" /\ draft[Home(k)].st = "none") \/ q.op = "update"
        <5>1. WrittenBy(Home(k), q)
          BY <1>a, <2>1, <4>1, <4>3, CallDraft
        <5> QED
          BY <2>1, <2>6, <4>1, <5>1 DEF WrittenBy
      <4> QED
        BY <2>1, <4>2, <4>3
    <3> QED
      BY <2>1, <2>3, <2>4, <2>5, <2>6, <3>1, <3>2, TimedRowStep
  <2>7. CASE ~Scheduled(k)
    <3>1. r.state # "scheduled" /\ r.sendmode # "scheduled"
      BY <1>1, <1>a, <2>1, <2>7 DEF AskStep, AfterDraftError
    <3>2. \A j \in Key : \/ HomeTimed(j) => HomeTimed(j)'
                         \/ j = k /\ (k = Digest => ~Early)
      <4>1. k = Digest => job.past
        BY <2>7 DEF Scheduled
      <4>2. job.past => due
        BY <1>a DEF HomeInv, ClaimInv, NotDueYet
      <4>3. k = Digest => ~Early
        BY <4>1, <4>2 DEF Early
      <4> QED
        BY <2>3, <4>3
    <3> QED
      BY <2>1, <2>4, <2>5, <3>1, <3>2, TimedRowStep
  <2> QED
    BY <2>6, <2>7
<1>2. ASSUME SendStep(k, r) PROVE TimedInv'
  <2>1. PICK answer : Call(SendCall(k), answer)
    BY <1>2 DEF SendStep
  <2>2. /\ SendCall(k) \in Request /\ SendCall(k).op = "send" /\ sess[k].state = "sending"
        /\ ~r.shadow /\ r.sendmode = sess[k].sendmode
        /\ r.state \in Receipts \cup {"unknown", "failed"}
    BY <1>2, <1>a DEF SendStep
  <2>3. DraftSteps(SendCall(k)) /\ net' \subseteq net \cup {SendCall(k)}
    BY <1>a, <2>1, <2>2, CallDraft
  <2>4. \A j \in Key : HomeTimed(j) => HomeTimed(j)'
    BY <1>a, <2>2, <2>3, CallTimed
  <2>5. \A j \in Key : draft[Home(j)].sched => draft'[Home(j)].sched
    BY <2>2, <2>3, Homes DEF DraftSteps, KeptDraft, WrittenBy
  <2>6. /\ r.state # "scheduled" /\ r.sendmode \in LiveModes
        /\ r.sendmode = "scheduled" => k = Digest /\ HomeTimed(k)
    BY <2>2 DEF TimedInv, TimedRows, Open, Receipts
  <2> QED
    BY <2>2, <2>4, <2>5, <2>6, TimedRowStep
<1>3. ASSUME LookStep(k, r) PROVE TimedInv'
  <2>1. /\ UNCHANGED <<draft, net>> /\ sess[k].state \in Open
        /\ ~r.shadow /\ r.sendmode = sess[k].sendmode
    BY <1>3, <1>a DEF LookStep, Open
  <2>2. \A j \in Key : HomeTimed(j) => HomeTimed(j)'
    BY <2>1 DEF HomeTimed
  <2>3. /\ r.sendmode \in LiveModes
        /\ r.sendmode = "scheduled" => k = Digest /\ HomeTimed(k)
    BY <2>1 DEF TimedInv, TimedRows, Open
  <2>4. ASSUME r.state = "scheduled" PROVE r.draft = Home(k) /\ draft'[Home(k)].sched
    <3>1. /\ r.draft = Home(k) /\ draft[Home(k)].st # "none"
          /\ draft[Home(k)].sched \/ SendMode(k) # "immediate"
      BY <1>3, <2>4 DEF LookStep
    <3>2. SendMode(k) # "immediate" => r.sendmode = "scheduled"
      BY <2>1, <2>3 DEF SendMode, LiveModes
    <3> QED
      BY <2>1, <2>3, <3>1, <3>2 DEF HomeTimed
  <2> QED
    BY <2>1, <2>2, <2>3, <2>4, TimedRowStep
<1> QED
  BY <1>1, <1>2, <1>3 DEF RowStep

\* Where no Draft or request gets in, the rows decide.
LEMMA TimedKept ==
  ASSUME TimedInv, HomeInv', mode' = mode, Early' => Early,
         \A j \in Key : HomeTimed(j) => HomeTimed(j)',
         \A j \in Key : draft[Home(j)].sched => draft'[Home(j)].sched,
         \A j \in Key : \A x \in {row'[j], sess'[j]} :
           \/ x \in {row[j], sess[j]}
           \/ x.state \in {"absent", "pending"} /\ (x.shadow => row[j].shadow)
           \/ x.state \in Receipts /\ row[j].state \in Receipts /\ SameButState(x, row[j])
  PROVE  TimedInv'
<1>1. NoReviews'
  BY DEF TimedInv, NoReviews, SameButState
<1>2. TimedDigest'
  BY DEF TimedInv, TimedDigest
<1>3. TimedRows'
  <2> SUFFICES ASSUME NEW j \in Key, NEW x \in {row'[j], sess'[j]}
               PROVE  /\ x.state \in Open => x.sendmode \in LiveModes
                      /\ x.state = "scheduled" => x.draft = Home(j) /\ draft'[Home(j)].sched
                      /\ x.state \notin {"absent", "pending"} /\ x.sendmode = "scheduled"
                           => j = Digest /\ HomeTimed(j)'
    BY DEF TimedRows
  <2>1. CASE x \in {row[j], sess[j]}
    BY <2>1 DEF TimedInv, TimedRows
  <2>2. CASE x.state \in {"absent", "pending"}
    BY <2>2 DEF Open
  <2>3. CASE x.state \in Receipts /\ row[j].state \in Receipts /\ SameButState(x, row[j])
    <3>1. x.state \notin Open \cup {"absent", "pending"}
          /\ row[j].state \notin {"absent", "pending"} /\ x.sendmode = row[j].sendmode
      BY <2>3 DEF Open, Receipts, SameButState
    <3> QED
      BY <3>1 DEF TimedInv, TimedRows, Open
  <2> QED
    BY <2>1, <2>2, <2>3
<1> QED
  BY <1>1, <1>2, <1>3 DEF TimedInv

LEMMA TimedNext ==
  ASSUME AlwaysLive
  PROVE  TimedInv /\ [Next]_vars => TimedInv'
<1> SUFFICES ASSUME TimedInv, [Next]_vars PROVE TimedInv'
  OBVIOUS
<1>a. HomeInv /\ HomeInv'
  BY HomeNext DEF TimedInv
<1>b. /\ MailInv /\ MailShowsDraft /\ TimedSends /\ net \subseteq Request
      /\ NoRow.state = "absent" /\ NoRow.shadow = FALSE
  BY <1>a DEF HomeInv, ClaimInv, MailInv, TypeInv, TypeOK, MailTypeOK, NoRow
<1>c. ASSUME draft' = draft, \A q \in net' : q \in net \/ q.op # "create"
      PROVE  /\ \A j \in Key : HomeTimed(j) => HomeTimed(j)'
             /\ \A j \in Key : draft[Home(j)].sched => draft'[Home(j)].sched
  BY <1>c DEF HomeTimed
<1>1. ASSUME NEW k \in Key, NEW r \in Row, RowStep(k, r) PROVE TimedInv'
  BY <1>1, <1>a, RowStepTimed
<1>2. CASE LoadStep
  <2>1. NewRow.state = "pending" /\ NewRow.shadow = FALSE
    BY DEF NewRow, NoRow
  <2>2. /\ UNCHANGED <<row, draft, net, mode>> /\ (Early' => Early)
        /\ \A k \in Key : sess'[k] \in {sess[k], row[k], NewRow}
    BY <1>2 DEF LoadStep, mailVars, envVars, Early
  <2> QED
    BY <1>a, <1>c, <2>1, <2>2, TimedKept
<1>3. CASE OverStep
  <2>1. /\ UNCHANGED <<draft, mode>> /\ (Early' => Early)
        /\ \A k \in Key : sess'[k] = NoRow /\ row'[k] \in {row[k], sess[k]}
    <3>1. /\ UNCHANGED <<draft, mode, due>> /\ sess' = Unloaded /\ job' = Idle
          /\ row' = row \/ row' = [k \in Key |-> Stored(k)]
      BY <1>3 DEF OverStep
    <3> QED
      BY <3>1 DEF Unloaded, Stored, Early, Idle
  <2>2. \A q \in net' : q \in net \/ q.op # "create"
    BY <1>3 DEF OverStep
  <2> QED
    BY <1>a, <1>b, <1>c, <2>1, <2>2, TimedKept
<1>4. ASSUME NEW k \in Key, ComposeStep(k) PROVE TimedInv'
  <2>1. UNCHANGED <<sess, job, due, draft, net, mode>>
    BY <1>4 DEF ComposeStep, mailVars, envVars
  <2>2. \A j \in Key : \/ row'[j] = row[j]
                       \/ row'[j].state = "pending" /\ (row'[j].shadow => row[j].shadow)
    <3> TAKE j \in Key
    <3>1. CASE j = k
      BY <1>4, <3>1 DEF ComposeStep
    <3>2. CASE j # k
      BY <1>4, <3>2 DEF ComposeStep
    <3> QED
      BY <3>1, <3>2
  <2> QED
    BY <1>a, <1>c, <2>1, <2>2, TimedKept DEF Early
<1>5. ASSUME NEW m \in mail, NEW t \in HookTypes, Webhook(m, t) PROVE TimedInv'
  <2>1. HookStep
    BY <1>5, <1>a, HookSteps
  <2>2. UNCHANGED <<sess, job, due, draft, net, mode>>
    BY <2>1 DEF HookStep, mailVars
  <2>3. \A k \in Key : row'[k] = row[k] \/ (/\ SameButState(row'[k], row[k])
                                            /\ {row'[k].state, row[k].state} \subseteq Receipts)
    <3> TAKE k \in Key
    <3>1. CASE row[k].msg = m.draft /\ Rank(t) >= StoredRank(row[k].state)
      <4>1. row[k].msg # None
        BY <3>1, <1>b, Basics DEF MailInv, TypeInv, TypeOK, MailTypeOK, Message
      <4>2. row[k].state \in Receipts
        BY <4>1, <1>a DEF HomeInv, ClaimInv, Receipted
      <4> QED
        BY <2>1, <4>2 DEF HookStep
    <3>2. CASE ~(row[k].msg = m.draft /\ Rank(t) >= StoredRank(row[k].state))
      BY <1>5, <3>2 DEF Webhook
    <3> QED
      BY <3>1, <3>2
  <2> QED
    BY <1>a, <1>c, <2>2, <2>3, TimedKept DEF Early
<1>6. CASE (\E to \in Writers : SwitchMode(to)) \/ PassSendTime \/ UNCHANGED vars
  <2>1. UNCHANGED <<row, sess, job, draft, net, mode>> /\ (due => due')
    BY <1>6 DEF SwitchMode, PassSendTime, vars, envVars, jobVars, mailVars, AlwaysLive
  <2> QED
    BY <1>a, <1>c, <2>1, TimedKept DEF Early
<1>7. CASE Service \/ Late
  <2>1. UNCHANGED <<row, sess, job, due, mode>>
    BY <1>7 DEF Service, Late, jobVars, envVars
  <2>2. /\ \A j \in Key : HomeTimed(j) => HomeTimed(j)'
        /\ \A j \in Key : draft[Home(j)].sched => draft'[Home(j)].sched
    <3>1. CASE Service
      <4>1. (\A e \in DraftId : KeptDraft(e)) /\ net' = net
        BY <1>b, <3>1, ServiceDraft DEF Service
      <4> QED
        BY <4>1, Homes DEF KeptDraft, HomeTimed
    <3>2. CASE Late
      <4>1. PICK q \in net : LateRequest(q)
        BY <3>2 DEF Late
      <4>2. q \in Request /\ Execute(q) /\ net' \subseteq net
        BY <1>b, <4>1 DEF LateRequest
      <4>3. DraftSteps(q)
        BY <1>b, <4>2, ExecuteDraft
      <4>4. ASSUME NEW j \in Key
            PROVE  /\ HomeTimed(j) => HomeTimed(j)'
                   /\ draft[Home(j)].sched => draft'[Home(j)].sched
        <5>1. KeptDraft(Home(j)) \/ WrittenBy(Home(j), q)
          BY <4>3, Homes DEF DraftSteps
        <5>2. draft[Home(j)].sched => draft[Home(j)].st # "none"
          BY <1>a, TimedStays
        <5> QED
          BY <4>1, <4>2, <5>1, <5>2 DEF KeptDraft, WrittenBy, HomeTimed
      <4> QED
        BY <4>4
    <3> QED
      BY <1>7, <3>1, <3>2
  <2> QED
    BY <1>a, <2>1, <2>2, TimedKept DEF Early
<1> QED
  BY <1>1, <1>2, <1>3, <1>4, <1>5, <1>6, <1>7, <1>a, AllSteps DEF Outside

LEMMA TimedInit ==
  ASSUME AlwaysLive
  PROVE  Init => TimedInv
<1> SUFFICES ASSUME Init PROVE TimedInv
  OBVIOUS
<1>1. HomeInv
  BY HomeInit
<1>2. /\ net = {} /\ NoRow.state = "absent" /\ NoRow.shadow = FALSE /\ mode = "live"
      /\ \A k \in Key : row[k] = NoRow /\ sess[k] = NoRow
      /\ \A d \in DraftId : draft[d].st = "none"
  BY DEF Init, MailInit, Unloaded, NoRow, NoDraftRecord, AlwaysLive
<1>3. TimedDigest
  BY <1>2, Homes DEF TimedDigest, HomeTimed
<1> QED
  BY <1>1, <1>2, <1>3 DEF TimedInv, NoReviews, TimedRows, Open

\* In a deployment that is always live a row recorded as scheduled has a Draft
\* with a send time, whichever of deliver_outbox and reconcile_drafts recorded
\* it, and also when the call that asked for the Draft was lost or came late.
THEOREM ScheduledFires ==
  ASSUME AlwaysLive
  PROVE  Spec => []ScheduledWillFire
<1>1. TimedInv => ScheduledWillFire
  BY Homes DEF TimedInv, TimedRows, ScheduledWillFire
<1> QED
  BY <1>1, TimedInit, TimedNext, PTL DEF Spec
=============================================================================
