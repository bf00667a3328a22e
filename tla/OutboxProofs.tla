---------------------------- MODULE OutboxProofs ----------------------------
(***************************************************************************)
(* Proofs about module Outbox: type correctness, and that no delivery key  *)
(* is ever mailed twice.                                                   *)
(***************************************************************************)
EXTENDS Outbox, TLAPS

USE OutboxAssumption, BoundsAssumption

-----------------------------------------------------------------------------
(* Facts about the mail service.                                           *)

\* Every writer's version and every key's first Draft are what they should be.
LEMMA Basics == /\ 0 \in Version /\ 1 \in Version
                /\ \A k \in Key, n \in 0..MaxAttempts : ClientId(k, n) \in DraftId
                /\ NoDraftRecord \in DraftRecord
                /\ NoRow \in Row /\ NewRow \in Row
                /\ Idle \in Job /\ Unloaded \in [Key -> Row]
<1>1. 0 \in Version /\ 1 \in Version
  BY DEF Version
<1>2. \A k \in Key, n \in 0..MaxAttempts : ClientId(k, n) \in DraftId
  BY DEF ClientId, DraftId
<1>3. NoDraftRecord \in DraftRecord
  BY <1>1 DEF NoDraftRecord, DraftRecord, Writers
<1>4. NoRow \in Row
  BY <1>1 DEF NoRow, Row, States
<1>5. NewRow \in Row
  BY <1>1, <1>4 DEF NewRow, Row, States, DeliveryState
<1>6. Idle \in Job /\ Unloaded \in [Key -> Row]
  BY <1>4 DEF Idle, Job, Unloaded
<1> QED
  BY <1>1, <1>2, <1>3, <1>4, <1>5, <1>6

\* A request the service executes leaves its Drafts and messages well typed.
LEMMA ExecuteType ==
  ASSUME MailTypeOK, NEW q \in Request, Execute(q)
  PROVE  draft' \in [DraftId -> DraftRecord] /\ mail' \subseteq Message
  BY DEF MailTypeOK, Execute, Consume, Request, DraftRecord, Message

\* So does every way a call may turn out.
LEMMA CallType ==
  ASSUME MailTypeOK, NEW q \in Request, NEW answer, Call(q, answer)
  PROVE  MailTypeOK'
<1>1. CASE Execute(q) /\ (UNCHANGED faults \/ SpendFault) /\ UNCHANGED net
  BY <1>1, ExecuteType DEF MailTypeOK, SpendFault
<1>2. CASE UNCHANGED mailVars
  BY <1>2 DEF MailTypeOK, mailVars
<1>3. CASE SpendFault /\ net' = net \cup {q} /\ UNCHANGED <<draft, mail>>
  BY <1>3 DEF MailTypeOK, SpendFault
<1>4. CASE SpendFault /\ UNCHANGED <<draft, mail, net>>
  BY <1>4 DEF MailTypeOK, SpendFault
<1> QED
  BY <1>1, <1>2, <1>3, <1>4 DEF Call

LEMMA SpendType ==
  ASSUME MailTypeOK, SpendFault, UNCHANGED <<draft, mail, net>>
  PROVE  MailTypeOK'
  BY DEF MailTypeOK, SpendFault

-----------------------------------------------------------------------------
(* Facts about the session.                                                *)

\* What a job writes keeps the rows and the session well typed.
LEMMA WriteType ==
  ASSUME TypeOK, NEW k \in Key, NEW r \in Row, Write(k, r) \/ WriteAndCommit(k, r)
  PROVE  row' \in [Key -> Row] /\ sess' \in [Key -> Row] /\ dirty' \in SUBSET Key
  BY DEF TypeOK, Write, WriteAndCommit, Stored

\* Changing the fields the jobs change.
LEMMA RowState ==
  ASSUME NEW r \in Row, NEW s \in States
  PROVE  [r EXCEPT !.state = s] \in Row
  BY DEF Row

LEMMA RowDraftState ==
  ASSUME NEW r \in Row, NEW s \in States, NEW d \in DraftId \cup {None}
  PROVE  [r EXCEPT !.draft = d, !.state = s] \in Row
  BY DEF Row

LEMMA RowDraftIs ==
  ASSUME NEW r \in Row, NEW s, NEW d
  PROVE  [r EXCEPT !.draft = d, !.state = s].draft = d
  BY DEF Row

LEMMA RowMsgState ==
  ASSUME NEW r \in Row, NEW s \in States, NEW m \in DraftId \cup {None}
  PROVE  [r EXCEPT !.msg = m, !.state = s] \in Row
  BY DEF Row

LEMMA RowDraftMsgState ==
  ASSUME NEW r \in Row, NEW s \in States,
         NEW d \in DraftId \cup {None}, NEW m \in DraftId \cup {None}
  PROVE  [r EXCEPT !.draft = d, !.msg = m, !.state = s] \in Row
  BY DEF Row

LEMMA StateTypes ==
  /\ {"pending", "draft", "scheduled", "sending", "unknown", "failed", "sent"} \subseteq States
  /\ Receipts \subseteq States
  BY DEF States, DeliveryState, Receipts

LEMMA ShadowRow ==
  ASSUME NEW r \in Row
  PROVE  [r EXCEPT !.state = "draft", !.shadow = TRUE, !.sendmode = "shadow"] \in Row
  BY StateTypes DEF Row

LEMMA JobType ==
  ASSUME TypeOK, NEW k \in Key, Done(k) \/ Claim(k)
  PROVE  job' \in Job
  BY DEF TypeOK, Done, Claim, Job

LEMMA LoadType ==
  ASSUME TypeOK, NEW K
  PROVE  Load(K) \in [Key -> Row]
  BY DEF TypeOK, Load

\* The Draft request of a row of the session, in either mode.
LEMMA DraftCallType ==
  ASSUME NEW r \in Row, NEW k \in Key, NEW w \in Writers, NEW s \in BOOLEAN
  PROVE  /\ DraftCall(r, k, w, s) \in Request
         /\ DraftCall(r, k, w, s).draft \in DraftId
  BY Basics DEF DraftCall, Request, Row

LEMMA CountedType ==
  ASSUME NEW r \in Row
  PROVE  Counted(r) \in Row
<1>1. r.attempts \in 0..MaxAttempts
  BY DEF Row
<1> DEFINE n == IF r.attempts < MaxAttempts THEN r.attempts + 1 ELSE r.attempts
<1>2. n \in 0..MaxAttempts
  BY <1>1
<1>3. Counted(r) = [r EXCEPT !.attempts = n]
  BY DEF Counted
<1> HIDE DEF n
<1> QED
  BY <1>2, <1>3 DEF Row

LEMMA LiveType ==
  ASSUME TypeOK, NEW k \in Key
  PROVE  LiveRow(k) \in Row /\ LiveCall(k) \in Request /\ LiveCall(k).draft \in DraftId
<1>1. Counted(sess[k]) \in Row
  BY CountedType DEF TypeOK
<1>2. LiveRow(k) \in Row
  BY <1>1 DEF LiveRow, Row
<1>3. Scheduled(k) \in BOOLEAN
  BY DEF Scheduled, TypeOK, Job
<1> QED
  BY <1>2, <1>3, DraftCallType DEF LiveCall, Writers

LEMMA SendFailsType ==
  ASSUME TypeOK, NEW k \in Key, SendCall(k) \in Request, SendFails(k)
  PROVE  TypeOK' /\ job'.at = None
<1>1. PICK answer \in {"timeout", "retryable", "fatal"} :
        /\ Call(SendCall(k), answer)
        /\ Write(k, [sess[k] EXCEPT !.state = AfterSendError(answer)])
  BY DEF SendFails
<1>2. [sess[k] EXCEPT !.state = AfterSendError(answer)] \in Row
  <2>1. AfterSendError(answer) \in States
    BY StateTypes DEF AfterSendError
  <2> QED
    BY <2>1, RowState DEF TypeOK
<1>3. row' \in [Key -> Row] /\ sess' \in [Key -> Row] /\ dirty' \in SUBSET Key
  BY <1>1, <1>2, WriteType
<1>4. MailTypeOK'
  BY <1>1, CallType DEF TypeOK
<1>5. job' \in Job
  BY JobType DEF SendFails
<1>6. job'.at = None
  BY DEF SendFails, Done, TypeOK, Job
<1> QED
  BY <1>3, <1>4, <1>5, <1>6 DEF TypeOK, SendFails, envVars

-----------------------------------------------------------------------------
(* Type correctness.  TypeOK alone is not inductive: a send is well typed  *)
(* only because the claim before it gave the row a Draft id.               *)

ClaimHasDraft == job.at # None => sess[job.at].draft \in DraftId

TypeInv == TypeOK /\ ClaimHasDraft

LEMMA TypeInit == Init => TypeInv
<1> SUFFICES ASSUME Init PROVE TypeInv
  OBVIOUS
<1>1. MailTypeOK
  BY Basics DEF Init, MailInit, MailTypeOK
<1>2. hooks = {} /\ mode \in Writers /\ due \in BOOLEAN
  BY DEF Init
<1>5. crashes \in 0..MaxCrashes
  BY DEF Init
<1>3. row \in [Key -> Row] /\ sess \in [Key -> Row] /\ dirty = {} /\ job \in Job
  BY Basics DEF Init
<1>4. job.at = None
  BY DEF Init, Idle
<1> QED
  BY <1>1, <1>2, <1>3, <1>4, <1>5 DEF TypeInv, TypeOK, ClaimHasDraft

\* The two shapes the steps of a job have: call, write a row, and go on ...
LEMMA WriteStepType ==
  ASSUME TypeOK, MailTypeOK', NEW k \in Key, NEW r \in Row,
         Write(k, r), Done(k), UNCHANGED envVars
  PROVE  TypeInv'
<1>1. row' \in [Key -> Row] /\ sess' \in [Key -> Row] /\ dirty' \in SUBSET Key
  BY WriteType
<1>2. job' \in Job
  BY JobType
<1>3. job'.at = None
  BY DEF Done, TypeOK, Job
<1> QED
  BY <1>1, <1>2, <1>3 DEF TypeInv, TypeOK, ClaimHasDraft, envVars

\* ... or claim a row for a send.
LEMMA ClaimStepType ==
  ASSUME TypeOK, MailTypeOK', NEW k \in Key, NEW r \in Row, r.draft \in DraftId,
         WriteAndCommit(k, r), Claim(k), UNCHANGED envVars
  PROVE  TypeInv'
<1>1. row' \in [Key -> Row] /\ sess' \in [Key -> Row] /\ dirty' \in SUBSET Key
  BY WriteType
<1>2. job' \in Job
  BY JobType
<1>3. job'.at = k
  BY DEF Claim, TypeOK, Job
<1>4. sess'[k] = r
  BY DEF WriteAndCommit, TypeOK
<1> QED
  BY <1>1, <1>2, <1>3, <1>4 DEF TypeInv, TypeOK, ClaimHasDraft, envVars

LEMMA DeliverStepType ==
  ASSUME TypeInv, DeliverStep
  PROVE  TypeInv'
<1> USE DEF TypeInv
<1>0. PICK k \in Key :
        \/ DeliverShadow(k) \/ DeliverScheduled(k) \/ DeliverClaim(k)
        \/ DeliverDraftError(k) \/ DeliverSend(k) \/ DeliverSendError(k)
  BY DEF DeliverStep
<1>a. sess[k] \in Row /\ MailTypeOK
  BY DEF TypeOK
<1>1. CASE DeliverShadow(k)
  <2> DEFINE r == [sess[k] EXCEPT !.state = "draft", !.shadow = TRUE, !.sendmode = "shadow"]
             q == DraftCall(r, k, "shadow", FALSE)
  <2>1. r \in Row
    BY <1>a, ShadowRow
  <2>2. q \in Request /\ q.draft \in DraftId
    BY <2>1, DraftCallType DEF Writers
  <2>3. [r EXCEPT !.draft = q.draft] \in Row
    BY <2>1, <2>2 DEF Row
  <2> HIDE DEF q, r
  <2>4. PICK answer : /\ Call(q, answer)
                      /\ Write(k, IF answer = "ok" THEN [r EXCEPT !.draft = q.draft] ELSE r)
    BY <1>1 DEF DeliverShadow, q, r
  <2>5. MailTypeOK'
    BY <2>2, <2>4, <1>a, CallType
  <2>6. Done(k) /\ UNCHANGED envVars
    BY <1>1 DEF DeliverShadow
  <2>7. CASE answer = "ok"
    BY <2>3, <2>4, <2>5, <2>6, <2>7, WriteStepType
  <2>8. CASE answer # "ok"
    BY <2>1, <2>4, <2>5, <2>6, <2>8, WriteStepType
  <2> QED
    BY <2>7, <2>8
<1>2. CASE DeliverScheduled(k)
  <2>1. LiveRow(k) \in Row /\ LiveCall(k) \in Request /\ LiveCall(k).draft \in DraftId
    BY LiveType
  <2> DEFINE r == [LiveRow(k) EXCEPT !.draft = LiveCall(k).draft, !.state = "scheduled"]
  <2>2. r \in Row
    BY <2>1, RowDraftState, StateTypes
  <2>3. Call(LiveCall(k), "ok") /\ Write(k, r) /\ Done(k) /\ UNCHANGED envVars
    BY <1>2 DEF DeliverScheduled
  <2> HIDE DEF r
  <2>4. MailTypeOK'
    BY <2>1, <2>3, <1>a, CallType
  <2> QED
    BY <2>2, <2>3, <2>4, WriteStepType
<1>3. CASE DeliverClaim(k)
  <2>1. LiveRow(k) \in Row /\ LiveCall(k) \in Request /\ LiveCall(k).draft \in DraftId
    BY LiveType
  <2> DEFINE r == [LiveRow(k) EXCEPT !.draft = LiveCall(k).draft, !.state = "sending"]
  <2>2. r \in Row /\ r.draft \in DraftId
    <3>1. "sending" \in States
      BY StateTypes
    <3>2. r \in Row /\ r.draft = LiveCall(k).draft
      <4> DEFINE x == LiveRow(k)
                 d == LiveCall(k).draft
      <4>1. x \in Row /\ d \in DraftId \cup {None}
        BY <2>1
      <4>2. r = [x EXCEPT !.draft = d, !.state = "sending"]
        OBVIOUS
      <4> HIDE DEF x, d, r
      <4>3. r \in Row
        BY <3>1, <4>1, <4>2, RowDraftState
      <4>4. r.draft = d
        BY <4>1, <4>2, RowDraftIs
      <4> QED
        BY <4>3, <4>4 DEF d
    <3> QED
      BY <2>1, <3>2
  <2>3. Call(LiveCall(k), "ok") /\ WriteAndCommit(k, r) /\ Claim(k) /\ UNCHANGED envVars
    BY <1>3 DEF DeliverClaim
  <2> HIDE DEF r
  <2>4. MailTypeOK'
    BY <2>1, <2>3, <1>a, CallType
  <2> QED
    BY <2>2, <2>3, <2>4, ClaimStepType
<1>4. CASE DeliverDraftError(k)
  <2>1. LiveRow(k) \in Row /\ LiveCall(k) \in Request
    BY LiveType
  <2>2. PICK answer \in {"timeout", "retryable", "fatal"} :
          /\ Call(LiveCall(k), answer)
          /\ Write(k, [LiveRow(k) EXCEPT !.state = AfterDraftError(answer)])
    BY <1>4 DEF DeliverDraftError
  <2> DEFINE r == [LiveRow(k) EXCEPT !.state = AfterDraftError(answer)]
  <2>3. r \in Row
    <3>1. AfterDraftError(answer) \in States
      BY StateTypes DEF AfterDraftError
    <3> QED
      BY <2>1, <3>1, RowState
  <2>4. Write(k, r) /\ Done(k) /\ UNCHANGED envVars
    BY <1>4, <2>2 DEF DeliverDraftError
  <2> HIDE DEF r
  <2>5. MailTypeOK'
    BY <2>1, <2>2, <1>a, CallType
  <2> QED
    BY <2>3, <2>4, <2>5, WriteStepType
<1>b. ASSUME AtSend(k, {"deliver", "notice"}) PROVE SendCall(k) \in Request
  BY <1>b, Basics DEF AtSend, ClaimHasDraft, SendCall, Request, Writers
<1>5. CASE DeliverSend(k)
  <2> DEFINE r == [sess[k] EXCEPT !.msg = sess[k].draft, !.state = "sent"]
  <2>1. r \in Row
    <3>1. sess[k].draft \in DraftId \cup {None}
      BY <1>a DEF Row
    <3> QED
      BY <1>a, <3>1, RowMsgState, StateTypes
  <2>2. /\ AtSend(k, {"deliver", "notice"}) /\ Call(SendCall(k), "ok")
        /\ Write(k, r) /\ Done(k) /\ UNCHANGED envVars
    BY <1>5 DEF DeliverSend
  <2> HIDE DEF r
  <2>3. MailTypeOK'
    BY <2>2, <1>a, <1>b, CallType
  <2> QED
    BY <2>1, <2>2, <2>3, WriteStepType
<1>6. CASE DeliverSendError(k)
  BY <1>6, <1>b, SendFailsType DEF DeliverSendError, ClaimHasDraft
<1> QED
  BY <1>0, <1>1, <1>2, <1>3, <1>4, <1>5, <1>6

LEMMA ReconcileStepType ==
  ASSUME TypeInv, ReconcileStep
  PROVE  TypeInv'
<1> USE DEF TypeInv
<1>0. PICK k \in Key :
        \/ ReconcileDraft(k) \/ ReconcileClaim(k) \/ ReconcileSend(k)
        \/ ReconcileSendError(k) \/ ReconcileMessage(k) \/ ReconcileNothing(k)
  BY DEF ReconcileStep
<1>a. sess[k] \in Row /\ MailTypeOK
  BY DEF TypeOK
<1>b. ASSUME AtSend(k, {"reconcile"}) PROVE SendCall(k) \in Request
  BY <1>b, Basics DEF AtSend, ClaimHasDraft, SendCall, Request, Writers
<1>c. Visible(k) \subseteq DraftId /\ Tracked(k) \subseteq DraftId
  BY DEF Visible, Tracked, DraftId
<1>d. LearnedDraft(k) \subseteq DraftId \cup {None}
  BY <1>a, <1>c DEF LearnedDraft, Row
<1>e. \A d, s : s \in Receipts => Applied(d, s) \subseteq States
  <2>1. \A h \in hooks : h.type \in States
    BY StateTypes DEF TypeOK, Hook
  <2> QED
    BY <2>1, StateTypes DEF Applied
<1>f. "sent" \in Receipts
  BY DEF Receipts
<1>1. CASE ReconcileDraft(k)
  <2>1. PICK d \in Tracked(k) :
          Write(k, [sess[k] EXCEPT !.draft = d, !.state = StateOfDraft(k, d)])
    BY <1>1 DEF ReconcileDraft
  <2>2. StateOfDraft(k, d) \in States
    BY StateTypes DEF StateOfDraft
  <2>3. [sess[k] EXCEPT !.draft = d, !.state = StateOfDraft(k, d)] \in Row
    BY <1>a, <1>c, <2>2, RowDraftState
  <2>4. Done(k) /\ UNCHANGED envVars /\ MailTypeOK'
    BY <1>1, <1>a DEF ReconcileDraft, mailVars, MailTypeOK
  <2> QED
    BY <2>1, <2>3, <2>4, WriteStepType
<1>2. CASE ReconcileClaim(k)
  <2>1. PICK d \in Tracked(k) :
          WriteAndCommit(k, [sess[k] EXCEPT !.draft = d, !.state = "sending"])
    BY <1>2 DEF ReconcileClaim
  <2> DEFINE r == [sess[k] EXCEPT !.draft = d, !.state = "sending"]
  <2>2. "sending" \in States /\ d \in DraftId
    BY StateTypes, <1>c
  <2>3. r \in Row
    BY <1>a, <2>2, RowDraftState
  <2>6. r.draft = d
    BY <1>a, RowDraftIs
  <2>4. Claim(k) /\ UNCHANGED envVars /\ MailTypeOK'
    BY <1>2, <1>a DEF ReconcileClaim, mailVars, MailTypeOK
  <2> HIDE DEF r
  <2>5. WriteAndCommit(k, r)
    BY <2>1 DEF r
  <2> QED
    BY <2>2, <2>3, <2>4, <2>5, <2>6, ClaimStepType
<1>3. CASE ReconcileSend(k)
  <2>1. PICK s \in Applied(sess[k].draft, "sent") :
          Write(k, [sess[k] EXCEPT !.msg = sess[k].draft, !.state = s])
    BY <1>3 DEF ReconcileSend
  <2>2. sess[k].draft \in DraftId \cup {None} /\ s \in States
    BY <1>a, <1>e, <1>f DEF Row
  <2>3. [sess[k] EXCEPT !.msg = sess[k].draft, !.state = s] \in Row
    BY <1>a, <2>2, RowMsgState
  <2>4. AtSend(k, {"reconcile"}) /\ Call(SendCall(k), "ok") /\ Done(k) /\ UNCHANGED envVars
    BY <1>3 DEF ReconcileSend
  <2>5. MailTypeOK'
    BY <2>4, <1>a, <1>b, CallType
  <2> QED
    BY <2>1, <2>3, <2>4, <2>5, WriteStepType
<1>4. CASE ReconcileSendError(k)
  BY <1>4, <1>b, SendFailsType DEF ReconcileSendError, ClaimHasDraft
<1>5. CASE ReconcileMessage(k)
  <2>1. PICK m \in MessagesOf(k), d \in LearnedDraft(k) : \E s \in Applied(m.draft, "sent") :
          Write(k, [sess[k] EXCEPT !.draft = d, !.msg = m.draft, !.state = s])
    BY <1>5 DEF ReconcileMessage
  <2>2. PICK s \in Applied(m.draft, "sent") :
          Write(k, [sess[k] EXCEPT !.draft = d, !.msg = m.draft, !.state = s])
    BY <2>1
  <2>3. m.draft \in DraftId /\ s \in States /\ d \in DraftId \cup {None}
    BY <1>a, <1>d, <1>e, <1>f DEF MessagesOf, MailTypeOK, Message
  <2>4. [sess[k] EXCEPT !.draft = d, !.msg = m.draft, !.state = s] \in Row
    <3> DEFINE x == sess[k]
               e == m.draft
    <3>1. x \in Row /\ e \in DraftId \cup {None}
      BY <1>a, <2>3
    <3> HIDE DEF x, e
    <3>2. [x EXCEPT !.draft = d, !.msg = e, !.state = s] \in Row
      BY <2>3, <3>1, RowDraftMsgState
    <3> QED
      BY <3>2 DEF x, e
  <2>5. NoDraftRead(k) /\ Done(k) /\ UNCHANGED envVars
    BY <1>5 DEF ReconcileMessage
  <2>6. MailTypeOK'
    BY <1>a, <2>5, SpendType DEF NoDraftRead, mailVars, MailTypeOK
  <2> QED
    BY <2>2, <2>4, <2>5, <2>6, WriteStepType
<1>6. CASE ReconcileNothing(k)
  <2>1. PICK d \in LearnedDraft(k) :
          Write(k, [sess[k] EXCEPT !.draft = d, !.state = "unknown"])
    BY <1>6 DEF ReconcileNothing
  <2>2. "unknown" \in States
    BY StateTypes
  <2>3. [sess[k] EXCEPT !.draft = d, !.state = "unknown"] \in Row
    BY <1>a, <1>d, <2>2, RowDraftState
  <2>4. Done(k) /\ UNCHANGED envVars
    BY <1>6 DEF ReconcileNothing
  <2>5. UNCHANGED mailVars \/ (SpendFault /\ UNCHANGED <<draft, mail, net>>)
    BY <1>6 DEF ReconcileNothing, NoDraftRead
  <2>6. MailTypeOK'
    BY <1>a, <2>5, SpendType DEF mailVars, MailTypeOK
  <2> QED
    BY <2>1, <2>3, <2>4, <2>6, WriteStepType
<1> QED
  BY <1>0, <1>1, <1>2, <1>3, <1>4, <1>5, <1>6

LEMMA JobShapeType ==
  ASSUME TypeInv, ToReconcile \/ ToNotice \/ EndJob \/ StartDeliver \/ StartReconcile
  PROVE  TypeInv'
<1> USE DEF TypeInv
<1>a. InState({"scheduled", "sending", "unknown"}) \subseteq Key
      /\ InState({"pending"}) \subseteq Key
  BY DEF InState
<1>b. UNCHANGED <<envVars, mailVars>>
  BY DEF ToReconcile, ToNotice, EndJob, StartDeliver, StartReconcile, Begin
<1>c. MailTypeOK'
  BY <1>b DEF TypeOK, mailVars, MailTypeOK
<1>d. hooks' \in SUBSET Hook /\ mode' \in Writers /\ due' \in BOOLEAN /\ crashes' \in 0..MaxCrashes
  BY <1>b DEF TypeOK, envVars
<1>e. row' \in [Key -> Row] /\ sess' \in [Key -> Row] /\ dirty' \in SUBSET Key
  <2>1. CASE ToReconcile
    BY <2>1, LoadType DEF ToReconcile, TypeOK
  <2>2. CASE ToNotice
    <3> DEFINE K == InState({"pending"}) \cup {Notice}
               r == IF Held(Notice).state = "absent" THEN NewRow ELSE Held(Notice)
    <3>1. r \in Row
      BY Basics DEF Held, TypeOK
    <3>2. Load(K) \in [Key -> Row]
      BY LoadType
    <3>3. sess' = [Load(K) EXCEPT ![Notice] = r]
      BY <2>2 DEF ToNotice
    <3>4. dirty' \in SUBSET Key /\ UNCHANGED row
      BY <2>2 DEF ToNotice, TypeOK
    <3> HIDE DEF r, K
    <3> QED
      BY <3>1, <3>2, <3>3, <3>4 DEF TypeOK
  <2>3. CASE EndJob
    BY <2>3, Basics DEF EndJob, Finish, Stored, TypeOK
  <2>4. CASE StartDeliver \/ StartReconcile
    BY <2>4, LoadType DEF StartDeliver, StartReconcile, Begin, TypeOK
  <2> QED
    BY <2>1, <2>2, <2>3, <2>4
<1>f. job' \in Job /\ job'.at = None
  <2>1. CASE ToReconcile
    BY <2>1, <1>a DEF ToReconcile, PartDone, TypeOK, Job
  <2>2. CASE ToNotice
    BY <2>2, <1>a DEF ToNotice, PartDone, TypeOK, Job
  <2>3. CASE EndJob
    BY <2>3 DEF EndJob, Finish, Idle, Job
  <2>4. CASE StartDeliver \/ StartReconcile
    BY <2>4, <1>a DEF StartDeliver, StartReconcile, Begin, Idle, Job, TypeOK
  <2> QED
    BY <2>1, <2>2, <2>3, <2>4
<1> QED
  BY <1>c, <1>d, <1>e, <1>f DEF TypeOK, ClaimHasDraft

LEMMA ComposeType ==
  ASSUME TypeInv, Compose
  PROVE  TypeInv'
<1> USE DEF TypeInv
<1>0. PICK k \in Key : ComposeNew(k) \/ Recompose(k)
  BY DEF Compose
<1>1. row' \in [Key -> Row]
  <2>1. CASE ComposeNew(k)
    BY <2>1, Basics DEF ComposeNew, TypeOK
  <2>2. CASE Recompose(k)
    <3>1. row[k] \in Row /\ row[k].ver + 1 \in Version
      <4>1. row[k] \in Row /\ row[k].ver < MaxVersion
        BY <2>2 DEF Recompose, TypeOK
      <4>2. row[k].ver \in 0..MaxVersion
        BY <4>1 DEF Row, Version
      <4> QED
        BY <4>1, <4>2 DEF Version
    <3>2. [row[k] EXCEPT !.state = "pending", !.ver = row[k].ver + 1] \in Row
      BY <3>1, StateTypes DEF Row
    <3>3. row' = [row EXCEPT ![k] = [row[k] EXCEPT !.state = "pending", !.ver = row[k].ver + 1]]
      BY <2>2 DEF Recompose, TypeOK
    <3> QED
      BY <3>2, <3>3 DEF TypeOK
  <2> QED
    BY <1>0, <2>1, <2>2
<1>2. UNCHANGED <<sess, dirty, job, envVars, mailVars>>
  BY <1>0 DEF ComposeNew, Recompose
<1> QED
  BY <1>1, <1>2 DEF TypeOK, ClaimHasDraft, envVars, mailVars, MailTypeOK

LEMMA OutsideType ==
  ASSUME TypeInv, Outside \/ Crash
  PROVE  TypeInv'
<1> USE DEF TypeInv
<1>1. CASE Crash
  <2>1. job.at # None => SendCall(job.at) \in Request
    BY Basics DEF ClaimHasDraft, SendCall, Request, Writers
  <2>2. MailTypeOK'
    BY <1>1, <2>1 DEF Crash, TypeOK, MailTypeOK
  <2>3. crashes' \in 0..MaxCrashes
    BY <1>1 DEF Crash, TypeOK
  <2>4. job' \in Job /\ job'.at = None /\ sess' \in [Key -> Row] /\ dirty' \in SUBSET Key
    BY <1>1, Basics DEF Crash, Idle
  <2> QED
    BY <1>1, <2>2, <2>3, <2>4 DEF Crash, TypeOK, ClaimHasDraft
<1>2. ASSUME NEW m \in mail, NEW t \in HookTypes, Webhook(m, t)
      PROVE  TypeInv'
  <2>1. t \in Receipts /\ m.draft \in DraftId
    BY DEF Receipts, TypeOK, MailTypeOK, Message
  <2>2. hooks' \in SUBSET Hook
    BY <1>2, <2>1 DEF Webhook, TypeOK, Hook
  <2>3. \A k \in Key : [row[k] EXCEPT !.state = t] \in Row
    BY <2>1, StateTypes, RowState DEF TypeOK
  <2>4. row' \in [Key -> Row]
    BY <1>2, <2>3 DEF Webhook, TypeOK
  <2> QED
    BY <1>2, <2>2, <2>4 DEF Webhook, TypeOK, ClaimHasDraft, mailVars, MailTypeOK
<1>3. ASSUME NEW to \in Writers, SwitchMode(to)
      PROVE  TypeInv'
  BY <1>3 DEF SwitchMode, TypeOK, ClaimHasDraft, jobVars, mailVars, MailTypeOK
<1>4. CASE PassSendTime
  BY <1>4 DEF PassSendTime, TypeOK, ClaimHasDraft, jobVars, mailVars, MailTypeOK
<1>5. CASE Service
  <2>1. PICK d \in DraftId : Fire(d) \/ FinishFire(d) \/ FailFire(d)
    BY <1>5 DEF Service
  <2>2. draft[d] \in DraftRecord
    BY DEF TypeOK, MailTypeOK
  <2>3. MailTypeOK'
    BY <2>1, <2>2 DEF Fire, FinishFire, FailFire, Consume, SpendFault, TypeOK,
                      MailTypeOK, DraftRecord, Message
  <2> QED
    BY <1>5, <2>3 DEF Service, TypeOK, ClaimHasDraft, jobVars, envVars
<1>6. CASE Late
  <2>1. PICK q \in net : LateRequest(q)
    BY <1>6 DEF Late
  <2>2. q \in Request /\ MailTypeOK
    BY DEF TypeOK, MailTypeOK
  <2>3. MailTypeOK'
    BY <2>1, <2>2, ExecuteType DEF LateRequest, MailTypeOK
  <2> QED
    BY <1>6, <2>3 DEF Late, TypeOK, ClaimHasDraft, jobVars, envVars
<1> QED
  BY <1>1, <1>2, <1>3, <1>4, <1>5, <1>6 DEF Outside

LEMMA TypeNext == TypeInv /\ [Next]_vars => TypeInv'
<1> SUFFICES ASSUME TypeInv, [Next]_vars PROVE TypeInv'
  OBVIOUS
<1>1. CASE Compose
  BY <1>1, ComposeType
<1>2. CASE StartDeliver \/ StartReconcile
  BY <1>2, JobShapeType
<1>3. CASE JobStep
  BY <1>3, DeliverStepType, ReconcileStepType, JobShapeType DEF JobStep
<1>4. CASE Crash \/ Outside
  BY <1>4, OutsideType
<1>5. CASE UNCHANGED vars
  BY <1>5 DEF vars, jobVars, envVars, mailVars, TypeInv, TypeOK, MailTypeOK, ClaimHasDraft
<1> QED
  BY <1>1, <1>2, <1>3, <1>4, <1>5 DEF Next

LEMMA TypeInvariant == Spec => []TypeInv
  BY TypeInit, TypeNext, PTL DEF Spec

\* Every variable of the outbox stays within its type, whatever the jobs, the
\* webhook, the service and crashes do (deliver_outbox, reconcile_drafts).
THEOREM TypeCorrect == Spec => []TypeOK
<1>1. TypeInv => TypeOK
  BY DEF TypeInv
<1> QED
  BY <1>1, TypeInvariant, PTL

-----------------------------------------------------------------------------
(* No key is mailed twice.  The argument: a key's Drafts all have the one  *)
(* client id that depends on nothing but the key, creating it again makes  *)
(* no second Draft, and a message leaves its Draft consumed for good.      *)

OneDraft ==
  /\ \A d \in DraftId : draft[d].st # "none" => d[2] = 0
  /\ \A m \in mail : draft[m.draft].st = "gone"
  /\ \A m1, m2 \in mail : m1.draft = m2.draft => m1 = m2

OneClientId == \A q \in net : q.op = "create" => q.draft[2] = 0

MailInv == TypeInv /\ OneDraft /\ OneClientId

LEMMA ConsumeOne ==
  ASSUME MailTypeOK, OneDraft, NEW d \in DraftId, draft[d].st \in {"open", "sending"}, Consume(d)
  PROVE  OneDraft'
<1> DEFINE new == [draft |-> d, ver |-> draft[d].ver, by |-> draft[d].by]
<1>1. \A e \in DraftId : draft'[e].st = IF e = d THEN "gone" ELSE draft[e].st
  BY DEF Consume, MailTypeOK, DraftRecord
<1>2. mail' = mail \cup {new}
  BY DEF Consume
<1>3. \A m \in mail : m.draft \in DraftId /\ m.draft # d
  BY DEF OneDraft, MailTypeOK, Message
<1>4. \A e \in DraftId : draft'[e].st # "none" => e[2] = 0
  BY <1>1 DEF OneDraft
<1>5. new.draft = d
  OBVIOUS
<1> HIDE DEF new
<1>6. \A m \in mail' : draft'[m.draft].st = "gone"
  BY <1>1, <1>2, <1>3, <1>5 DEF OneDraft
<1>7. \A m1, m2 \in mail' : m1.draft = m2.draft => m1 = m2
  BY <1>2, <1>3, <1>5 DEF OneDraft
<1> QED
  BY <1>4, <1>6, <1>7 DEF OneDraft

\* Drafts that change without becoming "gone" or coming into being elsewhere.
LEMMA RewriteOne ==
  ASSUME MailTypeOK, OneDraft, UNCHANGED mail, NEW d \in DraftId, d[2] = 0,
         draft[d].st # "gone", NEW r \in DraftRecord, draft' = [draft EXCEPT ![d] = r]
  PROVE  OneDraft'
<1>1. \A e \in DraftId : draft'[e] = IF e = d THEN r ELSE draft[e]
  BY DEF MailTypeOK
<1>2. \A m \in mail : m.draft \in DraftId /\ m.draft # d
  BY DEF OneDraft, MailTypeOK, Message
<1> QED
  BY <1>1, <1>2 DEF OneDraft

LEMMA ExecuteOne ==
  ASSUME MailTypeOK, OneDraft, NEW q \in Request, q.op = "create" => q.draft[2] = 0, Execute(q)
  PROVE  OneDraft'
<1> DEFINE d == q.draft
<1>0. d \in DraftId /\ q.sched \in BOOLEAN /\ q.ver \in Version /\ q.by \in Writers
  BY DEF Request
<1>1. CASE q.op = "create" /\ draft[d].st = "none" /\ UNCHANGED mail
           /\ draft' = [draft EXCEPT ![d] = [st |-> "open", sched |-> q.sched,
                                             ver |-> q.ver, by |-> q.by]]
  <2>1. [st |-> "open", sched |-> q.sched, ver |-> q.ver, by |-> q.by] \in DraftRecord
    BY <1>0 DEF DraftRecord
  <2> QED
    BY <1>0, <1>1, <2>1, RewriteOne
<1>2. CASE q.op = "update" /\ draft[d].st = "open" /\ UNCHANGED mail
           /\ draft' = [draft EXCEPT ![d] = [st |-> "open", sched |-> q.sched \/ draft[d].sched,
                                             ver |-> q.ver, by |-> q.by]]
  <2>1. [st |-> "open", sched |-> q.sched \/ draft[d].sched, ver |-> q.ver, by |-> q.by]
          \in DraftRecord
    BY <1>0 DEF DraftRecord, MailTypeOK
  <2>2. d[2] = 0
    BY <1>0, <1>2 DEF OneDraft
  <2> QED
    BY <1>0, <1>2, <2>1, <2>2, RewriteOne
<1>3. CASE q.op = "send" /\ draft[d].st = "open" /\ Consume(d)
  BY <1>0, <1>3, ConsumeOne
<1>4. CASE UNCHANGED <<draft, mail>>
  BY <1>4 DEF OneDraft
<1> QED
  BY <1>1, <1>2, <1>3, <1>4 DEF Execute

LEMMA CallOne ==
  ASSUME MailTypeOK, OneDraft, OneClientId, NEW q \in Request,
         q.op = "create" => q.draft[2] = 0, NEW answer, Call(q, answer)
  PROVE  OneDraft' /\ OneClientId'
<1>1. CASE Execute(q) /\ UNCHANGED net
  BY <1>1, ExecuteOne DEF OneClientId
<1>2. CASE net' = net \cup {q} /\ UNCHANGED <<draft, mail>>
  BY <1>2 DEF OneDraft, OneClientId
<1>3. CASE UNCHANGED <<draft, mail, net>>
  BY <1>3 DEF OneDraft, OneClientId
<1> QED
  BY <1>1, <1>2, <1>3 DEF Call, mailVars

\* What the outbox itself asks for: creates carry the key's one client id.
LEMMA DraftCallClient ==
  ASSUME NEW r, NEW k, NEW w, NEW s
  PROVE  LET q == DraftCall(r, k, w, s) IN q.op = "create" => q.draft[2] = 0
  BY DEF DraftCall, ClientId

LEMMA OneNext == MailInv /\ [Next]_vars => MailInv'
<1> SUFFICES ASSUME MailInv, [Next]_vars PROVE OneDraft' /\ OneClientId'
  BY TypeNext DEF MailInv
<1> USE DEF MailInv, TypeInv
<1>a. MailTypeOK
  BY DEF TypeOK
<1>b. ASSUME UNCHANGED <<draft, mail, net>> PROVE OneDraft' /\ OneClientId'
  BY <1>b DEF OneDraft, OneClientId
<1>c. ASSUME NEW k \in Key, job.at = k PROVE SendCall(k) \in Request /\ SendCall(k).op = "send"
  BY <1>c, Basics DEF ClaimHasDraft, SendCall, Request, Writers
<1>d. ASSUME NEW k \in Key, job.at = k, SendFails(k) PROVE OneDraft' /\ OneClientId'
  BY <1>a, <1>c, <1>d, CallOne DEF SendFails
<1>1. CASE Compose
  BY <1>1, <1>b DEF Compose, ComposeNew, Recompose, mailVars
<1>2. CASE StartDeliver \/ StartReconcile
  BY <1>2, <1>b DEF StartDeliver, StartReconcile, Begin, mailVars
<1>3. CASE DeliverStep
  <2>0. PICK k \in Key :
          \/ DeliverShadow(k) \/ DeliverScheduled(k) \/ DeliverClaim(k)
          \/ DeliverDraftError(k) \/ DeliverSend(k) \/ DeliverSendError(k)
    BY <1>3 DEF DeliverStep
  <2>1. CASE DeliverShadow(k)
    <3> DEFINE r == [sess[k] EXCEPT !.state = "draft", !.shadow = TRUE, !.sendmode = "shadow"]
               q == DraftCall(r, k, "shadow", FALSE)
    <3>1. r \in Row
      BY ShadowRow DEF TypeOK
    <3>2. q \in Request /\ (q.op = "create" => q.draft[2] = 0)
      BY <3>1, DraftCallType, DraftCallClient DEF Writers
    <3>3. \E answer : Call(q, answer)
      BY <2>1 DEF DeliverShadow
    <3> HIDE DEF q
    <3> QED
      BY <1>a, <3>2, <3>3, CallOne
  <2>2. CASE DeliverScheduled(k) \/ DeliverClaim(k) \/ DeliverDraftError(k)
    <3> DEFINE q == LiveCall(k)
    <3>1. q \in Request /\ (q.op = "create" => q.draft[2] = 0)
      BY LiveType, DraftCallClient DEF LiveCall
    <3>2. \E answer : Call(q, answer)
      BY <2>2 DEF DeliverScheduled, DeliverClaim, DeliverDraftError
    <3> HIDE DEF q
    <3> QED
      BY <1>a, <3>1, <3>2, CallOne
  <2>3. CASE DeliverSend(k)
    BY <2>3, <1>a, <1>c, CallOne DEF DeliverSend, AtSend
  <2>4. CASE DeliverSendError(k)
    BY <2>4, <1>d DEF DeliverSendError, AtSend
  <2> QED
    BY <2>0, <2>1, <2>2, <2>3, <2>4
<1>4. CASE ReconcileStep
  <2>0. PICK k \in Key :
          \/ ReconcileDraft(k) \/ ReconcileClaim(k) \/ ReconcileSend(k)
          \/ ReconcileSendError(k) \/ ReconcileMessage(k) \/ ReconcileNothing(k)
    BY <1>4 DEF ReconcileStep
  <2>1. CASE ReconcileDraft(k) \/ ReconcileClaim(k)
    BY <2>1, <1>b DEF ReconcileDraft, ReconcileClaim, mailVars
  <2>2. CASE ReconcileMessage(k) \/ ReconcileNothing(k)
    BY <2>2, <1>b DEF ReconcileMessage, ReconcileNothing, NoDraftRead, mailVars
  <2>3. CASE ReconcileSend(k)
    BY <2>3, <1>a, <1>c, CallOne DEF ReconcileSend, AtSend
  <2>4. CASE ReconcileSendError(k)
    BY <2>4, <1>d DEF ReconcileSendError, AtSend
  <2> QED
    BY <2>0, <2>1, <2>2, <2>3, <2>4
<1>5. CASE ToReconcile \/ ToNotice \/ EndJob
  BY <1>5, <1>b DEF ToReconcile, ToNotice, EndJob, mailVars
<1>6. CASE Crash
  <2>1. CASE UNCHANGED net
    BY <1>6, <2>1, <1>b DEF Crash
  <2>2. CASE job.at # None /\ net' = net \cup {SendCall(job.at)}
    <3>1. job.at \in Key
      BY <2>2 DEF TypeOK, Job
    <3>2. SendCall(job.at).op = "send"
      BY <3>1, <1>c
    <3>3. UNCHANGED <<draft, mail>>
      BY <1>6 DEF Crash
    <3> QED
      BY <2>2, <3>2, <3>3 DEF OneDraft, OneClientId
  <2> QED
    BY <1>6, <2>1, <2>2 DEF Crash
<1>7. CASE Service
  <2>1. PICK d \in DraftId : Fire(d) \/ FinishFire(d) \/ FailFire(d)
    BY <1>7 DEF Service
  <2>2. CASE FinishFire(d)
    BY <2>2, <1>a, ConsumeOne DEF FinishFire, OneClientId
  <2>3. CASE Fire(d)
    <3>1. [draft[d] EXCEPT !.st = "sending"] \in DraftRecord
      BY <1>a DEF MailTypeOK, DraftRecord
    <3>2. draft' = [draft EXCEPT ![d] = [draft[d] EXCEPT !.st = "sending"]]
      BY <2>3, <1>a DEF Fire, MailTypeOK
    <3>3. d[2] = 0 /\ draft[d].st # "gone"
      BY <2>3 DEF Fire, OneDraft
    <3>4. UNCHANGED <<mail, net>>
      BY <2>3 DEF Fire
    <3> QED
      BY <1>a, <3>1, <3>2, <3>3, <3>4, RewriteOne DEF OneClientId
  <2>4. CASE FailFire(d)
    <3>1. [draft[d] EXCEPT !.st = "failed"] \in DraftRecord
      BY <1>a DEF MailTypeOK, DraftRecord
    <3>2. draft' = [draft EXCEPT ![d] = [draft[d] EXCEPT !.st = "failed"]]
      BY <2>4, <1>a DEF FailFire, MailTypeOK
    <3>3. d[2] = 0 /\ draft[d].st # "gone"
      BY <2>4 DEF FailFire, OneDraft
    <3>4. UNCHANGED <<mail, net>>
      BY <2>4 DEF FailFire
    <3> QED
      BY <1>a, <3>1, <3>2, <3>3, <3>4, RewriteOne DEF OneClientId
  <2> QED
    BY <2>1, <2>2, <2>3, <2>4
<1>8. CASE Late
  <2>1. PICK q \in net : LateRequest(q)
    BY <1>8 DEF Late
  <2>2. q \in Request /\ (q.op = "create" => q.draft[2] = 0)
    BY <1>a DEF MailTypeOK, OneClientId
  <2>3. OneDraft'
    BY <1>a, <2>1, <2>2, ExecuteOne DEF LateRequest
  <2>4. OneClientId'
    BY <2>1 DEF LateRequest, OneClientId
  <2> QED
    BY <2>3, <2>4
<1>9. CASE (\E m \in mail, t \in HookTypes : Webhook(m, t)) \/ (\E to \in Writers : SwitchMode(to))
           \/ PassSendTime
  BY <1>9, <1>b DEF Webhook, SwitchMode, PassSendTime, mailVars
<1>10. CASE UNCHANGED vars
  BY <1>10, <1>b DEF vars, mailVars
<1> QED
  BY <1>1, <1>2, <1>3, <1>4, <1>5, <1>6, <1>7, <1>8, <1>9, <1>10
     DEF Next, JobStep, Outside

LEMMA OneInit == Init => MailInv
  BY TypeInit DEF Init, MailInit, MailInv, OneDraft, OneClientId, NoDraftRecord

LEMMA OneImplies == MailInv => AtMostOneMail
<1> SUFFICES ASSUME MailInv, NEW m1 \in mail, NEW m2 \in mail, m1.draft[1] = m2.draft[1]
             PROVE  m1 = m2
  BY DEF AtMostOneMail
<1>1. m1.draft \in DraftId /\ m2.draft \in DraftId
  BY DEF MailInv, TypeInv, TypeOK, MailTypeOK, Message
<1>2. m1.draft[2] = 0 /\ m2.draft[2] = 0
  BY <1>1 DEF MailInv, OneDraft
<1>3. m1.draft = m2.draft
  BY <1>1, <1>2 DEF DraftId
<1> QED
  BY <1>3 DEF MailInv, OneDraft

\* No delivery key is ever mailed twice, for any keys, contents, faults and
\* crashes: recreated Drafts, re-sends after ambiguous answers and requests that
\* arrive late never make a second message (deliver_outbox, reconcile_drafts).
THEOREM MailedAtMostOnce == Spec => []AtMostOneMail
<1>1. Spec => []MailInv
  BY OneInit, OneNext, PTL DEF Spec
<1> QED
  BY <1>1, OneImplies, PTL
=============================================================================
