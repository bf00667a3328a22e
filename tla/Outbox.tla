------------------------------- MODULE Outbox -------------------------------
(***************************************************************************)
(* The delivery outbox: the rows of public.deliveries, the jobs that write *)
(* them (radar compose, deliver, reconcile), the AgentMail webhook, and    *)
(* the mail service of module AgentMail.                                   *)
(*                                                                         *)
(* Jobs share the concurrency group radar-database-writer, so one runs at  *)
(* a time.  A job works on its own copies of the rows (the ORM session)    *)
(* and publishes them when it commits: at its end, and right before every  *)
(* non-idempotent send.  A job that dies loses what it had not committed.  *)
(* The webhook writes the committed rows at any moment.                    *)
(***************************************************************************)
EXTENDS AgentMail, FiniteSets

CONSTANTS Digest,      \* the key of today's digest: it has a send time
          Notice,      \* the key of today's operations notice
          None,        \* no id
          HookTypes,   \* the states webhooks of the modelled types report
          StartModes,  \* the delivery modes a deployment may start in
          Switches,    \* the changes of mode an operator may make
          MaxCrashes   \* how many jobs may die

ASSUME OutboxAssumption ==
  /\ Digest \in Key /\ Notice \in Key /\ Digest # Notice
  /\ None \notin DraftId /\ None \notin Key
  /\ StartModes \subseteq Writers /\ Switches \subseteq Writers \X Writers
  /\ HookTypes \subseteq {"sent", "delivered", "bounced", "rejected", "complained"}
  /\ MaxCrashes \in Nat

VARIABLES row,      \* [Key -> the committed row]
          sess,     \* [Key -> the running job's copy; NoRow when not loaded]
          dirty,    \* rows the job has changed since its last commit
          job,      \* what runs and where it is
          hooks,    \* the committed webhook_events
          mode,     \* the operator's delivery mode
          due,      \* the digest's send time has passed
          crashes   \* how many more jobs may die

jobVars == <<row, sess, dirty, job>>
envVars == <<hooks, mode, due, crashes>>
vars == <<jobVars, envVars, mailVars>>

Receipts == {"sent", "delivered", "bounced", "rejected", "complained"}
DeliveryState == {"pending", "draft", "scheduled", "sending", "unknown", "failed"}
                   \cup Receipts
States == {"absent"} \cup DeliveryState

Row == [state: States, draft: DraftId \cup {None}, msg: DraftId \cup {None},
        shadow: BOOLEAN, sendmode: {"", "shadow", "scheduled", "immediate"},
        ver: Version, attempts: 0..MaxAttempts]

NoRow == [state |-> "absent", draft |-> None, msg |-> None, shadow |-> FALSE,
          sendmode |-> "", ver |-> 0, attempts |-> 0]

NewRow == [NoRow EXCEPT !.state = "pending", !.ver = 1]

\* past: whether the job's "now" was taken after the digest's send time.
Job == [cmd: {"idle", "deliver", "reconcile"},
        phase: {"deliver", "reconcile", "notice"},
        todo: SUBSET Key, at: Key \cup {None}, past: BOOLEAN]

Idle == [cmd |-> "idle", phase |-> "deliver", todo |-> {}, at |-> None, past |-> FALSE]

Hook == [msg: DraftId, type: Receipts]

Rank(s) == CASE s = "sent" -> 30
             [] s = "delivered" -> 40
             [] s \in {"bounced", "rejected"} -> 50
             [] s = "complained" -> 60
             [] OTHER -> 0

TypeOK ==
  /\ MailTypeOK
  /\ row \in [Key -> Row]
  /\ sess \in [Key -> Row]
  /\ dirty \in SUBSET Key
  /\ job \in Job
  /\ hooks \in SUBSET Hook
  /\ mode \in Writers
  /\ due \in BOOLEAN
  /\ crashes \in 0..MaxCrashes

\* How far a stored state stands against a webhook, in apply_agentmail_webhook.
StoredRank(s) == CASE s \in Receipts -> Rank(s)
                   [] s \in {"absent", "pending"} -> 0
                   [] s = "draft" -> 5
                   [] s = "scheduled" -> 10
                   [] s \in {"sending", "unknown"} -> 20
                   [] OTHER -> 100

Unloaded == [k \in Key |-> NoRow]

Init ==
  /\ MailInit
  /\ row = [k \in Key |-> NoRow]
  /\ sess = Unloaded
  /\ dirty = {}
  /\ job = Idle
  /\ hooks = {}
  /\ mode \in StartModes
  /\ due = FALSE
  /\ crashes = MaxCrashes

-----------------------------------------------------------------------------
(* The session of the running job.                                         *)

\* A query sees the job's own changes and what others have committed.
Stored(k) == IF k \in dirty THEN sess[k] ELSE row[k]
InState(S) == {k \in Key : Stored(k).state \in S}

\* Rows already in the session keep their values (expire_on_commit=False).
Load(K) == [k \in Key |-> IF k \in K /\ sess[k].state = "absent" THEN row[k] ELSE sess[k]]

Held(k) == IF sess[k].state # "absent" THEN sess[k] ELSE row[k]

Write(k, r) == /\ sess' = [sess EXCEPT ![k] = r]
               /\ dirty' = dirty \cup {k}
               /\ UNCHANGED row

\* Write r and commit everything the session has changed so far.
WriteAndCommit(k, r) ==
  /\ sess' = [sess EXCEPT ![k] = r]
  /\ row' = [j \in Key |-> IF j = k THEN r ELSE Stored(j)]
  /\ dirty' = {}

\* The end of session_scope.
Finish == /\ row' = [k \in Key |-> Stored(k)]
          /\ sess' = Unloaded
          /\ dirty' = {}
          /\ job' = Idle

Done(k) == job' = [job EXCEPT !.todo = @ \ {k}, !.at = None]
Claim(k) == job' = [job EXCEPT !.todo = @ \ {k}, !.at = k]

-----------------------------------------------------------------------------
(* radar compose: one transaction.                                         *)

Mutable == {"pending", "draft", "shadow", "scheduled"}

\* A first compose for a key.  An alert's key names its revisions, which the
\* ledger gives to no later alert: its content never changes under that key.
ComposeNew(k) ==
  /\ job.cmd = "idle" /\ k # Notice /\ row[k].state = "absent"
  /\ row' = [row EXCEPT ![k] = NewRow]
  /\ UNCHANGED <<sess, dirty, job, envVars, mailVars>>

\* A later compose of the digest with other content, while it may change.
\* (Mutant: any existing row is rewritten.)
StillMutableAlways(k) == row[k].state # "absent" /\ ~due

StillMutable(k) == row[k].state \in Mutable /\ ~due

Recompose(k) ==
  /\ job.cmd = "idle" /\ k = Digest /\ StillMutable(k)
  /\ row[k].ver < MaxVersion
  /\ row' = [row EXCEPT ![k].state = "pending", ![k].ver = @ + 1]
  /\ UNCHANGED <<sess, dirty, job, envVars, mailVars>>

-----------------------------------------------------------------------------
(* radar deliver, and the deliver_outbox calls of radar reconcile.         *)

Begin(cmd) ==
  /\ job.cmd = "idle"
  /\ job' = [Idle EXCEPT !.cmd = cmd, !.todo = InState({"pending"}), !.past = due]
  /\ sess' = Load(InState({"pending"}))
  /\ UNCHANGED <<row, dirty, envVars, mailVars>>

StartDeliver == Begin("deliver")
\* (Mutant: reconcile no longer recovers pending rows.)
StartReconcileOnly ==
  /\ job.cmd = "idle"
  /\ job' = [Idle EXCEPT !.cmd = "reconcile", !.past = due]
  /\ UNCHANGED <<row, sess, dirty, envVars, mailVars>>

StartReconcile == Begin("reconcile")

Delivering(k) == /\ job.cmd # "idle" /\ job.phase \in {"deliver", "notice"}
                 /\ job.at = None /\ k \in job.todo

\* (Mutant: the attempt goes into the client id.)
ClientIdPerAttempt(k, attempt) == <<k, attempt>>

\* The client id is a hash of the delivery key and nothing else.
ClientId(k, attempt) == <<k, 0>>

\* (Mutant: a known Draft is not updated.)
DraftCallCreateOnly(r, k, writer, sched) ==
  [op |-> "create", draft |-> IF r.draft = None THEN ClientId(k, r.attempts) ELSE r.draft,
   sched |-> sched, ver |-> r.ver, by |-> writer]

\* update_draft where the row knows its Draft, else create_draft.
DraftCall(r, k, writer, sched) ==
  [op |-> IF r.draft = None THEN "create" ELSE "update",
   draft |-> IF r.draft = None THEN ClientId(k, r.attempts) ELSE r.draft,
   sched |-> sched, ver |-> r.ver, by |-> writer]

Scheduled(k) == k = Digest /\ ~job.past

\* (Mutant: the review Draft is given the digest's send time.)
DeliverShadowScheduled(k) ==
  /\ Delivering(k) /\ mode = "shadow"
  /\ LET r == [sess[k] EXCEPT !.state = "draft", !.shadow = TRUE, !.sendmode = "shadow"]
         q == DraftCall(r, k, "shadow", Scheduled(k))
     IN \E answer \in {"ok", "timeout", "retryable", "fatal"} :
          /\ Call(q, answer)
          /\ Write(k, IF answer = "ok" THEN [r EXCEPT !.draft = q.draft] ELSE r)
  /\ Done(k)
  /\ UNCHANGED envVars

\* Shadow mode only writes a review Draft; errors are noted and ignored.
DeliverShadow(k) ==
  /\ Delivering(k) /\ mode = "shadow"
  /\ LET r == [sess[k] EXCEPT !.state = "draft", !.shadow = TRUE, !.sendmode = "shadow"]
         q == DraftCall(r, k, "shadow", FALSE)
     IN \E answer \in {"ok", "timeout", "retryable", "fatal"} :
          /\ Call(q, answer)
          /\ Write(k, IF answer = "ok" THEN [r EXCEPT !.draft = q.draft] ELSE r)
  /\ Done(k)
  /\ UNCHANGED envVars

Counted(r) == [r EXCEPT !.attempts = IF @ < MaxAttempts THEN @ + 1 ELSE @]

\* Live: the row as the loop prepares it, and the Draft it asks for.
LiveRow(k) == [Counted(sess[k]) EXCEPT
                 !.sendmode = IF Scheduled(k) THEN "scheduled" ELSE "immediate"]
\* (Mutant: the send time is not passed on.)
LiveCallUntimed(k) == DraftCall(LiveRow(k), k, "live", FALSE)
LiveCall(k) == DraftCall(LiveRow(k), k, "live", Scheduled(k))

\* The Draft is in place: a future one is done with ...
DeliverScheduled(k) ==
  /\ Delivering(k) /\ mode = "live" /\ Scheduled(k)
  /\ Call(LiveCall(k), "ok")
  /\ Write(k, [LiveRow(k) EXCEPT !.draft = LiveCall(k).draft, !.state = "scheduled"])
  /\ Done(k)
  /\ UNCHANGED envVars

\* (Mutant: the claim is flushed but not committed.)
DeliverClaimFlushed(k) ==
  /\ Delivering(k) /\ mode = "live" /\ ~Scheduled(k)
  /\ Call(LiveCall(k), "ok")
  /\ Write(k, [LiveRow(k) EXCEPT !.draft = LiveCall(k).draft, !.state = "sending"])
  /\ Claim(k)
  /\ UNCHANGED envVars

\* ... and a present one is claimed, and the claim committed, before the send.
DeliverClaim(k) ==
  /\ Delivering(k) /\ mode = "live" /\ ~Scheduled(k)
  /\ Call(LiveCall(k), "ok")
  /\ WriteAndCommit(k, [LiveRow(k) EXCEPT !.draft = LiveCall(k).draft, !.state = "sending"])
  /\ Claim(k)
  /\ UNCHANGED envVars

\* What a failed call in the draft stage makes of the row.
AfterDraftError(answer) == CASE answer = "timeout" -> "unknown"
                             [] answer = "retryable" -> "pending"
                             [] answer = "fatal" -> "failed"

DeliverDraftError(k) ==
  /\ Delivering(k) /\ mode = "live"
  /\ \E answer \in {"timeout", "retryable", "fatal"} :
       /\ Call(LiveCall(k), answer)
       /\ Write(k, [LiveRow(k) EXCEPT !.state = AfterDraftError(answer)])
  /\ Done(k)
  /\ UNCHANGED envVars

SendCall(k) == [op |-> "send", draft |-> sess[k].draft, sched |-> FALSE,
                ver |-> 0, by |-> "live"]

\* Any ambiguous answer to a send leaves the row to reconciliation.
AfterSendError(answer) == IF answer = "fatal" THEN "failed" ELSE "unknown"

SendFails(k) ==
  /\ \E answer \in {"timeout", "retryable", "fatal"} :
       /\ Call(SendCall(k), answer)
       /\ Write(k, [sess[k] EXCEPT !.state = AfterSendError(answer)])
  /\ Done(k)
  /\ UNCHANGED envVars

AtSend(k, phases) == job.cmd # "idle" /\ job.at = k /\ job.phase \in phases

DeliverSend(k) ==
  /\ AtSend(k, {"deliver", "notice"})
  /\ Call(SendCall(k), "ok")
  /\ Write(k, [sess[k] EXCEPT !.msg = sess[k].draft, !.state = "sent"])
  /\ Done(k)
  /\ UNCHANGED envVars

DeliverSendError(k) == AtSend(k, {"deliver", "notice"}) /\ SendFails(k)

-----------------------------------------------------------------------------
(* reconcile_drafts.                                                       *)

Reconciling(k) == /\ job.cmd # "idle" /\ job.phase = "reconcile"
                  /\ job.at = None /\ k \in job.todo

\* _apply_recorded_webhooks: the highest recorded state the row may climb to.
Applied(d, s) ==
  LET climb == {h.type : h \in {g \in hooks : g.msg = d /\ Rank(g.type) >= Rank(s)}}
  IN IF climb = {} THEN {s} ELSE {t \in climb : \A u \in climb : Rank(u) <= Rank(t)}

SendMode(k) == IF sess[k].sendmode # "" THEN sess[k].sendmode
               ELSE IF k = Digest /\ ~due THEN "scheduled" ELSE "immediate"

\* The Draft the row's id or, failing that, its label leads to.
Tracked(k) == IF sess[k].draft = None THEN Visible(k) ELSE Visible(k) \cap {sess[k].draft}

Resends(k, d) == SendStatus(d) = "" /\ SendMode(k) = "immediate" /\ ~sess[k].shadow

\* (Mutant: the row takes the provider's status as it is.)
StateOfDraftRaw(k, d) == IF sess[k].shadow THEN "draft" ELSE SendStatus(d)

StateOfDraft(k, d) == CASE sess[k].shadow -> "draft"
                        [] ~sess[k].shadow /\ SendStatus(d) = "failed" -> "failed"
                        [] ~sess[k].shadow /\ SendStatus(d) = "sending" -> "sending"
                        [] OTHER -> "scheduled"

\* get_draft answers: take over what the Draft's status says ...
ReconcileDraft(k) ==
  /\ Reconciling(k)
  /\ \E d \in Tracked(k) :
       /\ ~Resends(k, d)
       /\ Write(k, [sess[k] EXCEPT !.draft = d, !.state = StateOfDraft(k, d)])
  /\ Done(k)
  /\ UNCHANGED <<envVars, mailVars>>

\* ... or retry the send of the same Draft, again claimed and committed first.
ReconcileClaim(k) ==
  /\ Reconciling(k)
  /\ \E d \in Tracked(k) :
       /\ Resends(k, d)
       /\ WriteAndCommit(k, [sess[k] EXCEPT !.draft = d, !.state = "sending"])
  /\ Claim(k)
  /\ UNCHANGED <<envVars, mailVars>>

ReconcileSend(k) ==
  /\ AtSend(k, {"reconcile"})
  /\ Call(SendCall(k), "ok")
  /\ \E s \in Applied(sess[k].draft, "sent") :
       Write(k, [sess[k] EXCEPT !.msg = sess[k].draft, !.state = s])
  /\ Done(k)
  /\ UNCHANGED envVars

ReconcileSendError(k) == AtSend(k, {"reconcile"}) /\ SendFails(k)

\* No Draft was read: it is gone, or a lookup failed (one fault; the label
\* may still have given its id).  Then the message decides.
NoDraftRead(k) == \/ Tracked(k) = {} /\ UNCHANGED mailVars
                  \/ SpendFault /\ UNCHANGED <<draft, mail, net>>

LearnedDraft(k) == IF sess[k].draft = None THEN {None} \cup Visible(k) ELSE {sess[k].draft}

ReconcileMessage(k) ==
  /\ Reconciling(k)
  /\ NoDraftRead(k)
  /\ \E m \in MessagesOf(k), d \in LearnedDraft(k) : \E s \in Applied(m.draft, "sent") :
       Write(k, [sess[k] EXCEPT !.draft = d, !.msg = m.draft, !.state = s])
  /\ Done(k)
  /\ UNCHANGED envVars

\* Neither can be proven: stay fail-closed.
ReconcileNothing(k) ==
  /\ Reconciling(k)
  /\ \/ MessagesOf(k) = {} /\ NoDraftRead(k)
     \/ MessagesOf(k) # {} /\ SpendFault /\ UNCHANGED <<draft, mail, net>>
  /\ \E d \in LearnedDraft(k) : Write(k, [sess[k] EXCEPT !.draft = d, !.state = "unknown"])
  /\ Done(k)
  /\ UNCHANGED envVars

-----------------------------------------------------------------------------
(* The order of a job's parts (cli.deliver, cli.reconcile).                *)

PartDone == job.cmd # "idle" /\ job.todo = {} /\ job.at = None

\* (Mutant: rows left sending by a crash are not looked at.)
ToReconcileNoSending ==
  /\ PartDone /\ job.cmd = "reconcile" /\ job.phase = "deliver"
  /\ LET K == InState({"scheduled", "unknown"}) IN
       /\ job' = [job EXCEPT !.phase = "reconcile", !.todo = K]
       /\ sess' = Load(K)
  /\ UNCHANGED <<row, dirty, envVars, mailVars>>

ToReconcile ==
  /\ PartDone /\ job.cmd = "reconcile" /\ job.phase = "deliver"
  /\ LET K == InState({"scheduled", "sending", "unknown"}) IN
       /\ job' = [job EXCEPT !.phase = "reconcile", !.todo = K]
       /\ sess' = Load(K)
  /\ UNCHANGED <<row, dirty, envVars, mailVars>>

\* ensure_operations_delivery: the digest is not known to have gone out.
NoticeNeeded == /\ mode = "live"
                /\ Held(Digest).state \notin {"sent", "delivered"}
                /\ Held(Notice).state \in {"absent", "pending"}

ToNotice ==
  /\ PartDone /\ job.phase = "reconcile" /\ NoticeNeeded
  /\ LET K == InState({"pending"}) \cup {Notice} IN
       /\ job' = [job EXCEPT !.phase = "notice", !.todo = K, !.past = due]
       /\ sess' = [Load(K) EXCEPT ![Notice] =
                     IF Held(Notice).state = "absent" THEN NewRow ELSE Held(Notice)]
  /\ dirty' = IF Held(Notice).state = "absent" THEN dirty \cup {Notice} ELSE dirty
  /\ UNCHANGED <<row, envVars, mailVars>>

EndJob ==
  /\ PartDone
  /\ \/ job.cmd = "deliver"
     \/ job.phase = "reconcile" /\ ~NoticeNeeded
     \/ job.phase = "notice"
  /\ Finish
  /\ UNCHANGED <<envVars, mailVars>>

\* The runner dies: the session is rolled back, a send may be under way.
Crash ==
  /\ job.cmd # "idle" /\ crashes > 0
  /\ crashes' = crashes - 1
  /\ job' = Idle /\ sess' = Unloaded /\ dirty' = {}
  /\ \/ UNCHANGED net
     \/ job.at # None /\ net' = net \cup {SendCall(job.at)}
  /\ UNCHANGED <<row, hooks, mode, due, draft, mail, faults>>

-----------------------------------------------------------------------------
(* The world around the jobs.                                              *)

\* (Mutant: the rank guard is missing.)
WebhookUnranked(m, t) ==
  /\ [msg |-> m.draft, type |-> t] \notin hooks
  /\ hooks' = hooks \cup {[msg |-> m.draft, type |-> t]}
  /\ row' = [k \in Key |->
               IF row[k].msg = m.draft THEN [row[k] EXCEPT !.state = t] ELSE row[k]]
  /\ UNCHANGED <<sess, dirty, job, mode, due, crashes, mailVars>>

\* apply_agentmail_webhook: one event of a message, recorded once.
Webhook(m, t) ==
  /\ [msg |-> m.draft, type |-> t] \notin hooks
  /\ hooks' = hooks \cup {[msg |-> m.draft, type |-> t]}
  /\ row' = [k \in Key |->
               IF row[k].msg = m.draft /\ Rank(t) >= StoredRank(row[k].state)
                 THEN [row[k] EXCEPT !.state = t] ELSE row[k]]
  /\ UNCHANGED <<sess, dirty, job, mode, due, crashes, mailVars>>

\* Between jobs, and not while a request of an earlier job is still under way.
SwitchMode(to) == /\ job.cmd = "idle" /\ net = {} /\ <<mode, to>> \in Switches
                  /\ mode' = to
                  /\ UNCHANGED <<jobVars, hooks, due, crashes, mailVars>>

PassSendTime == /\ ~due /\ due' = TRUE
                /\ UNCHANGED <<jobVars, hooks, mode, crashes, mailVars>>

Service == \E d \in DraftId :
  /\ (due /\ Fire(d)) \/ FinishFire(d) \/ FailFire(d)
  /\ UNCHANGED <<jobVars, envVars>>

Late == \E q \in net : LateRequest(q) /\ UNCHANGED <<jobVars, envVars>>

Compose == \E k \in Key : ComposeNew(k) \/ Recompose(k)

DeliverStep == \E k \in Key :
  \/ DeliverShadow(k) \/ DeliverScheduled(k) \/ DeliverClaim(k) \/ DeliverDraftError(k)
  \/ DeliverSend(k) \/ DeliverSendError(k)

ReconcileStep == \E k \in Key :
  \/ ReconcileDraft(k) \/ ReconcileClaim(k) \/ ReconcileSend(k) \/ ReconcileSendError(k)
  \/ ReconcileMessage(k) \/ ReconcileNothing(k)

JobStep == DeliverStep \/ ReconcileStep \/ ToReconcile \/ ToNotice \/ EndJob

Outside == \/ \E m \in mail, t \in HookTypes : Webhook(m, t)
           \/ \E to \in Writers : SwitchMode(to)
           \/ PassSendTime \/ Service \/ Late

Next == Compose \/ StartDeliver \/ StartReconcile \/ JobStep \/ Crash \/ Outside

Spec == Init /\ [][Next]_vars

\* A started job goes on; the daily reconcile job gets its turn whatever other
\* jobs the group runs; the service finishes what it has begun.
FairSpec == /\ Spec
            /\ WF_vars(JobStep)
            /\ SF_vars(StartReconcile)
            /\ WF_vars(Service)
-----------------------------------------------------------------------------
(* Properties.                                                             *)

\* No delivery key is ever mailed twice, whatever is retried, recreated after a
\* crash, or arrives late (deliver_outbox, reconcile_drafts).
AtMostOneMail == \A m1, m2 \in mail : m1.draft[1] = m2.draft[1] => m1 = m2

\* A send that was ever posted for a key.
Posted(k) == \/ \E q \in net : q.op = "send" /\ q.draft[1] = k
             \/ \E m \in MessagesOf(k) : ~draft[m.draft].sched

\* Before a send is posted the claim is committed: no crash or recompose leaves
\* the ledger with a posted delivery that another job would start over.
PostedIsClaimed == \A k \in Key : Posted(k) => row[k].state \notin {"absent", "pending"}

\* Once claimed, a row is left to reconciliation: nothing turns it back into
\* work for deliver_outbox ("it cannot return this row to pending").
ClaimedStaysClaimed ==
  [][\A k \in Key : row[k].state \in {"sending", "unknown"}
                      => row'[k].state \notin {"absent", "pending"}]_vars

\* A Draft a shadow run wrote last is mailed only if a live run took it over.
ReviewDraftsAreNotMailed ==
  \A m \in mail : m.by = "live" \/ row[m.draft[1]].sendmode \in {"scheduled", "immediate"}

\* Whatever the order of compose, deliver and the send time, as long as no call
\* has failed and no job has died: what is recorded as sent had the content the
\* ledger lists for it (compose rewrites both while a Draft is already out).
ReceiptsMatchContent ==
  faults = MaxFaults /\ crashes = MaxCrashes =>
    \A k \in Key : row[k].state \in Receipts
                     => \A m \in MessagesOf(k) : m.ver = row[k].ver

\* Live only: a row recorded as scheduled has a Draft that carries a send time,
\* so something will happen to it without a further run.
ScheduledWillFire ==
  \A k \in Key : row[k].state = "scheduled"
                   => row[k].draft # None /\ draft[row[k].draft].sched

\* The outbox as a delivery promise: what the ledger says became of each key.
Promise == INSTANCE DeliveryPromise WITH
  mailed <- {k \in Key : MessagesOf(k) # {}},
  outcome <- [k \in Key |-> IF row[k].state \in Receipts \cup {"failed"}
                              THEN row[k].state ELSE "open"]

KeepsPromise == Promise!Spec

\* Live only: the mail of a row that waits for reconciliation gets recorded.
MailIsRecorded ==
  \A k \in Key : (MessagesOf(k) # {} /\ row[k].state \in {"scheduled", "sending", "unknown"})
                   ~> row[k].state \in Receipts \cup {"failed"}

\* Nothing composed stays pending for ever.
PendingIsHandled == \A k \in Key : row[k].state = "pending" ~> row[k].state # "pending"

\* A failed delivery that was to go out at once was not mailed.
FailedMeansUnsent ==
  \A k \in Key : row[k].state = "failed" /\ row[k].sendmode = "immediate"
                   => MessagesOf(k) = {}

\* Only a delivery that was last handled in shadow mode is held as a review Draft.
OnlyReviewsAreHeld == \A k \in Key : row[k].state = "draft" => row[k].sendmode = "shadow"

\* Between jobs, every webhook recorded for the message of a scheduled delivery
\* shows in its state.
RecordedReceiptsShow ==
  job.cmd = "idle" =>
    \A h \in hooks, k \in Key :
      row[k].msg = h.msg /\ row[k].sendmode = "scheduled"
        => Rank(row[k].state) >= Rank(h.type)
=============================================================================
