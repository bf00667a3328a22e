------------------------------ MODULE AgentMail ------------------------------
(***************************************************************************)
(* The mail service behind the outbox (external), as agentmail.py uses it: *)
(* Drafts addressed by the client id that created them, an optional send   *)
(* time, messages produced by consuming a Draft, and requests whose answer *)
(* the client gave up on and which the service may still execute later.    *)
(*                                                                         *)
(* What the code relies on, and this module grants:                        *)
(*   - creating a Draft again under the same client id returns the first   *)
(*     one, unchanged, even once it has been consumed;                     *)
(*   - a send consumes the Draft, so that it can be sent only once;        *)
(*   - update_draft leaves the send time alone when it is not passed one   *)
(*     (AgentMailClient.update_draft omits send_at when it is None).       *)
(***************************************************************************)
EXTENDS Naturals

CONSTANTS Key,          \* delivery keys: one outbox row each
          MaxVersion,   \* how many contents compose may give one key
          MaxAttempts,  \* attempt_count is counted up to this
          MaxFaults     \* calls that may go wrong for no reason of the caller

ASSUME BoundsAssumption == /\ MaxVersion \in Nat \ {0}
                           /\ MaxAttempts \in Nat \ {0}
                           /\ MaxFaults \in Nat

VARIABLES draft,   \* [DraftId -> the service's Draft]
          mail,    \* the messages the service has produced
          net,     \* requests given up by the client, not yet executed
          faults   \* how many spontaneous failures are left

mailVars == <<draft, mail, net, faults>>

Writers == {"live", "shadow"}
Version == 0..MaxVersion

\* A Draft is known by its client id: the key and what else went into the id.
DraftId == Key \X (0..MaxAttempts)

\* "by" is history: the delivery mode of the job that last wrote the Draft.
DraftRecord == [st: {"none", "open", "sending", "failed", "gone"},
                sched: BOOLEAN, ver: Version, by: Writers]

Message == [draft: DraftId, ver: Version, by: Writers]

Request == [op: {"create", "update", "send"}, draft: DraftId,
            sched: BOOLEAN, ver: Version, by: Writers]

NoDraftRecord == [st |-> "none", sched |-> FALSE, ver |-> 0, by |-> "shadow"]

MailTypeOK == /\ draft \in [DraftId -> DraftRecord]
              /\ mail \subseteq Message
              /\ net \subseteq Request
              /\ faults \in 0..MaxFaults

MailInit == /\ draft = [d \in DraftId |-> NoDraftRecord]
            /\ mail = {}
            /\ net = {}
            /\ faults = MaxFaults

Consume(d) ==
  /\ draft' = [draft EXCEPT ![d].st = "gone"]
  /\ mail' = mail \cup {[draft |-> d, ver |-> draft[d].ver, by |-> draft[d].by]}

\* The service executes a request; one that no longer fits changes nothing.
Execute(q) ==
  LET d == q.draft IN
  \/ /\ q.op = "create" /\ draft[d].st = "none"
     /\ draft' = [draft EXCEPT ![d] = [st |-> "open", sched |-> q.sched,
                                       ver |-> q.ver, by |-> q.by]]
     /\ UNCHANGED mail
  \/ /\ q.op = "update" /\ draft[d].st = "open"
     /\ draft' = [draft EXCEPT ![d] = [st |-> "open",
                                       sched |-> q.sched \/ draft[d].sched,
                                       ver |-> q.ver, by |-> q.by]]
     /\ UNCHANGED mail
  \/ /\ q.op = "send" /\ draft[d].st = "open"
     /\ Consume(d)
  \/ /\ draft[d].st # IF q.op = "create" THEN "none" ELSE "open"
     /\ UNCHANGED <<draft, mail>>

Accepts(q) == q.op = "create" \/ draft[q.draft].st = "open"

\* A Draft that has gone is "404 not found"; one being sent may be "409 conflict".
Refusals(q) == IF draft[q.draft].st = "sending"
                 THEN {"fatal", "retryable"} ELSE {"fatal"}

SpendFault == faults > 0 /\ faults' = faults - 1

(* One call as the outbox sees it, after the client's own retries:         *)
(*   "ok"        answered and executed;                                    *)
(*   "timeout"   executed with the answer lost, or still on its way;       *)
(*   "retryable" 408/409/429/5xx or a transport error, executed or not;    *)
(*   "fatal"     any other error: not executed.                            *)
Call(q, answer) ==
  \/ answer = "ok" /\ Accepts(q) /\ Execute(q) /\ UNCHANGED <<net, faults>>
  \/ ~Accepts(q) /\ answer \in Refusals(q) /\ UNCHANGED mailVars
  \/ answer \in {"timeout", "retryable"} /\ SpendFault /\ Execute(q) /\ UNCHANGED net
  \/ answer = "timeout" /\ SpendFault /\ net' = net \cup {q} /\ UNCHANGED <<draft, mail>>
  \/ answer \in {"retryable", "fatal"} /\ SpendFault /\ UNCHANGED <<draft, mail, net>>

\* A given-up request reaches the service after all.
LateRequest(q) ==
  /\ q \in net
  /\ net' = net \ {q}
  /\ Execute(q)
  /\ UNCHANGED faults

\* The service's own scheduler picks up a Draft whose send time has come ...
Fire(d) ==
  /\ draft[d].st = "open" /\ draft[d].sched
  /\ draft' = [draft EXCEPT ![d].st = "sending"]
  /\ UNCHANGED <<mail, net, faults>>

\* ... and either produces the message or reports the Draft as failed.
FinishFire(d) ==
  /\ draft[d].st = "sending"
  /\ Consume(d)
  /\ UNCHANGED <<net, faults>>

FailFire(d) ==
  /\ draft[d].st = "sending"
  /\ SpendFault
  /\ draft' = [draft EXCEPT ![d].st = "failed"]
  /\ UNCHANGED <<mail, net>>

\* get_draft's send_status; None is the empty string, as str() makes it.
SendStatus(d) == IF draft[d].st = "open" /\ ~draft[d].sched THEN ""
                 ELSE IF draft[d].st = "open" THEN "scheduled" ELSE draft[d].st

\* What get_draft and find_draft_by_label can still show.
Visible(k) == {d \in {k} \X (0..MaxAttempts) : draft[d].st \in {"open", "sending", "failed"}}

MessagesOf(k) == {m \in mail : m.draft[1] = k}
=============================================================================
