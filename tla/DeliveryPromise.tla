-------------------------- MODULE DeliveryPromise --------------------------
(***************************************************************************)
(* What the outbox promises of one delivery key, whatever jobs, crashes,   *)
(* webhooks and provider answers do: nothing is recorded as sent that was  *)
(* not mailed, a receipt only ever moves up the provider's ladder          *)
(* (sent, delivered, bounced/rejected, complained), and neither a receipt  *)
(* nor a failure is ever taken back.                                       *)
(***************************************************************************)
EXTENDS Naturals

CONSTANT Key

VARIABLES mailed,   \* keys for which the provider has produced a message
          outcome   \* [Key -> what the ledger says became of the delivery]

Receipts == {"sent", "delivered", "bounced", "rejected", "complained"}

Outcome == {"open", "failed"} \cup Receipts

\* The ladder of agentmail.py's STATE_RANK and of apply_agentmail_webhook.
Rank(s) == CASE s = "sent" -> 30
             [] s = "delivered" -> 40
             [] s \in {"bounced", "rejected"} -> 50
             [] s = "complained" -> 60
             [] OTHER -> 0

Init == mailed = {} /\ outcome = [k \in Key |-> "open"]

Settles(k) == /\ outcome[k] = "open"
              /\ outcome'[k] \in Receipts => k \in mailed

Climbs(k) == /\ outcome[k] \in Receipts /\ outcome'[k] \in Receipts
             /\ Rank(outcome'[k]) >= Rank(outcome[k])

\* One commit may settle several deliveries.
Next == /\ mailed \subseteq mailed' /\ mailed' \subseteq Key
        /\ outcome' \in [Key -> Outcome]
        /\ \A k \in Key : outcome'[k] = outcome[k] \/ Settles(k) \/ Climbs(k)

Spec == Init /\ [][Next]_<<mailed, outcome>>
=============================================================================
