------------------------------- MODULE Intake -------------------------------
(***************************************************************************)
(* What collection promises of one source's data, whatever runs, failures, *)
(* budgets and crashes do: a watermark and the items below it move         *)
(* together, in one step, and forward.  No item is skipped, and none is    *)
(* kept that the watermark does not account for.                           *)
(***************************************************************************)
EXTENDS Naturals

CONSTANTS Source, MaxItems

VARIABLES stored,   \* [Source -> the items in the database]
          mark      \* [Source -> the watermark in source_cursors]

Init == stored = [s \in Source |-> {}] /\ mark = [s \in Source |-> 0]

TakeBatch(s, n) ==
  /\ n >= mark[s]
  /\ mark' = [mark EXCEPT ![s] = n]
  /\ stored' = [stored EXCEPT ![s] = @ \cup (mark[s] + 1)..n]

Next == \E s \in Source, n \in 0..MaxItems : TakeBatch(s, n)

Spec == Init /\ [][Next]_<<stored, mark>>
=============================================================================
