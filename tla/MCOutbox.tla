------------------------------ MODULE MCOutbox ------------------------------
(* Values of Outbox's constants for TLC that a .cfg cannot write down. *)
EXTENDS Outbox

RollOut == {<<"shadow", "live">>}
RollBack == {<<"live", "shadow">>}
NoSwitch == {}
=============================================================================
