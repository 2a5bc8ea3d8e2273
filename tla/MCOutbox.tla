------------------------------ MODULE MCOutbox ------------------------------
(* Instances of Outbox for TLC. *)
EXTENDS Outbox

CONSTANTS n1, n2

MCNotes == {n1, n2}
MCOneNote == {n1}
MCBackoff == <<1, 2>>
=============================================================================
