------------------------------- MODULE MCLLC -------------------------------
(***************************************************************************)
(* Instances of LLC for TLC.                                               *)
(***************************************************************************)
EXTENDS LLC

CONSTANTS a, b, PdusOfA, PdusOfB

BothEnds == {a, b}
Always == [e \in {a, b} |-> TRUE]
OnlyB == [e \in {a, b} |-> e = b]
PdusToSend == [e \in {a, b} |-> IF e = a THEN PdusOfA ELSE PdusOfB]

(***************************************************************************)
(* With nothing to send at b its tx_ring stays idle, and the slot it is in *)
(* is never used: states that differ only in it are one.                   *)
(***************************************************************************)
IdlePeerView == <<[vars EXCEPT ![1][1] = slot_number[a]]>>
=============================================================================
