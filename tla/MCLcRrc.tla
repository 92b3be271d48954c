------------------------------ MODULE MCLcRrc ------------------------------
(***************************************************************************)
(* Instances of LcRrc for TLC.                                             *)
(***************************************************************************)
EXTENDS LcRrc

CONSTANTS a, b

BothEnds == {a, b}
OneEach == [e \in {a, b} |-> 1]
OnlyA == [e \in {a, b} |-> IF e = a THEN 1 ELSE 0]
None == [e \in {a, b} |-> 0]

With(setup, rlf, loss, is_late) ==
  [setups |-> setup, rlfs |-> rlf, losses |-> loss, late |-> is_late]

Loads == {
  With(OneEach, OnlyA, 1, FALSE),  \* exchanges that cross, a loss and a link failure
  With(OnlyA, OneEach, 2, TRUE)}   \* an answer that comes after the timeout, and a loss

OneLoss == {With(OnlyA, None, 1, FALSE)}
OnlyRlfs == {With(OnlyA, OneEach, 0, FALSE)}
=============================================================================
