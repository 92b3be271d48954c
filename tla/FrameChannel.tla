---------------------------- MODULE FrameChannel ----------------------------
(***************************************************************************)
(* What PDCP with reordering promises to the application: the frames that  *)
(* one end accepts come out at the other whole, in order and once each.    *)
(* Only a reset of the channel drops frames.                               *)
(***************************************************************************)
EXTENDS Naturals, Sequences

CONSTANT Frame

VARIABLES
  pending,   \* accepted and neither delivered nor dropped, oldest first
  output     \* delivered and not yet collected by the receiver

Init == pending = <<>> /\ output = <<>>

Accept ==
  /\ \E f \in Frame : pending' = Append(pending, f)
  /\ UNCHANGED output

(* Several frames may become deliverable at once. *)
Deliver ==
  \E n \in 1..Len(pending) :
    /\ output' = output \o SubSeq(pending, 1, n)
    /\ pending' = SubSeq(pending, n + 1, Len(pending))

Collect ==
  /\ output # <<>>
  /\ output' = Tail(output)
  /\ UNCHANGED pending

Reset == pending' = <<>> /\ output' = <<>>

Next == Accept \/ Deliver \/ Collect \/ Reset

Spec == Init /\ [][Next]_<<pending, output>>
=============================================================================
