----------------------------- MODULE MCPdcpUlDl -----------------------------
(***************************************************************************)
(* Instances of PdcpUlDl for TLC: frames of one and two octets in turn,    *)
(* and the settings under which PDCP keeps its promises.                   *)
(***************************************************************************)
EXTENDS PdcpUlDl

Alternating == [f \in 1..MaxFrame |-> IF f % 2 = 1 THEN 2 ELSE 1]

With(segmentation, reordering, ring, commit, frames, lag, copied) ==
  [allow_segmentation |-> segmentation, allow_reordering |-> reordering,
   reorder_size |-> ring, min_commit_size |-> commit,
   max_frame |-> frames, max_lag |-> lag, max_copies |-> copied]

Sound == {
  With(TRUE, TRUE, 4, {2}, 6, 4, 0),       \* segments in any order, across the SN wrap
  With(TRUE, TRUE, 4, {2, 4}, 3, 3, 2),    \* repeated and damaged copies, no wrap
  With(FALSE, TRUE, 1, {2}, 6, 4, 0),      \* whole frames, most of them in overflow_deque
  With(FALSE, FALSE, 4, {2}, 4, 3, 1),     \* no reordering: every PDU uses slot 0
  With(TRUE, FALSE, 0, {2, 4}, 6, 1, 0)}    \* the same without a ring
=============================================================================
