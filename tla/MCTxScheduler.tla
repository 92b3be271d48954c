--------------------------- MODULE MCTxScheduler ----------------------------
(***************************************************************************)
(* Instances of TxScheduler for TLC: three channels, and frames with room  *)
(* for a few of their PDUs.                                                *)
(***************************************************************************)
EXTENDS TxScheduler

Of(a, b, c) == [l \in Lcid |-> <<a, b, c>>[l + 1]]

Units == Of(1, 2, 2)
Resent == Of(2, 2, 3)

Light ==
  [quanta |-> Of(2, 3, 3), nd_gpdu_max_size |-> Of(2, 3, 0), queued |-> Of(0, 1, 1),
   allow_rlf |-> TRUE, known |-> Lcid, slots |-> 3,
   arrivals |-> 1, acks |-> 1, retx |-> 1, changes |-> 0]

(* More is queued than the frames of all slots can carry. *)
Saturated ==
  [Light EXCEPT !.queued = Of(90, 90, 90), !.nd_gpdu_max_size = Of(2, 0, 0), !.slots = 12,
                !.arrivals = 0, !.acks = 2, !.retx = 0]

Loads == {
  Light,
  (* channels come and go *)
  [Light EXCEPT !.queued = Of(0, 1, 0), !.arrivals = 0, !.changes = 1, !.allow_rlf = FALSE,
                !.known = {0, 2}],
  (* the quanta of all channels fit into a frame *)
  [Saturated EXCEPT !.quanta = Of(1, 2, 2)],
  [Saturated EXCEPT !.quanta = Of(3, 1, 1)],
  (* a control channel with little to send and first call on every frame *)
  [Saturated EXCEPT !.quanta = Of(99, 2, 3), !.queued = Of(0, 90, 90), !.slots = 8,
                    !.arrivals = 1],
  (* a channel without a quantum; no other one then has data, since its deficit would grow *)
  (* for as long as the tick goes on                                                       *)
  [Light EXCEPT !.quanta = Of(3, 0, 3), !.queued = Of(0, 0, 0), !.retx = 0]}
=============================================================================
