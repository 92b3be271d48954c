------------------------------- MODULE MCPdcp -------------------------------
(***************************************************************************)
(* Instances of Pdcp for TLC: frames of three octets and of one,           *)
(* sequence numbers that wrap after a few frames, and the settings under   *)
(* which PDCP keeps its promises.                                          *)
(***************************************************************************)
EXTENDS Pdcp

(* Frames that use the same entry of the ring differ in size. *)
Mixed == [f \in 1..MaxFrame |-> IF f % 3 = 0 THEN 3 ELSE 1]

Base ==
  [allow_segmentation |-> FALSE, allow_rlf |-> TRUE, auto_init_on_tx |-> FALSE,
   max_sn_distance |-> 2, min_commit_size |-> 2, max_tx_queue_size |-> 2,
   max_frame |-> 4, max_lag |-> 2, max_copies |-> 0, max_losses |-> 0, max_rlfs |-> 0]

Sound == {
  (* segments in any order, within the distance, and a copy of a PDU *)
  [Base EXCEPT !.allow_segmentation = TRUE, !.max_frame = 5, !.max_lag = 3, !.max_copies = 1],
  (* the LLC gives up, the channel is set up again, and the ring comes round *)
  [Base EXCEPT !.max_rlfs = 1, !.max_frame = 7, !.max_lag = 3],
  (* two PDUs are lost, and one repeated: PDCP declares the fault *)
  [Base EXCEPT !.max_frame = 5, !.max_losses = 2, !.max_copies = 1],
  (* a PDU is lost, and one repeated: PDCP moves on *)
  [Base EXCEPT !.allow_rlf = FALSE, !.max_frame = 6, !.max_losses = 1,
               !.max_sn_distance = 1, !.max_copies = 1],
  (* the first frame sets up the channel, also after a fault *)
  [Base EXCEPT !.auto_init_on_tx = TRUE, !.max_rlfs = 1]}

(* Segments, and a fault: a frame that was sent in part leaves its number *)
(* to the next one.                                                        *)
Interrupted == {[Base EXCEPT !.allow_segmentation = TRUE, !.max_rlfs = 1]}
=============================================================================
