------------------------------ MODULE PdcpUlDl ------------------------------
(***************************************************************************)
(* The rewritten PDCP: pdcp_ul at one end of a logical channel, pdcp_dl at *)
(* the other, and the LLC between them.  The sender cuts frames into       *)
(* segments and packs them into PDCP PDUs; the receiver puts the segments  *)
(* together again and, with allow_reordering, emits the frames in order.   *)
(*                                                                         *)
(* The two classes take no locks and start no threads; each call is one    *)
(* action.  Their status codes are return values and are left out: a call  *)
(* that fails without any other effect is no step.                         *)
(***************************************************************************)
EXTENDS Integers, FiniteSets, SequencesExt

CONSTANTS
  MaxFrame,    \* frames are numbered 1..MaxFrame in the order they are accepted
  FrameSize,   \* FrameSize[f]: octets of frame f
  SnMod,       \* 2^16: pdcp_sn_t
  HeaderSize,  \* octets of a segment header
  BufferSize,  \* sizes of the buffers that write_pdcp is given
  Setting      \* configurations, each with bounds on what surrounds the channel

Frame == 1..MaxFrame
Sn == 0..(SnMod - 1)

(***************************************************************************)
(* A setting is pdcp_ul_config_t and pdcp_dl_config_t together with bounds *)
(* on the rest: the application sends frames up to max_frame, no PDU       *)
(* arrives after one whose frame is max_lag later, and the LLC delivers    *)
(* max_copies extra copies of PDUs.  min_commit_size is the set of values  *)
(* that pdcp_ul may be given for it; all other fields are part of what the *)
(* two ends agree on.                                                      *)
(***************************************************************************)
ASSUME SettingAssumption ==
  Setting \subseteq [allow_segmentation : BOOLEAN, allow_reordering : BOOLEAN,
                     reorder_size : Nat, min_commit_size : SUBSET Nat,
                     max_frame : Frame, max_lag : Nat, max_copies : Nat]

ASSUME SizeAssumption ==
  /\ MaxFrame \in Nat
  /\ FrameSize \in [Frame -> Nat \ {0}]
  /\ SnMod \in Nat \ {0}
  /\ HeaderSize \in Nat \ {0}
  /\ BufferSize \subseteq Nat

VARIABLES
  config,               \* of both ends
  (* pdcp_ul *)
  min_commit_size,      \* the smallest buffer that is written to
  outstanding_buffers,  \* frames accepted and not written completely
  data_offset,          \* octets of the first one that are written
  sequence_number,
  unwritten,            \* total_in_bytes - total_out_bytes
  (* the LLC *)
  air,                  \* PDCP PDUs under way, each a sequence of segments
  copies,               \* extra copies delivered
  (* pdcp_dl *)
  reorder_ring,
  overflow_deque,
  next_expected_sn,
  completed_frames,     \* buffers to be popped
  outstanding_bytes,
  (* history *)
  accepted,             \* frames accepted: 1..accepted
  settled               \* of these, frames completed or dropped by a reset

ul == <<outstanding_buffers, data_offset, sequence_number, unwritten>>
dl == <<reorder_ring, overflow_deque, next_expected_sn, completed_frames,
        outstanding_bytes>>
vars == <<config, min_commit_size, ul, air, copies, dl, accepted, settled>>

(* Mutant: a counter without its width. *)
NextSn_mutant(sn) == sn + 1
NextSn(sn) == (sn + 1) % SnMod
-----------------------------------------------------------------------------
(***************************************************************************)
(* An octet is represented by the frame it belongs to: a segment carries   *)
(* octets of its frame from its offset on, and they are stored at the same *)
(* offset.  Junk is storage that was never written.                        *)
(***************************************************************************)
Junk == 0

(* reassembly_state_t *)
Fresh == [buffer |-> <<>>, accumulated_size |-> 0, expected_size |-> 0,
          recvd_offsets |-> {}, has_expected_size |-> FALSE, is_complete |-> FALSE]

(* A slot that is not valid: its sequence number and state are never read. *)
EmptySlot == [valid |-> FALSE, sn |-> 0, state |-> Fresh]
EmptyRing(c) == [i \in 0..(c.reorder_size - 1) |-> EmptySlot]

Init ==
  /\ config \in Setting
  /\ min_commit_size \in config.min_commit_size
  /\ outstanding_buffers = <<>>
  /\ data_offset = 0
  /\ sequence_number = 0
  /\ unwritten = 0
  /\ air = {}
  /\ copies = 0
  /\ reorder_ring = EmptyRing(config)
  /\ overflow_deque = <<>>
  /\ next_expected_sn = 0
  /\ completed_frames = <<>>
  /\ outstanding_bytes = 0
  /\ accepted = 0
  /\ settled = 0
-----------------------------------------------------------------------------
(* pdcp_ul::on_frame_data *)
on_frame_data ==
  /\ accepted < config.max_frame
  /\ accepted' = accepted + 1
  /\ outstanding_buffers' = Append(outstanding_buffers, accepted')
  /\ unwritten' = unwritten + FrameSize[accepted']
  /\ UNCHANGED <<config, min_commit_size, data_offset, sequence_number, air, copies, dl,
                 settled>>

(***************************************************************************)
(* One round of the loop in pdcp_ul::write_pdcp, on w = [frames, offset,   *)
(* sn, room, pdu]: a segment of the first frame, or nothing if there is no *)
(* room for it.                                                            *)
(***************************************************************************)
WriteSegment(w) ==
  LET frame == Head(w.frames)
      remaining == FrameSize[frame] - w.offset
      room == w.room - HeaderSize
      size == IF remaining > room THEN room ELSE remaining
      last == w.offset + size >= FrameSize[frame]
      segment == [sn |-> w.sn, offset |-> w.offset, size |-> size, last |-> last,
                  frame |-> frame]
  IN
  IF w.frames = <<>> THEN w
  ELSE IF room <= 0 \/ (remaining > room /\ ~config.allow_segmentation)
  THEN [w EXCEPT !.room = 0]
  ELSE [frames |-> IF last THEN Tail(w.frames) ELSE w.frames,
        offset |-> IF last THEN 0 ELSE w.offset + size,
        sn     |-> IF last THEN NextSn(w.sn) ELSE w.sn,
        room   |-> room - size,
        pdu    |-> Append(w.pdu, segment)]

(* Each round finishes a frame or the buffer. *)
Written(size) ==
  FoldLeft(LAMBDA w, i : WriteSegment(w),
           [frames |-> outstanding_buffers, offset |-> data_offset,
            sn |-> sequence_number, room |-> size, pdu |-> <<>>],
           outstanding_buffers)

PayloadSize(pdu) == FoldLeft(LAMBDA sum, segment : sum + segment.size, 0, pdu)

(* pdcp_ul::write_pdcp; the LLC takes the PDU if none of those under way   *)
(* would be overtaken by more than max_lag frames.                          *)
WithinLag(pdu) ==
  \A m \in air : pdu[Len(pdu)].frame - m[1].frame < config.max_lag

write_pdcp(size) ==
  LET w == Written(size) IN
  /\ size > 0 /\ size >= min_commit_size
  /\ outstanding_buffers # <<>>
  /\ w.pdu # <<>>
  /\ WithinLag(w.pdu)
  /\ outstanding_buffers' = w.frames
  /\ data_offset' = w.offset
  /\ sequence_number' = w.sn
  /\ unwritten' = unwritten - PayloadSize(w.pdu)
  /\ air' = air \cup {w.pdu}
  /\ UNCHANGED <<config, min_commit_size, copies, dl, accepted, settled>>
-----------------------------------------------------------------------------
(***************************************************************************)
(* pdcp_dl works on rx = [ring, overflow, next, done, bytes].              *)
(***************************************************************************)
Received == [ring |-> reorder_ring, overflow |-> overflow_deque, next |-> next_expected_sn,
             done |-> completed_frames, bytes |-> outstanding_bytes]

slot_index(sn) == IF config.reorder_size = 0 THEN 0 ELSE sn % config.reorder_size

(* get_or_put_slot returns a slot, and not nullptr. *)
HasSlot(rx, sn) ==
  LET slot == rx.ring[slot_index(sn)]
  IN  config.reorder_size > 0 /\ (slot.valid => slot.sn = sn)

(* find_overflow, 0 if there is no such entry *)
OverflowIndex(rx, sn) == SelectInSeq(rx.overflow, LAMBDA p : p.sn = sn)

(* Where the segments of sn are collected: the slot, or else the overflow. *)
StateOf(rx, sn) ==
  LET slot == rx.ring[slot_index(sn)] IN
  IF HasSlot(rx, sn) THEN IF slot.valid THEN slot.state ELSE Fresh
  ELSE IF OverflowIndex(rx, sn) = 0 THEN Fresh
  ELSE rx.overflow[OverflowIndex(rx, sn)].state

Stored(rx, sn, state) ==
  IF HasSlot(rx, sn)
  THEN [rx EXCEPT !.ring[slot_index(sn)] = [valid |-> TRUE, sn |-> sn, state |-> state]]
  ELSE IF OverflowIndex(rx, sn) = 0
  THEN [rx EXCEPT !.overflow = Append(@, [sn |-> sn, state |-> state])]
  ELSE [rx EXCEPT !.overflow[OverflowIndex(rx, sn)].state = state]

(* The entry of sn is removed again (only without reordering). *)
(* Mutant: it stays. *)
Removed_mutant(rx, sn) == rx
Removed(rx, sn) ==
  IF HasSlot(rx, sn)
  THEN [rx EXCEPT !.ring[slot_index(sn)] = EmptySlot]
  ELSE IF OverflowIndex(rx, sn) = 0 THEN rx
  ELSE [rx EXCEPT !.overflow = RemoveAt(@, OverflowIndex(rx, sn))]

(***************************************************************************)
(* The segment is copied into the buffer, which grows if it is too small;  *)
(* a second segment with the same offset is not copied.                    *)
(***************************************************************************)
(* Mutant: the octets of a repeated offset are counted again. *)
IsDuplicate_mutant(state, segment) == FALSE
IsDuplicate(state, segment) == segment.offset \in state.recvd_offsets

(* The buffer of at least required octets; old octets are kept. *)
Grown(buffer, required) ==
  IF Len(buffer) < required
  THEN [i \in 1..required |-> IF i <= Len(buffer) THEN buffer[i] ELSE Junk]
  ELSE buffer

Reassembled(state, segment) ==
  LET required == segment.offset + segment.size
      dup == IsDuplicate(state, segment)
      grown == Grown(state.buffer, required)
      accumulated == IF dup THEN state.accumulated_size
                            ELSE state.accumulated_size + segment.size
      expected == IF segment.last THEN required ELSE state.expected_size
      known == segment.last \/ state.has_expected_size
  IN  [buffer |-> [i \in DOMAIN grown |->
                     IF ~dup /\ i \in (segment.offset + 1)..required
                     THEN segment.frame ELSE grown[i]],
       accumulated_size |-> accumulated,
       expected_size |-> expected,
       recvd_offsets |-> state.recvd_offsets \cup {segment.offset},
       has_expected_size |-> known,
       is_complete |-> state.is_complete \/ (known /\ accumulated = expected)]

(* The octets on the air say nothing of SN and offset if these are not     *)
(* configured.                                                             *)
OnSegment(rx, segment) ==
  LET sn == IF config.allow_reordering THEN segment.sn ELSE 0
      seg == IF config.allow_segmentation THEN segment ELSE [segment EXCEPT !.offset = 0]
      state == Reassembled(StateOf(rx, sn), seg)
      stored == Stored(rx, sn, state)
  IN  IF state.is_complete /\ ~config.allow_reordering
      THEN [Removed(stored, sn) EXCEPT !.done = Append(@, state.buffer),
                                       !.bytes = @ + state.expected_size]
      ELSE stored

(***************************************************************************)
(* One round of flush_completed_in_order: the frame with the next expected *)
(* sequence number, from its slot or else from the overflow.               *)
(***************************************************************************)
(* Mutant: the octets emitted are not counted. *)
Emitted_mutant(rx, state) ==
  [rx EXCEPT !.done = Append(@, state.buffer), !.next = NextSn(@)]
Emitted(rx, state) ==
  [rx EXCEPT !.done = Append(@, state.buffer), !.bytes = @ + state.expected_size,
             !.next = NextSn(@)]

(* Mutant: any completed frame in the slot is taken for the expected one. *)
RingReady_mutant(rx) ==
  LET slot == rx.ring[slot_index(rx.next)]
  IN  config.reorder_size > 0 /\ slot.valid /\ slot.state.is_complete
RingReady(rx) ==
  LET slot == rx.ring[slot_index(rx.next)]
  IN  config.reorder_size > 0 /\ slot.valid /\ slot.sn = rx.next /\ slot.state.is_complete

OverflowReady(rx) ==
  SelectInSeq(rx.overflow, LAMBDA p : p.sn = rx.next /\ p.state.is_complete)

FlushOne(rx) ==
  LET slot == slot_index(rx.next)
      k == OverflowReady(rx)
  IN  IF RingReady(rx)
      THEN [Emitted(rx, rx.ring[slot].state) EXCEPT !.ring[slot] = EmptySlot]
      ELSE IF k # 0
      THEN [Emitted(rx, rx.overflow[k].state) EXCEPT !.overflow = RemoveAt(@, k)]
      ELSE rx

(* Each round empties one entry, so there are no more rounds than entries. *)
flush_completed_in_order(rx) ==
  FoldLeft(LAMBDA r, i : FlushOne(r), rx,
           [i \in 1..(config.reorder_size + Len(rx.overflow)) |-> i])

(* Mutant: frames that wait for the one just completed stay where they are. *)
Flushed_mutant(rx) == IF config.allow_reordering THEN FlushOne(rx) ELSE rx
Flushed(rx) == IF config.allow_reordering THEN flush_completed_in_order(rx) ELSE rx

Becomes(rx) ==
  /\ reorder_ring' = rx.ring
  /\ overflow_deque' = rx.overflow
  /\ next_expected_sn' = rx.next
  /\ completed_frames' = rx.done
  /\ outstanding_bytes' = rx.bytes
  /\ settled' = settled + Len(rx.done) - Len(completed_frames)

(* pdcp_dl::on_pdcp_data; the LLC may deliver the PDU once more. *)
on_pdcp_data(m) ==
  /\ Becomes(Flushed(FoldLeft(OnSegment, Received, m)))
  /\ \/ air' = air \ {m} /\ UNCHANGED copies
     \/ copies < config.max_copies /\ copies' = copies + 1 /\ UNCHANGED air
  /\ UNCHANGED <<config, min_commit_size, ul, accepted>>

(***************************************************************************)
(* A damaged copy: the segments before the damage are taken, then the call *)
(* returns without flushing.                                               *)
(***************************************************************************)
on_pdcp_data_damaged(m) ==
  /\ copies < config.max_copies
  /\ \E n \in 0..(Len(m) - 1) : Becomes(FoldLeft(OnSegment, Received, SubSeq(m, 1, n)))
  /\ copies' = copies + 1
  /\ UNCHANGED <<config, min_commit_size, ul, air, accepted>>

(* pdcp_dl::pop *)
pop ==
  /\ completed_frames # <<>>
  /\ completed_frames' = Tail(completed_frames)
  /\ LET size == Len(Head(completed_frames))
     IN  outstanding_bytes' = IF outstanding_bytes >= size THEN outstanding_bytes - size ELSE 0
  /\ UNCHANGED <<config, min_commit_size, ul, air, copies, reorder_ring, overflow_deque,
                 next_expected_sn, accepted, settled>>

(***************************************************************************)
(* reset of both ends, when the channel is established again, perhaps with *)
(* another configuration (pdcp_dl::reconfigure resets the receiver).       *)
(***************************************************************************)
reset ==
  /\ config' \in Setting
  /\ min_commit_size' \in config'.min_commit_size
  /\ outstanding_buffers' = <<>>
  /\ data_offset' = 0
  /\ sequence_number' = 0
  /\ unwritten' = 0
  /\ air' = {}
  /\ reorder_ring' = EmptyRing(config')
  /\ overflow_deque' = <<>>
  /\ next_expected_sn' = 0
  /\ completed_frames' = <<>>
  /\ outstanding_bytes' = 0
  /\ settled' = accepted
  /\ UNCHANGED <<copies, accepted>>

(***************************************************************************)
(* pdcp_ul::reconfigure, in the middle of the traffic and without a reset: *)
(* the frames that are held and the octets written of the first one stay.  *)
(* It changes the field that the receiver need not know.                   *)
(***************************************************************************)
reconfigure ==
  /\ min_commit_size' \in config.min_commit_size \ {min_commit_size}
  /\ UNCHANGED <<config, ul, air, copies, dl, accepted, settled>>
-----------------------------------------------------------------------------
Write == \E size \in BufferSize : write_pdcp(size)
Receive == \E m \in air : on_pdcp_data(m)

Next ==
  \/ on_frame_data
  \/ Write
  \/ Receive
  \/ \E m \in air : on_pdcp_data_damaged(m)
  \/ pop
  \/ reset
  \/ reconfigure

Spec == Init /\ [][Next]_vars

(***************************************************************************)
(* The LLC delivers what it took in the end, and offers room to PDCP again *)
(* and again: weak fairness of receiving and of writing, with ENABLED      *)
(* spelt out as the guards of the two actions.                             *)
(***************************************************************************)
CanWrite ==
  /\ outstanding_buffers # <<>>
  /\ \E size \in BufferSize :
       /\ size > 0 /\ size >= min_commit_size
       /\ Written(size).pdu # <<>>
       /\ WithinLag(Written(size).pdu)

Fairness ==
  /\ []<><<Write>>_vars \/ []<>~CanWrite
  /\ []<><<Receive>>_vars \/ []<>(air = {})

FairSpec == Spec /\ Fairness
-----------------------------------------------------------------------------
State == [buffer : Seq(Frame \cup {Junk}), accumulated_size : Nat, expected_size : Nat,
          recvd_offsets : SUBSET Nat, has_expected_size : BOOLEAN, is_complete : BOOLEAN]
Slot == [valid : BOOLEAN, sn : Sn, state : State]
Segment == [sn : Sn, offset : Nat, size : Nat \ {0}, last : BOOLEAN, frame : Frame]

(* The fields of both classes have the types of pdcp_ul.hpp and            *)
(* pdcp_dl.hpp, and no segment is empty.                                   *)
TypeOK ==
  /\ config \in Setting
  /\ min_commit_size \in config.min_commit_size
  /\ outstanding_buffers \in Seq(Frame)
  /\ data_offset \in Nat
  /\ sequence_number \in Sn
  /\ unwritten \in Nat
  /\ \A m \in air : m \in Seq(Segment)
  /\ copies \in Nat
  /\ \A i \in 0..(config.reorder_size - 1) : reorder_ring[i] \in Slot
  /\ overflow_deque \in Seq([sn : Sn, state : State])
  /\ next_expected_sn \in Sn
  /\ completed_frames \in Seq(Seq(Frame \cup {Junk}))
  /\ outstanding_bytes \in Nat

(* A buffer holds exactly the octets of frame f. *)
IsFrame(buffer, f) == buffer = [i \in 1..FrameSize[f] |-> f]

(***************************************************************************)
(* A frame that pdcp_dl hands out is one the sender accepted, whole and    *)
(* unmixed: reassembly never takes segments of two frames for one, nor     *)
(* storage that no segment was copied to.                                  *)
(***************************************************************************)
Intact ==
  \A k \in 1..Len(completed_frames) :
    \E f \in 1..accepted : IsFrame(completed_frames[k], f)

(***************************************************************************)
(* get_outstanding_bytes tells the truth at both ends: what on_frame_data  *)
(* took and write_pdcp has not written, and what pop will hand out.        *)
(***************************************************************************)
SumOf(seq) == FoldLeft(LAMBDA sum, n : sum + n, 0, seq)
BytesExact ==
  /\ unwritten = SumOf([k \in DOMAIN outstanding_buffers |->
                          FrameSize[outstanding_buffers[k]]]) - data_offset
  /\ outstanding_bytes = SumOf([k \in DOMAIN completed_frames |->
                                  Len(completed_frames[k])])

(***************************************************************************)
(* Nothing is stranded: when every frame was written and every PDU has     *)
(* arrived, every frame was emitted.  Segments of one frame must not end   *)
(* up in two places, and a frame that is complete must not wait for an     *)
(* event that does not come.                                               *)
(***************************************************************************)
NothingStranded ==
  (outstanding_buffers = <<>> /\ air = {}) => settled >= accepted

(* Every accepted frame is emitted in the end, or dropped by a reset. *)
EventuallyEmitted == \A f \in Frame : (f <= accepted) ~> (f <= settled)
-----------------------------------------------------------------------------
(***************************************************************************)
(* pdcp_ul and pdcp_dl with reordering implement the channel of module     *)
(* FrameChannel: "frames are emitted in-order", whole and once each,       *)
(* in whatever order their PDUs arrive, and although some arrive damaged   *)
(* or more than once as long as the copies come within one round of the    *)
(* sequence numbers: pdcp_dl has no window, and a copy that comes after    *)
(* the wrap is taken for a new frame.  Without allow_reordering nothing is *)
(* promised of the order, and the channel implemented is an idle one.      *)
(***************************************************************************)
FrameIn(buffer) ==
  IF \E f \in Frame : IsFrame(buffer, f) THEN CHOOSE f \in Frame : IsFrame(buffer, f)
                                         ELSE Junk
WhenOrdered(seq) == IF config.allow_reordering THEN seq ELSE <<>>
Channel == INSTANCE FrameChannel WITH
  pending <- WhenOrdered([k \in 1..(accepted - settled) |-> settled + k]),
  output  <- WhenOrdered([k \in DOMAIN completed_frames |-> FrameIn(completed_frames[k])])
ImplementsFrameChannel == Channel!Spec
=============================================================================
