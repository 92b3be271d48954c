-------------------------------- MODULE Pdcp --------------------------------
(***************************************************************************)
(* PDCP, the class in use: its transmitting half at one end of a logical   *)
(* channel, its receiving half at the other, the LLC between them, and     *)
(* what RRC does to both when the radio link fails and is set up again.    *)
(*                                                                         *)
(* on_tx, on_rx, to_tx and to_rx each run under one mutex and are one      *)
(* action each.  set_tx_enabled takes two mutexes one after the other and  *)
(* is two actions, between which the other threads run.                    *)
(*                                                                         *)
(* allow_reordering is always set: without it segment.set_SN in on_tx      *)
(* writes through a null pointer, and there is no sender to speak of.      *)
(***************************************************************************)
EXTENDS Integers, FiniteSets, SequencesExt

CONSTANTS
  MaxFrame,    \* frames are numbered 1..MaxFrame in the order they are accepted
  FrameSize,   \* FrameSize[f]: octets of frame f
  SnMod,       \* 2^16: pdcp_sn_t
  RingSize,    \* 8192: rx_buffer_ring.size()
  HeaderSize,  \* octets of a segment header
  AllocSize,   \* sizes of the allocations on_tx is given
  StartSn,     \* values of tx_sn when the behaviour begins
  Setting      \* configurations, each with bounds on what surrounds the channel

Frame == 1..MaxFrame
Sn == 0..(SnMod - 1)

(***************************************************************************)
(* A setting is tx_config_t and rx_config_t together with bounds on the    *)
(* rest: the application sends frames up to max_frame; no PDU arrives      *)
(* after one whose frame is max_lag later; the LLC delivers max_copies     *)
(* extra copies and loses or damages max_losses PDUs; its retransmissions  *)
(* give up max_rlfs times.                                                 *)
(***************************************************************************)
ASSUME SettingAssumption ==
  Setting \subseteq [allow_segmentation : BOOLEAN, allow_rlf : BOOLEAN,
                     auto_init_on_tx : BOOLEAN, max_sn_distance : Nat,
                     min_commit_size : Nat, max_tx_queue_size : Nat,
                     max_frame : Frame, max_lag : Nat, max_copies : Nat,
                     max_losses : Nat, max_rlfs : Nat]

ASSUME SizeAssumption ==
  /\ MaxFrame \in Nat
  /\ FrameSize \in [Frame -> Nat \ {0}]
  /\ SnMod \in Nat \ {0} /\ RingSize \in Nat \ {0} /\ HeaderSize \in Nat \ {0}
  /\ SnMod % RingSize = 0
  /\ AllocSize \subseteq Nat
  /\ StartSn \subseteq Sn

VARIABLES
  config,
  (* the transmitting half *)
  to_tx_queue,
  current_tx_buffer,  \* frame being segmented, NoFrame once all of it is sent
  current_tx_offset,
  tx_sn,
  is_tx_enabled,
  (* the LLC *)
  air,                \* PDCP PDUs under way, each a sequence of segments
  copies, losses,     \* extra copies delivered, PDUs lost or damaged
  (* the receiving half *)
  rx_buffer_ring,
  rx_sn,
  rx_sn_synced,
  is_rx_enabled,
  to_rx_queue,
  (* RRC *)
  link,               \* "up", or "fault" until the next exchange
  tx_call,            \* argument of a set_tx_enabled that is half done
  to_activate,        \* halves that the exchange is to activate
  on_rlf_event,       \* the receiving PDCP has called rrc.on_rlf
  on_init_event,      \* the transmitting PDCP has called rrc.on_init
  rlfs,               \* times the LLC gave up
  (* history *)
  fate                \* fate[f]: what became of the frames accepted so far

tx == <<to_tx_queue, current_tx_buffer, current_tx_offset, tx_sn, is_tx_enabled>>
llc == <<air, copies, losses>>
rx == <<rx_buffer_ring, rx_sn, rx_sn_synced, is_rx_enabled, to_rx_queue>>
rrc == <<link, tx_call, to_activate, on_rlf_event, on_init_event, rlfs>>
vars == <<config, tx, llc, rx, rrc, fate>>

NoFrame == 0
accepted == Len(fate)
-----------------------------------------------------------------------------
(***************************************************************************)
(* An octet is represented by the frame it belongs to: a segment carries   *)
(* octets of its frame from its offset on, and they are stored at the same *)
(* offset.  Junk is storage that was never written.                        *)
(***************************************************************************)
Junk == 0

(* rx_buffer_info_t *)
EmptyEntry == [has_expected_size |-> FALSE, accumulated_size |-> 0, expected_size |-> 0,
               recvd_offsets |-> {}, buffer |-> <<>>]

is_complete(entry) == entry.has_expected_size /\ entry.expected_size = entry.accumulated_size

(* rx_buffer_info_t::reset; the buffer is not touched. *)
Reset(entry) == [EmptyEntry EXCEPT !.buffer = entry.buffer]

rx_buffer_ring_index(sn) == sn % RingSize

(* Both halves are constructed, disabled, and an exchange is under way. *)
Init ==
  /\ config \in Setting
  /\ to_tx_queue = <<>>
  /\ current_tx_buffer = NoFrame
  /\ current_tx_offset = 0
  /\ tx_sn \in StartSn
  /\ is_tx_enabled = FALSE
  /\ air = {}
  /\ copies = 0
  /\ losses = 0
  /\ rx_buffer_ring = [i \in 0..(RingSize - 1) |-> EmptyEntry]
  /\ rx_sn = 0
  /\ rx_sn_synced = FALSE
  /\ is_rx_enabled = FALSE
  /\ to_rx_queue = <<>>
  /\ link = "fault"
  /\ tx_call = <<>>
  /\ to_activate = {}
  /\ on_rlf_event = FALSE
  /\ on_init_event = FALSE
  /\ rlfs = 0
  /\ fate = <<>>
-----------------------------------------------------------------------------
(***************************************************************************)
(* PDCP::to_tx, called by the end point.  The wait for room is over at     *)
(* once, since it waits for max_tx_queue_size >= size, so that a full      *)
(* queue refuses the frame.  A frame is queued while the channel is down.  *)
(***************************************************************************)
to_tx ==
  /\ accepted < config.max_frame
  /\ on_init_event' = (on_init_event \/ (~is_tx_enabled /\ config.auto_init_on_tx))
  /\ IF Len(to_tx_queue) >= config.max_tx_queue_size
     THEN UNCHANGED <<to_tx_queue, fate>>
     ELSE /\ to_tx_queue' = Append(to_tx_queue, accepted + 1)
          /\ fate' = Append(fate, "waiting")
  /\ UNCHANGED <<config, current_tx_buffer, current_tx_offset, tx_sn, is_tx_enabled,
                 llc, rx, link, tx_call, to_activate, on_rlf_event, rlfs>>

(* Mutant: a counter without its width. *)
NextSn_mutant(sn) == sn + 1
NextSn(sn) == (sn + 1) % SnMod

(***************************************************************************)
(* One round of the loop in on_tx, on w = [frames, current, offset, sn,    *)
(* room, pdu]: a segment, or nothing if there is no frame or no room.      *)
(***************************************************************************)
WholeFrame(w, room) ==
  LET frame == Head(w.frames) IN
  IF w.frames = <<>> \/ FrameSize[frame] > room THEN [w EXCEPT !.room = 0]
  ELSE [w EXCEPT !.frames = Tail(@),
                 !.sn = NextSn(@),
                 !.room = room - FrameSize[frame],
                 !.pdu = Append(@, [sn |-> w.sn, offset |-> 0, size |-> FrameSize[frame],
                                    last |-> TRUE, frame |-> frame])]

PartOfFrame(w, room) ==
  LET frame == IF w.current # NoFrame THEN w.current ELSE Head(w.frames)
      remaining == FrameSize[frame] - w.offset
      size == IF remaining > room THEN room ELSE remaining
      last == w.offset + size >= FrameSize[frame]
  IN
  IF w.current = NoFrame /\ w.frames = <<>> THEN [w EXCEPT !.room = 0]
  ELSE [frames  |-> IF w.current = NoFrame THEN Tail(w.frames) ELSE w.frames,
        current |-> IF last THEN NoFrame ELSE frame,
        offset  |-> IF last THEN 0 ELSE w.offset + size,
        sn      |-> IF last THEN NextSn(w.sn) ELSE w.sn,
        room    |-> room - size,
        pdu     |-> Append(w.pdu, [sn |-> w.sn, offset |-> w.offset, size |-> size,
                                   last |-> last, frame |-> frame])]

AllocateSegment(w) ==
  LET room == w.room - HeaderSize IN
  IF room <= 0 THEN [w EXCEPT !.room = 0]
  ELSE IF config.allow_segmentation THEN PartOfFrame(w, room)
  ELSE WholeFrame(w, room)

(* Each round finishes a frame or the allocation. *)
Allocated(size) ==
  FoldLeft(LAMBDA w, i : AllocateSegment(w),
           [frames |-> to_tx_queue, current |-> current_tx_buffer,
            offset |-> current_tx_offset, sn |-> tx_sn, room |-> size, pdu |-> <<>>],
           Append(to_tx_queue, current_tx_buffer))

(* No PDU under way is overtaken by more than max_lag frames. *)
WithinLag(pdu) ==
  \A m \in air : pdu[Len(pdu)].frame - m[1].frame < config.max_lag

(* PDCP::on_tx, and the LLC takes the PDU.  If nothing fits nothing changes. *)
on_tx(size) ==
  LET w == Allocated(size) IN
  /\ is_tx_enabled
  /\ to_tx_queue # <<>> \/ current_tx_buffer # NoFrame
  /\ size > 0 /\ size >= config.min_commit_size
  /\ w.pdu # <<>>
  /\ WithinLag(w.pdu)
  /\ to_tx_queue' = w.frames
  /\ current_tx_buffer' = w.current
  /\ current_tx_offset' = w.offset
  /\ tx_sn' = w.sn
  /\ air' = air \cup {w.pdu}
  /\ UNCHANGED <<config, is_tx_enabled, copies, losses, rx, rrc, fate>>

(* The LLC loses a PDU for good: it is not acknowledged, or was dropped. *)
Lose(m) ==
  /\ losses < config.max_losses
  /\ losses' = losses + 1
  /\ air' = air \ {m}
  /\ UNCHANGED <<config, tx, copies, rx, rrc, fate>>
-----------------------------------------------------------------------------
(***************************************************************************)
(* The receiving half works on r = [ring, sn, synced, out, rlf]; out is    *)
(* what it moves to to_rx_queue, and rlf ends the loop over the segments.  *)
(***************************************************************************)
Distance(from, to) == (to - from) % SnMod

(* One round of update_rx_sn, on u = [r, go, sn, fast_forward]. *)
(* Mutant: the buffer is copied and not moved. *)
Transport_mutant(r) ==
  LET i == rx_buffer_ring_index(r.sn) IN
  [r EXCEPT !.ring[i] = Reset(@), !.sn = NextSn(@), !.out = Append(@, r.ring[i].buffer)]
Transport(r) ==
  LET i == rx_buffer_ring_index(r.sn) IN
  [r EXCEPT !.ring[i] = EmptyEntry, !.sn = NextSn(@), !.out = Append(@, r.ring[i].buffer)]

Drop(r) ==
  [r EXCEPT !.ring[rx_buffer_ring_index(r.sn)] = Reset(@), !.sn = NextSn(@)]

UpdateOne(u) ==
  LET r == u.r IN
  IF ~u.go THEN u
  ELSE IF is_complete(r.ring[rx_buffer_ring_index(r.sn)])
  THEN [u EXCEPT !.r = Transport(r)]
  ELSE IF u.fast_forward
  THEN [u EXCEPT !.r = Drop(r),
                 !.go = ~(NextSn(r.sn) = u.sn
                            \/ config.max_sn_distance > Distance(r.sn, u.sn))]
  ELSE [u EXCEPT !.go = FALSE]

(* The loop ends: after RingSize rounds no entry is complete, and from there *)
(* a fast forward meets sn before it is once around the sequence numbers.    *)
UpdateRounds(r, sn, fast_forward) ==
  FoldLeft(LAMBDA u, i : UpdateOne(u),
           [r |-> r, go |-> TRUE, sn |-> sn, fast_forward |-> fast_forward],
           [i \in 1..(SnMod + RingSize) |-> i])

(* Mutant: it stops at the first frame. *)
update_rx_sn_mutant(r, sn, fast_forward) ==
  UpdateOne([r |-> r, go |-> TRUE, sn |-> sn, fast_forward |-> fast_forward]).r
update_rx_sn(r, sn, fast_forward) == UpdateRounds(r, sn, fast_forward).r

(* The buffer grows to required octets; it never shrinks. *)
Grown(buffer, required) ==
  IF Len(buffer) < required
  THEN [i \in 1..required |-> IF i <= Len(buffer) THEN buffer[i] ELSE Junk]
  ELSE buffer

(* Mutant: the octets of a repeated offset are counted again. *)
IsNewOffset_mutant(entry, segment) == TRUE
IsNewOffset(entry, segment) == segment.offset \notin entry.recvd_offsets

Reassembled(entry, segment) ==
  LET required == segment.offset + segment.size
      grown == Grown(entry.buffer, required)
      isnew == IsNewOffset(entry, segment)
  IN  [has_expected_size |-> segment.last \/ entry.has_expected_size,
       expected_size |-> IF segment.last THEN required ELSE entry.expected_size,
       accumulated_size |-> entry.accumulated_size + IF isnew THEN segment.size ELSE 0,
       recvd_offsets |-> entry.recvd_offsets \cup {segment.offset},
       buffer |-> [i \in DOMAIN grown |->
                     IF isnew /\ i \in (segment.offset + 1)..required
                     THEN segment.frame ELSE grown[i]]]

(* A sequence number that was passed, as far as max_sn_distance tells. *)
(* Mutant: the distance is compared the wrong way round. *)
IsBefore_mutant(dist) == FALSE
IsBefore(dist) == dist # 0 /\ (SnMod - 1) - dist <= config.max_sn_distance

(* Mutant: one short of the configured distance. *)
IsOutOfRange_mutant(dist) == dist >= config.max_sn_distance
IsOutOfRange(dist) == dist > config.max_sn_distance

(* One round of the loop in on_rx. *)
OnSegment(r0, segment) ==
  LET r == IF r0.synced THEN r0 ELSE [r0 EXCEPT !.synced = TRUE, !.sn = segment.sn]
      dist == Distance(r.sn, segment.sn)
      i == rx_buffer_ring_index(segment.sn)
      entry == Reassembled(r.ring[i], segment)
      stored == [r EXCEPT !.ring[i] = entry]
  IN
  IF r.rlf \/ IsBefore(dist) THEN r
  ELSE IF IsOutOfRange(dist) /\ config.allow_rlf THEN [r EXCEPT !.rlf = TRUE]
  ELSE IF is_complete(r.ring[i]) THEN r
  ELSE IF is_complete(entry) THEN update_rx_sn(stored, segment.sn, IsOutOfRange(dist))
  ELSE stored

Received(m) ==
  FoldLeft(OnSegment,
           [ring |-> rx_buffer_ring, sn |-> rx_sn, synced |-> rx_sn_synced,
            out |-> <<>>, rlf |-> FALSE],
           m)

(* The frame whose octets a buffer begins with. *)
FrameOf(buffer) == Head(buffer)

(***************************************************************************)
(* What becomes of the frames when the segments of m are taken: those      *)
(* moved to to_rx_queue are emitted, and those that the first PDU of all   *)
(* has overtaken are missed, as rx_sn begins after them.                   *)
(***************************************************************************)
Missed(m, f) ==
  ~rx_sn_synced /\ m # <<>> /\ f < Head(m).frame /\ fate[f] = "waiting"
FatesAfter(m, out) ==
  [f \in DOMAIN fate |-> IF \E k \in DOMAIN out : FrameOf(out[k]) = f THEN "emitted"
                        ELSE IF Missed(m, f) THEN "missed"
                        ELSE fate[f]]

TakeSegments(m) ==
  LET r == Received(m) IN
  /\ rx_buffer_ring' = r.ring
  /\ rx_sn' = r.sn
  /\ rx_sn_synced' = r.synced
  /\ to_rx_queue' = to_rx_queue \o r.out
  /\ on_rlf_event' = (on_rlf_event \/ r.rlf)
  /\ fate' = FatesAfter(m, r.out)
  /\ UNCHANGED <<config, tx, is_rx_enabled, link, tx_call, to_activate, on_init_event, rlfs>>

(***************************************************************************)
(* PDCP::on_rx; the LLC may deliver the PDU once more.  The LLC is enabled *)
(* after PDCP and disabled after PDCP, and does not acknowledge what it    *)
(* gets while it is disabled: only in a fault does PDCP drop a PDU.        *)
(***************************************************************************)
on_rx(m) ==
  /\ is_rx_enabled
  /\ TakeSegments(m)
  /\ \/ air' = air \ {m} /\ UNCHANGED copies
     \/ copies < config.max_copies /\ copies' = copies + 1 /\ UNCHANGED air
  /\ UNCHANGED losses

(***************************************************************************)
(* PDCP::on_rx of a malformed PDU, too short for a header or for the size  *)
(* a header gives: the segments before that place are taken, and the rest  *)
(* is left.                                                                *)
(***************************************************************************)
on_rx_malformed(m) ==
  /\ is_rx_enabled
  /\ losses < config.max_losses
  /\ \E k \in 0..(Len(m) - 1) : TakeSegments(SubSeq(m, 1, k))
  /\ air' = air \ {m}
  /\ losses' = losses + 1
  /\ UNCHANGED copies

on_rx_disabled(m) ==
  /\ ~is_rx_enabled /\ link = "fault"
  /\ air' = air \ {m}
  /\ UNCHANGED <<config, tx, copies, losses, rx, rrc, fate>>

(* PDCP::to_rx, called by the end point *)
to_rx ==
  /\ to_rx_queue # <<>>
  /\ to_rx_queue' = Tail(to_rx_queue)
  /\ UNCHANGED <<config, tx, llc, rx_buffer_ring, rx_sn, rx_sn_synced, is_rx_enabled,
                 rrc, fate>>
-----------------------------------------------------------------------------
(* PDCP::set_rx_enabled, of the receiving half; to_rx_queue stays. *)
set_rx_enabled(value) ==
  /\ is_rx_enabled' = value
  /\ rx_buffer_ring' = [i \in DOMAIN rx_buffer_ring |-> Reset(rx_buffer_ring[i])]
  /\ rx_sn_synced' = FALSE
  /\ UNCHANGED <<rx_sn, to_rx_queue>>

(***************************************************************************)
(* PDCP::set_tx_enabled, of the transmitting half.  First the queue is     *)
(* cleared, under its own mutex; tx_sn is left as it is.                   *)
(***************************************************************************)
Dropped(frames) ==
  [f \in DOMAIN fate |-> IF f \in frames THEN "dropped" ELSE fate[f]]

set_tx_enabled(value) ==
  /\ tx_call' = <<value>>
  /\ to_tx_queue' = <<>>
  /\ fate' = Dropped(ToSet(to_tx_queue))
  /\ UNCHANGED <<current_tx_buffer, current_tx_offset, tx_sn, is_tx_enabled>>

(* Then the flag changes, under tx_mutex.  The LLC forgets its PDUs, too.  *)
set_tx_enabled_flag ==
  /\ tx_call # <<>>
  /\ is_tx_enabled' = Head(tx_call)
  /\ current_tx_buffer' = NoFrame
  /\ current_tx_offset' = 0
  /\ tx_call' = <<>>
  /\ air' = {}
  /\ fate' = Dropped({f \in DOMAIN fate : fate[f] = "waiting" /\ f \notin ToSet(to_tx_queue)})
  /\ UNCHANGED <<config, to_tx_queue, tx_sn, copies, losses, rx, link, to_activate,
                 on_rlf_event, on_init_event, rlfs>>

(* The transmitting LLC gives up a PDU; its RRC disables the channel.  The *)
(* other end is not told.                                                  *)
LlcRlf ==
  /\ link = "up" /\ is_tx_enabled /\ tx_call = <<>> /\ to_activate = {}
  /\ rlfs < config.max_rlfs
  /\ rlfs' = rlfs + 1
  /\ link' = "fault"
  /\ set_tx_enabled(FALSE)
  /\ UNCHANGED <<config, llc, rx, to_activate, on_rlf_event, on_init_event>>

(* The RRC of the receiving end handles on_rlf. *)
PdcpRlf ==
  /\ on_rlf_event /\ to_activate = {}
  /\ on_rlf_event' = FALSE
  /\ link' = "fault"
  /\ set_rx_enabled(FALSE)
  /\ UNCHANGED <<config, tx, llc, tx_call, to_activate, on_init_event, rlfs, fate>>

(* An exchange succeeds.  The receiving half is reconfigured and disabled, *)
(* whatever it was; both halves will be activated.                         *)
Exchange ==
  /\ link = "fault" /\ tx_call = <<>> /\ to_activate = {} /\ ~on_rlf_event
  /\ config.auto_init_on_tx => on_init_event
  /\ link' = "up"
  /\ to_activate' = {"tx", "rx"}
  /\ on_init_event' = FALSE
  /\ set_rx_enabled(FALSE)
  /\ UNCHANGED <<config, tx, llc, tx_call, on_rlf_event, rlfs, fate>>

ActivateTx ==
  /\ "tx" \in to_activate
  /\ to_activate' = to_activate \ {"tx"}
  /\ set_tx_enabled(TRUE)
  /\ UNCHANGED <<config, llc, rx, link, on_rlf_event, on_init_event, rlfs>>

ActivateRx ==
  /\ "rx" \in to_activate
  /\ to_activate' = to_activate \ {"rx"}
  /\ set_rx_enabled(TRUE)
  /\ UNCHANGED <<config, tx, llc, link, tx_call, on_rlf_event, on_init_event, rlfs, fate>>
-----------------------------------------------------------------------------
Transmit == \E size \in AllocSize : on_tx(size)
Receive == \E m \in air : on_rx(m)
Rrc == set_tx_enabled_flag \/ PdcpRlf \/ ActivateTx \/ ActivateRx

Next ==
  \/ to_tx
  \/ Transmit
  \/ Receive
  \/ \E m \in air : on_rx_malformed(m) \/ on_rx_disabled(m) \/ Lose(m)
  \/ to_rx
  \/ Rrc
  \/ Exchange
  \/ LlcRlf

Spec == Init /\ [][Next]_vars

(***************************************************************************)
(* The scheduler offers room again and again, the LLC delivers what it     *)
(* took in the end, and RRC handles its events: weak fairness of these     *)
(* actions, with ENABLED spelt out for the first two.  LCRRC::on_rlf asks  *)
(* for no new exchange: one comes for sure only where a frame to send asks *)
(* for it.                                                                 *)
(***************************************************************************)
CanTransmit ==
  /\ is_tx_enabled
  /\ to_tx_queue # <<>> \/ current_tx_buffer # NoFrame
  /\ \E size \in AllocSize :
       /\ size > 0 /\ size >= config.min_commit_size
       /\ Allocated(size).pdu # <<>>
       /\ WithinLag(Allocated(size).pdu)
CanReceive == air # {} /\ is_rx_enabled

Fairness ==
  /\ []<><<Transmit>>_vars \/ []<>~CanTransmit
  /\ []<><<Receive>>_vars \/ []<>~CanReceive
  /\ WF_vars(Rrc)
  /\ WF_vars(Exchange /\ config.auto_init_on_tx)

FairSpec == Spec /\ Fairness
-----------------------------------------------------------------------------
Entry == [has_expected_size : BOOLEAN, accumulated_size : Nat, expected_size : Nat,
          recvd_offsets : SUBSET Nat, buffer : Seq(Frame \cup {Junk})]
Segment == [sn : Sn, offset : Nat, size : Nat \ {0}, last : BOOLEAN, frame : Frame]

(* The fields have the types of PDCP.hpp, and no segment is empty. *)
TypeOK ==
  /\ config \in Setting
  /\ to_tx_queue \in Seq(Frame)
  /\ current_tx_buffer \in Frame \cup {NoFrame}
  /\ current_tx_offset \in Nat
  /\ tx_sn \in Sn
  /\ is_tx_enabled \in BOOLEAN
  /\ \A m \in air : m \in Seq(Segment)
  /\ copies \in Nat /\ losses \in Nat /\ rlfs \in Nat
  /\ \A i \in 0..(RingSize - 1) : rx_buffer_ring[i] \in Entry
  /\ rx_sn \in Sn
  /\ rx_sn_synced \in BOOLEAN
  /\ is_rx_enabled \in BOOLEAN
  /\ to_rx_queue \in Seq(Seq(Frame \cup {Junk}))
  /\ link \in {"up", "fault"}
  /\ tx_call \in {<<>>} \cup {<<v>> : v \in BOOLEAN}
  /\ to_activate \subseteq {"tx", "rx"}
  /\ on_rlf_event \in BOOLEAN /\ on_init_event \in BOOLEAN
  /\ fate \in Seq({"waiting", "emitted", "dropped", "missed"})

(* A buffer begins with exactly the octets of frame f. *)
BeginsWith(buffer, f) ==
  Len(buffer) >= FrameSize[f] /\ \A i \in 1..FrameSize[f] : buffer[i] = f

(***************************************************************************)
(* A frame that to_rx hands out is one that to_tx took, whole and unmixed: *)
(* a segment of one frame never completes another.  An entry of the ring   *)
(* that is used again brings no octet of the frame it held before, unless  *)
(* a fault or a fast forward reset it with that frame in it: reset keeps   *)
(* the buffer (PDCP.hpp:98), whose octets then follow the new frame.       *)
(***************************************************************************)
Intact ==
  \A k \in 1..Len(to_rx_queue) :
    \E f \in 1..accepted :
      /\ BeginsWith(to_rx_queue[k], f)
      /\ losses = 0 /\ rlfs = 0 => Len(to_rx_queue[k]) = FrameSize[f]

(* What to_rx hands out is a frame that to_tx took, and nothing more. *)
WholeFrames ==
  \A k \in 1..Len(to_rx_queue) :
    \E f \in 1..accepted : to_rx_queue[k] = [i \in 1..FrameSize[f] |-> f]

(***************************************************************************)
(* Frames come out in the order they went in and once each, whatever is    *)
(* lost, repeated or reordered below, across the wrap of the sequence      *)
(* number, a fast forward and a fault with its new synchronization.  One   *)
(* combination is excepted: a fast forward (allow_rlf off) that has        *)
(* emitted the frame it was for counts on around the sequence numbers and  *)
(* leaves rx_sn at that frame, so that a copy of it is emitted again.      *)
(***************************************************************************)
Emission == SubSeq(to_rx_queue', Len(to_rx_queue) + 1, Len(to_rx_queue'))
NextInOrder ==
  \A k \in DOMAIN Emission :
    /\ \A f \in DOMAIN fate : fate[f] = "emitted" => f < FrameOf(Emission[k])
    /\ \A j \in 1..(k - 1) : FrameOf(Emission[j]) < FrameOf(Emission[k])
EmittedInOrder ==
  [][(config.allow_rlf \/ losses = 0 \/ copies = 0) => NextInOrder]_vars

Lossless == config.max_losses = 0

(***************************************************************************)
(* Over an LLC that loses nothing, no frame is left behind in the receiver *)
(* when every PDU has arrived: a frame that is complete does not wait for  *)
(* an event that does not come, and none is taken for a repeated one.      *)
(* (on_rx synchronizes to whatever comes first, PDCP.cpp:416-420: frames   *)
(* that this PDU has overtaken are missed, and not counted here.)          *)
(***************************************************************************)
NothingStranded ==
  (Lossless /\ is_tx_enabled /\ tx_call = <<>> /\ to_tx_queue = <<>>
     /\ current_tx_buffer = NoFrame /\ air = {})
  => \A f \in DOMAIN fate : fate[f] # "waiting"

(***************************************************************************)
(* PDCP calls rrc.on_rlf only if a PDU was really lost: late PDUs, copies  *)
(* and the wrap of the sequence number look like no gap as long as no PDU  *)
(* is late by more than max_sn_distance.                                   *)
(***************************************************************************)
RlfOnlyOnGap == on_rlf_event => losses > 0

(***************************************************************************)
(* "Maximum distance of the last completed packet to the most furthest     *)
(* pending packet" (CONFIG.md:286): without segmentation, where every PDU  *)
(* completes its frames, what waits in the ring is within max_sn_distance  *)
(* of rx_sn.  (The code counts from rx_sn, which is the packet after the   *)
(* last completed one.)                                                    *)
(***************************************************************************)
PendingWithinDistance ==
  ~config.allow_segmentation =>
    \A i \in 0..(RingSize - 1) :
      rx_buffer_ring[i].recvd_offsets # {}
        => (i - rx_buffer_ring_index(rx_sn)) % RingSize <= config.max_sn_distance

(***************************************************************************)
(* Over an LLC that loses nothing, every frame taken is emitted in the end *)
(* (or missed by the first synchronization, or dropped when the channel is *)
(* set up again), except while the channel is down and nothing asks for an *)
(* exchange: without auto_init_on_tx nothing does, and with it a frame     *)
(* that is queued between the two halves of set_tx_enabled does not.       *)
(***************************************************************************)
NobodyAsks == link = "fault" /\ ~on_init_event
EventuallyEmitted ==
  <>[](Lossless => NobodyAsks \/ \A f \in DOMAIN fate : fate[f] # "waiting")
=============================================================================
