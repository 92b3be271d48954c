-------------------------------- MODULE LLC --------------------------------
(***************************************************************************)
(* The logical link control layer of winject in acknowledged mode (LLC.cpp *)
(* with tx_config.mode = rx_config.mode = E_TX_MODE_AM): the two ends of   *)
(* one logical channel and the air between them.                           *)
(*                                                                         *)
(* Threads.  At every end the ticker thread (TxScheduler::tick) advances   *)
(* the slot and calls LLC::on_tx, first as a probe that may only place     *)
(* ACKs and then, if the LLC has something to send, with data allowed; the *)
(* reactor thread calls LLC::on_rx for each LLC PDU that arrives and       *)
(* set_tx_enabled / set_rx_enabled after a radio link failure.  on_tx runs *)
(* under tx_mutex and on_rx under rx_mutex, so the two interleave: here    *)
(* the probe, each on_tx with data and each on_rx are one action.  The     *)
(* read of tx_ring in check_retransmit takes no tx_ring_mutex, but an      *)
(* acknowledgement that races with it has the outcome of one that comes    *)
(* just before or just after.                                              *)
(*                                                                         *)
(* In transparent mode none of this state is used: check_retransmit        *)
(* returns at once and on_tx records nothing.                              *)
(***************************************************************************)
EXTENDS Integers, Sequences

CONSTANTS
  End,           \* the two ends of the link
  SnMod,         \* llc_sn_mask + 1: sequence numbers are counted modulo this
  ArqWindow,     \* tx_config.arq_window_size
  TxRingSize,    \* tx_ring.size(), 1024 in the code
  MaxRetx,       \* tx_config.max_retx_count
  AllowRlf,      \* AllowRlf[e]: tx_config.allow_rlf of end e
  AutoInitOnRx,  \* AutoInitOnRx[e]: rx_config.auto_init_on_rx of end e
  AckRoom,       \* LLC_ACK entries that fit one allocation (nd_pdu_size)
  MaxPdu,        \* MaxPdu[e]: how many PDCP PDUs end e has to send
  MaxRoundTrip   \* slots of the sender after which neither a data PDU nor its
                 \* acknowledgement can still arrive

ASSUME EndAssumption == \E x, y \in End : x # y /\ End = {x, y}
ASSUME SnModAssumption == SnMod \in Nat \ {0}
ASSUME WindowAssumption ==
  /\ ArqWindow \in Nat \ {0}
  /\ TxRingSize \in Nat \ {0}
  /\ ArqWindow < TxRingSize
ASSUME LimitsAssumption ==
  /\ MaxRetx \in Nat
  /\ AllowRlf \in [End -> BOOLEAN]
  /\ AutoInitOnRx \in [End -> BOOLEAN]
  /\ AckRoom \in Nat
  /\ MaxPdu \in [End -> Nat]
  /\ MaxRoundTrip \in Nat

VARIABLES
  slot_number,    \* frame_info.slot_number, modulo TxRingSize (see tx_ring_index)
  tick,           \* "wait": between ticks; "probed": on_tx with data may follow
  frame,          \* the LLC PDUs placed in the frame of the current slot
  is_tx_enabled,
  is_rx_enabled,
  sn_counter,
  tx_ring,        \* per slot: what was sent in it, and which slot to check in it
  sn_ring,        \* per sequence number (modulo the window): the checking slot
  to_retx_list,
  to_ack_list,
  rlf_event,      \* an RRC RLF event is queued for the reactor
  quiet,          \* slots since the link was disabled, up to MaxRoundTrip + 1
  next_pdu,       \* PDCP: the next PDU that pdcp.on_tx would hand over
  air,            \* the LLC PDUs in flight
  (* History, never read by the protocol: *)
  acked,          \* PDUs of this end whose tx_ring slot an ACK marked acknowledged
  received,       \* PDUs of this end that the peer passed to its PDCP
  exhausted,      \* PDUs of this end given up at max_retx_count
  flushed,        \* PDUs of this end discarded by set_tx_enabled
  sends           \* sends[e][p]: how often PDU p was put into a frame

sender == <<slot_number, tick, frame, is_tx_enabled, sn_counter, tx_ring, sn_ring,
            to_retx_list, rlf_event, quiet, next_pdu>>
history == <<acked, received, exhausted, flushed, sends>>
vars == <<sender, is_rx_enabled, to_ack_list, air, history>>

Peer(e) == CHOOSE p \in End : p # e
Pdu(e) == 1..MaxPdu[e]
NoPdu == 0
NotSent == -1     \* size_t sent_index = -1
Index == 0..(TxRingSize - 1)

(***************************************************************************)
(* Ring arithmetic.  size_t counts modulo 2^64 and 1024 divides 2^64, so   *)
(* the index of a slot depends on the slot modulo the ring size only, and  *)
(* the index of size_t(-1) is TxRingSize - 1.                              *)
(***************************************************************************)
tx_ring_index(slot) == slot % TxRingSize
(* Mutants: a ring that is one too small; no wrap-around. *)
sn_ring_index_mutant(sn) == sn % (IF ArqWindow > 1 THEN ArqWindow - 1 ELSE 1)
sn_ring_index(sn) == sn % ArqWindow
increment_sn_mutant(sn) == sn + 1
increment_sn(sn) == (sn + 1) % SnMod

(* The slot whose fate is decided when slot i comes up again. *)
SentSlot(ring, i) == tx_ring_index(ring[i].sent_index)

IdleSlot == [sent_index |-> NotSent, retry_count |-> 0, pdcp_pdu |-> NoPdu,
             acknowledged |-> TRUE]

(* An acknowledged slot: nothing reads its PDU and retry count any more,   *)
(* so the model does not keep them.                                        *)
Released(elem) == [elem EXCEPT !.acknowledged = TRUE, !.retry_count = 0, !.pdcp_pdu = NoPdu]

Outstanding(e) == {tx_ring[e][i].pdcp_pdu : i \in {j \in Index : ~tx_ring[e][j].acknowledged}}
QueuedForRetx(e) == {to_retx_list[e][k].pdcp_pdu : k \in 1..Len(to_retx_list[e])}
-----------------------------------------------------------------------------
(***************************************************************************)
(* The air.  A PDU may be overtaken and is never duplicated.  age counts   *)
(* the ticks of the end that sent the data since it sent them; an ACK      *)
(* inherits the age of the oldest PDU it acknowledges.  A PDU that is not  *)
(* received by the age MaxRoundTrip is lost: the frame never arrived, or   *)
(* the PDU failed the size or the CRC check of on_rx.  PDUs of one frame   *)
(* are lost independently, as the CRC is per LLC PDU.                      *)
(***************************************************************************)
DataPdu(to, sn, pdu) == [type |-> "data", to |-> to, age |-> 0, sn |-> sn, pdu |-> pdu]
Oldest(acks) == LET Ages == {acks[k].age : k \in DOMAIN acks}
                IN  CHOOSE a \in Ages : \A b \in Ages : b <= a
AckPdu(to, acks) == [type |-> "ack", to |-> to, age |-> Oldest(acks), acks |-> acks]

(* m carries, or acknowledges, data that end e sent. *)
DataOf(m, e) == (m.type = "data") = (m.to # e)
Emit(S) == air' = air \cup {m \in S : m.age <= MaxRoundTrip}

Older(a) == IF a <= MaxRoundTrip THEN a + 1 ELSE a
AgedPdus(S, e) == {IF DataOf(m, e) THEN [m EXCEPT !.age = Older(@)] ELSE m : m \in S}
AgedAcks(list) == [k \in DOMAIN list |-> [list[k] EXCEPT !.age = Older(@)]]
-----------------------------------------------------------------------------
(***************************************************************************)
(* check_retransmit(slot): if the PDU that this slot checks is still       *)
(* unacknowledged, its slot is released and the PDU queued again.          *)
(***************************************************************************)
TimedOut(e, slot) == ~tx_ring[e][SentSlot(tx_ring[e], slot)].acknowledged

RingAfterCheck(e, slot) ==
  [tx_ring[e] EXCEPT ![SentSlot(tx_ring[e], slot)] = Released(@)]

(* Mutant: a PDU that has no retransmission left is not queued again. *)
RetxAfterCheck_mutant(e, slot) ==
  LET sent_slot == tx_ring[e][SentSlot(tx_ring[e], slot)]
  IN  IF TimedOut(e, slot) /\ sent_slot.retry_count < MaxRetx
      THEN Append(to_retx_list[e], [retry_count |-> sent_slot.retry_count,
                                    pdcp_pdu    |-> sent_slot.pdcp_pdu])
      ELSE to_retx_list[e]

RetxAfterCheck(e, slot) ==
  LET sent_slot == tx_ring[e][SentSlot(tx_ring[e], slot)]
  IN  IF TimedOut(e, slot)
      THEN Append(to_retx_list[e], [retry_count |-> sent_slot.retry_count,
                                    pdcp_pdu    |-> sent_slot.pdcp_pdu])
      ELSE to_retx_list[e]

(* to_acknowledge(sn): only the first entry of the list is ever extended,  *)
(* and first + second does not wrap at the SN modulus.                     *)
to_acknowledge(list, sn, age) ==
  IF list # <<>> /\ list[1].first + list[1].second = sn
  THEN [list EXCEPT ![1].second = @ + 1, ![1].age = IF age > @ THEN age ELSE @]
  ELSE Append(list, [first |-> sn, second |-> 1, age |-> age])

(* The ACKs on_tx places first, and what stays in the list. *)
AckCount(e) == IF Len(to_ack_list[e]) < AckRoom THEN Len(to_ack_list[e]) ELSE AckRoom
AcksPlaced(e) == SubSeq(to_ack_list[e], 1, AckCount(e))
AcksLeft(e) == SubSeq(to_ack_list[e], AckCount(e) + 1, Len(to_ack_list[e]))
AckPdus(e) == IF AcksPlaced(e) = <<>> THEN {} ELSE {AckPdu(Peer(e), AcksPlaced(e))}

(* The sequence numbers an LLC_ACK entry stands for; COUNT is one octet.   *)
AckedSns(ack) == {(ack.first + j) % SnMod : j \in 0..((ack.second % SnMod) - 1)}
-----------------------------------------------------------------------------
Init ==
  /\ slot_number = [e \in End |-> 0]
  /\ tick = [e \in End |-> "wait"]
  /\ frame = [e \in End |-> {}]
  /\ is_tx_enabled = [e \in End |-> TRUE]
  /\ is_rx_enabled = [e \in End |-> TRUE]
  /\ sn_counter = [e \in End |-> 0]
  /\ tx_ring = [e \in End |-> [i \in Index |-> IdleSlot]]
  /\ sn_ring = [e \in End |-> [n \in 0..(ArqWindow - 1) |-> 0]]
  /\ to_retx_list = [e \in End |-> <<>>]
  /\ to_ack_list = [e \in End |-> <<>>]
  /\ rlf_event = [e \in End |-> FALSE]
  /\ quiet = [e \in End |-> 0]
  /\ next_pdu = [e \in End |-> 1]
  /\ air = {}
  /\ acked = [e \in End |-> {}]
  /\ received = [e \in End |-> {}]
  /\ exhausted = [e \in End |-> {}]
  /\ flushed = [e \in End |-> {}]
  /\ sends = [e \in End |-> [p \in Pdu(e) |-> 0]]
-----------------------------------------------------------------------------
(***************************************************************************)
(* A tick: the slot advances and on_tx is called with in_allow_data =      *)
(* false.  The frame leaves at the end of the tick, so it is kept back     *)
(* when on_tx reported data to send (out_tx_available).                    *)
(***************************************************************************)
(* Mutant: PDUs to retransmit do not count as something to send. *)
HasSchedulable_mutant(e, retx) == next_pdu[e] <= MaxPdu[e]
HasSchedulable(e, retx) == next_pdu[e] <= MaxPdu[e] \/ retx # <<>>

OnTxProbe(e) ==
  LET slot == tx_ring_index(slot_number[e] + 1)
      retx == RetxAfterCheck(e, slot)
      aged == AgedPdus(air, e)
  IN
  /\ tick[e] = "wait"
  /\ slot_number' = [slot_number EXCEPT ![e] = slot]
  /\ IF is_tx_enabled[e]
     THEN /\ tx_ring' = [tx_ring EXCEPT ![e] = RingAfterCheck(e, slot)]
          /\ to_retx_list' = [to_retx_list EXCEPT ![e] = retx]
          /\ to_ack_list' = [to_ack_list EXCEPT ![e] = AcksLeft(e),
                                                ![Peer(e)] = AgedAcks(@)]
          /\ IF HasSchedulable(e, retx)
             THEN /\ tick' = [tick EXCEPT ![e] = "probed"]
                  /\ frame' = [frame EXCEPT ![e] = AckPdus(e), ![Peer(e)] = AgedPdus(@, e)]
                  /\ air' = {m \in aged : m.age <= MaxRoundTrip}
             ELSE /\ frame' = [frame EXCEPT ![Peer(e)] = AgedPdus(@, e)]
                  /\ air' = {m \in aged \cup AckPdus(e) : m.age <= MaxRoundTrip}
                  /\ UNCHANGED tick
          /\ UNCHANGED quiet
     ELSE /\ to_ack_list' = [to_ack_list EXCEPT ![Peer(e)] = AgedAcks(@)]
          /\ frame' = [frame EXCEPT ![Peer(e)] = AgedPdus(@, e)]
          /\ air' = {m \in aged : m.age <= MaxRoundTrip}
          /\ quiet' = [quiet EXCEPT ![e] = Older(@)]
          /\ UNCHANGED <<tick, tx_ring, to_retx_list>>
  /\ UNCHANGED <<is_tx_enabled, is_rx_enabled, sn_counter, sn_ring, rlf_event,
                 next_pdu, history>>

(***************************************************************************)
(* What on_tx does once it has a PDCP PDU to send: number it, and record   *)
(* in tx_ring and sn_ring where its acknowledgement will be looked up and  *)
(* when it will be checked.  The tick ends with perform_tx.                *)
(***************************************************************************)
SendData(e, ring, pdu, retry_count) ==
  LET tx_idx == slot_number[e]
      ack_ck_idx == tx_ring_index(slot_number[e] + ArqWindow)
      sn == sn_counter[e]
  IN
  /\ sn_counter' = [sn_counter EXCEPT ![e] = increment_sn(sn)]
  /\ tx_ring' = [tx_ring EXCEPT ![e] =
       [ring EXCEPT ![tx_idx].retry_count = retry_count,
                    ![tx_idx].pdcp_pdu = pdu,
                    ![tx_idx].acknowledged = FALSE,
                    ![ack_ck_idx].sent_index = tx_idx]]
  /\ sn_ring' = [sn_ring EXCEPT ![e][sn_ring_index(sn)] = ack_ck_idx]
  /\ sends' = [sends EXCEPT ![e][pdu] = @ + 1]
  /\ Emit(frame[e] \cup AckPdus(e) \cup {DataPdu(Peer(e), sn, pdu)})
  /\ to_ack_list' = [to_ack_list EXCEPT ![e] = AcksLeft(e)]
  /\ frame' = [frame EXCEPT ![e] = {}]
  /\ tick' = [tick EXCEPT ![e] = "wait"]

(* on_tx with data allowed is called again in the slot of the probe. *)
Granted(e) == tick[e] = "probed" /\ is_tx_enabled[e]
RetxNow(e) == RetxAfterCheck(e, slot_number[e])
RingNow(e) == RingAfterCheck(e, slot_number[e])

(* Nothing to retransmit: the PDU comes from pdcp.on_tx. *)
OnTxNew(e) ==
  /\ Granted(e)
  /\ RetxNow(e) = <<>>
  /\ next_pdu[e] <= MaxPdu[e]
  /\ SendData(e, RingNow(e), next_pdu[e], 0)
  /\ next_pdu' = [next_pdu EXCEPT ![e] = @ + 1]
  /\ UNCHANGED <<slot_number, is_tx_enabled, is_rx_enabled, to_retx_list, rlf_event,
                 quiet, acked, received, exhausted, flushed>>

(* Mutant: the retransmission about to be made is not counted. *)
RetxCount_mutant(e) == Head(RetxNow(e)).retry_count

(* retx_count = retry_count + 1 of the first PDU in to_retx_list. *)
RetxCount(e) == Head(RetxNow(e)).retry_count + 1

(* The first PDU of to_retx_list is sent again, under a new number. *)
OnTxRetx(e) ==
  /\ Granted(e)
  /\ RetxNow(e) # <<>>
  /\ RetxCount(e) <= MaxRetx
  /\ SendData(e, RingNow(e), Head(RetxNow(e)).pdcp_pdu, RetxCount(e))
  /\ to_retx_list' = [to_retx_list EXCEPT ![e] = Tail(RetxNow(e))]
  /\ UNCHANGED <<slot_number, is_tx_enabled, is_rx_enabled, rlf_event, quiet,
                 next_pdu, acked, received, exhausted, flushed>>

(***************************************************************************)
(* The first PDU of to_retx_list is at max_retx_count and RLF is allowed:  *)
(* it is dropped, the allocation is returned (the ACKs placed by this call *)
(* go with it) and an RLF event is queued.  The scheduler may call again   *)
(* in the same slot.                                                       *)
(***************************************************************************)
OnTxRlf(e) ==
  /\ Granted(e)
  /\ RetxNow(e) # <<>>
  /\ RetxCount(e) > MaxRetx
  /\ AllowRlf[e]
  /\ exhausted' = [exhausted EXCEPT ![e] = @ \cup {Head(RetxNow(e)).pdcp_pdu}]
  /\ to_retx_list' = [to_retx_list EXCEPT ![e] = Tail(RetxNow(e))]
  /\ tx_ring' = [tx_ring EXCEPT ![e] = RingNow(e)]
  /\ to_ack_list' = [to_ack_list EXCEPT ![e] = AcksLeft(e)]
  /\ rlf_event' = [rlf_event EXCEPT ![e] = TRUE]
  /\ UNCHANGED <<slot_number, tick, frame, is_tx_enabled, is_rx_enabled, sn_counter,
                 sn_ring, quiet, next_pdu, air, acked, received, flushed, sends>>

(***************************************************************************)
(* The same with RLF inhibited: a PDU from PDCP takes the place of the     *)
(* dropped one, with the retry count of the dropped one; without a PDCP    *)
(* PDU the call ends with the ACKs only.                                   *)
(***************************************************************************)
RetryCountOfSubstitute(retx_count) == retx_count

OnTxDrop(e) ==
  /\ Granted(e)
  /\ RetxNow(e) # <<>>
  /\ RetxCount(e) > MaxRetx
  /\ ~AllowRlf[e]
  /\ exhausted' = [exhausted EXCEPT ![e] = @ \cup {Head(RetxNow(e)).pdcp_pdu}]
  /\ to_retx_list' = [to_retx_list EXCEPT ![e] = Tail(RetxNow(e))]
  /\ IF next_pdu[e] <= MaxPdu[e]
     THEN /\ SendData(e, RingNow(e), next_pdu[e], RetryCountOfSubstitute(RetxCount(e)))
          /\ next_pdu' = [next_pdu EXCEPT ![e] = @ + 1]
     ELSE /\ Emit(frame[e] \cup AckPdus(e))
          /\ tx_ring' = [tx_ring EXCEPT ![e] = RingNow(e)]
          /\ to_ack_list' = [to_ack_list EXCEPT ![e] = AcksLeft(e)]
          /\ frame' = [frame EXCEPT ![e] = {}]
          /\ tick' = [tick EXCEPT ![e] = "wait"]
          /\ UNCHANGED <<sn_counter, sn_ring, next_pdu, sends>>
  /\ UNCHANGED <<slot_number, is_tx_enabled, is_rx_enabled, rlf_event, quiet,
                 acked, received, flushed>>

(***************************************************************************)
(* The allocation holds ACKs but not the header and the PDU to send: no    *)
(* data is loaded, so the scheduler may call again in the same slot.       *)
(***************************************************************************)
OnTxAcksOnly(e) ==
  /\ Granted(e)
  /\ AckPdus(e) # {}
  /\ frame' = [frame EXCEPT ![e] = @ \cup AckPdus(e)]
  /\ tx_ring' = [tx_ring EXCEPT ![e] = RingNow(e)]
  /\ to_retx_list' = [to_retx_list EXCEPT ![e] = RetxNow(e)]
  /\ to_ack_list' = [to_ack_list EXCEPT ![e] = AcksLeft(e)]
  /\ UNCHANGED <<slot_number, tick, is_tx_enabled, is_rx_enabled, sn_counter, sn_ring,
                 rlf_event, quiet, next_pdu, air, history>>

(***************************************************************************)
(* The tick ends without a further call that allocates: the frame is full, *)
(* the deficit is too small, or the LLC was disabled since the probe.      *)
(***************************************************************************)
OnTxNoRoom(e) ==
  /\ tick[e] = "probed"
  /\ Emit(frame[e])
  /\ frame' = [frame EXCEPT ![e] = {}]
  /\ tick' = [tick EXCEPT ![e] = "wait"]
  /\ UNCHANGED <<slot_number, is_tx_enabled, is_rx_enabled, sn_counter, tx_ring, sn_ring,
                 to_retx_list, to_ack_list, rlf_event, quiet, next_pdu, history>>
-----------------------------------------------------------------------------
(***************************************************************************)
(* on_rx.  With auto_init_on_rx a disabled receiver only asks RRC to       *)
(* initialise; without it PDUs are handled whether or not rx is enabled.   *)
(***************************************************************************)
Ignored(e) == ~is_rx_enabled[e] /\ AutoInitOnRx[e]

OnRxData(e) ==
  \E m \in air :
    /\ m.to = e /\ m.type = "data"
    /\ air' = air \ {m}
    /\ IF Ignored(e)
       THEN UNCHANGED <<to_ack_list, received>>
       ELSE /\ to_ack_list' = [to_ack_list EXCEPT ![e] = to_acknowledge(@, m.sn, m.age)]
            /\ received' = [received EXCEPT ![Peer(e)] = @ \cup {m.pdu}]
    /\ UNCHANGED <<sender, is_rx_enabled, acked, exhausted, flushed, sends>>

(* The slots marked acknowledged by an ACK PDU. *)
AckedSlots(e, acks) ==
  {SentSlot(tx_ring[e], tx_ring_index(sn_ring[e][sn_ring_index(sn)])) :
     sn \in UNION {AckedSns(acks[k]) : k \in DOMAIN acks}}

OnRxAck(e) ==
  \E m \in air :
    LET slots == AckedSlots(e, m.acks) IN
    /\ m.to = e /\ m.type = "ack"
    /\ air' = air \ {m}
    /\ IF Ignored(e)
       THEN UNCHANGED <<tx_ring, acked>>
       ELSE /\ tx_ring' = [tx_ring EXCEPT ![e] =
                 [i \in Index |-> IF i \in slots THEN Released(@[i]) ELSE @[i]]]
            /\ acked' = [acked EXCEPT ![e] =
                 @ \cup {tx_ring[e][i].pdcp_pdu :
                           i \in {j \in slots : ~tx_ring[e][j].acknowledged}}]
    /\ UNCHANGED <<slot_number, tick, frame, is_tx_enabled, is_rx_enabled, sn_counter,
                   sn_ring, to_retx_list, to_ack_list, rlf_event, quiet, next_pdu,
                   received, exhausted, flushed, sends>>

-----------------------------------------------------------------------------
(***************************************************************************)
(* set_tx_enabled(value) forgets every PDU in tx_ring and to_retx_list and *)
(* every ACK owed; sn_counter and sn_ring are left as they are.            *)
(***************************************************************************)
set_tx_enabled(e, value) ==
  /\ is_tx_enabled' = [is_tx_enabled EXCEPT ![e] = value]
  /\ flushed' = [flushed EXCEPT ![e] = @ \cup Outstanding(e) \cup QueuedForRetx(e)]
  /\ tx_ring' = [tx_ring EXCEPT ![e] =
       [i \in Index |-> IdleSlot]]
  /\ to_retx_list' = [to_retx_list EXCEPT ![e] = <<>>]
  /\ to_ack_list' = [to_ack_list EXCEPT ![e] = <<>>]

set_rx_enabled(e, value) == is_rx_enabled' = [is_rx_enabled EXCEPT ![e] = value]

(* The reactor handles the RLF event: LCRRC::on_rlf disables the layers. *)
HandleRlf(e) ==
  /\ rlf_event[e]
  /\ rlf_event' = [rlf_event EXCEPT ![e] = FALSE]
  /\ set_tx_enabled(e, FALSE)
  /\ set_rx_enabled(e, FALSE)
  /\ quiet' = [quiet EXCEPT ![e] = 0]
  /\ UNCHANGED <<slot_number, tick, frame, sn_counter, sn_ring, next_pdu, air,
                 acked, received, exhausted, sends>>

(***************************************************************************)
(* LCRRC::activate enables the layers again.  It runs on a timer of 100 ms *)
(* after an exchange with the peer, which is longer than a round trip.     *)
(***************************************************************************)
Activate(e) ==
  /\ ~is_tx_enabled[e]
  /\ quiet[e] > MaxRoundTrip
  /\ set_tx_enabled(e, TRUE)
  /\ set_rx_enabled(e, TRUE)
  /\ UNCHANGED <<slot_number, tick, frame, sn_counter, sn_ring, rlf_event, quiet,
                 next_pdu, air, acked, received, exhausted, sends>>
-----------------------------------------------------------------------------
OnTxData(e) == OnTxNew(e) \/ OnTxRetx(e) \/ OnTxRlf(e) \/ OnTxDrop(e)

Next ==
  \E e \in End :
    \/ OnTxProbe(e)
    \/ OnTxNew(e)
    \/ OnTxRetx(e)
    \/ OnTxRlf(e)
    \/ OnTxDrop(e)
    \/ OnTxAcksOnly(e)
    \/ OnTxNoRoom(e)
    \/ OnRxData(e)
    \/ OnRxAck(e)
    \/ HandleRlf(e)
    \/ Activate(e)

Spec == Init /\ [][Next]_vars

(***************************************************************************)
(* Fairness.  The ticker thread ticks for ever: a tick begins, or the one  *)
(* begun ends, with data or without; the deficit of an LLC with something  *)
(* to send grows in every round, so that it is granted an allocation again *)
(* and again; the reactor drains its event queue; the activation timer     *)
(* fires.  Nothing is assumed of the air.                                  *)
(***************************************************************************)
Fairness ==
  \A e \in End :
    /\ WF_vars(OnTxProbe(e) \/ OnTxNoRoom(e))
    /\ SF_vars(OnTxData(e))
    /\ WF_vars(HandleRlf(e))
    /\ WF_vars(Activate(e))

FairSpec == Spec /\ Fairness
-----------------------------------------------------------------------------
RingElem(e) == [sent_index : Index \cup {NotSent}, retry_count : Nat,
                pdcp_pdu : Pdu(e) \cup {NoPdu}, acknowledged : BOOLEAN]
RetxElem(e) == [retry_count : Nat, pdcp_pdu : Pdu(e)]
Age == 0..(MaxRoundTrip + 1)
AckElem == [first : 0..(SnMod - 1), second : 1..SnMod, age : Age]

(* The state of both ends has the types of LLC.hpp. *)
TypeOK ==
  /\ slot_number \in [End -> Index]
  /\ tick \in [End -> {"wait", "probed"}]
  /\ is_tx_enabled \in [End -> BOOLEAN]
  /\ is_rx_enabled \in [End -> BOOLEAN]
  /\ rlf_event \in [End -> BOOLEAN]
  /\ quiet \in [End -> Age]
  /\ sn_counter \in [End -> 0..(SnMod - 1)]
  /\ sn_ring \in [End -> [0..(ArqWindow - 1) -> Index]]
  /\ \A e \in End :
       /\ tx_ring[e] \in [Index -> RingElem(e)]
       /\ to_retx_list[e] \in Seq(RetxElem(e))
       /\ to_ack_list[e] \in Seq(AckElem)
       /\ next_pdu[e] \in 1..(MaxPdu[e] + 1)

(***************************************************************************)
(* An LLC_ACK acknowledges the PDU it was sent for: a PDU whose tx_ring    *)
(* slot is marked acknowledged by on_rx has reached the PDCP of the peer.  *)
(***************************************************************************)
AckedWasReceived == \A e \in End : acked[e] \subseteq received[e]

(***************************************************************************)
(* Acknowledged mode loses nothing silently: a PDU taken from PDCP was     *)
(* received by the peer, or is still held in tx_ring or to_retx_list, or   *)
(* was given up at max_retx_count or when the link was disabled.           *)
(***************************************************************************)
NoSilentLoss ==
  \A e \in End : \A p \in 1..(next_pdu[e] - 1) :
    p \in received[e] \cup Outstanding(e) \cup QueuedForRetx(e)
              \cup exhausted[e] \cup flushed[e]

(***************************************************************************)
(* max_retx_count is what it says: no PDU is sent more often than once     *)
(* plus max_retx_count times, and one that is given up for having reached  *)
(* the limit was sent that often.  The exception is the PDU that on_tx     *)
(* takes in the place of a dropped one when RLF is inhibited: it inherits  *)
(* the count of the dropped one (LLC.cpp:357-363, 419) and is given up     *)
(* after a single transmission.  That happens only to a successor of a PDU *)
(* that did have all of its transmissions.                                 *)
(***************************************************************************)
InheritedCount(e, p) ==
  /\ ~AllowRlf[e]
  /\ sends[e][p] = 1
  /\ \E q \in exhausted[e] : q < p /\ sends[e][q] = MaxRetx + 1
GiveUpOnlyAfterMaxRetx ==
  \A e \in End : \A p \in Pdu(e) :
    /\ sends[e][p] <= MaxRetx + 1
    /\ p \in exhausted[e] => sends[e][p] = MaxRetx + 1 \/ InheritedCount(e, p)

(***************************************************************************)
(* Every PDU taken from PDCP is settled in the end: acknowledged, or given *)
(* up at max_retx_count, or flushed with the link.  The PDUs to send are   *)
(* finitely many, so that from some time on all that were taken are.       *)
(***************************************************************************)
Settled(e, p) == p \in acked[e] \cup exhausted[e] \cup flushed[e]
EventuallySettled ==
  <>[](\A e \in End : \A p \in Pdu(e) : p < next_pdu[e] => Settled(e, p))
-----------------------------------------------------------------------------
(***************************************************************************)
(* The link implements its promise to PDCP (module AmLink): every step of  *)
(* the two LLCs hands over, delivers, releases or abandons PDUs as AmLink  *)
(* allows, or changes nothing AmLink sees.  In particular an ACK makes the *)
(* sender release only PDUs that the peer has.                             *)
(***************************************************************************)
Am == INSTANCE AmLink WITH
        offered   <- [e \in End |-> next_pdu[e] - 1],
        held      <- [e \in End |-> Outstanding(e) \cup QueuedForRetx(e)],
        delivered <- received,
        abandoned <- [e \in End |-> exhausted[e] \cup flushed[e]]
ImplementsAmLink == Am!Spec
=============================================================================
