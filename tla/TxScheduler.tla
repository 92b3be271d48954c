---------------------------- MODULE TxScheduler -----------------------------
(***************************************************************************)
(* TxScheduler: once per slot its ticker thread fills one radio frame with *)
(* the PDUs of the logical channels, by deficit round robin.  At the other *)
(* end AppRRC::process_rx_frame takes the frame apart.                     *)
(*                                                                         *)
(* tick holds this_mutex, but the LLCs have mutexes of their own: between  *)
(* any two calls of LLC::on_tx other threads queue frames, note PDUs to    *)
(* acknowledge, and enable or disable a channel.  Each call is one action. *)
(*                                                                         *)
(* The frame begins where its FEC header ends.  Its size there is a        *)
(* parameter, since fec_t does not compute it for the type in use: with    *)
(* E_FEC_TYPE_NONE rescan reads N through a null pointer.                  *)
(***************************************************************************)
EXTENDS Integers, FiniteSets, SequencesExt

CONSTANTS
  MaxLcid,      \* channels are 0..MaxLcid
  FrameData,    \* octets of a frame
  HeaderSize,   \* octets of an LLC header
  AckSize,      \* octets of an acknowledgement
  UnitSize,     \* UnitSize[l]: octets of a frame that PDCP of l does not divide
  RetxSize,     \* RetxSize[l]: octets of a PDU of l to be sent again
  Load          \* traffic patterns

Lcid == 0..MaxLcid

(***************************************************************************)
(* A traffic pattern: the channels' scheduling_ctx_t, what is queued at    *)
(* first, how many slots there are, and how much of everything may come.   *)
(***************************************************************************)
ASSUME LoadAssumption ==
  Load \subseteq [quanta : [Lcid -> Nat], nd_gpdu_max_size : [Lcid -> Nat],
                  queued : [Lcid -> Nat], allow_rlf : BOOLEAN, known : SUBSET Lcid,
                  slots : Nat, arrivals : Nat, acks : Nat, retx : Nat, changes : Nat]

ASSUME SizeAssumption ==
  /\ MaxLcid \in Nat /\ FrameData \in Nat
  /\ HeaderSize \in Nat \ {0} /\ AckSize \in Nat \ {0}
  /\ UnitSize \in [Lcid -> Nat \ {0}]
  /\ RetxSize \in [Lcid -> Nat \ {0}]

VARIABLES
  load,
  (* TxScheduler *)
  llcs,                \* channels with an LLC
  slot_number,
  pc,                  \* where the ticker is: "wait", "probe" or "serve"
  todo,                \* channels left in the loop it is in
  frame_payload_remaining,
  schedules_cache,     \* as a set; its order is todo's
  deficit,
  current_alloc,
  has_data_allocated,
  max_quanta_allocated,
  schedulable_count,
  buffer,              \* buffer[i]: the header at offset i, of this or an earlier frame
  (* the LLCs, and PDCP above them *)
  enabled,
  backlog,             \* frames queued
  to_ack,              \* PDUs to acknowledge
  to_retx,             \* PDUs to send again
  left,                \* events of the pattern still to come
  (* history *)
  packed,              \* PDUs of this frame, as the LLCs see it
  unpacked,            \* PDUs of the last frame sent, as the other end sees it
  sent,                \* PDUs of the last frame sent
  waited               \* slots in which a channel had data and sent none

sched == <<llcs, slot_number, schedules_cache, deficit, current_alloc, has_data_allocated>>
pass == <<pc, todo, max_quanta_allocated, schedulable_count>>
frame == <<frame_payload_remaining, buffer, packed, unpacked, sent>>
llc == <<enabled, backlog, to_ack, to_retx>>
vars == <<load, sched, pass, frame, llc, left, waited>>

Blank == [lcid |-> 0, data |-> FALSE, size |-> 0]
cursor == FrameData - frame_payload_remaining

(* The scheduler as AppRRC::setup_scheduler leaves it. *)
Init ==
  /\ load \in Load
  /\ llcs = Lcid
  /\ slot_number = 0
  /\ pc = "wait"
  /\ todo = <<>>
  /\ frame_payload_remaining = FrameData
  /\ schedules_cache = {}
  /\ deficit = [l \in Lcid |-> 0]
  /\ current_alloc = [l \in Lcid |-> 0]
  /\ has_data_allocated = [l \in Lcid |-> FALSE]
  /\ max_quanta_allocated = 0
  /\ schedulable_count = 0
  /\ buffer = [i \in 0..(FrameData - 1) |-> Blank]
  /\ enabled = [l \in Lcid |-> TRUE]
  /\ backlog = load.queued
  /\ to_ack = [l \in Lcid |-> 0]
  /\ to_retx = [l \in Lcid |-> 0]
  /\ left = [arrivals |-> load.arrivals, acks |-> load.acks, retx |-> load.retx,
             changes |-> load.changes]
  /\ packed = <<>>
  /\ unpacked = <<>>
  /\ sent = <<>>
  /\ waited = [l \in Lcid |-> 0]
-----------------------------------------------------------------------------
(***************************************************************************)
(* LLC::on_tx as the scheduler sees it: the PDUs written, out_allocated,   *)
(* out_tx_available and out_has_data_loaded, and what is left to send.     *)
(***************************************************************************)
MinOf(a, b) == IF a < b THEN a ELSE b

HasData(l) == backlog[l] > 0 \/ to_retx[l] > 0

Nothing(l) ==
  [pdus |-> <<>>, alloc |-> 0, available |-> HasData(l), loaded |-> FALSE,
   backlog |-> backlog[l], to_ack |-> to_ack[l], to_retx |-> to_retx[l]]

(* Acknowledgements come first.  If not even one fits, their PDU is empty. *)
AcksFitting(l, size) == MinOf(to_ack[l], (size - HeaderSize) \div AckSize)
WithAcks(l, size) ==
  LET n == AcksFitting(l, size)
      alloc == HeaderSize + n * AckSize
  IN  IF to_ack[l] = 0 THEN Nothing(l)
      ELSE [Nothing(l) EXCEPT !.pdus = <<[lcid |-> l, data |-> FALSE, size |-> alloc]>>,
                              !.alloc = alloc, !.to_ack = @ - n]

(* A data PDU with the given payload; none if the payload is empty. *)
WithData(r, l, payload) ==
  IF payload = 0 THEN [r EXCEPT !.loaded = TRUE]
  ELSE [r EXCEPT !.loaded = TRUE, !.alloc = @ + HeaderSize + payload,
                 !.pdus = Append(@, [lcid |-> l, data |-> TRUE,
                                     size |-> HeaderSize + payload])]

(* A PDU from PDCP: as many whole frames as there is room for. *)
FromPdcp(r, l, room) ==
  LET n == MinOf(r.backlog, room \div UnitSize[l])
  IN  WithData([r EXCEPT !.backlog = @ - n], l, n * UnitSize[l])

(* A PDU that is given up: the channel fails and out_allocated is zero, or *)
(* a new PDU takes its place.                                              *)
GivenUp(r, l, room) ==
  LET dropped == [r EXCEPT !.to_retx = @ - 1]
  IN  IF load.allow_rlf THEN [dropped EXCEPT !.alloc = 0] ELSE FromPdcp(dropped, l, room)

on_tx(l, size, in_allow_data) ==
  LET r == WithAcks(l, size)
      taken == IF to_ack[l] = 0 THEN 0 ELSE AcksFitting(l, size) * AckSize
      room == size - HeaderSize - taken
      payload == room - HeaderSize
  IN
  IF ~enabled[l] THEN {[Nothing(l) EXCEPT !.available = FALSE]}
  ELSE IF size <= HeaderSize THEN {Nothing(l)}
  ELSE IF room < HeaderSize \/ ~in_allow_data THEN {r}
  ELSE IF to_retx[l] = 0 THEN {FromPdcp(r, l, payload)}
  ELSE IF RetxSize[l] > payload THEN {r}
  ELSE {WithData([r EXCEPT !.to_retx = @ - 1], l, RetxSize[l]), GivenUp(r, l, payload)}

(* The PDUs are written one after the other from the cursor on; the cursor *)
(* moves by out_allocated.                                                 *)
Written(pdus) ==
  [i \in DOMAIN buffer |->
     IF Len(pdus) >= 1 /\ i = cursor THEN pdus[1]
     ELSE IF Len(pdus) = 2 /\ i = cursor + pdus[1].size THEN pdus[2]
     ELSE buffer[i]]

Loaded(l, r) ==
  /\ buffer' = Written(r.pdus)
  /\ frame_payload_remaining' = frame_payload_remaining - r.alloc
  /\ packed' = IF r.alloc = 0 THEN packed ELSE packed \o r.pdus
  /\ backlog' = [backlog EXCEPT ![l] = r.backlog]
  /\ to_ack' = [to_ack EXCEPT ![l] = r.to_ack]
  /\ to_retx' = [to_retx EXCEPT ![l] = r.to_retx]
  /\ UNCHANGED enabled
-----------------------------------------------------------------------------
(***************************************************************************)
(* TxScheduler::tick.  It begins with an empty frame.                      *)
(***************************************************************************)
(* The loop over the vector llcs, without the entries that are null. *)
InOrder(S) == {s \in SetToSeqs(S) : \A i, j \in 1..Len(s) : i < j => s[i] < s[j]}

TickBegin ==
  /\ pc = "wait"
  /\ slot_number < load.slots
  /\ slot_number' = slot_number + 1
  /\ pc' = "probe"
  /\ \E s \in InOrder(llcs) : todo' = s
  /\ frame_payload_remaining' = FrameData
  /\ packed' = <<>>
  /\ schedules_cache' = {}
  /\ UNCHANGED <<load, llcs, deficit, current_alloc, has_data_allocated,
                 max_quanta_allocated, schedulable_count, buffer, unpacked, sent, llc, left,
                 waited>>

(* Every LLC is asked for data, and may send acknowledgements. *)
Decayed(d) == (d * 8) \div 10

TickProbe ==
  LET l == Head(todo)
      size == MinOf(frame_payload_remaining, load.nd_gpdu_max_size[l])
  IN
  /\ pc = "probe" /\ todo # <<>>
  /\ \E r \in on_tx(l, size, FALSE) :
       /\ Loaded(l, r)
       /\ has_data_allocated' = [has_data_allocated EXCEPT ![l] = r.loaded]
       /\ schedules_cache' = schedules_cache \cup (IF r.available THEN {l} ELSE {})
       /\ deficit' = [deficit EXCEPT ![l] = IF r.available THEN @ ELSE Decayed(@)]
  /\ todo' = Tail(todo)
  /\ UNCHANGED <<load, llcs, slot_number, current_alloc, pc, max_quanta_allocated,
                 schedulable_count, unpacked, sent, left, waited>>

(***************************************************************************)
(* A pass over the channels with data: their deficits grow, and they are   *)
(* sorted by deficit, the ones that have sent data last.  std::sort leaves *)
(* the order of equal ones open.                                           *)
(***************************************************************************)
Rank(d, l) == IF has_data_allocated[l] THEN 0 ELSE d[l]
Sorted(d) ==
  {s \in SetToSeqs(schedules_cache) :
     \A i, j \in 1..Len(s) : i < j => Rank(d, s[i]) >= Rank(d, s[j])}

(* Mutant: a channel that has sent data is asked again. *)
Servable_mutant == todo # <<>>
Servable == todo # <<>> /\ ~has_data_allocated[Head(todo)]

(* After a pass there is another one if it may still help. *)
Finished == max_quanta_allocated > frame_payload_remaining \/ schedulable_count = 0

(* Mutant: a channel keeps the deficit it has. *)
Grown_mutant(l) == deficit[l]
Grown(l) == IF l \in schedules_cache THEN deficit[l] + load.quanta[l] ELSE deficit[l]

TickPass ==
  LET grown == [l \in Lcid |-> Grown(l)] IN
  /\ \/ pc = "probe" /\ todo = <<>>
     \/ pc = "serve" /\ ~Servable /\ ~Finished
  /\ frame_payload_remaining > 0
  /\ deficit' = grown
  /\ \E s \in Sorted(grown) : todo' = s
  /\ pc' = "serve"
  /\ max_quanta_allocated' = 0
  /\ schedulable_count' = 0
  /\ UNCHANGED <<load, llcs, slot_number, schedules_cache, current_alloc, has_data_allocated,
                 frame, llc, left, waited>>

(* Mutant: a channel may use all of the frame. *)
Share_mutant(l) == frame_payload_remaining
Share(l) == MinOf(frame_payload_remaining, deficit[l])

TickServe ==
  LET l == Head(todo) IN
  /\ pc = "serve" /\ Servable
  /\ schedulable_count' = schedulable_count + 1
  /\ max_quanta_allocated' = IF deficit[l] > max_quanta_allocated THEN deficit[l]
                                                                  ELSE max_quanta_allocated
  /\ \E r \in on_tx(l, Share(l), TRUE) :
       /\ Loaded(l, r)
       /\ has_data_allocated' = [has_data_allocated EXCEPT ![l] = r.loaded]
       /\ current_alloc' = [current_alloc EXCEPT ![l] = r.alloc]
  /\ todo' = Tail(todo)
  /\ UNCHANGED <<load, llcs, slot_number, schedules_cache, deficit, pc, unpacked, sent, left,
                 waited>>

(***************************************************************************)
(* AppRRC::process_rx_frame, on n octets of the buffer.  A PDU of a        *)
(* channel that is unknown at this end is passed over.                     *)
(***************************************************************************)
(* Mutant: such a PDU ends the frame. *)
PassedOver_mutant(u, pdu) == [u EXCEPT !.left = 0]
PassedOver(u, pdu) == [u EXCEPT !.at = @ + pdu.size, !.left = @ - pdu.size]

UnpackOne(u) ==
  LET pdu == buffer[u.at] IN
  IF u.left <= 0 \/ HeaderSize > u.left \/ pdu.size = 0 THEN [u EXCEPT !.left = 0]
  ELSE IF pdu.lcid \notin load.known THEN PassedOver(u, pdu)
  ELSE IF pdu.size > u.left THEN [u EXCEPT !.left = 0]
  ELSE [at |-> u.at + pdu.size, left |-> u.left - pdu.size, out |-> Append(u.out, pdu)]

process_rx_frame(n) ==
  FoldLeft(LAMBDA u, i : UnpackOne(u), [at |-> 0, left |-> n, out |-> <<>>],
           [i \in 1..FrameData |-> i]).out

(* The channels that had data are charged for what they sent, and the      *)
(* frame is sent unless it is empty.                                       *)
(* Mutant: what was sent is not charged. *)
Charged_mutant(d, alloc) == d
Charged(d, alloc) == d - alloc

SentData(l) == \E k \in DOMAIN packed : packed[k].lcid = l /\ packed[k].data

TickEnd ==
  LET charged == {l \in schedules_cache : has_data_allocated[l]} IN
  /\ \/ pc = "probe" /\ todo = <<>> /\ frame_payload_remaining = 0
     \/ pc = "serve" /\ ~Servable /\ (Finished \/ frame_payload_remaining = 0)
  /\ pc' = "wait"
  /\ todo' = <<>>
  /\ deficit' = [l \in Lcid |-> IF l \in charged THEN Charged(deficit[l], current_alloc[l])
                                                 ELSE deficit[l]]
  /\ current_alloc' = [l \in Lcid |-> IF l \in charged THEN 0 ELSE current_alloc[l]]
  /\ IF cursor > 0
     THEN unpacked' = process_rx_frame(cursor) /\ sent' = packed
     ELSE UNCHANGED <<unpacked, sent>>
  /\ waited' = [l \in Lcid |->
                  IF l \in schedules_cache /\ HasData(l) /\ ~SentData(l) THEN waited[l] + 1
                                                                         ELSE 0]
  /\ UNCHANGED <<load, llcs, slot_number, schedules_cache, has_data_allocated,
                 max_quanta_allocated, schedulable_count, frame_payload_remaining, buffer,
                 packed, llc, left>>

(* TxScheduler::remove_llc waits for the mutex. *)
remove_llc(l) ==
  /\ pc = "wait" /\ l \in llcs
  /\ left.changes > 0
  /\ left' = [left EXCEPT !.changes = @ - 1]
  /\ llcs' = llcs \ {l}
  /\ deficit' = [deficit EXCEPT ![l] = 0]
  /\ current_alloc' = [current_alloc EXCEPT ![l] = 0]
  /\ has_data_allocated' = [has_data_allocated EXCEPT ![l] = FALSE]
  /\ waited' = [waited EXCEPT ![l] = 0]
  /\ UNCHANGED <<load, slot_number, schedules_cache, pass, frame, llc>>
-----------------------------------------------------------------------------
(***************************************************************************)
(* The other threads: a frame is queued (PDCP::to_tx), a PDU is received   *)
(* that is to be acknowledged (LLC::on_rx), one is due for retransmission, *)
(* and RRC enables or disables a channel.                                  *)
(***************************************************************************)
Arrive(l) ==
  /\ left.arrivals > 0
  /\ left' = [left EXCEPT !.arrivals = @ - 1]
  /\ backlog' = [backlog EXCEPT ![l] = @ + 1]
  /\ UNCHANGED <<load, sched, pass, frame, enabled, to_ack, to_retx, waited>>

AckDue(l) ==
  /\ left.acks > 0
  /\ left' = [left EXCEPT !.acks = @ - 1]
  /\ to_ack' = [to_ack EXCEPT ![l] = @ + 1]
  /\ UNCHANGED <<load, sched, pass, frame, enabled, backlog, to_retx, waited>>

RetxDue(l) ==
  /\ left.retx > 0 /\ pc = "wait"
  /\ left' = [left EXCEPT !.retx = @ - 1]
  /\ to_retx' = [to_retx EXCEPT ![l] = @ + 1]
  /\ UNCHANGED <<load, sched, pass, frame, enabled, backlog, to_ack, waited>>

SetTxEnabled(l) ==
  /\ left.changes > 0
  /\ left' = [left EXCEPT !.changes = @ - 1]
  /\ enabled' = [enabled EXCEPT ![l] = ~@]
  /\ backlog' = [backlog EXCEPT ![l] = 0]
  /\ to_retx' = [to_retx EXCEPT ![l] = 0]
  /\ UNCHANGED <<load, sched, pass, frame, to_ack, waited>>
-----------------------------------------------------------------------------
Tick == TickBegin \/ TickProbe \/ TickPass \/ TickServe \/ TickEnd

Next ==
  \/ Tick
  \/ \E l \in Lcid : remove_llc(l) \/ Arrive(l) \/ AckDue(l) \/ RetxDue(l) \/ SetTxEnabled(l)

Spec == Init /\ [][Next]_vars

(* The ticker thread runs: weak fairness of Tick, which can take a step    *)
(* unless the last slot is over.                                           *)
Fairness == []<><<Tick>>_vars \/ []<>(pc = "wait" /\ slot_number >= load.slots)

FairSpec == Spec /\ Fairness
-----------------------------------------------------------------------------
Pdu == [lcid : Lcid, data : BOOLEAN, size : Nat]

(* The fields have the types of TxScheduler.hpp: in particular neither the *)
(* room left nor a deficit, both unsigned, is taken below zero.            *)
TypeOK ==
  /\ load \in Load
  /\ llcs \subseteq Lcid
  /\ slot_number \in Nat
  /\ pc \in {"wait", "probe", "serve"}
  /\ todo \in Seq(Lcid)
  /\ frame_payload_remaining \in 0..FrameData
  /\ schedules_cache \subseteq Lcid
  /\ deficit \in [Lcid -> Nat]
  /\ current_alloc \in [Lcid -> Nat]
  /\ has_data_allocated \in [Lcid -> BOOLEAN]
  /\ max_quanta_allocated \in Nat /\ schedulable_count \in Nat
  /\ buffer \in [0..(FrameData - 1) -> Pdu]
  /\ enabled \in [Lcid -> BOOLEAN]
  /\ backlog \in [Lcid -> Nat] /\ to_ack \in [Lcid -> Nat] /\ to_retx \in [Lcid -> Nat]
  /\ packed \in Seq(Pdu) /\ sent \in Seq(Pdu)
  /\ waited \in [Lcid -> Nat]

(* The PDUs of the channels that the other end knows. *)
TakeKnown(out, pdu) == IF pdu.lcid \in load.known THEN Append(out, pdu) ELSE out

(***************************************************************************)
(* What process_rx_frame finds of the channels it knows is what the LLCs   *)
(* wrote, in that order: no PDU is overwritten by the next one, and        *)
(* nothing that an earlier frame or a PDU that was given up has left in    *)
(* the buffer is taken for one.                                            *)
(***************************************************************************)
UnpackedAsPacked == unpacked = FoldLeft(TakeKnown, <<>>, sent)

(***************************************************************************)
(* A channel has at most one data PDU in a frame.  LLC::on_tx relies on    *)
(* it: it keeps what it sent for retransmission by slot number, and a      *)
(* second PDU of the slot would take the place of the first.               *)
(***************************************************************************)
OneDataPduPerSlot ==
  \A l \in Lcid :
    Cardinality({k \in DOMAIN packed : packed[k].lcid = l /\ packed[k].data}) <= 1

(***************************************************************************)
(* If what acknowledgements may take of a frame, its header and the quanta *)
(* of the busy channels, the ones with more to send than a frame carries,  *)
(* fit into a frame together, then no channel with data is passed over for *)
(* more slots in a row than its quanta take to make up a frame: the        *)
(* largest deficit is served first, and what is served is charged.         *)
(***************************************************************************)
Busy == {l \in Lcid : load.queued[l] > FrameData}
QuantaFit ==
  HeaderSize + MapThenSumSet(LAMBDA l : load.quanta[l], Busy)
             + MapThenSumSet(LAMBDA l : load.nd_gpdu_max_size[l], Lcid) <= FrameData
NoStarvation ==
  QuantaFit => \A l \in Lcid : (waited[l] - 1) * load.quanta[l] < FrameData

(***************************************************************************)
(* Every tick ends, and with it the time for which this_mutex is held: no  *)
(* pass repeats for ever what the one before could not do.  The one way    *)
(* around it is a channel that has data and a quantum of 0, which nothing  *)
(* in main.cpp excludes: its deficit stays 0, it is given no room, and the *)
(* loop waits for it to exceed the room that is left.                      *)
(***************************************************************************)
HeldForEver == \E l \in schedules_cache : load.quanta[l] = 0
TickEnds == (pc # "wait") ~> (pc = "wait" \/ HeldForEver)
=============================================================================
