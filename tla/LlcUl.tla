------------------------------- MODULE LlcUl -------------------------------
(***************************************************************************)
(* The acknowledged-mode transmitter of the rewritten LLC (class llc_ul,   *)
(* config.mode = E_LLC_TX_MODE_AM).  It keeps three structures in step:    *)
(*                                                                         *)
(*   tx_ring    indexed by slot: the PDU whose acknowledgement is checked  *)
(*              when that slot comes up;                                   *)
(*   sn_ring    indexed by sequence number: where that PDU is;             *)
(*   retx_list  the PDUs whose check failed, in the order they failed.     *)
(*                                                                         *)
(* The class is sequential; its caller advances the slot, writes PDUs and  *)
(* passes on the ACKs of the peer in any order, with any sequence number   *)
(* and any number of times.  A call that returns at once without touching  *)
(* the object is no action.                                                *)
(***************************************************************************)
EXTENDS Integers, Sequences, FiniteSets, SequencesExt

CONSTANTS
  TxSize,      \* config.tx_size
  SnMod,       \* 256: sn_ring.size(), and the modulus of llc_sn_t
  MinRecheck,  \* config.min_recheck_slot_number
  MaxRecheck,  \* config.max_recheck_slot_number
  MaxRetx      \* config.max_retx_count

(* What validate_config demands, but for the power of two. *)
ASSUME ConfigAssumption ==
  /\ TxSize \in Nat \ {0}
  /\ SnMod \in Nat \ {0}
  /\ MinRecheck \in Nat \ {0}
  /\ MaxRecheck \in Nat \ {0}
  /\ MinRecheck <= MaxRecheck
  /\ MaxRetx \in Nat \ {0}

VARIABLES
  status,                \* the status bits that are set
  current_slot_number,   \* modulo TxSize: it is only used as an index
  sn_counter,
  tx_ring,
  sn_ring,
  retx_list,
  used_tx_slots,
  pending_llc_pdu_count

vars == <<status, current_slot_number, sn_counter, tx_ring, sn_ring, retx_list,
          used_tx_slots, pending_llc_pdu_count>>

Index == 0..(TxSize - 1)
Sn == 0..(SnMod - 1)

(* The values of a sn_ring element: nullopt, an element without a          *)
(* check_tx_slot_number, or the tx_ring index of that slot.                *)
Free == -2
Unchecked == -1

StatusBit == {"SLOT_SKIPPED", "DATA_PDU_ALLOCATED", "WRITE_BUFFER_TOO_SMALL",
              "INVALID_LLC_PDU", "NO_TX_SLOT", "NO_FREE_SN", "SN_LOST",
              "SPURIOUS_ACK_SN", "SPURIOUS_ACK_TX", "SHOULD_NOT_HAPPEN"}

(* A slot that checks nothing; what an acknowledged slot still contains is *)
(* never read.                                                             *)
IdleSlot == [acknowledged |-> TRUE, sn |-> 0, retry_count |-> 0]

tx_ring_index(slot) == slot % TxSize
(* Mutant: no wrap-around. *)
NextSn_mutant(sn) == sn + 1
NextSn(sn) == (sn + 1) % SnMod

recheck_slot_size(retry_count) ==
  MinRecheck + ((retry_count * (MaxRecheck - MinRecheck)) \div MaxRetx)
-----------------------------------------------------------------------------
(* reset(): the state after construction, too. *)
Init ==
  /\ status = {}
  /\ current_slot_number = 0
  /\ sn_counter = 0
  /\ tx_ring = [i \in Index |-> IdleSlot]
  /\ sn_ring = [n \in Sn |-> Free]
  /\ retx_list = <<>>
  /\ used_tx_slots = 0
  /\ pending_llc_pdu_count = 0

Reset ==
  /\ status' = {}
  /\ current_slot_number' = 0
  /\ sn_counter' = 0
  /\ tx_ring' = [i \in Index |-> IdleSlot]
  /\ sn_ring' = [n \in Sn |-> Free]
  /\ retx_list' = <<>>
  /\ used_tx_slots' = 0
  /\ pending_llc_pdu_count' = 0

(* update_current_slot_number(slot) with slot # current_slot_number + 1 *)
SkipSlot ==
  /\ status' = status \cup {"SLOT_SKIPPED"}
  /\ UNCHANGED <<current_slot_number, sn_counter, tx_ring, sn_ring, retx_list,
                 used_tx_slots, pending_llc_pdu_count>>

(* Mutant: check_tx_slot_number is not reset. *)
UpdateSlot_mutant ==
  LET slot == tx_ring_index(current_slot_number + 1)
      old_slot == tx_ring[slot]
  IN
  /\ current_slot_number' = slot
  /\ status' = status \ {"DATA_PDU_ALLOCATED"}
  /\ IF old_slot.acknowledged
     THEN UNCHANGED <<tx_ring, retx_list, used_tx_slots>>
     ELSE /\ tx_ring' = [tx_ring EXCEPT ![slot] = IdleSlot]
          /\ used_tx_slots' = used_tx_slots - 1
          /\ retx_list' = Append(retx_list, [sn |-> old_slot.sn,
                                             retry_count |-> old_slot.retry_count])
  /\ UNCHANGED <<sn_counter, sn_ring, pending_llc_pdu_count>>

(***************************************************************************)
(* update_current_slot_number(current_slot_number + 1): a PDU that is      *)
(* checked in the new slot and was not acknowledged moves to retx_list.    *)
(***************************************************************************)
UpdateSlot ==
  LET slot == tx_ring_index(current_slot_number + 1)
      old_slot == tx_ring[slot]
      cleared == status \ {"DATA_PDU_ALLOCATED", "SHOULD_NOT_HAPPEN", "SPURIOUS_ACK_SN"}
  IN
  /\ current_slot_number' = slot
  /\ IF old_slot.acknowledged
     THEN /\ status' = status \ {"DATA_PDU_ALLOCATED"}
          /\ UNCHANGED <<tx_ring, sn_ring, retx_list, used_tx_slots>>
     ELSE /\ tx_ring' = [tx_ring EXCEPT ![slot] = IdleSlot]
          /\ used_tx_slots' = used_tx_slots - 1
          /\ IF sn_ring[old_slot.sn] = Free
             THEN /\ status' = cleared \cup {"SPURIOUS_ACK_SN", "SHOULD_NOT_HAPPEN"}
                  /\ UNCHANGED <<sn_ring, retx_list>>
             ELSE /\ status' = cleared
                  /\ sn_ring' = [sn_ring EXCEPT ![old_slot.sn] = Unchecked]
                  /\ retx_list' = Append(retx_list, [sn |-> old_slot.sn,
                                                     retry_count |-> old_slot.retry_count])
  /\ UNCHANGED <<sn_counter, pending_llc_pdu_count>>
-----------------------------------------------------------------------------
(* The first element of retx_list with this sequence number, if any. *)
FirstWithSn(k, sn) ==
  /\ retx_list[k].sn = sn
  /\ \A j \in 1..(k - 1) : retx_list[j].sn # sn

AckCleared == status \ {"SPURIOUS_ACK_SN", "SPURIOUS_ACK_TX", "SHOULD_NOT_HAPPEN"}

(* acknowledge(sn) for a PDU that waits in retx_list *)
AckUnchecked(sn) ==
  /\ IF \E k \in 1..Len(retx_list) : retx_list[k].sn = sn
     THEN /\ \E k \in 1..Len(retx_list) :
               FirstWithSn(k, sn) /\ retx_list' = RemoveAt(retx_list, k)
          /\ sn_ring' = [sn_ring EXCEPT ![sn] = Free]
          /\ pending_llc_pdu_count' = pending_llc_pdu_count - 1
          /\ status' = AckCleared
     ELSE /\ status' = AckCleared \cup {"SPURIOUS_ACK_SN", "SHOULD_NOT_HAPPEN"}
          /\ UNCHANGED <<retx_list, sn_ring, pending_llc_pdu_count>>
  /\ UNCHANGED <<tx_ring, used_tx_slots>>

(* Mutants: the sequence number of an acknowledged PDU stays in use; the   *)
(* slot is not counted as free again.                                      *)
AckChecked_keeps_sn(sn) ==
  LET i == sn_ring[sn] IN
  /\ ~tx_ring[i].acknowledged
  /\ tx_ring' = [tx_ring EXCEPT ![i] = IdleSlot]
  /\ pending_llc_pdu_count' = pending_llc_pdu_count - 1
  /\ used_tx_slots' = used_tx_slots - 1
  /\ status' = AckCleared
  /\ UNCHANGED <<sn_ring, retx_list>>

AckChecked_keeps_count(sn) ==
  LET i == sn_ring[sn] IN
  /\ ~tx_ring[i].acknowledged
  /\ tx_ring' = [tx_ring EXCEPT ![i] = IdleSlot]
  /\ pending_llc_pdu_count' = pending_llc_pdu_count - 1
  /\ sn_ring' = [sn_ring EXCEPT ![sn] = Free]
  /\ status' = AckCleared
  /\ UNCHANGED <<used_tx_slots, retx_list>>

(* acknowledge(sn) for a PDU that has a slot to be checked in *)
AckChecked(sn) ==
  LET i == sn_ring[sn] IN
  /\ IF ~tx_ring[i].acknowledged
     THEN /\ tx_ring' = [tx_ring EXCEPT ![i] = IdleSlot]
          /\ pending_llc_pdu_count' = pending_llc_pdu_count - 1
          /\ used_tx_slots' = used_tx_slots - 1
          /\ sn_ring' = [sn_ring EXCEPT ![sn] = Free]
          /\ status' = AckCleared
     ELSE /\ status' = AckCleared \cup {"SPURIOUS_ACK_TX"}
          /\ UNCHANGED <<tx_ring, pending_llc_pdu_count, used_tx_slots, sn_ring>>
  /\ UNCHANGED retx_list

Acknowledge(sn) ==
  /\ CASE sn_ring[sn] = Free ->
            /\ status' = AckCleared \cup {"SPURIOUS_ACK_SN"}
            /\ UNCHANGED <<tx_ring, sn_ring, retx_list, used_tx_slots, pending_llc_pdu_count>>
       [] sn_ring[sn] = Unchecked -> AckUnchecked(sn)
       [] OTHER -> AckChecked(sn)
  /\ UNCHANGED <<current_slot_number, sn_counter>>
-----------------------------------------------------------------------------
(* Mutant: the search starts one slot too early. *)
CheckIndex_mutant(retry_count, i) ==
  tx_ring_index(current_slot_number + recheck_slot_size(retry_count) - 1 + i)

(***************************************************************************)
(* enqueue_tx_check(llc_pdu, sn, retry_count): the first free slot at or   *)
(* after the recheck distance, looking at every slot of the ring once.     *)
(***************************************************************************)
CheckIndex(retry_count, i) ==
  tx_ring_index(current_slot_number + recheck_slot_size(retry_count) + i)

FreeAt(retry_count, i) == tx_ring[CheckIndex(retry_count, i)].acknowledged

HasTxSlot(retry_count) == \E i \in Index : FreeAt(retry_count, i)

FirstFree(retry_count, i) ==
  /\ FreeAt(retry_count, i)
  /\ \A j \in 0..(i - 1) : ~FreeAt(retry_count, j)

enqueue_tx_check(slot, sn, retry_count) ==
  /\ \E i \in Index : FirstFree(retry_count, i) /\ slot = CheckIndex(retry_count, i)
  /\ tx_ring' = [tx_ring EXCEPT ![slot] = [acknowledged |-> FALSE, sn |-> sn,
                                           retry_count |-> retry_count]]
  /\ used_tx_slots' = used_tx_slots + 1
  /\ sn_ring' = [sn_ring EXCEPT ![sn] = slot]

NotAllocated == "DATA_PDU_ALLOCATED" \notin status
-----------------------------------------------------------------------------
(* write_retransmission_pdu into a buffer too small for the first PDU *)
RetxTooSmall ==
  /\ NotAllocated
  /\ retx_list # <<>>
  /\ status' = status \cup {"WRITE_BUFFER_TOO_SMALL"}
  /\ UNCHANGED <<current_slot_number, sn_counter, tx_ring, sn_ring, retx_list,
                 used_tx_slots, pending_llc_pdu_count>>

RetxCleared == status \ {"WRITE_BUFFER_TOO_SMALL", "SPURIOUS_ACK_SN", "SHOULD_NOT_HAPPEN",
                         "SN_LOST"}

(* Mutant: the PDU is dropped, its sequence number stays in use. *)
RetxLost_mutant ==
  /\ NotAllocated
  /\ retx_list # <<>>
  /\ Head(retx_list).retry_count >= MaxRetx
  /\ retx_list' = Tail(retx_list)
  /\ pending_llc_pdu_count' = pending_llc_pdu_count - 1
  /\ status' = RetxCleared \cup {"SN_LOST"}
  /\ UNCHANGED <<current_slot_number, sn_counter, tx_ring, sn_ring, used_tx_slots>>

(* write_retransmission_pdu of a PDU that has used up its retransmissions *)
RetxLost ==
  /\ NotAllocated
  /\ retx_list # <<>>
  /\ Head(retx_list).retry_count >= MaxRetx
  /\ retx_list' = Tail(retx_list)
  /\ pending_llc_pdu_count' = pending_llc_pdu_count - 1
  /\ IF sn_ring[Head(retx_list).sn] = Free
     THEN /\ status' = (RetxCleared \cup (status \cap {"SN_LOST"}))
                         \cup {"SPURIOUS_ACK_SN", "SHOULD_NOT_HAPPEN"}
          /\ UNCHANGED sn_ring
     ELSE /\ status' = RetxCleared \cup {"SN_LOST"}
          /\ sn_ring' = [sn_ring EXCEPT ![Head(retx_list).sn] = Free]
  /\ UNCHANGED <<current_slot_number, sn_counter, tx_ring, used_tx_slots>>

(* write_retransmission_pdu of any other PDU *)
RetxWrite ==
  LET elem == Head(retx_list) IN
  /\ NotAllocated
  /\ retx_list # <<>>
  /\ elem.retry_count < MaxRetx
  /\ IF sn_ring[elem.sn] = Free
     THEN /\ status' = (RetxCleared \cup (status \cap {"SN_LOST"}))
                         \cup {"SPURIOUS_ACK_SN", "SHOULD_NOT_HAPPEN"}
          /\ retx_list' = Tail(retx_list)
          /\ pending_llc_pdu_count' = pending_llc_pdu_count - 1
          /\ UNCHANGED <<tx_ring, used_tx_slots, sn_ring>>
     ELSE IF HasTxSlot(elem.retry_count + 1)
     THEN /\ \E slot \in Index : enqueue_tx_check(slot, elem.sn, elem.retry_count + 1)
          /\ retx_list' = Tail(retx_list)
          /\ status' = (RetxCleared \ {"NO_TX_SLOT"}) \cup {"DATA_PDU_ALLOCATED"}
          /\ UNCHANGED pending_llc_pdu_count
     ELSE /\ status' = RetxCleared \cup {"NO_TX_SLOT"}
          /\ UNCHANGED <<tx_ring, used_tx_slots, sn_ring, retx_list, pending_llc_pdu_count>>
  /\ UNCHANGED <<current_slot_number, sn_counter>>
-----------------------------------------------------------------------------
(* write_llc_pdu of data while the next sequence number is still in use *)
WriteNoFreeSn ==
  /\ NotAllocated
  /\ sn_ring[sn_counter] # Free
  /\ status' = status \cup {"NO_FREE_SN"}
  /\ UNCHANGED <<current_slot_number, sn_counter, tx_ring, sn_ring, retx_list,
                 used_tx_slots, pending_llc_pdu_count>>

(* write_llc_pdu of a buffer that is no valid LLC PDU; an ACK does not     *)
(* look at the sequence number.                                            *)
WriteInvalid ==
  /\ NotAllocated
  /\ \/ /\ sn_ring[sn_counter] = Free
        /\ status' = (status \ {"NO_FREE_SN"}) \cup {"INVALID_LLC_PDU"}
     \/ status' = status \cup {"INVALID_LLC_PDU"}
  /\ UNCHANGED <<current_slot_number, sn_counter, tx_ring, sn_ring, retx_list,
                 used_tx_slots, pending_llc_pdu_count>>

(* write_llc_pdu of a data PDU *)
WriteData ==
  /\ NotAllocated
  /\ sn_ring[sn_counter] = Free
  /\ IF HasTxSlot(0)
     THEN /\ \E slot \in Index : enqueue_tx_check(slot, sn_counter, 0)
          /\ sn_counter' = NextSn(sn_counter)
          /\ pending_llc_pdu_count' = pending_llc_pdu_count + 1
          /\ status' = (status \ {"NO_FREE_SN", "INVALID_LLC_PDU", "NO_TX_SLOT"})
                         \cup {"DATA_PDU_ALLOCATED"}
     ELSE /\ status' = (status \ {"NO_FREE_SN", "INVALID_LLC_PDU"}) \cup {"NO_TX_SLOT"}
          /\ UNCHANGED <<sn_counter, tx_ring, sn_ring, used_tx_slots, pending_llc_pdu_count>>
  /\ UNCHANGED <<current_slot_number, retx_list>>

(* write_llc_pdu of an ACK PDU: it has SN 0 on the air, but uses up a      *)
(* sequence number.                                                        *)
WriteAck ==
  /\ NotAllocated
  /\ status' = status \ {"INVALID_LLC_PDU"}
  /\ sn_counter' = NextSn(sn_counter)
  /\ UNCHANGED <<current_slot_number, tx_ring, sn_ring, retx_list, used_tx_slots,
                 pending_llc_pdu_count>>
-----------------------------------------------------------------------------
Next ==
  \/ Reset
  \/ SkipSlot
  \/ UpdateSlot
  \/ \E sn \in Sn : Acknowledge(sn)
  \/ RetxTooSmall
  \/ RetxLost
  \/ RetxWrite
  \/ WriteNoFreeSn
  \/ WriteInvalid
  \/ WriteData
  \/ WriteAck

Spec == Init /\ [][Next]_vars
-----------------------------------------------------------------------------
RingElem == [acknowledged : BOOLEAN, sn : Sn, retry_count : 0..MaxRetx]
RetxElem == [sn : Sn, retry_count : 0..MaxRetx]

(* The fields have the types of llc_ul.hpp, and no PDU is retransmitted    *)
(* more than max_retx_count times.                                         *)
TypeOK ==
  /\ status \in SUBSET StatusBit
  /\ current_slot_number \in Index
  /\ sn_counter \in Sn
  /\ tx_ring \in [Index -> RingElem]
  /\ sn_ring \in [Sn -> Index \cup {Free, Unchecked}]
  /\ retx_list \in Seq(RetxElem)
  /\ used_tx_slots \in Int
  /\ pending_llc_pdu_count \in Int

(* Every slot that checks a PDU is where sn_ring says that PDU is. *)
RingTracked ==
  \A i \in Index : ~tx_ring[i].acknowledged => sn_ring[tx_ring[i].sn] = i

(* A sequence number that points to a slot finds its own PDU there, unacknowledged. *)
SnTracked ==
  \A n \in Sn : sn_ring[n] \in Index =>
    ~tx_ring[sn_ring[n]].acknowledged /\ tx_ring[sn_ring[n]].sn = n

(* The sequence numbers without a slot are those in retx_list, once each. *)
RetxTracked ==
  /\ \A k \in 1..Len(retx_list) : sn_ring[retx_list[k].sn] = Unchecked
  /\ \A n \in Sn : sn_ring[n] = Unchecked =>
       \E k \in 1..Len(retx_list) : retx_list[k].sn = n
  /\ \A j, k \in 1..Len(retx_list) : retx_list[j].sn = retx_list[k].sn => j = k

(***************************************************************************)
(* The three structures agree on where every unacknowledged PDU is: it is  *)
(* in exactly one of tx_ring and retx_list, under a sequence number no     *)
(* other one has.                                                          *)
(***************************************************************************)
Consistent == RingTracked /\ SnTracked /\ RetxTracked

(* The slot the transmitter is in is free until a data PDU is written in it. *)
CurrentSlotFree == NotAllocated => tx_ring[current_slot_number].acknowledged

(***************************************************************************)
(* No sequence of slots, writes and ACKs, however late or repeated, makes  *)
(* the transmitter report an internal error (SHOULD_NOT_HAPPEN), an ACK    *)
(* for a slot that is acknowledged already (SPURIOUS_ACK_TX) or a full     *)
(* tx_ring (NO_TX_SLOT).  llc_ul.hpp documents the last two as outcomes,   *)
(* and llc_ul.cpp:144 notes of the second that it "can happen if ack got   *)
(* duplicated"; but acknowledge frees the sequence number together with    *)
(* the slot, so a repeated ACK finds no entry in sn_ring and is reported   *)
(* as SPURIOUS_ACK_SN.                                                     *)
(***************************************************************************)
NoInternalError ==
  status \cap {"SHOULD_NOT_HAPPEN", "SPURIOUS_ACK_TX", "NO_TX_SLOT"} = {}

(***************************************************************************)
(* The counters that get_free_tx_slot and get_pending_llc_pdu_count report *)
(* are the number of slots and of sequence numbers in use.                 *)
(***************************************************************************)
UsedSlots == {i \in Index : ~tx_ring[i].acknowledged}
UsedSns == {n \in Sn : sn_ring[n] # Free}
CountersExact ==
  /\ used_tx_slots = Cardinality(UsedSlots)
  /\ pending_llc_pdu_count = Cardinality(UsedSns)
  /\ pending_llc_pdu_count = used_tx_slots + Len(retx_list)

(***************************************************************************)
(* A PDU is checked no sooner than its recheck distance: when it is put    *)
(* into a slot, at least recheck_slot_size(retry_count) slots pass before  *)
(* that slot comes up.                                                     *)
(***************************************************************************)
SlotsUntil(i) == ((i - current_slot_number - 1) % TxSize) + 1
NotCheckedEarly ==
  [][\A i \in Index :
       (tx_ring[i].acknowledged /\ ~tx_ring'[i].acknowledged)
       => SlotsUntil(i) >= recheck_slot_size(tx_ring'[i].retry_count)]_vars

(***************************************************************************)
(* Every data PDU is acknowledged or reported lost in the end: its         *)
(* sequence number becomes free again.  The caller must advance the slot,  *)
(* and give retransmissions their turn in some slots.                      *)
(***************************************************************************)
Retransmit == RetxLost \/ RetxWrite
FairSpec == Spec /\ WF_vars(UpdateSlot) /\ SF_vars(Retransmit)
SnFreedAgain == \A n \in Sn : (sn_ring[n] # Free) ~> (sn_ring[n] = Free)
=============================================================================
