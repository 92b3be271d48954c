---------------------------- MODULE LlcUlProofs ----------------------------
(***************************************************************************)
(* Proofs about the transmitter of module LlcUl, for every configuration   *)
(* that validate_config accepts.  The inductive invariant IInv is the      *)
(* conjunction of TypeOK, Consistent, CurrentSlotFree and NoInternalError: *)
(* an internal error is out of reach because the structures agree, and a   *)
(* slot is always found because the current one is kept free.              *)
(***************************************************************************)
EXTENDS LlcUl, FiniteSetTheorems, SequenceTheorems, TLAPS

(* tx_ring_index yields a slot of tx_ring. *)
LEMMA IndexType ==
  ASSUME NEW x \in Nat
  PROVE  tx_ring_index(x) \in Index
BY ConfigAssumption DEF tx_ring_index, Index

(* The sequence number counter stays within the SN space. *)
LEMMA NextSnType ==
  ASSUME NEW n \in Sn
  PROVE  NextSn(n) \in Sn
BY ConfigAssumption DEF NextSn, Sn

(* recheck_slot_size is a distance: it is never negative. *)
LEMMA RecheckType ==
  ASSUME NEW r \in Nat
  PROVE  recheck_slot_size(r) \in Nat
<1> DEFINE m == MaxRecheck - MinRecheck
<1>1. m \in Nat
  BY ConfigAssumption
<1>2. r * m \in Nat
  BY <1>1
<1> HIDE DEF m
<1>3. (r * m) \div MaxRetx \in Nat
  BY <1>2, ConfigAssumption
<1>4. QED
  BY <1>3, ConfigAssumption DEF recheck_slot_size, m

(* What retx_list.erase does: the elements behind the erased one move up. *)
LEMMA RemoveAtFacts ==
  ASSUME NEW S, NEW s \in Seq(S), NEW k \in 1..Len(s)
  PROVE  /\ RemoveAt(s, k) \in Seq(S)
         /\ Len(RemoveAt(s, k)) = Len(s) - 1
         /\ \A j \in 1..(Len(s) - 1) :
              RemoveAt(s, k)[j] = IF j < k THEN s[j] ELSE s[j + 1]
<1> DEFINE u == SubSeq(s, 1, k - 1)
           v == SubSeq(s, k + 1, Len(s))
<1>1. u \in Seq(S) /\ Len(u) = k - 1 /\ \A j \in 1..(k - 1) : u[j] = s[j]
  OBVIOUS
<1>2. /\ v \in Seq(S)
      /\ Len(v) = Len(s) - k
      /\ \A j \in 1..(Len(s) - k) : v[j] = s[k + j]
  OBVIOUS
<1>3. RemoveAt(s, k) = u \o v
  BY DEF RemoveAt
<1> HIDE DEF u, v
<1>4. /\ u \o v \in Seq(S)
      /\ Len(u \o v) = Len(u) + Len(v)
      /\ \A j \in 1..(Len(u) + Len(v)) :
           (u \o v)[j] = IF j <= Len(u) THEN u[j] ELSE v[j - Len(u)]
  BY <1>1, <1>2, ConcatProperties
<1>5. Len(s) \in Nat
  OBVIOUS
<1>6. ASSUME NEW j \in 1..(Len(s) - 1)
      PROVE  RemoveAt(s, k)[j] = IF j < k THEN s[j] ELSE s[j + 1]
  <2>1. CASE j < k
    BY <2>1, <1>1, <1>2, <1>3, <1>4, <1>5
  <2>2. CASE ~(j < k)
    <3>1. j - Len(u) \in 1..(Len(s) - k) /\ k + (j - Len(u)) = j + 1
      BY <2>2, <1>1, <1>5
    <3>2. (u \o v)[j] = v[j - Len(u)]
      BY <2>2, <1>1, <1>2, <1>4, <1>5
    <3>3. QED
      BY <2>2, <3>1, <3>2, <1>2, <1>3
  <2>3. QED
    BY <2>1, <2>2
<1>7. QED
  BY <1>1, <1>2, <1>3, <1>4, <1>5, <1>6
-----------------------------------------------------------------------------
(* The slot that enqueue_tx_check finds was free. *)
LEMMA EnqueueFacts ==
  ASSUME TypeOK, NEW slot \in Index, NEW sn \in Sn, NEW r \in 0..MaxRetx,
         enqueue_tx_check(slot, sn, r)
  PROVE  /\ tx_ring[slot].acknowledged
         /\ tx_ring' = [tx_ring EXCEPT ![slot] = [acknowledged |-> FALSE, sn |-> sn,
                                                  retry_count |-> r]]
         /\ sn_ring' = [sn_ring EXCEPT ![sn] = slot]
         /\ used_tx_slots' = used_tx_slots + 1
BY DEF enqueue_tx_check, FirstFree, FreeAt

(* enqueue_tx_check keeps the types of what it writes. *)
LEMMA EnqueueType ==
  ASSUME TypeOK, NEW slot \in Index, NEW sn \in Sn, NEW r \in 0..MaxRetx,
         enqueue_tx_check(slot, sn, r)
  PROVE  /\ tx_ring' \in [Index -> RingElem]
         /\ sn_ring' \in [Sn -> Index \cup {Free, Unchecked}]
         /\ used_tx_slots' \in Int
<1>1. [acknowledged |-> FALSE, sn |-> sn, retry_count |-> r] \in RingElem
  BY DEF RingElem
<1>2. /\ tx_ring' = [tx_ring EXCEPT ![slot] = [acknowledged |-> FALSE, sn |-> sn,
                                               retry_count |-> r]]
      /\ sn_ring' = [sn_ring EXCEPT ![sn] = slot]
      /\ used_tx_slots' = used_tx_slots + 1
  BY EnqueueFacts
<1>3. QED
  BY <1>1, <1>2 DEF TypeOK

(* Every entry of retx_list carries a sequence number of the SN space. *)
LEMMA RetxSn ==
  ASSUME TypeOK, NEW k \in 1..Len(retx_list)
  PROVE  retx_list[k].sn \in Sn
<1>1. retx_list[k] \in RetxElem
  BY DEF TypeOK
<1>2. QED
  BY <1>1 DEF RetxElem

(* Head and tail of a retx_list that is not empty. *)
LEMMA RetxHead ==
  ASSUME TypeOK, retx_list # <<>>
  PROVE  /\ Head(retx_list) \in RetxElem
         /\ Head(retx_list) = retx_list[1]
         /\ Len(retx_list) \in Nat /\ Len(retx_list) >= 1
         /\ Tail(retx_list) \in Seq(RetxElem)
         /\ Len(Tail(retx_list)) = Len(retx_list) - 1
         /\ \A k \in 1..(Len(retx_list) - 1) : Tail(retx_list)[k] = retx_list[k + 1]
BY HeadTailProperties DEF TypeOK

(* A new llc_ul has the types of TypeOK. *)
LEMMA InitType == Init => TypeOK
<1> SUFFICES ASSUME Init PROVE TypeOK
  OBVIOUS
<1>1. 0 \in Index /\ 0 \in Sn /\ 0 \in 0..MaxRetx
  BY ConfigAssumption DEF Index, Sn
<1>2. IdleSlot \in RingElem
  BY <1>1 DEF IdleSlot, RingElem
<1>3. QED
  BY <1>1, <1>2 DEF Init, TypeOK

(* Every call of llc_ul keeps the types of TypeOK. *)
LEMMA NextType == TypeOK /\ [Next]_vars => TypeOK'
<1> SUFFICES ASSUME TypeOK, [Next]_vars PROVE TypeOK'
  OBVIOUS
<1>0. /\ 0 \in Index /\ 0 \in Sn /\ 0 \in 0..MaxRetx
      /\ IdleSlot \in RingElem
  BY ConfigAssumption DEF Index, Sn, IdleSlot, RingElem
<1>1. CASE Reset
  BY <1>0, <1>1 DEF Reset, TypeOK
<1>2. CASE SkipSlot
  BY <1>2 DEF SkipSlot, TypeOK, StatusBit
<1>3. CASE UpdateSlot
  <2> DEFINE slot == tx_ring_index(current_slot_number + 1)
             old_slot == tx_ring[slot]
  <2>1. slot \in Index /\ old_slot \in RingElem
    BY ConfigAssumption, IndexType DEF TypeOK, Index
  <2>2. old_slot.sn \in Sn /\ [sn |-> old_slot.sn, retry_count |-> old_slot.retry_count] \in RetxElem
    BY <2>1 DEF RingElem, RetxElem
  <2>3. Append(retx_list, [sn |-> old_slot.sn, retry_count |-> old_slot.retry_count])
          \in Seq(RetxElem)
    BY <2>2, AppendProperties DEF TypeOK
  <2> HIDE DEF slot
  <2>4. status' \in SUBSET StatusBit
    BY <1>3 DEF UpdateSlot, TypeOK, StatusBit
  <2>5. retx_list' \in Seq(RetxElem)
    BY <1>3, <2>3 DEF UpdateSlot, TypeOK, slot
  <2>6. QED
    BY <1>0, <1>3, <2>1, <2>2, <2>4, <2>5 DEF UpdateSlot, TypeOK, slot
<1>4. ASSUME NEW sn \in Sn, Acknowledge(sn)
      PROVE  TypeOK'
  <2>1. CASE sn_ring[sn] = Free
    <3>1. status' \in SUBSET StatusBit
      BY <1>4, <2>1 DEF Acknowledge, AckCleared, TypeOK, StatusBit, Free, Unchecked
    <3>2. QED
      BY <1>4, <2>1, <3>1 DEF Acknowledge, TypeOK, Free, Unchecked
  <2>2. CASE sn_ring[sn] = Unchecked
    <3>1. sn_ring[sn] # Free
      BY <2>2 DEF Free, Unchecked
    <3>2. AckUnchecked(sn) /\ UNCHANGED <<current_slot_number, sn_counter>>
      BY <1>4, <2>2, <3>1 DEF Acknowledge
    <3>3. \A k \in 1..Len(retx_list) : RemoveAt(retx_list, k) \in Seq(RetxElem)
      BY RemoveAtFacts DEF TypeOK
    <3>4. retx_list' \in Seq(RetxElem)
      BY <3>2, <3>3 DEF AckUnchecked, TypeOK
    <3>5. status' \in SUBSET StatusBit
      BY <3>2 DEF AckUnchecked, AckCleared, TypeOK, StatusBit
    <3>6. QED
      BY <3>2, <3>4, <3>5 DEF AckUnchecked, TypeOK
  <2>3. CASE sn_ring[sn] \notin {Free, Unchecked}
    <3>1. AckChecked(sn) /\ UNCHANGED <<current_slot_number, sn_counter>>
      BY <1>4, <2>3 DEF Acknowledge
    <3>2. status' \in SUBSET StatusBit
      BY <3>1 DEF AckChecked, AckCleared, TypeOK, StatusBit
    <3>3. QED
      BY <1>0, <2>3, <3>1, <3>2 DEF AckChecked, TypeOK
  <2>4. QED
    BY <2>1, <2>2, <2>3
<1>5. CASE RetxTooSmall
  BY <1>5 DEF RetxTooSmall, TypeOK, StatusBit
<1>6. CASE RetxLost
  <2>1. Head(retx_list) \in RetxElem /\ Tail(retx_list) \in Seq(RetxElem)
    BY <1>6, RetxHead DEF RetxLost
  <2>2. status' \in SUBSET StatusBit
    BY <1>6 DEF RetxLost, RetxCleared, TypeOK, StatusBit
  <2>3. Head(retx_list).sn \in Sn
    BY <2>1 DEF RetxElem
  <2>4. QED
    BY <1>6, <2>1, <2>2, <2>3 DEF RetxLost, TypeOK
<1>7. CASE RetxWrite
  <2> DEFINE elem == Head(retx_list)
  <2>1. elem \in RetxElem /\ Tail(retx_list) \in Seq(RetxElem)
    BY <1>7, RetxHead DEF RetxWrite
  <2>2. elem.sn \in Sn /\ elem.retry_count + 1 \in 0..MaxRetx
    BY <1>7, <2>1, ConfigAssumption DEF RetxWrite, RetxElem
  <2>3. ASSUME NEW slot \in Index, enqueue_tx_check(slot, elem.sn, elem.retry_count + 1)
        PROVE  /\ tx_ring' \in [Index -> RingElem]
               /\ sn_ring' \in [Sn -> Index \cup {Free, Unchecked}]
               /\ used_tx_slots' \in Int
    BY <2>2, <2>3, EnqueueType
  <2>4. status' \in SUBSET StatusBit
    BY <1>7 DEF RetxWrite, RetxCleared, TypeOK, StatusBit
  <2>5. QED
    BY <1>7, <2>1, <2>3, <2>4 DEF RetxWrite, TypeOK
<1>8. CASE WriteNoFreeSn
  BY <1>8 DEF WriteNoFreeSn, TypeOK, StatusBit
<1>9. CASE WriteInvalid
  BY <1>9 DEF WriteInvalid, TypeOK, StatusBit
<1>10. CASE WriteData
  <2>1. sn_counter \in Sn /\ NextSn(sn_counter) \in Sn
    BY NextSnType DEF TypeOK
  <2>2. ASSUME NEW slot \in Index, enqueue_tx_check(slot, sn_counter, 0)
        PROVE  /\ tx_ring' \in [Index -> RingElem]
               /\ sn_ring' \in [Sn -> Index \cup {Free, Unchecked}]
               /\ used_tx_slots' \in Int
    BY <1>0, <2>1, <2>2, EnqueueType
  <2>3. status' \in SUBSET StatusBit
    BY <1>10 DEF WriteData, TypeOK, StatusBit
  <2>4. QED
    BY <1>10, <2>1, <2>2, <2>3 DEF WriteData, TypeOK
<1>11. CASE WriteAck
  BY <1>11, NextSnType DEF WriteAck, TypeOK
<1>12. CASE UNCHANGED vars
  BY <1>12 DEF vars, TypeOK
<1>13. QED
  BY <1>1, <1>2, <1>3, <1>4, <1>5, <1>6, <1>7, <1>8, <1>9, <1>10, <1>11, <1>12 DEF Next
-----------------------------------------------------------------------------
(* A new llc_ul tracks no PDU anywhere. *)
LEMMA InitConsistent == Init => Consistent
<1> SUFFICES ASSUME Init PROVE Consistent
  OBVIOUS
<1>1. RingTracked
  BY DEF Init, RingTracked, IdleSlot
<1>2. SnTracked
  BY DEF Init, SnTracked, Free, Index
<1>3. RetxTracked
  BY DEF Init, RetxTracked, Free, Unchecked
<1>4. QED
  BY <1>1, <1>2, <1>3 DEF Consistent

(* A PDU whose check comes up moves from tx_ring to retx_list. *)
LEMMA CheckFailed ==
  ASSUME TypeOK, Consistent, NEW slot \in Index, ~tx_ring[slot].acknowledged,
         NEW sn, sn = tx_ring[slot].sn,
         NEW e \in RetxElem, e.sn = sn,
         tx_ring' = [tx_ring EXCEPT ![slot] = IdleSlot],
         sn_ring' = [sn_ring EXCEPT ![sn] = Unchecked],
         retx_list' = Append(retx_list, e)
  PROVE  Consistent'
<1>1. sn \in Sn /\ sn_ring[sn] = slot
  BY DEF TypeOK, Consistent, RingTracked, RingElem
<1>2. RingTracked'
  BY <1>1 DEF RingTracked, Consistent, TypeOK, IdleSlot, RingElem
<1>3. SnTracked'
  BY <1>1 DEF SnTracked, Consistent, TypeOK, Unchecked, Index, RingElem
<1>4. /\ Len(retx_list) \in Nat
      /\ Len(retx_list') = Len(retx_list) + 1
      /\ \A k \in 1..Len(retx_list) : retx_list'[k] = retx_list[k]
      /\ retx_list'[Len(retx_list) + 1] = e
  BY AppendProperties DEF TypeOK
<1>5. \A k \in 1..Len(retx_list) : retx_list[k].sn \in Sn /\ retx_list[k].sn # sn
  BY <1>1, RetxSn DEF RetxTracked, Consistent, Unchecked, Index
<1>6. \A k \in 1..Len(retx_list') : sn_ring'[retx_list'[k].sn] = Unchecked
  BY <1>1, <1>4, <1>5 DEF RetxTracked, Consistent, TypeOK
<1>7. ASSUME NEW n \in Sn, sn_ring'[n] = Unchecked
      PROVE  \E k \in 1..Len(retx_list') : retx_list'[k].sn = n
  <2>1. CASE n = sn
    BY <2>1, <1>4
  <2>2. CASE n # sn
    <3>1. PICK k \in 1..Len(retx_list) : retx_list[k].sn = n
      BY <1>7, <2>2, <1>1 DEF RetxTracked, Consistent, TypeOK
    <3>2. QED
      BY <3>1, <1>4
  <2>3. QED
    BY <2>1, <2>2
<1>8. \A j, k \in 1..Len(retx_list') : retx_list'[j].sn = retx_list'[k].sn => j = k
  BY <1>4, <1>5 DEF RetxTracked, Consistent
<1>9. QED
  BY <1>2, <1>3, <1>6, <1>7, <1>8 DEF Consistent, RetxTracked

(* An acknowledged PDU leaves tx_ring. *)
LEMMA CheckedAcknowledged ==
  ASSUME TypeOK, Consistent, NEW sn \in Sn, sn_ring[sn] \in Index,
         tx_ring' = [tx_ring EXCEPT ![sn_ring[sn]] = IdleSlot],
         sn_ring' = [sn_ring EXCEPT ![sn] = Free],
         retx_list' = retx_list
  PROVE  Consistent'
<1>1. ~tx_ring[sn_ring[sn]].acknowledged /\ tx_ring[sn_ring[sn]].sn = sn
  BY DEF Consistent, SnTracked
<1>2. RingTracked'
  BY <1>1 DEF RingTracked, Consistent, TypeOK, IdleSlot, RingElem
<1>3. SnTracked'
  BY <1>1 DEF SnTracked, Consistent, TypeOK, Free, Index, RingElem
<1>4. \A k \in 1..Len(retx_list) : retx_list[k].sn \in Sn /\ retx_list[k].sn # sn
  BY RetxSn DEF RetxTracked, Consistent, Unchecked, Index
<1>5. RetxTracked'
  BY <1>4 DEF RetxTracked, Consistent, TypeOK, Free, Unchecked
<1>6. QED
  BY <1>2, <1>3, <1>5 DEF Consistent

(* The PDU at place k of retx_list is acknowledged or lost. *)
LEMMA RetxRemoved ==
  ASSUME TypeOK, Consistent, NEW k \in 1..Len(retx_list),
         NEW list \in Seq(RetxElem), Len(list) = Len(retx_list) - 1,
         \A j \in 1..(Len(retx_list) - 1) :
            list[j] = IF j < k THEN retx_list[j] ELSE retx_list[j + 1],
         tx_ring' = tx_ring,
         sn_ring' = [sn_ring EXCEPT ![retx_list[k].sn] = Free],
         retx_list' = list
  PROVE  Consistent'
<1> DEFINE sn == retx_list[k].sn
<1>0. Len(retx_list) \in Nat
  BY DEF TypeOK
<1>1. sn \in Sn /\ sn_ring[sn] = Unchecked
  BY RetxSn DEF Consistent, RetxTracked
<1>2. RingTracked'
  BY <1>1 DEF RingTracked, Consistent, TypeOK, RingElem, Unchecked, Index
<1>3. SnTracked'
  BY <1>1 DEF SnTracked, Consistent, TypeOK, Free, Index
<1>4. \A j \in 1..Len(retx_list) : retx_list[j].sn \in Sn
  BY RetxSn
<1>5. \A j \in 1..(Len(retx_list) - 1) :
        IF j < k THEN list[j] = retx_list[j] /\ j \in 1..Len(retx_list) /\ j # k
                 ELSE list[j] = retx_list[j + 1] /\ j + 1 \in 1..Len(retx_list) /\ j + 1 # k
  BY <1>0
<1>6. \A j \in 1..Len(list) : list[j].sn # sn /\ sn_ring[list[j].sn] = Unchecked
                                /\ list[j].sn \in Sn
  BY <1>0, <1>4, <1>5 DEF Consistent, RetxTracked
<1>7. \A j \in 1..Len(retx_list') : sn_ring'[retx_list'[j].sn] = Unchecked
  BY <1>1, <1>6 DEF TypeOK
<1>8. ASSUME NEW n \in Sn, sn_ring'[n] = Unchecked
      PROVE  \E j \in 1..Len(retx_list') : retx_list'[j].sn = n
  <2>1. n # sn /\ sn_ring[n] = Unchecked
    BY <1>8, <1>1 DEF TypeOK, Free, Unchecked
  <2>2. PICK j \in 1..Len(retx_list) : retx_list[j].sn = n
    BY <2>1 DEF Consistent, RetxTracked
  <2>3. j # k
    BY <2>1, <2>2
  <2>4. CASE j < k
    BY <2>2, <2>4, <1>0
  <2>5. CASE j > k
    <3>1. j - 1 \in 1..Len(list) /\ list[j - 1] = retx_list[j]
      BY <2>5, <1>0
    <3>2. QED
      BY <3>1, <2>2
  <2>6. QED
    BY <2>3, <2>4, <2>5, <1>0
<1>9. \A i, j \in 1..Len(retx_list') : retx_list'[i].sn = retx_list'[j].sn => i = j
  BY <1>0, <1>5 DEF Consistent, RetxTracked
<1>10. QED
  BY <1>2, <1>3, <1>7, <1>8, <1>9 DEF Consistent, RetxTracked

(* A data PDU is put into a free slot for the first time. *)
LEMMA PlacedFirst ==
  ASSUME TypeOK, Consistent, NEW slot \in Index, tx_ring[slot].acknowledged,
         NEW sn \in Sn, sn_ring[sn] = Free, NEW r,
         tx_ring' = [tx_ring EXCEPT ![slot] = [acknowledged |-> FALSE, sn |-> sn,
                                              retry_count |-> r]],
         sn_ring' = [sn_ring EXCEPT ![sn] = slot],
         retx_list' = retx_list
  PROVE  Consistent'
<1>1. \A i \in Index : ~tx_ring[i].acknowledged => i # slot /\ tx_ring[i].sn # sn
  BY DEF Consistent, RingTracked, Free, Index
<1>2. RingTracked'
  BY <1>1 DEF RingTracked, Consistent, TypeOK, RingElem
<1>3. SnTracked'
  BY <1>1 DEF SnTracked, Consistent, TypeOK
<1>4. \A k \in 1..Len(retx_list) : retx_list[k].sn \in Sn /\ retx_list[k].sn # sn
  BY RetxSn DEF RetxTracked, Consistent, Free, Unchecked
<1>5. RetxTracked'
  BY <1>4 DEF RetxTracked, Consistent, TypeOK, Unchecked, Index
<1>6. QED
  BY <1>2, <1>3, <1>5 DEF Consistent

(* The first PDU of retx_list is put into a free slot. *)
LEMMA PlacedAgain ==
  ASSUME TypeOK, Consistent, NEW slot \in Index, tx_ring[slot].acknowledged,
         retx_list # <<>>, NEW sn, sn = Head(retx_list).sn, NEW r,
         tx_ring' = [tx_ring EXCEPT ![slot] = [acknowledged |-> FALSE, sn |-> sn,
                                              retry_count |-> r]],
         sn_ring' = [sn_ring EXCEPT ![sn] = slot],
         retx_list' = Tail(retx_list)
  PROVE  Consistent'
<1>0. /\ Len(retx_list) \in Nat /\ Len(retx_list) >= 1
      /\ sn = retx_list[1].sn
      /\ Len(retx_list') = Len(retx_list) - 1
      /\ \A k \in 1..(Len(retx_list) - 1) : retx_list'[k] = retx_list[k + 1]
  BY RetxHead
<1>1. sn \in Sn /\ sn_ring[sn] = Unchecked
  BY <1>0, RetxSn DEF Consistent, RetxTracked
<1>2. \A i \in Index : ~tx_ring[i].acknowledged => i # slot /\ tx_ring[i].sn # sn
  BY <1>1 DEF Consistent, RingTracked, Unchecked, Index
<1>3. RingTracked'
  BY <1>1, <1>2 DEF RingTracked, Consistent, TypeOK, RingElem
<1>4. SnTracked'
  BY <1>1, <1>2 DEF SnTracked, Consistent, TypeOK
<1>5. \A k \in 1..Len(retx_list') :
        /\ k + 1 \in 1..Len(retx_list)
        /\ retx_list'[k] = retx_list[k + 1]
        /\ retx_list[k + 1].sn \in Sn
        /\ retx_list[k + 1].sn # sn
  BY <1>0, RetxSn DEF Consistent, RetxTracked
<1>6. \A k \in 1..Len(retx_list') : sn_ring'[retx_list'[k].sn] = Unchecked
  BY <1>1, <1>5 DEF Consistent, RetxTracked, TypeOK
<1>7. ASSUME NEW n \in Sn, sn_ring'[n] = Unchecked
      PROVE  \E k \in 1..Len(retx_list') : retx_list'[k].sn = n
  <2>1. n # sn /\ sn_ring[n] = Unchecked
    BY <1>1, <1>7 DEF TypeOK, Unchecked, Index
  <2>2. PICK k \in 1..Len(retx_list) : retx_list[k].sn = n
    BY <2>1 DEF Consistent, RetxTracked
  <2>3. k - 1 \in 1..Len(retx_list') /\ retx_list'[k - 1] = retx_list[k]
    BY <1>0, <2>1, <2>2
  <2>4. QED
    BY <2>2, <2>3
<1>8. \A j, k \in 1..Len(retx_list') : retx_list'[j].sn = retx_list'[k].sn => j = k
  <2>1. TAKE j, k \in 1..Len(retx_list')
  <2>2. HAVE retx_list'[j].sn = retx_list'[k].sn
  <2>3. j + 1 = k + 1
    BY <1>5, <2>2 DEF Consistent, RetxTracked
  <2>4. QED
    BY <2>3, <1>0
<1>9. QED
  BY <1>3, <1>4, <1>6, <1>7, <1>8 DEF Consistent, RetxTracked

(* Every call of llc_ul keeps tx_ring, sn_ring and retx_list in agreement. *)
LEMMA NextConsistent == TypeOK /\ Consistent /\ [Next]_vars => Consistent'
<1> SUFFICES ASSUME TypeOK, Consistent, [Next]_vars PROVE Consistent'
  OBVIOUS
<1>u. ASSUME UNCHANGED <<tx_ring, sn_ring, retx_list>> PROVE Consistent'
  BY <1>u DEF Consistent, RingTracked, SnTracked, RetxTracked
<1>1. CASE Reset
  <2>1. RingTracked'
    BY <1>1 DEF Reset, RingTracked, IdleSlot
  <2>2. SnTracked'
    BY <1>1 DEF Reset, SnTracked, Free, Index
  <2>3. RetxTracked'
    BY <1>1 DEF Reset, RetxTracked, Free, Unchecked
  <2>4. QED
    BY <2>1, <2>2, <2>3 DEF Consistent
<1>2. CASE SkipSlot
  BY <1>2, <1>u DEF SkipSlot
<1>3. CASE UpdateSlot
  <2> DEFINE slot == tx_ring_index(current_slot_number + 1)
             old_slot == tx_ring[slot]
  <2>1. slot \in Index /\ old_slot \in RingElem
    BY ConfigAssumption, IndexType DEF TypeOK, Index
  <2> HIDE DEF slot
  <2>2. CASE old_slot.acknowledged
    BY <1>3, <1>u, <2>2 DEF UpdateSlot, slot
  <2>3. CASE ~old_slot.acknowledged
    <3> DEFINE e == [sn |-> old_slot.sn, retry_count |-> old_slot.retry_count]
    <3>1. e \in RetxElem
      BY <2>1 DEF RingElem, RetxElem
    <3>2. sn_ring[old_slot.sn] # Free
      BY <2>1, <2>3 DEF Consistent, RingTracked, Free, Index
    <3>3. /\ tx_ring' = [tx_ring EXCEPT ![slot] = IdleSlot]
          /\ sn_ring' = [sn_ring EXCEPT ![old_slot.sn] = Unchecked]
          /\ retx_list' = Append(retx_list, e)
      BY <1>3, <2>3, <3>2 DEF UpdateSlot, slot
    <3>4. QED
      BY <2>1, <2>3, <3>1, <3>3, CheckFailed
  <2>4. QED
    BY <2>2, <2>3
<1>4. ASSUME NEW sn \in Sn, Acknowledge(sn)
      PROVE  Consistent'
  <2>1. CASE sn_ring[sn] = Free
    BY <1>4, <1>u, <2>1 DEF Acknowledge, Free, Unchecked
  <2>2. CASE sn_ring[sn] = Unchecked
    <3>1. AckUnchecked(sn)
      BY <1>4, <2>2 DEF Acknowledge, Free, Unchecked
    <3>2. PICK k \in 1..Len(retx_list) :
            FirstWithSn(k, sn) /\ retx_list' = RemoveAt(retx_list, k)
      BY <2>2, <3>1 DEF AckUnchecked, Consistent, RetxTracked
    <3>3. /\ retx_list[k].sn = sn
          /\ sn_ring' = [sn_ring EXCEPT ![sn] = Free]
          /\ tx_ring' = tx_ring
      BY <3>1, <3>2 DEF AckUnchecked, FirstWithSn
    <3>4. /\ RemoveAt(retx_list, k) \in Seq(RetxElem)
          /\ Len(RemoveAt(retx_list, k)) = Len(retx_list) - 1
          /\ \A j \in 1..(Len(retx_list) - 1) :
               RemoveAt(retx_list, k)[j] = IF j < k THEN retx_list[j] ELSE retx_list[j + 1]
      BY RemoveAtFacts DEF TypeOK
    <3>5. QED
      BY <3>2, <3>3, <3>4, RetxRemoved
  <2>3. CASE sn_ring[sn] \notin {Free, Unchecked}
    <3>1. AckChecked(sn) /\ sn_ring[sn] \in Index
      BY <1>4, <2>3 DEF Acknowledge, TypeOK
    <3>2. ~tx_ring[sn_ring[sn]].acknowledged
      BY <3>1 DEF Consistent, SnTracked
    <3>3. QED
      BY <3>1, <3>2, CheckedAcknowledged DEF AckChecked
  <2>4. QED
    BY <2>1, <2>2, <2>3
<1>5. CASE RetxTooSmall
  BY <1>5, <1>u DEF RetxTooSmall
<1>6. CASE RetxLost
  <2>1. /\ 1 \in 1..Len(retx_list) /\ Head(retx_list) = retx_list[1]
        /\ Tail(retx_list) \in Seq(RetxElem)
        /\ Len(Tail(retx_list)) = Len(retx_list) - 1
        /\ \A j \in 1..(Len(retx_list) - 1) :
             Tail(retx_list)[j] = IF j < 1 THEN retx_list[j] ELSE retx_list[j + 1]
    BY <1>6, RetxHead DEF RetxLost
  <2>2. sn_ring[Head(retx_list).sn] # Free
    BY <2>1 DEF Consistent, RetxTracked, Free, Unchecked
  <2>3. /\ tx_ring' = tx_ring
        /\ sn_ring' = [sn_ring EXCEPT ![retx_list[1].sn] = Free]
        /\ retx_list' = Tail(retx_list)
    BY <1>6, <2>1, <2>2 DEF RetxLost
  <2>4. QED
    BY <2>1, <2>3, RetxRemoved
<1>7. CASE RetxWrite
  <2> DEFINE elem == Head(retx_list)
  <2>1. retx_list # <<>> /\ elem \in RetxElem
    BY <1>7, RetxHead DEF RetxWrite
  <2>2. elem.sn \in Sn /\ elem.retry_count + 1 \in 0..MaxRetx
    BY <1>7, <2>1, ConfigAssumption DEF RetxWrite, RetxElem
  <2>3. sn_ring[elem.sn] # Free
    BY <2>1, RetxHead DEF Consistent, RetxTracked, Free, Unchecked
  <2>4. CASE HasTxSlot(elem.retry_count + 1)
    <3>1. PICK slot \in Index : enqueue_tx_check(slot, elem.sn, elem.retry_count + 1)
      BY <1>7, <2>3, <2>4 DEF RetxWrite
    <3>2. /\ tx_ring[slot].acknowledged
          /\ tx_ring' = [tx_ring EXCEPT ![slot] = [acknowledged |-> FALSE, sn |-> elem.sn,
                                                   retry_count |-> elem.retry_count + 1]]
          /\ sn_ring' = [sn_ring EXCEPT ![elem.sn] = slot]
      BY <2>2, <3>1, EnqueueFacts
    <3>3. retx_list' = Tail(retx_list)
      BY <1>7, <2>3, <2>4 DEF RetxWrite
    <3>4. QED
      BY <2>1, <3>2, <3>3, PlacedAgain
  <2>5. CASE ~HasTxSlot(elem.retry_count + 1)
    BY <1>7, <1>u, <2>3, <2>5 DEF RetxWrite
  <2>6. QED
    BY <2>4, <2>5
<1>8. CASE WriteNoFreeSn
  BY <1>8, <1>u DEF WriteNoFreeSn
<1>9. CASE WriteInvalid
  BY <1>9, <1>u DEF WriteInvalid
<1>10. CASE WriteData
  <2>1. sn_counter \in Sn /\ sn_ring[sn_counter] = Free /\ 0 \in 0..MaxRetx
        /\ retx_list' = retx_list
    BY <1>10, ConfigAssumption DEF WriteData, TypeOK
  <2>2. CASE HasTxSlot(0)
    <3>1. PICK slot \in Index : enqueue_tx_check(slot, sn_counter, 0)
      BY <1>10, <2>2 DEF WriteData
    <3>2. /\ tx_ring[slot].acknowledged
          /\ tx_ring' = [tx_ring EXCEPT ![slot] = [acknowledged |-> FALSE, sn |-> sn_counter,
                                                   retry_count |-> 0]]
          /\ sn_ring' = [sn_ring EXCEPT ![sn_counter] = slot]
      BY <2>1, <3>1, EnqueueFacts
    <3>3. QED
      BY <2>1, <3>2, PlacedFirst
  <2>3. CASE ~HasTxSlot(0)
    BY <1>10, <1>u, <2>3 DEF WriteData
  <2>4. QED
    BY <2>2, <2>3
<1>11. CASE WriteAck
  BY <1>11, <1>u DEF WriteAck
<1>12. CASE UNCHANGED vars
  BY <1>12, <1>u DEF vars
<1>13. QED
  BY <1>1, <1>2, <1>3, <1>4, <1>5, <1>6, <1>7, <1>8, <1>9, <1>10, <1>11, <1>12 DEF Next
-----------------------------------------------------------------------------
(* Every call of llc_ul keeps the current slot free until data is written in it. *)
LEMMA NextCurrentSlotFree == TypeOK /\ CurrentSlotFree /\ [Next]_vars => CurrentSlotFree'
<1> SUFFICES ASSUME TypeOK, CurrentSlotFree, [Next]_vars PROVE CurrentSlotFree'
  OBVIOUS
<1>u. ASSUME UNCHANGED <<tx_ring, current_slot_number>>, NotAllocated' => NotAllocated
      PROVE  CurrentSlotFree'
  BY <1>u DEF CurrentSlotFree
<1>1. CASE Reset
  BY <1>1, ConfigAssumption DEF Reset, CurrentSlotFree, IdleSlot, Index
<1>2. CASE SkipSlot
  BY <1>2, <1>u DEF SkipSlot, NotAllocated
<1>3. CASE UpdateSlot
  <2> DEFINE slot == tx_ring_index(current_slot_number + 1)
  <2>1. slot \in Index
    BY ConfigAssumption, IndexType DEF TypeOK, Index
  <2> HIDE DEF slot
  <2>2. current_slot_number' = slot /\ tx_ring'[slot].acknowledged
    BY <1>3, <2>1 DEF UpdateSlot, TypeOK, IdleSlot, slot
  <2>3. QED
    BY <2>2 DEF CurrentSlotFree
<1>4. ASSUME NEW sn \in Sn, Acknowledge(sn)
      PROVE  CurrentSlotFree'
  <2>1. /\ current_slot_number' = current_slot_number
        /\ \A i \in Index : tx_ring[i].acknowledged => tx_ring'[i].acknowledged
    BY <1>4 DEF Acknowledge, AckUnchecked, AckChecked, TypeOK, IdleSlot, Free, Unchecked
  <2>2. NotAllocated' => NotAllocated
    BY <1>4 DEF Acknowledge, AckUnchecked, AckChecked, AckCleared, NotAllocated, Free, Unchecked
  <2>3. QED
    BY <2>1, <2>2 DEF CurrentSlotFree, TypeOK
<1>5. CASE RetxTooSmall
  BY <1>5, <1>u DEF RetxTooSmall, NotAllocated
<1>6. CASE RetxLost
  BY <1>6, <1>u DEF RetxLost, NotAllocated
<1>7. CASE RetxWrite
  <2>1. NotAllocated' => UNCHANGED <<tx_ring, current_slot_number>>
    BY <1>7 DEF RetxWrite, NotAllocated
  <2>2. NotAllocated
    BY <1>7 DEF RetxWrite
  <2>3. QED
    BY <2>1, <2>2 DEF CurrentSlotFree
<1>8. CASE WriteNoFreeSn
  BY <1>8, <1>u DEF WriteNoFreeSn, NotAllocated
<1>9. CASE WriteInvalid
  BY <1>9, <1>u DEF WriteInvalid, NotAllocated
<1>10. CASE WriteData
  <2>1. NotAllocated' => UNCHANGED <<tx_ring, current_slot_number>>
    BY <1>10 DEF WriteData, NotAllocated
  <2>2. NotAllocated
    BY <1>10 DEF WriteData
  <2>3. QED
    BY <2>1, <2>2 DEF CurrentSlotFree
<1>11. CASE WriteAck
  BY <1>11, <1>u DEF WriteAck, NotAllocated
<1>12. CASE UNCHANGED vars
  BY <1>12, <1>u DEF vars, NotAllocated
<1>13. QED
  BY <1>1, <1>2, <1>3, <1>4, <1>5, <1>6, <1>7, <1>8, <1>9, <1>10, <1>11, <1>12 DEF Next
-----------------------------------------------------------------------------
(* Division with remainder, and its uniqueness. *)
LEMMA DivMod ==
  ASSUME NEW m \in Nat \ {0}, NEW x \in Int
  PROVE  /\ x \div m \in Int
         /\ x % m \in 0..(m - 1)
         /\ x = m * (x \div m) + (x % m)
OBVIOUS

(* A remainder in range is the remainder. *)
LEMMA RemainderUnique ==
  ASSUME NEW m \in Nat \ {0}, NEW x \in Int, NEW q \in Int, NEW r \in 0..(m - 1),
         x = m * q + r
  PROVE  x % m = r
<1> DEFINE d == x \div m
           t == x % m
<1>1. d \in Int /\ t \in 0..(m - 1) /\ x = m * d + t
  BY DivMod
<1> HIDE DEF d, t
<1>2. m * (q - d) = t - r
  BY <1>1
<1>3. ~(q - d >= 1)
  <2>1. ASSUME q - d >= 1 PROVE m * (q - d) >= m
    BY <1>1, <2>1
  <2>2. QED
    BY <1>1, <1>2, <2>1
<1>4. ~(q - d <= -1)
  <2>1. ASSUME q - d <= -1 PROVE m * (q - d) <= -m
    BY <1>1, <2>1
  <2>2. QED
    BY <1>1, <1>2, <2>1
<1>5. q = d
  BY <1>1, <1>3, <1>4
<1>6. t = r
  BY <1>1, <1>5
<1>7. QED
  BY <1>6 DEF t

(* Some offset of the search in enqueue_tx_check leads to any given slot. *)
LEMMA SearchReaches ==
  ASSUME NEW c \in Index, NEW x \in Nat
  PROVE  \E i \in Index : tx_ring_index(c + x + i) = c
<1> DEFINE i == (-x) % TxSize
           q == (-x) \div TxSize
<1>1. q \in Int /\ i \in 0..(TxSize - 1) /\ -x = TxSize * q + i
  BY DivMod, ConfigAssumption
<1> HIDE DEF i, q
<1>2. c + x + i = TxSize * (-q) + c
  BY <1>1, ConfigAssumption DEF Index
<1>3. c + x + i \in Int /\ -q \in Int /\ c \in 0..(TxSize - 1)
  BY <1>1 DEF Index
<1>4. (c + x + i) % TxSize = c
  BY <1>2, <1>3, RemainderUnique, ConfigAssumption
<1>5. QED
  BY <1>1, <1>4 DEF tx_ring_index, Index

(* enqueue_tx_check finds a slot: the current one, if no other is free. *)
LEMMA SlotFound ==
  ASSUME TypeOK, CurrentSlotFree, NotAllocated, NEW r \in 0..MaxRetx
  PROVE  HasTxSlot(r)
<1>1. r \in Nat /\ recheck_slot_size(r) \in Nat
  BY RecheckType, ConfigAssumption
<1>2. current_slot_number \in Index
  BY DEF TypeOK
<1>3. PICK i \in Index :
        tx_ring_index(current_slot_number + recheck_slot_size(r) + i) = current_slot_number
  BY <1>1, <1>2, SearchReaches
<1>4. FreeAt(r, i)
  BY <1>3 DEF FreeAt, CheckIndex, CurrentSlotFree
<1>5. QED
  BY <1>4 DEF HasTxSlot

(* No call of llc_ul takes a branch marked as an internal error. *)
LEMMA NextNoInternalError ==
  TypeOK /\ Consistent /\ CurrentSlotFree /\ NoInternalError /\ [Next]_vars => NoInternalError'
<1> SUFFICES ASSUME TypeOK, Consistent, CurrentSlotFree, NoInternalError, [Next]_vars
             PROVE  NoInternalError'
  OBVIOUS
<1>1. CASE Reset
  BY <1>1 DEF Reset, NoInternalError
<1>2. CASE SkipSlot
  BY <1>2 DEF SkipSlot, NoInternalError
<1>3. CASE UpdateSlot
  <2> DEFINE slot == tx_ring_index(current_slot_number + 1)
  <2>1. slot \in Index
    BY ConfigAssumption, IndexType DEF TypeOK, Index
  <2> HIDE DEF slot
  <2>2. ~tx_ring[slot].acknowledged => sn_ring[tx_ring[slot].sn] # Free
    BY <2>1 DEF Consistent, RingTracked, Free, Index
  <2>3. status' \subseteq status
    BY <1>3, <2>2 DEF UpdateSlot, slot
  <2>4. QED
    BY <2>3 DEF NoInternalError
<1>4. ASSUME NEW sn \in Sn, Acknowledge(sn)
      PROVE  NoInternalError'
  <2>1. CASE sn_ring[sn] = Free
    BY <1>4, <2>1 DEF Acknowledge, AckCleared, NoInternalError, Free, Unchecked
  <2>2. CASE sn_ring[sn] = Unchecked
    <3>1. \E k \in 1..Len(retx_list) : retx_list[k].sn = sn
      BY <2>2 DEF Consistent, RetxTracked
    <3>2. status' = AckCleared
      BY <1>4, <2>2, <3>1 DEF Acknowledge, AckUnchecked, Free, Unchecked
    <3>3. QED
      BY <3>2 DEF AckCleared, NoInternalError
  <2>3. CASE sn_ring[sn] \notin {Free, Unchecked}
    <3>1. ~tx_ring[sn_ring[sn]].acknowledged
      BY <2>3 DEF Consistent, SnTracked, TypeOK
    <3>2. status' = AckCleared
      BY <1>4, <2>3, <3>1 DEF Acknowledge, AckChecked
    <3>3. QED
      BY <3>2 DEF AckCleared, NoInternalError
  <2>4. QED
    BY <2>1, <2>2, <2>3
<1>5. CASE RetxTooSmall
  BY <1>5 DEF RetxTooSmall, NoInternalError
<1>h. ASSUME retx_list # <<>> PROVE sn_ring[Head(retx_list).sn] # Free
  BY <1>h, RetxHead DEF Consistent, RetxTracked, Free, Unchecked
<1>6. CASE RetxLost
  <2>1. status' = RetxCleared \cup {"SN_LOST"}
    BY <1>6, <1>h DEF RetxLost
  <2>2. QED
    BY <2>1 DEF RetxCleared, NoInternalError
<1>7. CASE RetxWrite
  <2> DEFINE elem == Head(retx_list)
  <2>1. elem.retry_count + 1 \in 0..MaxRetx
    BY <1>7, RetxHead, ConfigAssumption DEF RetxWrite, RetxElem
  <2>2. HasTxSlot(elem.retry_count + 1)
    BY <1>7, <2>1, SlotFound DEF RetxWrite
  <2>3. status' = (RetxCleared \ {"NO_TX_SLOT"}) \cup {"DATA_PDU_ALLOCATED"}
    BY <1>7, <1>h, <2>2 DEF RetxWrite
  <2>4. QED
    BY <2>3 DEF RetxCleared, NoInternalError
<1>8. CASE WriteNoFreeSn
  BY <1>8 DEF WriteNoFreeSn, NoInternalError
<1>9. CASE WriteInvalid
  BY <1>9 DEF WriteInvalid, NoInternalError
<1>10. CASE WriteData
  <2>1. HasTxSlot(0)
    BY <1>10, SlotFound, ConfigAssumption DEF WriteData
  <2>2. QED
    BY <1>10, <2>1 DEF WriteData, NoInternalError
<1>11. CASE WriteAck
  BY <1>11 DEF WriteAck, NoInternalError
<1>12. CASE UNCHANGED vars
  BY <1>12 DEF vars, NoInternalError
<1>13. QED
  BY <1>1, <1>2, <1>3, <1>4, <1>5, <1>6, <1>7, <1>8, <1>9, <1>10, <1>11, <1>12 DEF Next
-----------------------------------------------------------------------------
(***************************************************************************)
(* The inductive invariant.  Consistent needs only the types; an internal  *)
(* error is excluded by Consistent, a full ring by CurrentSlotFree.        *)
(***************************************************************************)
IInv == TypeOK /\ Consistent /\ CurrentSlotFree /\ NoInternalError

(* The inductive invariant holds in every state of llc_ul. *)
LEMMA Invariance == Spec => []IInv
<1>1. Init => IInv
  <2> SUFFICES ASSUME Init PROVE IInv
    OBVIOUS
  <2>1. CurrentSlotFree
    BY ConfigAssumption DEF Init, CurrentSlotFree, IdleSlot, Index
  <2>2. NoInternalError
    BY DEF Init, NoInternalError
  <2>3. QED
    BY <2>1, <2>2, InitType, InitConsistent DEF IInv
<1>2. IInv /\ [Next]_vars => IInv'
  BY NextType, NextConsistent, NextCurrentSlotFree, NextNoInternalError DEF IInv
<1>3. QED
  BY <1>1, <1>2, PTL DEF Spec

(* Every field of llc_ul keeps its type and no retry count exceeds         *)
(* max_retx_count, whatever calls the user of the class makes.             *)
THEOREM TypeCorrect == Spec => []TypeOK
BY Invariance, PTL DEF IInv

(* tx_ring, sn_ring and retx_list agree on every unacknowledged PDU, for   *)
(* every configuration that validate_config accepts.                       *)
THEOREM StructuresConsistent == Spec => []Consistent
BY Invariance, PTL DEF IInv

(* A data PDU can be written into every slot: the current slot is free     *)
(* until then, so enqueue_tx_check always finds one.                       *)
THEOREM SlotKeptFree == Spec => []CurrentSlotFree
BY Invariance, PTL DEF IInv

(* The branches of llc_ul marked as internal errors, the duplicated-ACK    *)
(* branch of acknowledge and the full-ring branch of enqueue_tx_check are  *)
(* never taken.                                                            *)
THEOREM InternalErrorsUnreachable == Spec => []NoInternalError
BY Invariance, PTL DEF IInv
-----------------------------------------------------------------------------
(* How the two counted sets change, and with them their cardinalities. *)
LEMMA CountedFinite ==
  /\ IsFiniteSet(UsedSlots) /\ Cardinality(UsedSlots) \in Nat
  /\ IsFiniteSet(UsedSns) /\ Cardinality(UsedSns) \in Nat
<1>1. IsFiniteSet(Index) /\ IsFiniteSet(Sn)
  BY FS_Interval, ConfigAssumption DEF Index, Sn
<1>2. UsedSlots \in SUBSET Index /\ UsedSns \in SUBSET Sn
  BY DEF UsedSlots, UsedSns
<1>3. IsFiniteSet(UsedSlots) /\ IsFiniteSet(UsedSns)
  BY <1>1, <1>2, FS_Subset
<1>4. QED
  BY <1>3, FS_CardinalityType

(* Filling a free slot adds one to the slots in use. *)
LEMMA SlotTaken ==
  ASSUME TypeOK, NEW slot \in Index, tx_ring[slot].acknowledged, NEW sn, NEW r,
         tx_ring' = [tx_ring EXCEPT ![slot] = [acknowledged |-> FALSE, sn |-> sn,
                                              retry_count |-> r]]
  PROVE  Cardinality(UsedSlots') = Cardinality(UsedSlots) + 1
<1>1. slot \notin UsedSlots
  BY DEF UsedSlots
<1>2. UsedSlots' = UsedSlots \cup {slot}
  BY DEF UsedSlots, TypeOK
<1>3. QED
  BY <1>1, <1>2, CountedFinite, FS_AddElement

(* Clearing a used slot takes one from the slots in use. *)
LEMMA SlotReleased ==
  ASSUME TypeOK, NEW slot \in Index, ~tx_ring[slot].acknowledged,
         tx_ring' = [tx_ring EXCEPT ![slot] = IdleSlot]
  PROVE  Cardinality(UsedSlots') = Cardinality(UsedSlots) - 1
<1>1. slot \in UsedSlots
  BY DEF UsedSlots
<1>2. UsedSlots' = UsedSlots \ {slot}
  BY DEF UsedSlots, TypeOK, IdleSlot
<1>3. QED
  BY <1>1, <1>2, CountedFinite, FS_RemoveElement

(* Giving a free sequence number a slot adds one to those in use. *)
LEMMA SnTaken ==
  ASSUME TypeOK, NEW sn \in Sn, sn_ring[sn] = Free, NEW slot \in Index,
         sn_ring' = [sn_ring EXCEPT ![sn] = slot]
  PROVE  Cardinality(UsedSns') = Cardinality(UsedSns) + 1
<1>1. sn \notin UsedSns
  BY DEF UsedSns
<1>2. UsedSns' = UsedSns \cup {sn}
  BY DEF UsedSns, TypeOK, Free, Index
<1>3. QED
  BY <1>1, <1>2, CountedFinite, FS_AddElement

(* Freeing a used sequence number takes one from those in use. *)
LEMMA SnReleased ==
  ASSUME TypeOK, NEW sn \in Sn, sn_ring[sn] # Free,
         sn_ring' = [sn_ring EXCEPT ![sn] = Free]
  PROVE  Cardinality(UsedSns') = Cardinality(UsedSns) - 1
<1>1. sn \in UsedSns
  BY DEF UsedSns
<1>2. UsedSns' = UsedSns \ {sn}
  BY DEF UsedSns, TypeOK
<1>3. QED
  BY <1>1, <1>2, CountedFinite, FS_RemoveElement

(* Moving a PDU between tx_ring and retx_list keeps its number in use. *)
LEMMA SnMoved ==
  ASSUME TypeOK, NEW sn \in Sn, sn_ring[sn] # Free, NEW v, v # Free,
         sn_ring' = [sn_ring EXCEPT ![sn] = v]
  PROVE  UsedSns' = UsedSns
BY DEF UsedSns, TypeOK

(* After reset no slot and no sequence number is in use. *)
LEMMA EmptyCounted ==
  ASSUME tx_ring = [i \in Index |-> IdleSlot], sn_ring = [n \in Sn |-> Free]
  PROVE  Cardinality(UsedSlots) = 0 /\ Cardinality(UsedSns) = 0
<1>1. UsedSlots = {} /\ UsedSns = {}
  BY DEF UsedSlots, UsedSns, IdleSlot
<1>2. QED
  BY <1>1, FS_EmptySet

(* Inequalities, because the SMT translation loses the type of a variable  *)
(* that it eliminates by an equation.                                      *)
LEMMA SumMoves ==
  ASSUME pending_llc_pdu_count \in Int, used_tx_slots \in Int, Len(retx_list) \in Int,
         pending_llc_pdu_count' \in Int, used_tx_slots' \in Int, Len(retx_list') \in Int,
         pending_llc_pdu_count >= used_tx_slots + Len(retx_list),
         pending_llc_pdu_count <= used_tx_slots + Len(retx_list),
         pending_llc_pdu_count' - pending_llc_pdu_count
           = (used_tx_slots' - used_tx_slots) + (Len(retx_list') - Len(retx_list))
  PROVE  pending_llc_pdu_count' = used_tx_slots' + Len(retx_list')
OBVIOUS

(* The counters stay exact when they move with what they count. *)
LEMMA CountersMove ==
  ASSUME TypeOK, CountersExact,
         Cardinality(UsedSlots') \in Int, Cardinality(UsedSns') \in Int,
         used_tx_slots' \in Int, pending_llc_pdu_count' \in Int, Len(retx_list') \in Int,
         used_tx_slots' - used_tx_slots = Cardinality(UsedSlots') - Cardinality(UsedSlots),
         pending_llc_pdu_count' - pending_llc_pdu_count
           = Cardinality(UsedSns') - Cardinality(UsedSns),
         pending_llc_pdu_count' - pending_llc_pdu_count
           = (used_tx_slots' - used_tx_slots) + (Len(retx_list') - Len(retx_list))
  PROVE  CountersExact'
<1>0. /\ used_tx_slots \in Int /\ pending_llc_pdu_count \in Int /\ Len(retx_list) \in Int
      /\ Cardinality(UsedSlots) \in Int /\ Cardinality(UsedSns) \in Int
  BY CountedFinite DEF TypeOK
<1>1. used_tx_slots = Cardinality(UsedSlots)
  BY DEF CountersExact
<1>2. pending_llc_pdu_count = Cardinality(UsedSns)
  BY DEF CountersExact
<1>3. /\ pending_llc_pdu_count >= used_tx_slots + Len(retx_list)
      /\ pending_llc_pdu_count <= used_tx_slots + Len(retx_list)
  BY <1>0 DEF CountersExact
<1>4. used_tx_slots' = Cardinality(UsedSlots')
  BY <1>0, <1>1
<1>5. pending_llc_pdu_count' = Cardinality(UsedSns')
  BY <1>0, <1>2
<1>6. pending_llc_pdu_count' = used_tx_slots' + Len(retx_list')
  BY <1>0, <1>3, SumMoves
<1>7. QED
  BY <1>4, <1>5, <1>6 DEF CountersExact

(* Every call of llc_ul moves the counters with what they count. *)
LEMMA NextCounters ==
  TypeOK /\ Consistent /\ CountersExact /\ [Next]_vars => CountersExact'
<1> SUFFICES ASSUME TypeOK, Consistent, CountersExact, [Next]_vars
             PROVE  CountersExact'
  OBVIOUS
<1>n. /\ Cardinality(UsedSlots) \in Nat /\ Cardinality(UsedSns) \in Nat
      /\ Len(retx_list) \in Nat /\ used_tx_slots \in Int /\ pending_llc_pdu_count \in Int
  BY CountedFinite DEF TypeOK
<1>u. ASSUME UNCHANGED <<tx_ring, sn_ring, retx_list, used_tx_slots, pending_llc_pdu_count>>
      PROVE  CountersExact'
  BY <1>u DEF CountersExact, UsedSlots, UsedSns
<1>1. CASE Reset
  <2>1. UsedSlots' = {} /\ UsedSns' = {}
    BY <1>1 DEF Reset, UsedSlots, UsedSns, IdleSlot
  <2>2. QED
    BY <1>1, <2>1, FS_EmptySet DEF Reset, CountersExact
<1>2. CASE SkipSlot
  BY <1>2, <1>u DEF SkipSlot
<1>3. CASE UpdateSlot
  <2> DEFINE slot == tx_ring_index(current_slot_number + 1)
             old_slot == tx_ring[slot]
  <2>1. slot \in Index /\ old_slot \in RingElem
    BY ConfigAssumption, IndexType DEF TypeOK, Index
  <2> HIDE DEF slot
  <2>2. CASE old_slot.acknowledged
    BY <1>3, <1>u, <2>2 DEF UpdateSlot, slot
  <2>3. CASE ~old_slot.acknowledged
    <3> DEFINE e == [sn |-> old_slot.sn, retry_count |-> old_slot.retry_count]
    <3>1. e \in RetxElem /\ old_slot.sn \in Sn
      BY <2>1 DEF RingElem, RetxElem
    <3>2. sn_ring[old_slot.sn] # Free /\ Unchecked # Free
      BY <2>1, <2>3 DEF Consistent, RingTracked, Free, Unchecked, Index
    <3>3. /\ tx_ring' = [tx_ring EXCEPT ![slot] = IdleSlot]
          /\ sn_ring' = [sn_ring EXCEPT ![old_slot.sn] = Unchecked]
          /\ retx_list' = Append(retx_list, e)
          /\ used_tx_slots' = used_tx_slots - 1
          /\ pending_llc_pdu_count' = pending_llc_pdu_count
      BY <1>3, <2>3, <3>2 DEF UpdateSlot, slot
    <3>4. Cardinality(UsedSlots') = Cardinality(UsedSlots) - 1
      BY <2>1, <2>3, <3>3, SlotReleased
    <3>5. UsedSns' = UsedSns
      BY <3>1, <3>2, <3>3, SnMoved
    <3>6. Len(retx_list') = Len(retx_list) + 1
      BY <3>1, <3>3, AppendProperties DEF TypeOK
    <3>7. QED
      BY <1>n, <3>3, <3>4, <3>5, <3>6, CountersMove
  <2>4. QED
    BY <2>2, <2>3
<1>4. ASSUME NEW sn \in Sn, Acknowledge(sn)
      PROVE  CountersExact'
  <2>1. CASE sn_ring[sn] = Free
    BY <1>4, <1>u, <2>1 DEF Acknowledge, Free, Unchecked
  <2>2. CASE sn_ring[sn] = Unchecked
    <3>1. AckUnchecked(sn) /\ sn_ring[sn] # Free
      BY <1>4, <2>2 DEF Acknowledge, Free, Unchecked
    <3>2. PICK k \in 1..Len(retx_list) : retx_list' = RemoveAt(retx_list, k)
      BY <2>2, <3>1 DEF AckUnchecked, Consistent, RetxTracked
    <3>3. /\ sn_ring' = [sn_ring EXCEPT ![sn] = Free]
          /\ pending_llc_pdu_count' = pending_llc_pdu_count - 1
          /\ UNCHANGED <<tx_ring, used_tx_slots>>
      BY <2>2, <3>1 DEF AckUnchecked, Consistent, RetxTracked
    <3>4. Len(retx_list') = Len(retx_list) - 1
      BY <3>2, RemoveAtFacts DEF TypeOK
    <3>5. Cardinality(UsedSns') = Cardinality(UsedSns) - 1
      BY <3>1, <3>3, SnReleased
    <3>6. UsedSlots' = UsedSlots
      BY <3>3 DEF UsedSlots
    <3>7. QED
      BY <1>n, <3>3, <3>4, <3>5, <3>6, CountersMove
  <2>3. CASE sn_ring[sn] \notin {Free, Unchecked}
    <3>1. AckChecked(sn) /\ sn_ring[sn] \in Index
      BY <1>4, <2>3 DEF Acknowledge, TypeOK
    <3>2. ~tx_ring[sn_ring[sn]].acknowledged
      BY <3>1 DEF Consistent, SnTracked
    <3>3. /\ tx_ring' = [tx_ring EXCEPT ![sn_ring[sn]] = IdleSlot]
          /\ pending_llc_pdu_count' = pending_llc_pdu_count - 1
          /\ used_tx_slots' = used_tx_slots - 1
          /\ sn_ring' = [sn_ring EXCEPT ![sn] = Free]
          /\ retx_list' = retx_list
      BY <3>1, <3>2 DEF AckChecked
    <3>4. Cardinality(UsedSlots') = Cardinality(UsedSlots) - 1
      BY <3>1, <3>2, <3>3, SlotReleased
    <3>5. Cardinality(UsedSns') = Cardinality(UsedSns) - 1
      BY <2>3, <3>3, SnReleased
    <3>6. QED
      BY <1>n, <3>3, <3>4, <3>5, CountersMove
  <2>4. QED
    BY <2>1, <2>2, <2>3
<1>5. CASE RetxTooSmall
  BY <1>5, <1>u DEF RetxTooSmall
<1>h. ASSUME retx_list # <<>>
      PROVE  /\ Head(retx_list).sn \in Sn
             /\ sn_ring[Head(retx_list).sn] # Free
             /\ Len(Tail(retx_list)) = Len(retx_list) - 1
  BY <1>h, RetxHead, RetxSn DEF Consistent, RetxTracked, Free, Unchecked
<1>6. CASE RetxLost
  <2>1. /\ sn_ring' = [sn_ring EXCEPT ![Head(retx_list).sn] = Free]
        /\ retx_list' = Tail(retx_list)
        /\ pending_llc_pdu_count' = pending_llc_pdu_count - 1
        /\ UNCHANGED <<tx_ring, used_tx_slots>>
        /\ retx_list # <<>>
    BY <1>6, <1>h DEF RetxLost
  <2>2. Cardinality(UsedSns') = Cardinality(UsedSns) - 1
    BY <1>h, <2>1, SnReleased
  <2>3. UsedSlots' = UsedSlots
    BY <2>1 DEF UsedSlots
  <2>4. QED
    BY <1>h, <1>n, <2>1, <2>2, <2>3, CountersMove
<1>7. CASE RetxWrite
  <2> DEFINE elem == Head(retx_list)
  <2>1. retx_list # <<>> /\ elem \in RetxElem
    BY <1>7, RetxHead DEF RetxWrite
  <2>2. elem.retry_count + 1 \in 0..MaxRetx
    BY <1>7, <2>1, ConfigAssumption DEF RetxWrite, RetxElem
  <2>3. CASE HasTxSlot(elem.retry_count + 1)
    <3>1. PICK slot \in Index : enqueue_tx_check(slot, elem.sn, elem.retry_count + 1)
      BY <1>7, <1>h, <2>3 DEF RetxWrite
    <3>2. /\ tx_ring[slot].acknowledged
          /\ tx_ring' = [tx_ring EXCEPT ![slot] = [acknowledged |-> FALSE, sn |-> elem.sn,
                                                   retry_count |-> elem.retry_count + 1]]
          /\ sn_ring' = [sn_ring EXCEPT ![elem.sn] = slot]
          /\ used_tx_slots' = used_tx_slots + 1
      BY <1>h, <2>1, <2>2, <3>1, EnqueueFacts
    <3>3. retx_list' = Tail(retx_list) /\ pending_llc_pdu_count' = pending_llc_pdu_count
      BY <1>7, <1>h, <2>3 DEF RetxWrite
    <3>4. Cardinality(UsedSlots') = Cardinality(UsedSlots) + 1
      BY <3>2, SlotTaken
    <3>5. slot # Free
      BY DEF Free, Index
    <3>6. UsedSns' = UsedSns
      BY <1>h, <2>1, <3>2, <3>5, SnMoved
    <3>7. QED
      BY <1>h, <1>n, <2>1, <3>2, <3>3, <3>4, <3>6, CountersMove
  <2>4. CASE ~HasTxSlot(elem.retry_count + 1)
    BY <1>7, <1>h, <1>u, <2>4 DEF RetxWrite
  <2>5. QED
    BY <2>3, <2>4
<1>8. CASE WriteNoFreeSn
  BY <1>8, <1>u DEF WriteNoFreeSn
<1>9. CASE WriteInvalid
  BY <1>9, <1>u DEF WriteInvalid
<1>10. CASE WriteData
  <2>1. sn_counter \in Sn /\ sn_ring[sn_counter] = Free /\ 0 \in 0..MaxRetx
        /\ retx_list' = retx_list
    BY <1>10, ConfigAssumption DEF WriteData, TypeOK
  <2>2. CASE HasTxSlot(0)
    <3>1. PICK slot \in Index : enqueue_tx_check(slot, sn_counter, 0)
      BY <1>10, <2>2 DEF WriteData
    <3>2. /\ tx_ring[slot].acknowledged
          /\ tx_ring' = [tx_ring EXCEPT ![slot] = [acknowledged |-> FALSE, sn |-> sn_counter,
                                                   retry_count |-> 0]]
          /\ sn_ring' = [sn_ring EXCEPT ![sn_counter] = slot]
          /\ used_tx_slots' = used_tx_slots + 1
      BY <2>1, <3>1, EnqueueFacts
    <3>3. pending_llc_pdu_count' = pending_llc_pdu_count + 1
      BY <1>10, <2>2 DEF WriteData
    <3>4. Cardinality(UsedSlots') = Cardinality(UsedSlots) + 1
      BY <3>2, SlotTaken
    <3>5. Cardinality(UsedSns') = Cardinality(UsedSns) + 1
      BY <2>1, <3>2, SnTaken
    <3>6. QED
      BY <1>n, <2>1, <3>2, <3>3, <3>4, <3>5, CountersMove
  <2>3. CASE ~HasTxSlot(0)
    BY <1>10, <1>u, <2>3 DEF WriteData
  <2>4. QED
    BY <2>2, <2>3
<1>11. CASE WriteAck
  BY <1>11, <1>u DEF WriteAck
<1>12. CASE UNCHANGED vars
  BY <1>12, <1>u DEF vars
<1>13. QED
  BY <1>1, <1>2, <1>3, <1>4, <1>5, <1>6, <1>7, <1>8, <1>9, <1>10, <1>11, <1>12 DEF Next

(* get_free_tx_slot and get_pending_llc_pdu_count report what is really    *)
(* free and pending: no path decrements a counter twice or not at all.     *)
THEOREM CountersCorrect == Spec => []CountersExact
<1>1. Init => CountersExact
  <2> SUFFICES ASSUME Init PROVE CountersExact
    OBVIOUS
  <2>1. Cardinality(UsedSlots) = 0 /\ Cardinality(UsedSns) = 0
    BY EmptyCounted DEF Init
  <2>2. QED
    BY <2>1 DEF Init, CountersExact
<1>2. IInv /\ CountersExact /\ [Next]_vars => CountersExact'
  BY NextCounters DEF IInv
<1>3. QED
  BY <1>1, <1>2, Invariance, PTL DEF Spec
-----------------------------------------------------------------------------
(* The recheck distance of every retry count lies between its two limits. *)
LEMMA RecheckRange ==
  ASSUME NEW r \in 0..MaxRetx
  PROVE  recheck_slot_size(r) \in MinRecheck..MaxRecheck
<1> DEFINE m == MaxRecheck - MinRecheck
           d == (r * m) \div MaxRetx
           t == (r * m) % MaxRetx
<1>1. m \in Nat /\ r \in Nat /\ MaxRetx \in Nat \ {0}
  BY ConfigAssumption
<1>2. r * m \in Int
  BY <1>1
<1>3. d \in Int /\ t \in 0..(MaxRetx - 1) /\ r * m = MaxRetx * d + t
  BY <1>1, <1>2, DivMod
<1> HIDE DEF m, d, t
<1>4. 0 <= r * m /\ r * m <= MaxRetx * m
  BY <1>1
<1>5. d >= 0
  <2>1. ASSUME d <= -1 PROVE MaxRetx * d <= -MaxRetx
    BY <1>1, <1>3, <2>1
  <2>2. QED
    BY <1>1, <1>3, <1>4, <2>1
<1>6. d <= m
  <2>1. ASSUME d >= m + 1 PROVE MaxRetx * d >= MaxRetx * m + MaxRetx
    BY <1>1, <1>3, <2>1
  <2>2. QED
    BY <1>1, <1>3, <1>4, <2>1
<1>7. recheck_slot_size(r) = MinRecheck + d
  BY DEF recheck_slot_size, d, m
<1>8. QED
  BY <1>1, <1>3, <1>5, <1>6, <1>7, ConfigAssumption DEF m

(***************************************************************************)
(* The search of enqueue_tx_check passes the current slot before it comes  *)
(* round to a slot that is nearer than the recheck distance; and the       *)
(* current slot is free.                                                   *)
(***************************************************************************)
LEMMA PlacedFarEnough ==
  ASSUME TypeOK, CurrentSlotFree, NotAllocated, MaxRecheck <= TxSize,
         NEW r \in 0..MaxRetx, NEW slot \in Index,
         NEW i \in Index, FirstFree(r, i), slot = CheckIndex(r, i)
  PROVE  SlotsUntil(slot) >= recheck_slot_size(r)
<1> DEFINE R == recheck_slot_size(r)
           c == current_slot_number
<1>1. /\ R \in Nat /\ 1 <= R /\ R <= TxSize
      /\ c \in 0..(TxSize - 1) /\ i \in 0..(TxSize - 1) /\ slot \in 0..(TxSize - 1)
      /\ TxSize \in Nat \ {0}
  BY RecheckRange, ConfigAssumption DEF TypeOK, Index
<1>2. slot = (c + R + i) % TxSize
  BY DEF CheckIndex, tx_ring_index
<1>3. tx_ring_index(c + R + (TxSize - R)) = c
  <2> HIDE DEF R, c
  <2>1. c + R + (TxSize - R) = TxSize * 1 + c
    BY <1>1
  <2>2. c + R + (TxSize - R) \in Int
    BY <1>1
  <2>3. QED
    BY <1>1, <2>1, <2>2, RemainderUnique DEF tx_ring_index
<1>4. TxSize - R \in Nat /\ FreeAt(r, TxSize - R)
  BY <1>1, <1>3 DEF FreeAt, CheckIndex, CurrentSlotFree
<1>5. i <= TxSize - R
  <2>1. ASSUME TxSize - R \in 0..(i - 1) PROVE FALSE
    BY <1>4, <2>1 DEF FirstFree
  <2>2. QED
    BY <1>1, <1>4, <2>1
<1> HIDE DEF R, c
<1> DEFINE d == (c + R + i) \div TxSize
<1>6. d \in Int /\ c + R + i = TxSize * d + slot
  BY <1>1, <1>2, DivMod
<1> HIDE DEF d
<1>7. slot - c - 1 = TxSize * (-d) + (R + i - 1)
  BY <1>1, <1>6
<1>8. R + i - 1 \in 0..(TxSize - 1)
  BY <1>1, <1>5
<1>9. (slot - c - 1) % TxSize = R + i - 1
  <2>1. slot - c - 1 \in Int /\ -d \in Int
    BY <1>1, <1>6
  <2>2. QED
    BY <1>1, <1>7, <1>8, <2>1, RemainderUnique
<1>10. SlotsUntil(slot) = (R + i - 1) + 1
  BY <1>9 DEF SlotsUntil, c
<1>11. QED
  BY <1>1, <1>10 DEF R

(* No call of llc_ul places a PDU nearer than its recheck distance. *)
LEMMA StepNotCheckedEarly ==
  ASSUME MaxRecheck <= TxSize, TypeOK, CurrentSlotFree, [Next]_vars, NEW i \in Index,
         tx_ring[i].acknowledged, ~tx_ring'[i].acknowledged
  PROVE  SlotsUntil(i) >= recheck_slot_size(tx_ring'[i].retry_count)
<1>e. ASSUME NEW slot \in Index, NEW sn \in Sn, NEW r \in 0..MaxRetx, NotAllocated,
             enqueue_tx_check(slot, sn, r)
      PROVE  SlotsUntil(i) >= recheck_slot_size(tx_ring'[i].retry_count)
  <2>1. tx_ring' = [tx_ring EXCEPT ![slot] = [acknowledged |-> FALSE, sn |-> sn,
                                             retry_count |-> r]]
    BY <1>e, EnqueueFacts
  <2>2. i = slot /\ tx_ring'[i].retry_count = r
    BY <2>1 DEF TypeOK
  <2>3. PICK k \in Index : FirstFree(r, k) /\ slot = CheckIndex(r, k)
    BY <1>e DEF enqueue_tx_check
  <2>4. SlotsUntil(slot) >= recheck_slot_size(r)
    BY <1>e, <2>3, PlacedFarEnough
  <2>5. QED
    BY <2>2, <2>4
<1>1. CASE Reset
  BY <1>1 DEF Reset, IdleSlot
<1>2. CASE SkipSlot
  BY <1>2 DEF SkipSlot
<1>3. CASE UpdateSlot
  BY <1>3 DEF UpdateSlot, TypeOK, IdleSlot
<1>4. ASSUME NEW sn \in Sn, Acknowledge(sn)
      PROVE  FALSE
  BY <1>4 DEF Acknowledge, AckUnchecked, AckChecked, TypeOK, IdleSlot, Free, Unchecked
<1>5. CASE RetxTooSmall
  BY <1>5 DEF RetxTooSmall
<1>6. CASE RetxLost
  BY <1>6 DEF RetxLost
<1>7. CASE RetxWrite
  <2> DEFINE elem == Head(retx_list)
  <2>1. elem \in RetxElem /\ NotAllocated
    BY <1>7, RetxHead DEF RetxWrite
  <2>2. elem.sn \in Sn /\ elem.retry_count + 1 \in 0..MaxRetx
    BY <1>7, <2>1, ConfigAssumption DEF RetxWrite, RetxElem
  <2>3. PICK slot \in Index : enqueue_tx_check(slot, elem.sn, elem.retry_count + 1)
    BY <1>7 DEF RetxWrite
  <2>4. QED
    BY <1>e, <2>1, <2>2, <2>3
<1>8. CASE WriteNoFreeSn
  BY <1>8 DEF WriteNoFreeSn
<1>9. CASE WriteInvalid
  BY <1>9 DEF WriteInvalid
<1>10. CASE WriteData
  <2>1. sn_counter \in Sn /\ 0 \in 0..MaxRetx /\ NotAllocated
    BY <1>10, ConfigAssumption DEF WriteData, TypeOK
  <2>2. PICK slot \in Index : enqueue_tx_check(slot, sn_counter, 0)
    BY <1>10 DEF WriteData
  <2>3. QED
    BY <1>e, <2>1, <2>2
<1>11. CASE WriteAck
  BY <1>11 DEF WriteAck
<1>12. CASE UNCHANGED vars
  BY <1>12 DEF vars
<1>13. QED
  BY <1>1, <1>2, <1>3, <1>4, <1>5, <1>6, <1>7, <1>8, <1>9, <1>10, <1>11, <1>12 DEF Next

(* With a recheck distance of at most tx_size, enqueue_tx_check never puts *)
(* a PDU into a slot that comes up before its recheck distance has passed. *)
THEOREM RecheckDistanceKept ==
  ASSUME MaxRecheck <= TxSize
  PROVE  Spec => NotCheckedEarly
<1>1. IInv /\ [Next]_vars =>
        [\A i \in Index :
           (tx_ring[i].acknowledged /\ ~tx_ring'[i].acknowledged)
           => SlotsUntil(i) >= recheck_slot_size(tx_ring'[i].retry_count)]_vars
  BY StepNotCheckedEarly DEF IInv
<1>2. QED
  BY <1>1, Invariance, PTL DEF Spec, NotCheckedEarly
=============================================================================
