----------------------------- MODULE LLCProofs -----------------------------
(***************************************************************************)
(* Safety of acknowledged mode, for every window, ring and sequence number *)
(* size that fit each other, and that it implements AmLink: the types of   *)
(* the two ends, then that a sequence number leads to the PDU it was sent  *)
(* with, then what the window promises.                                    *)
(***************************************************************************)
EXTENDS LLC, SequenceTheorems, WellFoundedInduction, TLAPS

(***************************************************************************)
(* Types.  TypeOK says nothing of the PDUs on their way and of the history *)
(* variables; the rest is here.                                            *)
(***************************************************************************)
Sn == 0..(SnMod - 1)
AckMsg(e) == [type : {"ack"}, to : {e}, age : Age, acks : Seq(AckElem)]
DataMsg(e) == [type : {"data"}, to : {Peer(e)}, age : Age, sn : Sn, pdu : Pdu(e)]

(* What is kept per end is a function on End. *)
Domains ==
  /\ DOMAIN tx_ring = End
  /\ DOMAIN to_retx_list = End
  /\ DOMAIN to_ack_list = End
  /\ DOMAIN next_pdu = End
  /\ DOMAIN frame = End
  /\ DOMAIN acked = End
  /\ DOMAIN received = End
  /\ DOMAIN exhausted = End
  /\ DOMAIN flushed = End
  /\ DOMAIN sends = End

(* The frame holds ACKs to the peer only; a PDU in the air is ACKs to, or  *)
(* data from, one of the ends.                                             *)
WireTypes ==
  /\ \A e \in End : frame[e] \subseteq AckMsg(Peer(e))
  /\ \A m \in air : (\E e \in End : m \in AckMsg(e) \cup DataMsg(e)) /\ m.age <= MaxRoundTrip

(* A slot that waits for its acknowledgement holds a PDU. *)
WaitingHoldsPdu ==
  \A e \in End : \A i \in Index :
    ~tx_ring[e][i].acknowledged => tx_ring[e][i].pdcp_pdu # NoPdu

TypeInv == TypeOK /\ Domains /\ WireTypes /\ WaitingHoldsPdu
-----------------------------------------------------------------------------
(* The peer is the other end. *)
LEMMA PeerFacts ==
  ASSUME NEW e \in End
  PROVE  /\ Peer(e) \in End
         /\ Peer(e) # e
         /\ \A x \in End : x # e => x = Peer(e)
         /\ Peer(Peer(e)) = e
<1>1. PICK x \in End, y \in End : x # y /\ End = {x, y}
  BY EndAssumption
<1>2. ASSUME NEW d \in End
      PROVE  Peer(d) \in End /\ Peer(d) # d
  <2>1. \E p \in End : p # d
    BY <1>1
  <2>2. QED
    BY <2>1 DEF Peer
<1>3. QED
  BY <1>1, <1>2

(* tx_ring_index yields a slot, and is the identity on slots. *)
LEMMA IndexType ==
  /\ \A x \in Int : tx_ring_index(x) \in Index
  /\ \A i \in Index : tx_ring_index(i) = i
  /\ \A i \in Index : i \in Nat
BY WindowAssumption DEF tx_ring_index, Index

(* sn_ring_index yields an entry of sn_ring. *)
LEMMA SnIndexType ==
  ASSUME NEW sn \in Sn
  PROVE  sn_ring_index(sn) \in 0..(ArqWindow - 1)
BY WindowAssumption, SnModAssumption DEF Sn, sn_ring_index

(* increment_sn stays within the sequence numbers. *)
LEMMA IncrementType ==
  ASSUME NEW sn \in Sn
  PROVE  increment_sn(sn) \in Sn
BY SnModAssumption DEF Sn, increment_sn

(* A bounded set of naturals that is not empty has a greatest element. *)
LEMMA Greatest ==
  ASSUME NEW n \in Nat, NEW S, S \subseteq 0..n, S # {}
  PROVE  \E a \in S : \A b \in S : b <= a
<1> DEFINE T == {n - a : a \in S}
           R == OpToRel(<, Nat)
<1>1. T \subseteq Nat /\ T # {}
  <2>1. PICK s \in S : TRUE
    OBVIOUS
  <2>2. n - s \in T
    BY <2>1
  <2>3. QED
    BY <2>2
<1>2. \E x \in T : \A y \in T : ~(<<y, x>> \in R)
  <2> HIDE DEF T, R
  <2>1. IsWellFoundedOn(R, Nat)
    BY NatLessThanWellFounded DEF R
  <2>2. QED
    BY <2>1, <1>1, WFMin
<1>3. PICK x \in T : \A y \in T : ~(<<y, x>> \in R)
  BY <1>2
<1>4. ASSUME NEW y \in T
      PROVE  x <= y
  <2>1. x \in Nat /\ y \in Nat /\ ~(<<y, x>> \in R)
    BY <1>1, <1>3
  <2>2. y < x => <<y, x>> \in R
    BY <2>1 DEF OpToRel
  <2> HIDE DEF T, R
  <2>3. QED
    BY <2>1, <2>2
<1>5. PICK a \in S : x = n - a
  OBVIOUS
<1>6. ASSUME NEW b \in S
      PROVE  b <= a
  <2>1. n - b \in T
    OBVIOUS
  <2>2. x <= n - b
    BY <2>1, <1>4
  <2>3. QED
    BY <2>2, <1>5
<1>7. QED
  BY <1>6

(* Ages. *)
LEMMA AgeFacts ==
  /\ Age \subseteq Nat
  /\ 0 \in Age
  /\ \A a \in Age : Older(a) \in Age /\ a <= Older(a)
  /\ \A a \in Age : a <= MaxRoundTrip => Older(a) = a + 1
  /\ \A a, b \in Age : a <= b => Older(a) <= Older(b)
BY LimitsAssumption DEF Age, Older
-----------------------------------------------------------------------------
(* The age of an ACK PDU is the age of the oldest PDU it acknowledges. *)
LEMMA OldestFacts ==
  ASSUME NEW acks \in Seq(AckElem), acks # <<>>
  PROVE  /\ Oldest(acks) \in Age
         /\ \A k \in DOMAIN acks : acks[k].age <= Oldest(acks)
<1> DEFINE Ages == {acks[k].age : k \in DOMAIN acks}
<1>1. \A k \in DOMAIN acks : acks[k].age \in Age
  <2>1. \A k \in DOMAIN acks : acks[k] \in AckElem
    BY LenProperties
  <2>2. QED
    BY <2>1 DEF AckElem
<1>2. 1 \in DOMAIN acks
  BY EmptySeq, LenProperties
<1>3. Ages \subseteq 0..(MaxRoundTrip + 1) /\ Ages # {} /\ MaxRoundTrip + 1 \in Nat
  BY <1>1, <1>2, LimitsAssumption DEF Age
<1>4. \E a \in Ages : \A b \in Ages : b <= a
  <2> HIDE DEF Ages
  <2>1. QED
    BY <1>3, Greatest
<1>5. Oldest(acks) \in Ages /\ \A b \in Ages : b <= Oldest(acks)
  <2>1. Oldest(acks) = CHOOSE a \in Ages : \A b \in Ages : b <= a
    BY DEF Oldest
  <2> HIDE DEF Ages
  <2>2. QED
    BY <2>1, <1>4
<1>6. QED
  BY <1>5, <1>1

(* The ACKs placed and the ACKs left over make up the list. *)
LEMMA AckSplit ==
  ASSUME TypeInv, NEW e \in End
  PROVE  /\ AcksPlaced(e) \in Seq(AckElem)
         /\ AcksLeft(e) \in Seq(AckElem)
         /\ \A k \in DOMAIN AcksPlaced(e) :
              k \in DOMAIN to_ack_list[e] /\ AcksPlaced(e)[k] = to_ack_list[e][k]
         /\ \A k \in DOMAIN AcksLeft(e) :
              \E j \in DOMAIN to_ack_list[e] : AcksLeft(e)[k] = to_ack_list[e][j]
<1> DEFINE list == to_ack_list[e]
           n == AckCount(e)
<1>1. list \in Seq(AckElem)
  BY DEF TypeInv, TypeOK
<1>2. Len(list) \in Nat /\ DOMAIN list = 1..Len(list) /\ \A k \in 1..Len(list) : list[k] \in AckElem
  BY <1>1, LenProperties
<1>3. n \in 0..Len(list)
  BY <1>2, LimitsAssumption DEF AckCount
<1>4. AcksPlaced(e) = SubSeq(list, 1, n) /\ AcksLeft(e) = SubSeq(list, n + 1, Len(list))
  BY DEF AcksPlaced, AcksLeft
<1> HIDE DEF list, n
<1>5. /\ SubSeq(list, 1, n) \in Seq(AckElem)
      /\ Len(SubSeq(list, 1, n)) = n
      /\ \A i \in 1..n : SubSeq(list, 1, n)[i] = list[i]
  <2>1. \A i \in 1..n : list[i] \in AckElem
    BY <1>2, <1>3
  <2>2. /\ SubSeq(list, 1, n) \in Seq(AckElem)
        /\ Len(SubSeq(list, 1, n)) = IF 1 <= n THEN n - 1 + 1 ELSE 0
        /\ \A i \in 1..(n - 1 + 1) : SubSeq(list, 1, n)[i] = list[1 + i - 1]
    BY <2>1, <1>3, SubSeqProperties
  <2>3. QED
    BY <2>2, <1>2, <1>3
<1>6. /\ SubSeq(list, n + 1, Len(list)) \in Seq(AckElem)
      /\ Len(SubSeq(list, n + 1, Len(list))) = Len(list) - n
      /\ \A i \in 1..(Len(list) - n) : SubSeq(list, n + 1, Len(list))[i] = list[n + i]
  <2>1. \A i \in (n + 1)..Len(list) : list[i] \in AckElem
    BY <1>2, <1>3
  <2>2. /\ SubSeq(list, n + 1, Len(list)) \in Seq(AckElem)
        /\ Len(SubSeq(list, n + 1, Len(list))) =
             IF n + 1 <= Len(list) THEN Len(list) - (n + 1) + 1 ELSE 0
        /\ \A i \in 1..(Len(list) - (n + 1) + 1) :
             SubSeq(list, n + 1, Len(list))[i] = list[n + 1 + i - 1]
    BY <2>1, <1>2, <1>3, SubSeqProperties
  <2>3. Len(list) - (n + 1) + 1 = Len(list) - n /\ (n + 1 <= Len(list) \/ Len(list) - n = 0)
    <3>1. Len(list) \in Nat /\ n \in Nat /\ n <= Len(list)
      BY <1>2, <1>3
    <3>2. QED
      BY <3>1
  <2>4. ASSUME NEW i \in 1..(Len(list) - n)
        PROVE  SubSeq(list, n + 1, Len(list))[i] = list[n + i]
    <3>1. n + 1 + i - 1 = n + i
      BY <1>3
    <3>2. QED
      BY <3>1, <2>2, <2>3
  <2>5. QED
    BY <2>2, <2>3, <2>4
<1>7. DOMAIN SubSeq(list, 1, n) = 1..n
  BY <1>5, LenProperties
<1>8. DOMAIN SubSeq(list, n + 1, Len(list)) = 1..(Len(list) - n)
  BY <1>6, LenProperties
<1>9. ASSUME NEW k \in 1..(Len(list) - n)
      PROVE  \E j \in DOMAIN list : SubSeq(list, n + 1, Len(list))[k] = list[j]
  <2>1. n + k \in DOMAIN list
    BY <1>2, <1>3
  <2>2. QED
    BY <2>1, <1>6
<1>10. \A k \in 1..n : k \in DOMAIN list
  BY <1>2, <1>3
<1>11. QED
  BY <1>4, <1>5, <1>6, <1>7, <1>8, <1>9, <1>10 DEF list

(* The ACK PDU placed in a frame: its entries come from the list, and none *)
(* of them is older than the PDU.                                          *)
LEMMA AckPdusFacts ==
  ASSUME TypeInv, NEW e \in End, NEW m \in AckPdus(e)
  PROVE  /\ m \in AckMsg(Peer(e))
         /\ \A k \in DOMAIN m.acks :
              \E j \in DOMAIN to_ack_list[e] :
                m.acks[k] = to_ack_list[e][j] /\ to_ack_list[e][j].age <= m.age
<1> DEFINE acks == AcksPlaced(e)
<1>1. acks # <<>> /\ m = AckPdu(Peer(e), acks)
  BY DEF AckPdus
<1>2. acks \in Seq(AckElem)
  BY AckSplit
<1>3. \A k \in DOMAIN acks : k \in DOMAIN to_ack_list[e] /\ acks[k] = to_ack_list[e][k]
  BY AckSplit
<1> HIDE DEF acks
<1>4. Oldest(acks) \in Age /\ \A k \in DOMAIN acks : acks[k].age <= Oldest(acks)
  BY <1>1, <1>2, OldestFacts
<1>5. m = [type |-> "ack", to |-> Peer(e), age |-> Oldest(acks), acks |-> acks]
  BY <1>1 DEF AckPdu
<1>6. m \in AckMsg(Peer(e)) /\ m.acks = acks /\ m.age = Oldest(acks)
  BY <1>2, <1>4, <1>5 DEF AckMsg
<1>7. QED
  BY <1>3, <1>4, <1>6
-----------------------------------------------------------------------------
(* What TypeInv says of one slot of tx_ring. *)
LEMMA RingType ==
  ASSUME TypeInv, NEW e \in End, NEW i \in Index
  PROVE  /\ tx_ring[e] \in [Index -> RingElem(e)]
         /\ tx_ring[e][i] \in RingElem(e)
         /\ tx_ring[e][i].sent_index \in Index \cup {NotSent}
         /\ tx_ring[e][i].sent_index \in Int
         /\ tx_ring[e][i].retry_count \in Nat
         /\ tx_ring[e][i].pdcp_pdu \in Pdu(e) \cup {NoPdu}
         /\ tx_ring[e][i].acknowledged \in BOOLEAN
         /\ ~tx_ring[e][i].acknowledged => tx_ring[e][i].pdcp_pdu \in Pdu(e)
<1>1. tx_ring[e] \in [Index -> RingElem(e)] /\ tx_ring[e][i] \in RingElem(e)
  BY DEF TypeInv, TypeOK
<1>2. ~tx_ring[e][i].acknowledged => tx_ring[e][i].pdcp_pdu # NoPdu
  BY DEF TypeInv, WaitingHoldsPdu
<1>3. QED
  BY <1>1, <1>2, IndexType DEF RingElem, NotSent

(* Releasing a slot leaves its sent_index alone. *)
LEMMA ReleasedFacts ==
  ASSUME NEW e \in End, NEW r \in RingElem(e)
  PROVE  /\ Released(r) \in RingElem(e)
         /\ Released(r).sent_index = r.sent_index
         /\ Released(r).acknowledged
BY DEF Released, RingElem, NoPdu

(***************************************************************************)
(* check_retransmit releases the slot it checks, if that one waited, and   *)
(* touches no other.                                                       *)
(***************************************************************************)
LEMMA CheckFacts ==
  ASSUME TypeInv, NEW e \in End, NEW slot \in Index
  PROVE  /\ SentSlot(tx_ring[e], slot) \in Index
         /\ RingAfterCheck(e, slot) \in [Index -> RingElem(e)]
         /\ RingAfterCheck(e, slot)[SentSlot(tx_ring[e], slot)].acknowledged
         /\ \A i \in Index :
              /\ RingAfterCheck(e, slot)[i].sent_index = tx_ring[e][i].sent_index
              /\ i # SentSlot(tx_ring[e], slot) => RingAfterCheck(e, slot)[i] = tx_ring[e][i]
<1> DEFINE t == SentSlot(tx_ring[e], slot)
<1>1. t \in Index
  BY RingType, IndexType DEF SentSlot
<1>2. RingAfterCheck(e, slot) = [tx_ring[e] EXCEPT ![t] = Released(tx_ring[e][t])]
  BY DEF RingAfterCheck
<1>3. /\ tx_ring[e] \in [Index -> RingElem(e)]
      /\ tx_ring[e][t] \in RingElem(e)
  BY <1>1, RingType
<1> HIDE DEF t
<1>4. /\ Released(tx_ring[e][t]) \in RingElem(e)
      /\ Released(tx_ring[e][t]).sent_index = tx_ring[e][t].sent_index
      /\ Released(tx_ring[e][t]).acknowledged
  BY <1>3, ReleasedFacts
<1>5. QED
  BY <1>1, <1>2, <1>3, <1>4 DEF t

(* A list of PDUs to retransmit, after check_retransmit. *)
LEMMA RetxFacts ==
  ASSUME TypeInv, NEW e \in End, NEW slot \in Index
  PROVE  LET t == SentSlot(tx_ring[e], slot)
             old == to_retx_list[e]
             new == RetxAfterCheck(e, slot)
         IN  /\ old \in Seq(RetxElem(e))
             /\ new \in Seq(RetxElem(e))
             /\ tx_ring[e][t].acknowledged => new = old
             /\ ~tx_ring[e][t].acknowledged =>
                  /\ Len(new) = Len(old) + 1
                  /\ \A k \in 1..Len(old) : new[k] = old[k]
                  /\ new[Len(old) + 1] = [retry_count |-> tx_ring[e][t].retry_count,
                                          pdcp_pdu |-> tx_ring[e][t].pdcp_pdu]
<1> DEFINE t == SentSlot(tx_ring[e], slot)
           old == to_retx_list[e]
           elem == [retry_count |-> tx_ring[e][t].retry_count,
                    pdcp_pdu |-> tx_ring[e][t].pdcp_pdu]
<1>1. t \in Index
  BY CheckFacts
<1>2. old \in Seq(RetxElem(e))
  BY DEF TypeInv, TypeOK
<1>3. RetxAfterCheck(e, slot) = IF ~tx_ring[e][t].acknowledged THEN Append(old, elem) ELSE old
  BY DEF RetxAfterCheck, TimedOut
<1>4. CASE tx_ring[e][t].acknowledged
  BY <1>2, <1>3, <1>4
<1>5. CASE ~tx_ring[e][t].acknowledged
  <2>1. elem \in RetxElem(e)
    <3>1. tx_ring[e][t].retry_count \in Nat /\ tx_ring[e][t].pdcp_pdu \in Pdu(e)
      BY <1>1, <1>5, RingType
    <3>2. QED
      BY <3>1 DEF RetxElem
  <2>2. RetxAfterCheck(e, slot) = Append(old, elem)
    BY <1>3, <1>5
  <2> HIDE DEF elem, old
  <2>3. /\ Append(old, elem) \in Seq(RetxElem(e))
        /\ Len(Append(old, elem)) = Len(old) + 1
        /\ \A i \in 1..Len(old) : Append(old, elem)[i] = old[i]
        /\ Append(old, elem)[Len(old) + 1] = elem
    BY <1>2, <2>1, AppendProperties
  <2>4. QED
    BY <1>2, <1>5, <2>2, <2>3 DEF elem, old
<1>6. QED
  BY <1>4, <1>5

(* Head and tail of a list of PDUs to retransmit. *)
LEMMA RetxHeadTail ==
  ASSUME NEW e \in End, NEW s \in Seq(RetxElem(e)), s # <<>>
  PROVE  /\ Head(s) = s[1]
         /\ Head(s) \in RetxElem(e)
         /\ Head(s).pdcp_pdu \in Pdu(e)
         /\ Head(s).retry_count \in Nat
         /\ Tail(s) \in Seq(RetxElem(e))
         /\ Len(s) \in Nat \ {0}
         /\ Len(Tail(s)) = Len(s) - 1
         /\ \A k \in 1..Len(Tail(s)) : Tail(s)[k] = s[k + 1]
<1>1. Head(s) \in RetxElem(e)
  BY HeadTailProperties
<1>2. /\ Tail(s) \in Seq(RetxElem(e))
      /\ Len(Tail(s)) = Len(s) - 1
      /\ \A k \in 1..Len(Tail(s)) : Tail(s)[k] = s[k + 1]
  BY HeadTailProperties
<1>3. Len(s) \in Nat \ {0}
  BY EmptySeq
<1>4. Head(s) = s[1]
  OBVIOUS
<1>5. QED
  BY <1>1, <1>2, <1>3, <1>4 DEF RetxElem
-----------------------------------------------------------------------------
(* The numbers an entry acknowledges are sequence numbers. *)
LEMMA AckedSnsType ==
  ASSUME NEW x \in AckElem
  PROVE  AckedSns(x) \subseteq Sn
<1>1. x.first \in Nat /\ x.second \in Nat
  BY SnModAssumption DEF AckElem
<1>2. x.second % SnMod \in Nat
  BY <1>1, SnModAssumption
<1>3. ASSUME NEW j \in 0..((x.second % SnMod) - 1)
      PROVE  (x.first + j) % SnMod \in Sn
  BY <1>1, <1>2, SnModAssumption DEF Sn
<1>4. QED
  BY <1>3 DEF AckedSns

(* An entry that is extended acknowledges one number more, at most; a new  *)
(* entry acknowledges the number it is for, at most.                       *)
LEMMA ExtendedEntry ==
  ASSUME NEW x \in AckElem, NEW y \in AckElem, NEW sn \in Sn,
         x.first + x.second = sn, y.first = x.first, y.second = x.second + 1
  PROVE  AckedSns(y) \subseteq AckedSns(x) \cup {sn}
<1>1. /\ x.first \in 0..(SnMod - 1)
      /\ x.second \in 1..SnMod
      /\ sn \in 0..(SnMod - 1)
  BY DEF AckElem, Sn
<1>2. x.second + 1 \in 1..SnMod /\ x.second \in 1..(SnMod - 1)
  BY <1>1, SnModAssumption
<1>4. y.first = x.first /\ y.second = x.second + 1
  OBVIOUS
<1>5. ASSUME NEW j \in 0..((y.second % SnMod) - 1)
      PROVE  (y.first + j) % SnMod \in AckedSns(x) \cup {sn}
  <2>1. x.second % SnMod = x.second
    BY <1>2, SnModAssumption
  <2>2. j \in 0..x.second
    <3>1. y.second % SnMod <= y.second
      <4>1. CASE y.second = SnMod
        <5>1. SnMod % SnMod = 0
          BY SnModAssumption
        <5>2. QED
          BY <5>1, <4>1, SnModAssumption
      <4>2. CASE y.second # SnMod
        <5>1. y.second \in 0..(SnMod - 1)
          BY <4>2, <1>2, <1>4, SnModAssumption
        <5>2. QED
          BY <5>1, SnModAssumption
      <4>3. QED
        BY <4>1, <4>2
    <3>2. y.second % SnMod \in Nat
      BY <1>2, <1>4, SnModAssumption
    <3>3. QED
      BY <3>1, <3>2, <1>2, <1>4
  <2>3. CASE j = x.second
    <3>1. sn % SnMod = sn
      BY <1>1, SnModAssumption
    <3>2. QED
      BY <3>1, <2>3, <1>4
  <2>4. CASE j # x.second
    <3>1. j \in 0..((x.second % SnMod) - 1)
      BY <2>1, <2>2, <2>4, <1>2
    <3>2. QED
      BY <3>1, <1>4 DEF AckedSns
  <2>5. QED
    BY <2>3, <2>4
<1>6. AckedSns(y) = {(y.first + j) % SnMod : j \in 0..((y.second % SnMod) - 1)}
  BY DEF AckedSns
<1>7. QED
  BY <1>5, <1>6

(* A new entry of to_ack_list stands for its number only. *)
LEMMA NewEntry ==
  ASSUME NEW sn \in Sn, NEW y \in AckElem, y.first = sn, y.second = 1
  PROVE  AckedSns(y) \subseteq {sn}
<1>1. sn \in 0..(SnMod - 1)
  BY SnModAssumption DEF Sn
<1>2. y.first = sn /\ y.second = 1
  OBVIOUS
<1>3. 1 % SnMod <= 1 /\ 1 % SnMod \in Nat
  <2>1. CASE SnMod = 1
    BY <2>1
  <2>2. CASE SnMod # 1
    <3>1. 1 \in 0..(SnMod - 1)
      BY <2>2, SnModAssumption
    <3>2. 1 % SnMod = 1
      BY <3>1, SnModAssumption
    <3>3. QED
      BY <3>2
  <2>3. QED
    BY <2>1, <2>2
<1>4. ASSUME NEW j \in 0..((y.second % SnMod) - 1)
      PROVE  (y.first + j) % SnMod = sn
  <2>1. j = 0
    BY <1>2, <1>3
  <2>2. sn % SnMod = sn
    BY <1>1, SnModAssumption
  <2>3. QED
    BY <2>1, <2>2, <1>1, <1>2
<1>5. QED
  BY <1>2, <1>4 DEF AckedSns

(***************************************************************************)
(* to_acknowledge: an entry of the new list is an old one, or one whose    *)
(* numbers are those of an old one and sn, or sn alone; and it is at least *)
(* as old as what it acknowledges.                                         *)
(***************************************************************************)
LEMMA ToAcknowledgeFacts ==
  ASSUME NEW list \in Seq(AckElem), NEW sn \in Sn, NEW age \in Age
  PROVE  LET new == to_acknowledge(list, sn, age) IN
         /\ new \in Seq(AckElem)
         /\ \A k \in DOMAIN new :
              \/ k \in DOMAIN list /\ new[k] = list[k]
              \/ age <= new[k].age /\ AckedSns(new[k]) \subseteq {sn}
              \/ /\ k \in DOMAIN list
                 /\ age <= new[k].age /\ list[k].age <= new[k].age
                 /\ AckedSns(new[k]) \subseteq AckedSns(list[k]) \cup {sn}
<1> DEFINE new == to_acknowledge(list, sn, age)
<1>1. Len(list) \in Nat /\ DOMAIN list = 1..Len(list)
  BY LenProperties
<1>2. CASE list # <<>> /\ list[1].first + list[1].second = sn
  <2> DEFINE y == [list[1] EXCEPT !.second = @ + 1, !.age = IF age > @ THEN age ELSE @]
  <2>1. 1 \in 1..Len(list) /\ list[1] \in AckElem
    BY <1>2, <1>1, EmptySeq, ElementOfSeq
  <2>2. new = [list EXCEPT ![1] = y]
    BY <1>2, <2>1 DEF to_acknowledge, AckElem
  <2>3. /\ y \in AckElem
        /\ age <= y.age /\ list[1].age <= y.age
        /\ AckedSns(y) \subseteq AckedSns(list[1]) \cup {sn}
    <3> DEFINE x == list[1]
               a == IF age > x.age THEN age ELSE x.age
               n == x.second + 1
    <3>1. /\ x \in AckElem /\ x.first + x.second = sn
          /\ x.first \in 0..(SnMod - 1) /\ x.second \in 1..SnMod /\ x.age \in Age
      BY <1>2, <2>1 DEF AckElem
    <3>2. y = [x EXCEPT !.second = n, !.age = a]
      BY <2>1 DEF AckElem
    <3>3. a \in Age /\ age <= a /\ x.age <= a
      BY <3>1, LimitsAssumption DEF Age
    <3> HIDE DEF x, y, a
    <3>4. n \in 1..SnMod
      BY <3>1, SnModAssumption DEF Sn
    <3> HIDE DEF n
    <3>5. y \in AckElem /\ y.first = x.first /\ y.second = n /\ y.age = a
      BY <3>1, <3>2, <3>3, <3>4 DEF AckElem
    <3>6. AckedSns(y) \subseteq AckedSns(x) \cup {sn}
      BY <3>1, <3>5, ExtendedEntry DEF n
    <3>7. QED
      BY <3>3, <3>5, <3>6 DEF x
  <2> HIDE DEF y, new
  <2>4. /\ new \in Seq(AckElem)
        /\ Len(new) = Len(list)
        /\ \A j \in 1..Len(list) : new[j] = IF j = 1 THEN y ELSE list[j]
    BY <2>1, <2>2, <2>3, ExceptSeq
  <2>5. DOMAIN new = DOMAIN list
    BY <1>1, <2>4, LenProperties
  <2>6. QED
    BY <1>1, <2>3, <2>4, <2>5 DEF new
<1>3. CASE ~(list # <<>> /\ list[1].first + list[1].second = sn)
  <2> DEFINE y == [first |-> sn, second |-> 1, age |-> age]
  <2>1. new = Append(list, y)
    BY <1>3 DEF to_acknowledge
  <2>2. y \in AckElem /\ y.age = age /\ AckedSns(y) \subseteq {sn}
    <3>1. 1 \in 1..SnMod
      BY SnModAssumption
    <3>2. y \in AckElem /\ y.first = sn /\ y.second = 1 /\ y.age = age
      BY <3>1 DEF AckElem, Sn
    <3> HIDE DEF y
    <3>3. QED
      BY <3>2, NewEntry
  <2>3. age <= y.age
    BY <2>2, AgeFacts
  <2> HIDE DEF y, new
  <2>4. /\ new \in Seq(AckElem)
        /\ Len(new) = Len(list) + 1
        /\ \A i \in 1..Len(list) : new[i] = list[i]
        /\ new[Len(list) + 1] = y
    BY <2>1, <2>2, AppendProperties
  <2>5. DOMAIN new = 1..(Len(list) + 1)
    BY <2>4, LenProperties
  <2>6. \A k \in DOMAIN new : k \in DOMAIN list \/ k = Len(list) + 1
    BY <1>1, <2>5
  <2>7. QED
    BY <1>1, <2>2, <2>3, <2>4, <2>6 DEF new
<1>4. QED
  BY <1>2, <1>3
-----------------------------------------------------------------------------
(* A PDU, and an entry of to_ack_list, after a tick of the end whose data  *)
(* they carry or acknowledge.                                              *)
Aged(m, e) == IF DataOf(m, e) THEN [m EXCEPT !.age = Older(@)] ELSE m
AgedAck(x) == [x EXCEPT !.age = Older(@)]

(* An ACK that ages is still an ACK. *)
LEMMA AgedAckMsg ==
  ASSUME NEW e \in End, NEW x \in End, NEW m \in AckMsg(x)
  PROVE  /\ Aged(m, e) \in AckMsg(x)
         /\ Aged(m, e).acks = m.acks
         /\ Aged(m, e).age = IF x = e THEN Older(m.age) ELSE m.age
         /\ x # e => Aged(m, e) = m
<1>1. m.type = "ack" /\ m.to = x /\ m.age \in Age
  BY DEF AckMsg
<1>2. DataOf(m, e) <=> x = e
  BY <1>1 DEF DataOf
<1>3. Older(m.age) \in Age
  BY <1>1, AgeFacts
<1>4. CASE x = e
  <2>1. Aged(m, e) = [m EXCEPT !.age = Older(m.age)]
    BY <1>2, <1>4 DEF Aged, AckMsg
  <2>2. QED
    BY <1>3, <1>4, <2>1 DEF AckMsg
<1>5. CASE x # e
  BY <1>2, <1>5 DEF Aged
<1>6. QED
  BY <1>4, <1>5

(* Data that age are still data, of the same number and PDU. *)
LEMMA AgedDataMsg ==
  ASSUME NEW e \in End, NEW x \in End, NEW m \in DataMsg(x)
  PROVE  /\ Aged(m, e) \in DataMsg(x)
         /\ Aged(m, e).sn = m.sn
         /\ Aged(m, e).pdu = m.pdu
         /\ Aged(m, e).age = IF x = e THEN Older(m.age) ELSE m.age
         /\ x # e => Aged(m, e) = m
<1>1. m.type = "data" /\ m.to = Peer(x) /\ m.age \in Age
  BY DEF DataMsg
<1>2. Peer(x) # e <=> x = e
  BY PeerFacts
<1>3. DataOf(m, e) <=> x = e
  BY <1>1, <1>2 DEF DataOf
<1>4. Older(m.age) \in Age
  BY <1>1, AgeFacts
<1>5. CASE x = e
  <2>1. Aged(m, e) = [m EXCEPT !.age = Older(m.age)]
    BY <1>3, <1>5 DEF Aged, DataMsg
  <2>2. QED
    BY <1>4, <1>5, <2>1 DEF DataMsg
<1>6. CASE x # e
  BY <1>3, <1>6 DEF Aged
<1>7. QED
  BY <1>5, <1>6

(* AgedPdus is Aged at every PDU. *)
LEMMA AgedPdusFacts ==
  ASSUME NEW S, NEW e
  PROVE  AgedPdus(S, e) = {Aged(m, e) : m \in S}
BY DEF AgedPdus, Aged

(* What ages in an entry of to_ack_list is its age. *)
LEMMA AgedAckFacts ==
  ASSUME NEW x \in AckElem
  PROVE  /\ AgedAck(x) \in AckElem
         /\ AckedSns(AgedAck(x)) = AckedSns(x)
         /\ AgedAck(x).age = Older(x.age)
<1>1. x.age \in Age /\ Older(x.age) \in Age
  BY AgeFacts DEF AckElem
<1>2. AgedAck(x) = [x EXCEPT !.age = Older(x.age)]
  BY DEF AgedAck
<1>3. /\ AgedAck(x) \in AckElem
      /\ AgedAck(x).first = x.first /\ AgedAck(x).second = x.second
      /\ AgedAck(x).age = Older(x.age)
  BY <1>1, <1>2 DEF AckElem
<1>4. QED
  BY <1>3 DEF AckedSns

(* The list keeps its length and the numbers of its entries. *)
LEMMA AgedAcksFacts ==
  ASSUME NEW list \in Seq(AckElem)
  PROVE  /\ AgedAcks(list) \in Seq(AckElem)
         /\ DOMAIN AgedAcks(list) = DOMAIN list
         /\ \A k \in DOMAIN list : AgedAcks(list)[k] = AgedAck(list[k])
<1>1. Len(list) \in Nat /\ DOMAIN list = 1..Len(list) /\ \A k \in 1..Len(list) : list[k] \in AckElem
  BY LenProperties
<1>2. AgedAcks(list) = [k \in 1..Len(list) |-> AgedAck(list[k])]
  BY <1>1 DEF AgedAcks, AgedAck
<1>3. \A k \in 1..Len(list) : AgedAck(list[k]) \in AckElem
  BY <1>1, AgedAckFacts
<1>4. AgedAcks(list) \in Seq(AckElem)
  BY <1>1, <1>2, <1>3
<1>5. QED
  BY <1>1, <1>2, <1>4
-----------------------------------------------------------------------------
(***************************************************************************)
(* What each action does to each of the two ends, entry by entry: the      *)
(* proofs below refer to these and not to the actions.                     *)
(***************************************************************************)
LEMMA ProbeEffect ==
  ASSUME TypeInv, NEW e \in End, OnTxProbe(e)
  PROVE  LET p == Peer(e)
             slot == tx_ring_index(slot_number[e] + 1)
         IN
         /\ tick[e] = "wait"
         /\ slot_number' = [slot_number EXCEPT ![e] = slot]
         /\ slot_number'[e] = slot /\ slot_number'[p] = slot_number[p]
         /\ tick'[p] = tick[p]
         /\ tick' \in [End -> {"wait", "probed"}]
         /\ tx_ring'[p] = tx_ring[p]
         /\ to_retx_list'[p] = to_retx_list[p]
         /\ to_ack_list'[p] = AgedAcks(to_ack_list[p])
         /\ frame'[p] = {Aged(m, e) : m \in frame[p]}
         /\ frame'[e] \subseteq frame[e] \cup AckPdus(e)
         /\ \A m \in air' : /\ m.age <= MaxRoundTrip
                            /\ m \in AckPdus(e) \/ \E n \in air : m = Aged(n, e)
         /\ quiet'[p] = quiet[p]
         /\ is_tx_enabled[e] =>
              /\ tx_ring'[e] = RingAfterCheck(e, slot)
              /\ to_retx_list'[e] = RetxAfterCheck(e, slot)
              /\ to_ack_list'[e] = AcksLeft(e)
              /\ quiet' = quiet
         /\ ~is_tx_enabled[e] =>
              /\ tx_ring'[e] = tx_ring[e]
              /\ to_retx_list'[e] = to_retx_list[e]
              /\ to_ack_list'[e] = to_ack_list[e]
              /\ frame'[e] = frame[e]
              /\ \A m \in air' : \E n \in air : m = Aged(n, e)
              /\ quiet'[e] = Older(quiet[e])
              /\ quiet' = [quiet EXCEPT ![e] = Older(@)]
         /\ UNCHANGED <<is_tx_enabled, is_rx_enabled, sn_counter, sn_ring, rlf_event,
                        next_pdu, history>>
         /\ Domains'
<1> DEFINE p == Peer(e)
           slot == tx_ring_index(slot_number[e] + 1)
<1>1. p \in End /\ p # e
  BY PeerFacts
<1>2. AgedPdus(air, e) = {Aged(m, e) : m \in air} /\ AgedPdus(frame[p], e) = {Aged(m, e) : m \in frame[p]}
  BY AgedPdusFacts
<1>3. /\ tick[e] = "wait"
      /\ slot_number' = [slot_number EXCEPT ![e] = slot]
      /\ UNCHANGED <<is_tx_enabled, is_rx_enabled, sn_counter, sn_ring, rlf_event,
                     next_pdu, history>>
  BY DEF OnTxProbe
<1>4. /\ slot_number \in [End -> Index] /\ quiet \in [End -> Age]
      /\ tick \in [End -> {"wait", "probed"}]
      /\ Domains
  BY DEF TypeInv, TypeOK
<1>5. CASE is_tx_enabled[e]
  <2>1. /\ tx_ring' = [tx_ring EXCEPT ![e] = RingAfterCheck(e, slot)]
        /\ to_retx_list' = [to_retx_list EXCEPT ![e] = RetxAfterCheck(e, slot)]
        /\ to_ack_list' = [to_ack_list EXCEPT ![e] = AcksLeft(e), ![p] = AgedAcks(@)]
        /\ UNCHANGED quiet
    BY <1>5 DEF OnTxProbe
  <2>2. /\ tick' = [tick EXCEPT ![e] = "probed"] \/ tick' = tick
        /\ \/ frame' = [frame EXCEPT ![e] = AckPdus(e), ![p] = AgedPdus(@, e)]
           \/ frame' = [frame EXCEPT ![p] = AgedPdus(@, e)]
        /\ \A m \in air' : m \in AgedPdus(air, e) \cup AckPdus(e) /\ m.age <= MaxRoundTrip
    BY <1>5 DEF OnTxProbe
  <2>3. /\ DOMAIN frame' = End
        /\ frame'[p] = AgedPdus(frame[p], e)
        /\ frame'[e] = AckPdus(e) \/ frame'[e] = frame[e]
    BY <2>2, <1>1, <1>4 DEF Domains
  <2>4. /\ to_ack_list'[e] = AcksLeft(e) /\ to_ack_list'[p] = AgedAcks(to_ack_list[p])
        /\ DOMAIN to_ack_list' = End
    BY <2>1, <1>1, <1>4 DEF Domains
  <2>5. /\ tx_ring'[e] = RingAfterCheck(e, slot) /\ tx_ring'[p] = tx_ring[p]
        /\ to_retx_list'[e] = RetxAfterCheck(e, slot) /\ to_retx_list'[p] = to_retx_list[p]
        /\ tick'[p] = tick[p]
        /\ tick' \in [End -> {"wait", "probed"}]
        /\ slot_number'[e] = slot /\ slot_number'[p] = slot_number[p]
        /\ DOMAIN tx_ring' = End /\ DOMAIN to_retx_list' = End
    BY <2>1, <2>2, <1>1, <1>3, <1>4 DEF Domains
  <2>6. \A m \in air' : m \in AckPdus(e) \/ \E n \in air : m = Aged(n, e)
    BY <2>2, <1>2
  <2>7. Domains'
    BY <1>3, <1>4, <2>3, <2>4, <2>5 DEF Domains, history
  <2>8. QED
    BY <1>2, <1>3, <1>5, <2>1, <2>2, <2>3, <2>4, <2>5, <2>6, <2>7
<1>6. CASE ~is_tx_enabled[e]
  <2>1. /\ to_ack_list' = [to_ack_list EXCEPT ![p] = AgedAcks(@)]
        /\ frame' = [frame EXCEPT ![p] = AgedPdus(@, e)]
        /\ air' = {m \in AgedPdus(air, e) : m.age <= MaxRoundTrip}
        /\ quiet' = [quiet EXCEPT ![e] = Older(@)]
        /\ UNCHANGED <<tick, tx_ring, to_retx_list>>
    BY <1>6 DEF OnTxProbe
  <2>2. /\ frame'[p] = AgedPdus(frame[p], e) /\ frame'[e] = frame[e]
        /\ to_ack_list'[e] = to_ack_list[e] /\ to_ack_list'[p] = AgedAcks(to_ack_list[p])
        /\ DOMAIN frame' = End /\ DOMAIN to_ack_list' = End
        /\ quiet'[e] = Older(quiet[e]) /\ quiet'[p] = quiet[p]
        /\ slot_number'[e] = slot /\ slot_number'[p] = slot_number[p]
    BY <2>1, <1>1, <1>3, <1>4 DEF Domains
  <2>3. \A m \in air' : m.age <= MaxRoundTrip /\ \E n \in air : m = Aged(n, e)
    BY <2>1, <1>2
  <2>4. Domains'
    BY <1>3, <1>4, <2>1, <2>2 DEF Domains, history
  <2>5. QED
    BY <1>2, <1>3, <1>4, <1>6, <2>1, <2>2, <2>3, <2>4
<1>7. QED
  BY <1>5, <1>6, <1>4 DEF TypeInv, TypeOK

(* Where the PDU sent in slot i is checked. *)
CheckSlot(i) == tx_ring_index(i + ArqWindow)

(* The slot that checks slot i. *)
LEMMA CheckSlotFacts ==
  ASSUME NEW i \in Index
  PROVE  CheckSlot(i) \in Index /\ CheckSlot(i) # i
         /\ CheckSlot(i) = IF i + ArqWindow < TxRingSize THEN i + ArqWindow
                           ELSE i + ArqWindow - TxRingSize
<1>1. i \in Nat /\ i < TxRingSize /\ i + ArqWindow \in Nat
  BY WindowAssumption DEF Index
<1>2. CASE i + ArqWindow < TxRingSize
  BY <1>1, <1>2, WindowAssumption DEF CheckSlot, tx_ring_index, Index
<1>3. CASE ~(i + ArqWindow < TxRingSize)
  <2>1. i + ArqWindow - TxRingSize \in 0..(TxRingSize - 1)
    BY <1>1, <1>3, WindowAssumption
  <2>2. (i + ArqWindow) % TxRingSize = i + ArqWindow - TxRingSize
    BY <2>1, <1>1, WindowAssumption
  <2>3. QED
    BY <2>1, <2>2, <1>1, <1>3, WindowAssumption DEF CheckSlot, tx_ring_index, Index
<1>4. QED
  BY <1>2, <1>3

(* The tx_ring after a PDU was recorded in slot s, to be checked in slot c. *)
Recorded(ring, s, c, pdu, retry_count) ==
  [ring EXCEPT ![s].retry_count = retry_count,
               ![s].pdcp_pdu = pdu,
               ![s].acknowledged = FALSE,
               ![c].sent_index = s]

(* What on_tx records in tx_ring, slot by slot. *)
LEMMA RecordedFacts ==
  ASSUME NEW e \in End, NEW ring \in [Index -> RingElem(e)],
         NEW s \in Index, NEW c \in Index, s # c,
         NEW pdu \in Pdu(e), NEW retry_count \in Nat,
         NEW new, new = Recorded(ring, s, c, pdu, retry_count)
  PROVE  /\ new \in [Index -> RingElem(e)]
         /\ \A i \in Index : new[i].sent_index = IF i = c THEN s ELSE ring[i].sent_index
         /\ ~new[s].acknowledged /\ new[s].pdcp_pdu = pdu /\ new[s].retry_count = retry_count
         /\ \A i \in Index : i # s => /\ new[i].acknowledged = ring[i].acknowledged
                                      /\ new[i].pdcp_pdu = ring[i].pdcp_pdu
                                      /\ new[i].retry_count = ring[i].retry_count
<1> DEFINE rs == [ring[s] EXCEPT !.retry_count = retry_count, !.pdcp_pdu = pdu,
                                 !.acknowledged = FALSE]
           rc == [ring[c] EXCEPT !.sent_index = s]
<1>1. new = [ring EXCEPT ![s] = rs, ![c] = rc]
  BY DEF Recorded, RingElem
<1>2. ring[s] \in RingElem(e) /\ ring[c] \in RingElem(e)
  OBVIOUS
<1>3. /\ rs \in RingElem(e) /\ rs.sent_index = ring[s].sent_index
      /\ ~rs.acknowledged /\ rs.pdcp_pdu = pdu /\ rs.retry_count = retry_count
  BY <1>2 DEF RingElem
<1>4. /\ rc \in RingElem(e) /\ rc.sent_index = s
      /\ rc.acknowledged = ring[c].acknowledged /\ rc.pdcp_pdu = ring[c].pdcp_pdu
      /\ rc.retry_count = ring[c].retry_count
  BY <1>2 DEF RingElem
<1> HIDE DEF rs, rc
<1>5. QED
  BY <1>1, <1>3, <1>4

(* What SendData does, at the sender and at its peer. *)
LEMMA SendEffect ==
  ASSUME TypeInv, NEW e \in End, NEW ring \in [Index -> RingElem(e)],
         NEW pdu \in Pdu(e), NEW retry_count \in Nat,
         SendData(e, ring, pdu, retry_count)
  PROVE  LET p == Peer(e)
             s == slot_number[e]
             c == CheckSlot(s)
             sn == sn_counter[e]
         IN
         /\ sn_counter' \in [End -> Sn]
         /\ sn_counter'[e] = increment_sn(sn) /\ sn_counter'[p] = sn_counter[p]
         /\ DOMAIN tx_ring' = End
         /\ tx_ring'[p] = tx_ring[p]
         /\ tx_ring'[e] \in [Index -> RingElem(e)]
         /\ \A i \in Index : tx_ring'[e][i].sent_index = IF i = c THEN s ELSE ring[i].sent_index
         /\ ~tx_ring'[e][s].acknowledged
         /\ tx_ring'[e][s].pdcp_pdu = pdu
         /\ tx_ring'[e][s].retry_count = retry_count
         /\ \A i \in Index : i # s =>
              /\ tx_ring'[e][i].acknowledged = ring[i].acknowledged
              /\ tx_ring'[e][i].pdcp_pdu = ring[i].pdcp_pdu
              /\ tx_ring'[e][i].retry_count = ring[i].retry_count
         /\ sn_ring' \in [End -> [0..(ArqWindow - 1) -> Index]]
         /\ sn_ring'[p] = sn_ring[p]
         /\ \A n \in 0..(ArqWindow - 1) :
              sn_ring'[e][n] = IF n = sn_ring_index(sn) THEN c ELSE sn_ring[e][n]
         /\ sends' = [sends EXCEPT ![e][pdu] = @ + 1]
         /\ \A m \in air' : /\ m.age <= MaxRoundTrip \/ m \in air
                            /\ m \in air \cup frame[e] \cup AckPdus(e) \cup {DataPdu(p, sn, pdu)}
         /\ DOMAIN to_ack_list' = End
         /\ to_ack_list'[e] = AcksLeft(e) /\ to_ack_list'[p] = to_ack_list[p]
         /\ DOMAIN frame' = End
         /\ frame'[e] = {} /\ frame'[p] = frame[p]
         /\ tick' \in [End -> {"wait", "probed"}]
         /\ tick'[e] = "wait" /\ tick'[p] = tick[p]
<1> DEFINE p == Peer(e)
           s == slot_number[e]
           c == CheckSlot(s)
           sn == sn_counter[e]
<1>1. p \in End /\ p # e
  BY PeerFacts
<1>2. /\ s \in Index /\ sn \in Sn
      /\ slot_number \in [End -> Index] /\ sn_counter \in [End -> Sn]
      /\ sn_ring \in [End -> [0..(ArqWindow - 1) -> Index]]
      /\ tick \in [End -> {"wait", "probed"}]
      /\ Domains
  BY DEF TypeInv, TypeOK, Sn
<1>3. c \in Index /\ c # s
  BY <1>2, CheckSlotFacts
<1>4. sn_ring_index(sn) \in 0..(ArqWindow - 1) /\ increment_sn(sn) \in Sn
  BY <1>2, SnIndexType, IncrementType
<1>5. /\ sn_counter' = [sn_counter EXCEPT ![e] = increment_sn(sn)]
      /\ tx_ring' = [tx_ring EXCEPT ![e] = Recorded(ring, s, c, pdu, retry_count)]
      /\ sn_ring' = [sn_ring EXCEPT ![e][sn_ring_index(sn)] = c]
      /\ sends' = [sends EXCEPT ![e][pdu] = @ + 1]
      /\ air' = air \cup {m \in frame[e] \cup AckPdus(e) \cup {DataPdu(p, sn, pdu)} :
                            m.age <= MaxRoundTrip}
      /\ to_ack_list' = [to_ack_list EXCEPT ![e] = AcksLeft(e)]
      /\ frame' = [frame EXCEPT ![e] = {}]
      /\ tick' = [tick EXCEPT ![e] = "wait"]
  BY DEF SendData, Emit, Recorded, CheckSlot
<1> HIDE DEF p, s, c, sn
<1>6. /\ DOMAIN tx_ring' = End
      /\ tx_ring'[e] = Recorded(ring, s, c, pdu, retry_count)
      /\ tx_ring'[p] = tx_ring[p]
  BY <1>1, <1>2, <1>5 DEF Domains
<1>7. /\ tx_ring'[e] \in [Index -> RingElem(e)]
      /\ \A i \in Index : tx_ring'[e][i].sent_index = IF i = c THEN s ELSE ring[i].sent_index
      /\ ~tx_ring'[e][s].acknowledged
      /\ tx_ring'[e][s].pdcp_pdu = pdu
      /\ tx_ring'[e][s].retry_count = retry_count
      /\ \A i \in Index : i # s =>
           /\ tx_ring'[e][i].acknowledged = ring[i].acknowledged
           /\ tx_ring'[e][i].pdcp_pdu = ring[i].pdcp_pdu
           /\ tx_ring'[e][i].retry_count = ring[i].retry_count
  BY <1>2, <1>3, <1>6, RecordedFacts
<1>8. /\ sn_counter' \in [End -> Sn]
      /\ sn_counter'[e] = increment_sn(sn) /\ sn_counter'[p] = sn_counter[p]
      /\ tick' \in [End -> {"wait", "probed"}]
      /\ tick'[e] = "wait" /\ tick'[p] = tick[p]
  BY <1>1, <1>2, <1>4, <1>5
<1>9. /\ sn_ring' \in [End -> [0..(ArqWindow - 1) -> Index]]
      /\ sn_ring'[p] = sn_ring[p]
      /\ \A n \in 0..(ArqWindow - 1) :
           sn_ring'[e][n] = IF n = sn_ring_index(sn) THEN c ELSE sn_ring[e][n]
  BY <1>1, <1>2, <1>3, <1>4, <1>5
<1>10. /\ DOMAIN to_ack_list' = End /\ DOMAIN frame' = End
       /\ to_ack_list'[e] = AcksLeft(e) /\ to_ack_list'[p] = to_ack_list[p]
       /\ frame'[e] = {} /\ frame'[p] = frame[p]
  BY <1>1, <1>2, <1>5 DEF Domains
<1>11. \A m \in air' : /\ m.age <= MaxRoundTrip \/ m \in air
                       /\ m \in air \cup frame[e] \cup AckPdus(e) \cup {DataPdu(p, sn, pdu)}
  BY <1>5
<1>12. QED
  BY <1>5, <1>6, <1>7, <1>8, <1>9, <1>10, <1>11 DEF p, s, c, sn

(***************************************************************************)
(* The PDUs on their way after an action of e come from those before it    *)
(* (possibly a tick older), from to_ack_list of e or are data sent by e.   *)
(***************************************************************************)
LEMMA WireStep ==
  ASSUME TypeInv, NEW e \in End,
         \A m \in frame'[e] : m \in frame[e] \cup AckPdus(e),
         \A m \in frame'[Peer(e)] : m \in frame[Peer(e)] \/ \E n \in frame[Peer(e)] : m = Aged(n, e),
         \A m \in air' : /\ m.age <= MaxRoundTrip \/ m \in air
                         /\ \/ m \in air \cup frame[e] \cup AckPdus(e) \cup DataMsg(e)
                            \/ \E n \in air : m = Aged(n, e)
  PROVE  WireTypes'
<1>1. /\ \A x \in End : frame[x] \subseteq AckMsg(Peer(x))
      /\ \A m \in air : (\E x \in End : m \in AckMsg(x) \cup DataMsg(x)) /\ m.age <= MaxRoundTrip
  BY DEF TypeInv, WireTypes
<1>2. Peer(e) \in End /\ Peer(Peer(e)) = e /\ \A x \in End : x = e \/ x = Peer(e)
  BY PeerFacts
<1>3. \A m \in AckPdus(e) : m \in AckMsg(Peer(e))
  BY AckPdusFacts
<1>4. frame'[e] \subseteq AckMsg(Peer(e))
  BY <1>1, <1>3
<1>5. frame'[Peer(e)] \subseteq AckMsg(e)
  BY <1>1, <1>2, AgedAckMsg
<1>6. ASSUME NEW m \in air'
      PROVE  (\E x \in End : m \in AckMsg(x) \cup DataMsg(x)) /\ m.age <= MaxRoundTrip
  <2>1. m.age <= MaxRoundTrip
    BY <1>1
  <2>2. CASE m \in air \cup frame[e] \cup AckPdus(e) \cup DataMsg(e)
    BY <1>1, <1>2, <1>3, <2>1, <2>2
  <2>3. CASE \E n \in air : m = Aged(n, e)
    <3>1. PICK n \in air : m = Aged(n, e)
      BY <2>3
    <3>2. PICK x \in End : n \in AckMsg(x) \cup DataMsg(x)
      BY <1>1
    <3>3. m \in AckMsg(x) \cup DataMsg(x)
      BY <3>1, <3>2, AgedAckMsg, AgedDataMsg
    <3>4. QED
      BY <3>3, <2>1
  <2>4. QED
    BY <2>2, <2>3
<1>7. QED
  BY <1>2, <1>4, <1>5, <1>6 DEF WireTypes

(* TypeInv of the next state, end by end. *)
LEMMA TypeStep ==
  ASSUME NEW e \in End,
         slot_number' \in [End -> Index],
         tick' \in [End -> {"wait", "probed"}],
         is_tx_enabled' \in [End -> BOOLEAN],
         is_rx_enabled' \in [End -> BOOLEAN],
         rlf_event' \in [End -> BOOLEAN],
         quiet' \in [End -> Age],
         sn_counter' \in [End -> Sn],
         sn_ring' \in [End -> [0..(ArqWindow - 1) -> Index]],
         Domains', WireTypes',
         \A x \in {e, Peer(e)} :
           /\ tx_ring'[x] \in [Index -> RingElem(x)]
           /\ \A i \in Index : ~tx_ring'[x][i].acknowledged => tx_ring'[x][i].pdcp_pdu # NoPdu
           /\ to_retx_list'[x] \in Seq(RetxElem(x))
           /\ to_ack_list'[x] \in Seq(AckElem)
           /\ next_pdu'[x] \in 1..(MaxPdu[x] + 1)
  PROVE  TypeInv'
<1>1. \A x \in End : x \in {e, Peer(e)}
  BY PeerFacts
<1>2. TypeOK'
  BY <1>1 DEF TypeOK, Sn
<1>3. QED
  BY <1>1, <1>2 DEF TypeInv, WaitingHoldsPdu

(* What TypeInv says of one end. *)
LEMMA TypeOfEnd ==
  ASSUME TypeInv, NEW x \in End
  PROVE  /\ tx_ring[x] \in [Index -> RingElem(x)]
         /\ \A i \in Index : ~tx_ring[x][i].acknowledged => tx_ring[x][i].pdcp_pdu # NoPdu
         /\ to_retx_list[x] \in Seq(RetxElem(x))
         /\ to_ack_list[x] \in Seq(AckElem)
         /\ next_pdu[x] \in 1..(MaxPdu[x] + 1)
         /\ slot_number[x] \in Index
         /\ sn_counter[x] \in Sn
         /\ tick[x] \in {"wait", "probed"}
         /\ is_tx_enabled[x] \in BOOLEAN
         /\ quiet[x] \in Age
         /\ sn_ring[x] \in [0..(ArqWindow - 1) -> Index]
BY DEF TypeInv, TypeOK, WaitingHoldsPdu, Sn

(* The types of one end after a step. *)
LEMMA TypeOfEndNext ==
  ASSUME TypeInv', NEW x \in End
  PROVE  /\ tx_ring'[x] \in [Index -> RingElem(x)]
         /\ to_retx_list'[x] \in Seq(RetxElem(x))
         /\ to_ack_list'[x] \in Seq(AckElem)
         /\ next_pdu'[x] \in 1..(MaxPdu[x] + 1)
         /\ slot_number'[x] \in Index
         /\ sn_counter'[x] \in Sn
         /\ tick'[x] \in {"wait", "probed"}
         /\ is_tx_enabled'[x] \in BOOLEAN
         /\ quiet'[x] \in Age
         /\ sn_ring'[x] \in [0..(ArqWindow - 1) -> Index]
BY DEF TypeInv, TypeOK, Sn

(* The probe of a tick keeps the types. *)
LEMMA ProbeType ==
  ASSUME TypeInv, NEW e \in End, OnTxProbe(e)
  PROVE  TypeInv'
<1> DEFINE p == Peer(e)
           slot == tx_ring_index(slot_number[e] + 1)
<1>1. p \in End /\ p # e
  BY PeerFacts
<1>2. slot \in Index
  BY TypeOfEnd, IndexType
<1>3. WireTypes'
  <2>1. /\ \A m \in frame'[e] : m \in frame[e] \cup AckPdus(e)
        /\ \A m \in frame'[p] : \E n \in frame[p] : m = Aged(n, e)
        /\ \A m \in air' : /\ m.age <= MaxRoundTrip
                           /\ m \in AckPdus(e) \/ \E n \in air : m = Aged(n, e)
    BY ProbeEffect
  <2>2. QED
    BY <2>1, WireStep
<1>4. /\ slot_number' \in [End -> Index]
      /\ tick' \in [End -> {"wait", "probed"}]
      /\ is_tx_enabled' \in [End -> BOOLEAN]
      /\ is_rx_enabled' \in [End -> BOOLEAN]
      /\ rlf_event' \in [End -> BOOLEAN]
      /\ sn_counter' \in [End -> Sn]
      /\ sn_ring' \in [End -> [0..(ArqWindow - 1) -> Index]]
      /\ Domains'
  <2>1. /\ slot_number' = [slot_number EXCEPT ![e] = slot]
        /\ tick' \in [End -> {"wait", "probed"}]
        /\ UNCHANGED <<is_tx_enabled, is_rx_enabled, sn_counter, sn_ring, rlf_event>>
        /\ Domains'
    BY ProbeEffect
  <2> HIDE DEF slot
  <2>2. QED
    BY <1>2, <2>1 DEF TypeInv, TypeOK, Sn
<1>5. quiet' \in [End -> Age]
  <2>1. quiet \in [End -> Age] /\ Older(quiet[e]) \in Age
    BY AgeFacts DEF TypeInv, TypeOK
  <2>2. quiet' = quiet \/ quiet' = [quiet EXCEPT ![e] = Older(quiet[e])]
    BY ProbeEffect, TypeOfEnd
  <2>3. QED
    BY <2>1, <2>2
<1>6. /\ tx_ring'[e] \in [Index -> RingElem(e)]
      /\ \A i \in Index : ~tx_ring'[e][i].acknowledged => tx_ring'[e][i].pdcp_pdu # NoPdu
      /\ to_retx_list'[e] \in Seq(RetxElem(e))
      /\ to_ack_list'[e] \in Seq(AckElem)
      /\ next_pdu'[e] \in 1..(MaxPdu[e] + 1)
  <2>1. next_pdu' = next_pdu
    BY ProbeEffect
  <2>2. CASE is_tx_enabled[e]
    <3>1. /\ tx_ring'[e] = RingAfterCheck(e, slot)
          /\ to_retx_list'[e] = RetxAfterCheck(e, slot)
          /\ to_ack_list'[e] = AcksLeft(e)
      BY <2>2, ProbeEffect
    <3> HIDE DEF slot
    <3>2. /\ RingAfterCheck(e, slot) \in [Index -> RingElem(e)]
          /\ \A i \in Index : RingAfterCheck(e, slot)[i].acknowledged
                              \/ RingAfterCheck(e, slot)[i] = tx_ring[e][i]
      BY <1>2, CheckFacts
    <3>3. RetxAfterCheck(e, slot) \in Seq(RetxElem(e))
      BY <1>2, RetxFacts
    <3>4. AcksLeft(e) \in Seq(AckElem)
      BY AckSplit
    <3>5. QED
      BY <2>1, <3>1, <3>2, <3>3, <3>4, TypeOfEnd
  <2>3. CASE ~is_tx_enabled[e]
    BY <2>1, <2>3, ProbeEffect, TypeOfEnd
  <2>4. QED
    BY <2>2, <2>3
<1>7. /\ tx_ring'[p] = tx_ring[p] /\ to_retx_list'[p] = to_retx_list[p]
      /\ to_ack_list'[p] = AgedAcks(to_ack_list[p]) /\ next_pdu' = next_pdu
  BY ProbeEffect
<1>8. to_ack_list'[p] \in Seq(AckElem)
  BY <1>1, <1>7, TypeOfEnd, AgedAcksFacts
<1>9. \A x \in {e, Peer(e)} :
        /\ tx_ring'[x] \in [Index -> RingElem(x)]
        /\ \A i \in Index : ~tx_ring'[x][i].acknowledged => tx_ring'[x][i].pdcp_pdu # NoPdu
        /\ to_retx_list'[x] \in Seq(RetxElem(x))
        /\ to_ack_list'[x] \in Seq(AckElem)
        /\ next_pdu'[x] \in 1..(MaxPdu[x] + 1)
  BY <1>1, <1>6, <1>7, <1>8, TypeOfEnd
<1>10. QED
  BY <1>3, <1>4, <1>5, <1>9, TypeStep
-----------------------------------------------------------------------------
(***************************************************************************)
(* The calls of on_tx with data allowed.  Those that send a PDU have the   *)
(* step Send in common, the others the step NoSend.                        *)
(***************************************************************************)
Send(e, pdu, retry_count) ==
  /\ Granted(e)
  /\ SendData(e, RingNow(e), pdu, retry_count)
  /\ UNCHANGED <<slot_number, is_tx_enabled, is_rx_enabled, rlf_event, quiet,
                 acked, received, flushed>>

NoSend(e) ==
  /\ Granted(e)
  /\ tx_ring' = [tx_ring EXCEPT ![e] = RingNow(e)]
  /\ to_ack_list' = [to_ack_list EXCEPT ![e] = AcksLeft(e)]
  /\ \/ frame' = frame /\ air' = air /\ tick' = tick
     \/ frame' = [frame EXCEPT ![e] = @ \cup AckPdus(e)] /\ air' = air /\ tick' = tick
     \/ /\ frame' = [frame EXCEPT ![e] = {}]
        /\ Emit(frame[e] \cup AckPdus(e))
        /\ tick' = [tick EXCEPT ![e] = "wait"]
  /\ UNCHANGED <<slot_number, is_tx_enabled, is_rx_enabled, sn_counter, sn_ring, quiet,
                 next_pdu, acked, received, flushed, sends>>

(* The slot of the tick and what check_retransmit makes of it. *)
LEMMA NowFacts ==
  ASSUME TypeInv, NEW e \in End
  PROVE  /\ RingNow(e) \in [Index -> RingElem(e)]
         /\ RetxNow(e) \in Seq(RetxElem(e))
         /\ \A i \in Index : RingNow(e)[i].acknowledged \/ RingNow(e)[i] = tx_ring[e][i]
         /\ \A i \in Index : RingNow(e)[i].sent_index = tx_ring[e][i].sent_index
         /\ RetxNow(e) # <<>> =>
              /\ Head(RetxNow(e)).pdcp_pdu \in Pdu(e)
              /\ RetxCount(e) = RetxNow(e)[1].retry_count + 1
              /\ RetxCount(e) \in Nat
              /\ Tail(RetxNow(e)) \in Seq(RetxElem(e))
<1>1. slot_number[e] \in Index
  BY TypeOfEnd
<1>2. /\ RingNow(e) \in [Index -> RingElem(e)]
      /\ \A i \in Index : RingNow(e)[i].acknowledged \/ RingNow(e)[i] = tx_ring[e][i]
      /\ \A i \in Index : RingNow(e)[i].sent_index = tx_ring[e][i].sent_index
  BY <1>1, CheckFacts DEF RingNow
<1>3. RetxNow(e) \in Seq(RetxElem(e))
  BY <1>1, RetxFacts DEF RetxNow
<1>4. ASSUME RetxNow(e) # <<>>
      PROVE  /\ Head(RetxNow(e)).pdcp_pdu \in Pdu(e)
             /\ RetxCount(e) = RetxNow(e)[1].retry_count + 1
             /\ RetxCount(e) \in Nat
             /\ Tail(RetxNow(e)) \in Seq(RetxElem(e))
  BY <1>3, <1>4, RetxHeadTail DEF RetxCount
<1>5. QED
  BY <1>2, <1>3, <1>4

(* Each of the actions is one of the two steps. *)
LEMMA NewIsSend ==
  ASSUME TypeInv, NEW e \in End, OnTxNew(e)
  PROVE  /\ Send(e, next_pdu[e], 0)
         /\ next_pdu[e] \in Pdu(e)
         /\ RetxNow(e) = <<>>
         /\ next_pdu' = [next_pdu EXCEPT ![e] = @ + 1]
         /\ UNCHANGED <<to_retx_list, exhausted>>
BY TypeOfEnd DEF OnTxNew, Send, Pdu

(* A retransmission is a Send. *)
LEMMA RetxIsSend ==
  ASSUME TypeInv, NEW e \in End, OnTxRetx(e)
  PROVE  /\ Send(e, Head(RetxNow(e)).pdcp_pdu, RetxCount(e))
         /\ RetxNow(e) # <<>>
         /\ RetxCount(e) <= MaxRetx
         /\ to_retx_list' = [to_retx_list EXCEPT ![e] = Tail(RetxNow(e))]
         /\ UNCHANGED <<next_pdu, exhausted>>
BY DEF OnTxRetx, Send

(* With RLF inhibited a PDU is dropped, and another one sent or nothing. *)
LEMMA DropIsSend ==
  ASSUME TypeInv, NEW e \in End, OnTxDrop(e)
  PROVE  /\ RetxNow(e) # <<>>
         /\ RetxCount(e) > MaxRetx
         /\ ~AllowRlf[e]
         /\ exhausted' = [exhausted EXCEPT ![e] = @ \cup {Head(RetxNow(e)).pdcp_pdu}]
         /\ to_retx_list' = [to_retx_list EXCEPT ![e] = Tail(RetxNow(e))]
         /\ UNCHANGED rlf_event
         /\ \/ /\ Send(e, next_pdu[e], RetxCount(e))
               /\ next_pdu[e] \in Pdu(e)
               /\ next_pdu' = [next_pdu EXCEPT ![e] = @ + 1]
            \/ NoSend(e)
<1>1. CASE next_pdu[e] <= MaxPdu[e]
  BY <1>1, TypeOfEnd DEF OnTxDrop, Send, RetryCountOfSubstitute, Pdu
<1>2. CASE ~(next_pdu[e] <= MaxPdu[e])
  BY <1>2 DEF OnTxDrop, NoSend
<1>3. QED
  BY <1>1, <1>2

(* An RLF drops a PDU and sends nothing. *)
LEMMA RlfIsNoSend ==
  ASSUME TypeInv, NEW e \in End, OnTxRlf(e)
  PROVE  /\ NoSend(e)
         /\ RetxNow(e) # <<>>
         /\ RetxCount(e) > MaxRetx
         /\ exhausted' = [exhausted EXCEPT ![e] = @ \cup {Head(RetxNow(e)).pdcp_pdu}]
         /\ to_retx_list' = [to_retx_list EXCEPT ![e] = Tail(RetxNow(e))]
         /\ rlf_event' = [rlf_event EXCEPT ![e] = TRUE]
BY DEF OnTxRlf, NoSend

(* An allocation that only holds ACKs sends nothing. *)
LEMMA AcksOnlyIsNoSend ==
  ASSUME TypeInv, NEW e \in End, OnTxAcksOnly(e)
  PROVE  /\ NoSend(e)
         /\ to_retx_list' = [to_retx_list EXCEPT ![e] = RetxNow(e)]
         /\ UNCHANGED <<exhausted, rlf_event>>
BY DEF OnTxAcksOnly, NoSend, history
-----------------------------------------------------------------------------
(* What Send leaves of the types, whatever it does to the other variables. *)
LEMMA SendType ==
  ASSUME TypeInv, NEW e \in End, NEW pdu \in Pdu(e), NEW rc \in Nat, Send(e, pdu, rc),
         DOMAIN to_retx_list' = End, DOMAIN next_pdu' = End, DOMAIN exhausted' = End,
         \A x \in {e, Peer(e)} : /\ to_retx_list'[x] \in Seq(RetxElem(x))
                                 /\ next_pdu'[x] \in 1..(MaxPdu[x] + 1)
  PROVE  TypeInv'
<1> DEFINE p == Peer(e)
<1>1. p \in End /\ p # e
  BY PeerFacts
<1>2. RingNow(e) \in [Index -> RingElem(e)]
  BY NowFacts
<1>3. /\ SendData(e, RingNow(e), pdu, rc)
      /\ UNCHANGED <<slot_number, is_tx_enabled, is_rx_enabled, rlf_event, quiet,
                     acked, received, flushed>>
  BY DEF Send
<1>4. WireTypes'
  <2>1. DataPdu(p, sn_counter[e], pdu) \in DataMsg(e)
    BY TypeOfEnd, AgeFacts DEF DataPdu, DataMsg
  <2>2. \A m \in frame'[e] : m \in frame[e] \cup AckPdus(e)
    BY <1>2, <1>3, SendEffect
  <2>3. \A m \in frame'[p] : m \in frame[p]
    BY <1>2, <1>3, SendEffect
  <2>4. \A m \in air' : /\ m.age <= MaxRoundTrip \/ m \in air
                        /\ m \in air \cup frame[e] \cup AckPdus(e) \cup DataMsg(e)
    BY <1>2, <1>3, <2>1, SendEffect
  <2>5. QED
    BY <2>2, <2>3, <2>4, WireStep
<1>5. Domains'
  <2>1. DOMAIN tx_ring' = End /\ DOMAIN to_ack_list' = End /\ DOMAIN frame' = End
    BY <1>2, <1>3, SendEffect
  <2>2. DOMAIN sends' = End
    <3>1. sends' = [sends EXCEPT ![e][pdu] = @ + 1]
      BY <1>2, <1>3, SendEffect
    <3>2. QED
      BY <3>1 DEF TypeInv, Domains
  <2>3. QED
    BY <1>3, <2>1, <2>2 DEF TypeInv, Domains
<1>6. /\ tick' \in [End -> {"wait", "probed"}]
      /\ sn_counter' \in [End -> Sn]
      /\ sn_ring' \in [End -> [0..(ArqWindow - 1) -> Index]]
  BY <1>2, <1>3, SendEffect
<1>7. /\ slot_number' \in [End -> Index]
      /\ is_tx_enabled' \in [End -> BOOLEAN]
      /\ is_rx_enabled' \in [End -> BOOLEAN]
      /\ rlf_event' \in [End -> BOOLEAN]
      /\ quiet' \in [End -> Age]
  BY <1>3 DEF TypeInv, TypeOK
<1>8. /\ tx_ring'[e] \in [Index -> RingElem(e)]
      /\ tx_ring'[p] = tx_ring[p]
  BY <1>2, <1>3, SendEffect
<1>9. ASSUME NEW i \in Index, ~tx_ring'[e][i].acknowledged
      PROVE  tx_ring'[e][i].pdcp_pdu # NoPdu
  <2>1. CASE i = slot_number[e]
    BY <2>1, <1>2, <1>3, SendEffect DEF Pdu, NoPdu
  <2>2. CASE i # slot_number[e]
    <3>1. /\ tx_ring'[e][i].acknowledged = RingNow(e)[i].acknowledged
          /\ tx_ring'[e][i].pdcp_pdu = RingNow(e)[i].pdcp_pdu
      BY <2>2, <1>2, <1>3, SendEffect
    <3>2. RingNow(e)[i] = tx_ring[e][i]
      BY <3>1, <1>9, NowFacts
    <3>3. QED
      BY <3>1, <3>2, <1>9, TypeOfEnd
  <2>3. QED
    BY <2>1, <2>2
<1>10. to_ack_list'[e] = AcksLeft(e) /\ to_ack_list'[p] = to_ack_list[p]
  BY <1>2, <1>3, SendEffect
<1>11. \A x \in {e, Peer(e)} :
        /\ tx_ring'[x] \in [Index -> RingElem(x)]
        /\ \A i \in Index : ~tx_ring'[x][i].acknowledged => tx_ring'[x][i].pdcp_pdu # NoPdu
        /\ to_retx_list'[x] \in Seq(RetxElem(x))
        /\ to_ack_list'[x] \in Seq(AckElem)
        /\ next_pdu'[x] \in 1..(MaxPdu[x] + 1)
  BY <1>1, <1>8, <1>9, <1>10, TypeOfEnd, AckSplit
<1>12. QED
  BY <1>4, <1>5, <1>6, <1>7, <1>11, TypeStep

(* What NoSend does, at the sender and at its peer. *)
LEMMA NoSendEffect ==
  ASSUME TypeInv, NEW e \in End, NoSend(e)
  PROVE  LET p == Peer(e) IN
         /\ tx_ring'[e] = RingNow(e) /\ tx_ring'[p] = tx_ring[p]
         /\ to_ack_list'[e] = AcksLeft(e) /\ to_ack_list'[p] = to_ack_list[p]
         /\ frame'[p] = frame[p]
         /\ \A m \in frame'[e] : m \in frame[e] \cup AckPdus(e)
         /\ \A m \in air' : /\ m.age <= MaxRoundTrip \/ m \in air
                            /\ m \in air \cup frame[e] \cup AckPdus(e)
         /\ tick' \in [End -> {"wait", "probed"}]
         /\ tick'[p] = tick[p]
         /\ tick'[e] = tick[e] \/ tick'[e] = "wait"
         /\ DOMAIN tx_ring' = End /\ DOMAIN to_ack_list' = End /\ DOMAIN frame' = End
         /\ UNCHANGED <<slot_number, is_tx_enabled, is_rx_enabled, sn_counter, sn_ring, quiet,
                        next_pdu, acked, received, flushed, sends>>
<1> DEFINE p == Peer(e)
<1>1. p \in End /\ p # e
  BY PeerFacts
<1>2. Domains /\ tick \in [End -> {"wait", "probed"}]
  BY DEF TypeInv, TypeOK
<1>3. /\ tx_ring' = [tx_ring EXCEPT ![e] = RingNow(e)]
      /\ to_ack_list' = [to_ack_list EXCEPT ![e] = AcksLeft(e)]
      /\ UNCHANGED <<slot_number, is_tx_enabled, is_rx_enabled, sn_counter, sn_ring, quiet,
                     next_pdu, acked, received, flushed, sends>>
  BY DEF NoSend
<1>4. /\ tx_ring'[e] = RingNow(e) /\ tx_ring'[p] = tx_ring[p]
      /\ to_ack_list'[e] = AcksLeft(e) /\ to_ack_list'[p] = to_ack_list[p]
      /\ DOMAIN tx_ring' = End /\ DOMAIN to_ack_list' = End
  BY <1>1, <1>2, <1>3 DEF Domains
<1>5. /\ frame'[p] = frame[p]
      /\ \A m \in frame'[e] : m \in frame[e] \cup AckPdus(e)
      /\ \A m \in air' : /\ m.age <= MaxRoundTrip \/ m \in air
                         /\ m \in air \cup frame[e] \cup AckPdus(e)
      /\ tick' \in [End -> {"wait", "probed"}]
      /\ tick'[p] = tick[p]
      /\ tick'[e] = tick[e] \/ tick'[e] = "wait"
      /\ DOMAIN frame' = End
  <2>1. CASE frame' = frame /\ air' = air /\ tick' = tick
    BY <2>1, <1>1, <1>2 DEF Domains
  <2>2. CASE frame' = [frame EXCEPT ![e] = @ \cup AckPdus(e)] /\ air' = air /\ tick' = tick
    BY <2>2, <1>1, <1>2 DEF Domains
  <2>3. CASE /\ frame' = [frame EXCEPT ![e] = {}]
             /\ Emit(frame[e] \cup AckPdus(e))
             /\ tick' = [tick EXCEPT ![e] = "wait"]
    BY <2>3, <1>1, <1>2 DEF Domains, Emit
  <2>4. QED
    BY <2>1, <2>2, <2>3 DEF NoSend
<1>6. QED
  BY <1>3, <1>4, <1>5

(* NoSend keeps the types. *)
LEMMA NoSendType ==
  ASSUME TypeInv, NEW e \in End, NoSend(e), rlf_event' \in [End -> BOOLEAN],
         DOMAIN to_retx_list' = End, DOMAIN exhausted' = End,
         \A x \in {e, Peer(e)} : to_retx_list'[x] \in Seq(RetxElem(x))
  PROVE  TypeInv'
<1> DEFINE p == Peer(e)
<1>1. p \in End /\ p # e
  BY PeerFacts
<1>2. WireTypes'
  <2>1. /\ frame'[p] = frame[p]
        /\ \A m \in frame'[e] : m \in frame[e] \cup AckPdus(e)
        /\ \A m \in air' : /\ m.age <= MaxRoundTrip \/ m \in air
                           /\ m \in air \cup frame[e] \cup AckPdus(e)
    BY NoSendEffect
  <2>2. QED
    BY <2>1, WireStep
<1>3. /\ tick' \in [End -> {"wait", "probed"}]
      /\ UNCHANGED <<slot_number, is_tx_enabled, is_rx_enabled, sn_counter, sn_ring, quiet,
                     next_pdu, acked, received, flushed, sends>>
      /\ DOMAIN tx_ring' = End /\ DOMAIN to_ack_list' = End /\ DOMAIN frame' = End
  BY NoSendEffect
<1>4. Domains'
  BY <1>3 DEF TypeInv, Domains
<1>5. /\ slot_number' \in [End -> Index]
      /\ is_tx_enabled' \in [End -> BOOLEAN]
      /\ is_rx_enabled' \in [End -> BOOLEAN]
      /\ quiet' \in [End -> Age]
      /\ sn_counter' \in [End -> Sn]
      /\ sn_ring' \in [End -> [0..(ArqWindow - 1) -> Index]]
  BY <1>3 DEF TypeInv, TypeOK, Sn
<1>6. /\ tx_ring'[e] = RingNow(e) /\ tx_ring'[p] = tx_ring[p]
      /\ to_ack_list'[e] = AcksLeft(e) /\ to_ack_list'[p] = to_ack_list[p]
  BY NoSendEffect
<1>7. /\ RingNow(e) \in [Index -> RingElem(e)]
      /\ \A i \in Index : ~RingNow(e)[i].acknowledged => RingNow(e)[i].pdcp_pdu # NoPdu
  BY NowFacts, TypeOfEnd
<1>8. \A x \in {e, Peer(e)} :
        /\ tx_ring'[x] \in [Index -> RingElem(x)]
        /\ \A i \in Index : ~tx_ring'[x][i].acknowledged => tx_ring'[x][i].pdcp_pdu # NoPdu
        /\ to_retx_list'[x] \in Seq(RetxElem(x))
        /\ to_ack_list'[x] \in Seq(AckElem)
        /\ next_pdu'[x] \in 1..(MaxPdu[x] + 1)
  BY <1>1, <1>3, <1>6, <1>7, TypeOfEnd, AckSplit
<1>9. QED
  BY <1>2, <1>3, <1>4, <1>5, <1>8, TypeStep

(* What the end of a tick without an allocation does. *)
LEMMA NoRoomEffect ==
  ASSUME TypeInv, NEW e \in End, OnTxNoRoom(e)
  PROVE  LET p == Peer(e) IN
         /\ frame'[e] = {} /\ frame'[p] = frame[p]
         /\ \A m \in air' : (m.age <= MaxRoundTrip \/ m \in air) /\ m \in air \cup frame[e]
         /\ tick' \in [End -> {"wait", "probed"}]
         /\ tick'[p] = tick[p]
         /\ tick'[e] = "wait"
         /\ Domains'
         /\ UNCHANGED <<slot_number, is_tx_enabled, is_rx_enabled, sn_counter, tx_ring, sn_ring,
                        to_retx_list, to_ack_list, rlf_event, quiet, next_pdu, history>>
<1>1. Peer(e) \in End /\ Peer(e) # e
  BY PeerFacts
<1>2. /\ frame' = [frame EXCEPT ![e] = {}]
      /\ air' = air \cup {m \in frame[e] : m.age <= MaxRoundTrip}
      /\ tick' = [tick EXCEPT ![e] = "wait"]
      /\ UNCHANGED <<slot_number, is_tx_enabled, is_rx_enabled, sn_counter, tx_ring, sn_ring,
                     to_retx_list, to_ack_list, rlf_event, quiet, next_pdu, history>>
  BY DEF OnTxNoRoom, Emit
<1>3. Domains /\ tick \in [End -> {"wait", "probed"}]
  BY DEF TypeInv, TypeOK
<1>4. Domains'
  BY <1>2, <1>3 DEF Domains, history
<1>5. QED
  BY <1>1, <1>2, <1>3, <1>4 DEF Domains

(* It keeps the types. *)
LEMMA NoRoomType ==
  ASSUME TypeInv, NEW e \in End, OnTxNoRoom(e)
  PROVE  TypeInv'
<1>1. /\ frame'[e] = {} /\ frame'[Peer(e)] = frame[Peer(e)]
      /\ \A m \in air' : (m.age <= MaxRoundTrip \/ m \in air) /\ m \in air \cup frame[e]
      /\ tick' \in [End -> {"wait", "probed"}]
      /\ Domains'
      /\ UNCHANGED <<slot_number, is_tx_enabled, is_rx_enabled, sn_counter, tx_ring, sn_ring,
                     to_retx_list, to_ack_list, rlf_event, quiet, next_pdu>>
  BY NoRoomEffect
<1>2. WireTypes'
  BY <1>1, WireStep
<1>3. QED
  BY <1>1, <1>2 DEF TypeInv, TypeOK, WaitingHoldsPdu
-----------------------------------------------------------------------------
(* A PDU of the air that e receives is data of the peer, or ACKs to e. *)
LEMMA AirType ==
  ASSUME TypeInv, NEW m \in air, NEW e \in End, m.to = e
  PROVE  /\ m.type = "data" => m \in DataMsg(Peer(e))
         /\ m.type = "ack" => m \in AckMsg(e)
         /\ m.age <= MaxRoundTrip
         /\ m.age \in Age
<1>1. PICK x \in End : m \in AckMsg(x) \cup DataMsg(x)
  BY DEF TypeInv, WireTypes
<1>2. m.age <= MaxRoundTrip
  BY DEF TypeInv, WireTypes
<1>3. CASE m \in AckMsg(x)
  BY <1>2, <1>3 DEF AckMsg
<1>4. CASE m \in DataMsg(x)
  <2>1. m.to = Peer(x) /\ m.type = "data" /\ m.age \in Age
    BY <1>4 DEF DataMsg
  <2>2. x = Peer(e)
    BY <2>1, PeerFacts
  <2>3. QED
    BY <1>2, <1>4, <2>1, <2>2
<1>5. QED
  BY <1>1, <1>3, <1>4

(* What on_rx does with data. *)
LEMMA RxDataEffect ==
  ASSUME TypeInv, NEW e \in End, OnRxData(e)
  PROVE  LET p == Peer(e) IN
         \E m \in air :
           /\ m \in DataMsg(p) /\ m.to = e /\ m.type = "data"
           /\ m.sn \in Sn /\ m.age \in Age /\ m.age <= MaxRoundTrip /\ m.pdu \in Pdu(p)
           /\ air' = air \ {m}
           /\ \/ to_ack_list' = to_ack_list /\ received' = received
              \/ /\ to_ack_list'[e] = to_acknowledge(to_ack_list[e], m.sn, m.age)
                 /\ to_ack_list'[p] = to_ack_list[p]
                 /\ received' = [received EXCEPT ![p] = @ \cup {m.pdu}]
                 /\ received'[p] = received[p] \cup {m.pdu} /\ received'[e] = received[e]
           /\ DOMAIN to_ack_list' = End /\ DOMAIN received' = End
           /\ UNCHANGED <<sender, is_rx_enabled, acked, exhausted, flushed, sends>>
<1> DEFINE p == Peer(e)
<1>1. PICK m \in air :
        /\ m.to = e /\ m.type = "data"
        /\ air' = air \ {m}
        /\ IF Ignored(e)
           THEN UNCHANGED <<to_ack_list, received>>
           ELSE /\ to_ack_list' = [to_ack_list EXCEPT ![e] = to_acknowledge(@, m.sn, m.age)]
                /\ received' = [received EXCEPT ![p] = @ \cup {m.pdu}]
        /\ UNCHANGED <<sender, is_rx_enabled, acked, exhausted, flushed, sends>>
  BY DEF OnRxData
<1>2. m \in DataMsg(p) /\ m.age <= MaxRoundTrip
  BY <1>1, AirType
<1>3. m.sn \in Sn /\ m.age \in Age /\ m.pdu \in Pdu(p)
  BY <1>2 DEF DataMsg
<1>4. p \in End /\ p # e
  BY PeerFacts
<1>5. Domains
  BY DEF TypeInv
<1>6. /\ \/ to_ack_list' = to_ack_list /\ received' = received
         \/ /\ to_ack_list'[e] = to_acknowledge(to_ack_list[e], m.sn, m.age)
            /\ to_ack_list'[p] = to_ack_list[p]
            /\ received' = [received EXCEPT ![p] = @ \cup {m.pdu}]
            /\ received'[p] = received[p] \cup {m.pdu} /\ received'[e] = received[e]
      /\ DOMAIN to_ack_list' = End /\ DOMAIN received' = End
  BY <1>1, <1>4, <1>5 DEF Domains
<1>7. QED
  BY <1>1, <1>2, <1>3, <1>6

(* It keeps the types. *)
LEMMA RxDataType ==
  ASSUME TypeInv, NEW e \in End, OnRxData(e)
  PROVE  TypeInv'
<1> DEFINE p == Peer(e)
<1>1. p \in End /\ p # e
  BY PeerFacts
<1>2. PICK m \in air :
        /\ m.sn \in Sn /\ m.age \in Age
        /\ air' = air \ {m}
        /\ \/ to_ack_list' = to_ack_list
           \/ /\ to_ack_list'[e] = to_acknowledge(to_ack_list[e], m.sn, m.age)
              /\ to_ack_list'[p] = to_ack_list[p]
        /\ DOMAIN to_ack_list' = End /\ DOMAIN received' = End
        /\ UNCHANGED <<sender, is_rx_enabled, acked, exhausted, flushed, sends>>
  BY RxDataEffect
<1>3. UNCHANGED <<slot_number, tick, frame, is_tx_enabled, sn_counter, tx_ring, sn_ring,
                  to_retx_list, rlf_event, quiet, next_pdu, is_rx_enabled>>
  BY <1>2 DEF sender
<1>4. to_ack_list'[e] \in Seq(AckElem) /\ to_ack_list'[p] \in Seq(AckElem)
  BY <1>1, <1>2, TypeOfEnd, ToAcknowledgeFacts
<1>5. Domains'
  BY <1>2, <1>3 DEF TypeInv, Domains
<1>6. WireTypes'
  BY <1>2, <1>3 DEF TypeInv, WireTypes
<1>7. \A x \in End : to_ack_list'[x] \in Seq(AckElem)
  BY <1>4, PeerFacts
<1>8. QED
  BY <1>3, <1>5, <1>6, <1>7 DEF TypeInv, TypeOK, WaitingHoldsPdu

(* The slots an ACK PDU marks. *)
LEMMA AckedSlotsType ==
  ASSUME TypeInv, NEW e \in End, NEW acks \in Seq(AckElem)
  PROVE  AckedSlots(e, acks) \subseteq Index
<1>1. ASSUME NEW sn \in UNION {AckedSns(acks[k]) : k \in DOMAIN acks}
      PROVE  SentSlot(tx_ring[e], tx_ring_index(sn_ring[e][sn_ring_index(sn)])) \in Index
  <2>1. PICK k \in DOMAIN acks : sn \in AckedSns(acks[k])
    OBVIOUS
  <2>2. acks[k] \in AckElem
    BY LenProperties
  <2>3. sn \in Sn
    BY <2>1, <2>2, AckedSnsType
  <2>4. sn_ring[e][sn_ring_index(sn)] \in Index
    BY <2>3, SnIndexType, TypeOfEnd
  <2>5. tx_ring_index(sn_ring[e][sn_ring_index(sn)]) \in Index
    BY <2>4, IndexType
  <2>6. QED
    BY <2>5, CheckFacts
<1>2. QED
  BY <1>1 DEF AckedSlots

(* What on_rx does with acknowledgements. *)
LEMMA RxAckEffect ==
  ASSUME TypeInv, NEW e \in End, OnRxAck(e)
  PROVE  LET p == Peer(e) IN
         \E m \in air :
           /\ m \in AckMsg(e) /\ m.to = e /\ m.type = "ack"
           /\ m.acks \in Seq(AckElem) /\ m.age \in Age /\ m.age <= MaxRoundTrip
           /\ air' = air \ {m}
           /\ \/ tx_ring' = tx_ring /\ acked' = acked
              \/ /\ tx_ring'[p] = tx_ring[p]
                 /\ tx_ring'[e] \in [Index -> RingElem(e)]
                 /\ \A i \in Index :
                      tx_ring'[e][i] = IF i \in AckedSlots(e, m.acks) THEN Released(tx_ring[e][i])
                                       ELSE tx_ring[e][i]
                 /\ acked'[p] = acked[p]
                 /\ acked'[e] = acked[e] \cup
                      {tx_ring[e][i].pdcp_pdu :
                         i \in {j \in AckedSlots(e, m.acks) : ~tx_ring[e][j].acknowledged}}
           /\ DOMAIN tx_ring' = End /\ DOMAIN acked' = End
           /\ UNCHANGED <<slot_number, tick, frame, is_tx_enabled, is_rx_enabled, sn_counter,
                          sn_ring, to_retx_list, to_ack_list, rlf_event, quiet, next_pdu,
                          received, exhausted, flushed, sends>>
<1> DEFINE p == Peer(e)
<1>1. PICK m \in air :
        /\ m.to = e /\ m.type = "ack"
        /\ air' = air \ {m}
        /\ IF Ignored(e)
           THEN UNCHANGED <<tx_ring, acked>>
           ELSE /\ tx_ring' = [tx_ring EXCEPT ![e] =
                     [i \in Index |-> IF i \in AckedSlots(e, m.acks) THEN Released(@[i]) ELSE @[i]]]
                /\ acked' = [acked EXCEPT ![e] =
                     @ \cup {tx_ring[e][i].pdcp_pdu :
                         i \in {j \in AckedSlots(e, m.acks) : ~tx_ring[e][j].acknowledged}}]
        /\ UNCHANGED <<slot_number, tick, frame, is_tx_enabled, is_rx_enabled, sn_counter,
                       sn_ring, to_retx_list, to_ack_list, rlf_event, quiet, next_pdu,
                       received, exhausted, flushed, sends>>
  BY DEF OnRxAck
<1>2. m \in AckMsg(e) /\ m.age <= MaxRoundTrip
  BY <1>1, AirType
<1>3. m.acks \in Seq(AckElem) /\ m.age \in Age
  BY <1>2 DEF AckMsg
<1>4. p \in End /\ p # e
  BY PeerFacts
<1>5. Domains
  BY DEF TypeInv
<1>6. CASE Ignored(e)
  BY <1>1, <1>2, <1>3, <1>5, <1>6 DEF Domains
<1>7. CASE ~Ignored(e)
  <2> DEFINE slots == AckedSlots(e, m.acks)
             new == [i \in Index |-> IF i \in slots THEN Released(tx_ring[e][i])
                                     ELSE tx_ring[e][i]]
             pdus == {tx_ring[e][i].pdcp_pdu : i \in {j \in slots : ~tx_ring[e][j].acknowledged}}
  <2>1. /\ tx_ring' = [tx_ring EXCEPT ![e] = new]
        /\ acked' = [acked EXCEPT ![e] = @ \cup pdus]
    BY <1>1, <1>7
  <2>2. \A i \in Index : tx_ring[e][i] \in RingElem(e) /\ Released(tx_ring[e][i]) \in RingElem(e)
    BY TypeOfEnd, ReleasedFacts
  <2> HIDE DEF slots
  <2>3. new \in [Index -> RingElem(e)]
    BY <2>2
  <2>4. \A i \in Index : new[i] = IF i \in slots THEN Released(tx_ring[e][i]) ELSE tx_ring[e][i]
    OBVIOUS
  <2> HIDE DEF new, pdus
  <2>5. /\ tx_ring'[p] = tx_ring[p] /\ tx_ring'[e] = new
        /\ acked'[p] = acked[p] /\ acked'[e] = acked[e] \cup pdus
        /\ DOMAIN tx_ring' = End /\ DOMAIN acked' = End
    BY <1>4, <1>5, <2>1 DEF Domains
  <2>6. QED
    BY <1>1, <1>2, <1>3, <2>3, <2>4, <2>5 DEF slots, pdus
<1>8. QED
  BY <1>6, <1>7

(* It keeps the types. *)
LEMMA RxAckType ==
  ASSUME TypeInv, NEW e \in End, OnRxAck(e)
  PROVE  TypeInv'
<1> DEFINE p == Peer(e)
<1>1. PICK m \in air :
        /\ air' = air \ {m}
        /\ \/ tx_ring' = tx_ring
           \/ /\ tx_ring'[p] = tx_ring[p]
              /\ tx_ring'[e] \in [Index -> RingElem(e)]
              /\ \A i \in Index :
                      tx_ring'[e][i] = IF i \in AckedSlots(e, m.acks) THEN Released(tx_ring[e][i])
                                       ELSE tx_ring[e][i]
        /\ DOMAIN tx_ring' = End /\ DOMAIN acked' = End
        /\ UNCHANGED <<slot_number, tick, frame, is_tx_enabled, is_rx_enabled, sn_counter,
                       sn_ring, to_retx_list, to_ack_list, rlf_event, quiet, next_pdu,
                       received, exhausted, flushed, sends>>
  BY RxAckEffect
<1>2. ASSUME NEW x \in End
      PROVE  /\ tx_ring'[x] \in [Index -> RingElem(x)]
             /\ \A i \in Index : ~tx_ring'[x][i].acknowledged => tx_ring'[x][i].pdcp_pdu # NoPdu
  <2>1. CASE tx_ring'[x] = tx_ring[x]
    BY <2>1, TypeOfEnd
  <2>2. CASE x = e /\ tx_ring' # tx_ring
    <3>1. \A i \in Index : Released(tx_ring[e][i]).acknowledged
      BY TypeOfEnd, ReleasedFacts
    <3>2. \A i \in Index : tx_ring'[e][i].acknowledged \/ tx_ring'[e][i] = tx_ring[e][i]
      BY <1>1, <2>2, <3>1
    <3>3. QED
      BY <1>1, <2>2, <3>2, TypeOfEnd
  <2>3. QED
    BY <1>1, <2>1, <2>2, PeerFacts
<1>3. WireTypes' /\ Domains'
  BY <1>1 DEF TypeInv, WireTypes, Domains
<1>4. QED
  BY <1>1, <1>2, <1>3 DEF TypeInv, TypeOK, WaitingHoldsPdu
-----------------------------------------------------------------------------
(* HandleRlf and Activate have set_tx_enabled in common. *)
Flush(e) == (HandleRlf(e) /\ ~is_tx_enabled'[e] /\ quiet'[e] = 0)
            \/ (Activate(e) /\ is_tx_enabled'[e] /\ quiet' = quiet)

(* What set_tx_enabled does, at its end and at the peer. *)
LEMMA SetTxEffect ==
  ASSUME TypeInv, NEW e \in End, HandleRlf(e) \/ Activate(e)
  PROVE  LET p == Peer(e) IN
         /\ Flush(e)
         /\ is_tx_enabled' \in [End -> BOOLEAN] /\ is_tx_enabled'[p] = is_tx_enabled[p]
         /\ is_rx_enabled' \in [End -> BOOLEAN]
         /\ rlf_event' \in [End -> BOOLEAN]
         /\ quiet' \in [End -> Age] /\ quiet'[p] = quiet[p]
         /\ tx_ring'[e] = [i \in Index |-> IdleSlot] /\ tx_ring'[p] = tx_ring[p]
         /\ to_retx_list'[e] = <<>> /\ to_retx_list'[p] = to_retx_list[p]
         /\ to_ack_list'[e] = <<>> /\ to_ack_list'[p] = to_ack_list[p]
         /\ flushed'[e] = flushed[e] \cup Outstanding(e) \cup QueuedForRetx(e)
         /\ flushed'[p] = flushed[p]
         /\ Domains'
         /\ UNCHANGED <<slot_number, tick, frame, sn_counter, sn_ring, next_pdu, air,
                        acked, received, exhausted, sends>>
<1> DEFINE p == Peer(e)
           lost == Outstanding(e) \cup QueuedForRetx(e)
<1>1. p \in End /\ p # e
  BY PeerFacts
<1>2. /\ Domains /\ quiet \in [End -> Age] /\ is_tx_enabled \in [End -> BOOLEAN]
      /\ is_rx_enabled \in [End -> BOOLEAN] /\ rlf_event \in [End -> BOOLEAN]
  BY DEF TypeInv, TypeOK
<1>3. /\ flushed' = [flushed EXCEPT ![e] = @ \cup Outstanding(e) \cup QueuedForRetx(e)]
      /\ tx_ring' = [tx_ring EXCEPT ![e] = [i \in Index |-> IdleSlot]]
      /\ to_retx_list' = [to_retx_list EXCEPT ![e] = <<>>]
      /\ to_ack_list' = [to_ack_list EXCEPT ![e] = <<>>]
      /\ UNCHANGED <<slot_number, tick, frame, sn_counter, sn_ring, next_pdu, air,
                     acked, received, exhausted, sends>>
  BY DEF HandleRlf, Activate, set_tx_enabled
<1>4. \/ /\ HandleRlf(e)
         /\ is_tx_enabled' = [is_tx_enabled EXCEPT ![e] = FALSE]
         /\ is_rx_enabled' = [is_rx_enabled EXCEPT ![e] = FALSE]
         /\ rlf_event' = [rlf_event EXCEPT ![e] = FALSE]
         /\ quiet' = [quiet EXCEPT ![e] = 0]
      \/ /\ Activate(e)
         /\ is_tx_enabled' = [is_tx_enabled EXCEPT ![e] = TRUE]
         /\ is_rx_enabled' = [is_rx_enabled EXCEPT ![e] = TRUE]
         /\ UNCHANGED <<rlf_event, quiet>>
  BY DEF HandleRlf, Activate, set_tx_enabled, set_rx_enabled
<1>5. /\ is_tx_enabled' \in [End -> BOOLEAN] /\ is_tx_enabled'[p] = is_tx_enabled[p]
      /\ is_rx_enabled' \in [End -> BOOLEAN]
      /\ rlf_event' \in [End -> BOOLEAN]
      /\ quiet' \in [End -> Age] /\ quiet'[p] = quiet[p]
      /\ Flush(e)
  <2>1. CASE /\ HandleRlf(e)
             /\ is_tx_enabled' = [is_tx_enabled EXCEPT ![e] = FALSE]
             /\ is_rx_enabled' = [is_rx_enabled EXCEPT ![e] = FALSE]
             /\ rlf_event' = [rlf_event EXCEPT ![e] = FALSE]
             /\ quiet' = [quiet EXCEPT ![e] = 0]
    BY <1>1, <1>2, <2>1, AgeFacts DEF Flush
  <2>2. CASE /\ Activate(e)
             /\ is_tx_enabled' = [is_tx_enabled EXCEPT ![e] = TRUE]
             /\ is_rx_enabled' = [is_rx_enabled EXCEPT ![e] = TRUE]
             /\ UNCHANGED <<rlf_event, quiet>>
    BY <1>1, <1>2, <2>2 DEF Flush
  <2>3. QED
    BY <1>4, <2>1, <2>2
<1>6. /\ tx_ring'[e] = [i \in Index |-> IdleSlot] /\ tx_ring'[p] = tx_ring[p]
      /\ to_retx_list'[e] = <<>> /\ to_retx_list'[p] = to_retx_list[p]
      /\ to_ack_list'[e] = <<>> /\ to_ack_list'[p] = to_ack_list[p]
      /\ flushed'[e] = flushed[e] \cup Outstanding(e) \cup QueuedForRetx(e)
      /\ flushed'[p] = flushed[p]
  BY <1>1, <1>2, <1>3 DEF Domains
<1>7. Domains'
  BY <1>2, <1>3 DEF Domains
<1>8. QED
  BY <1>3, <1>5, <1>6, <1>7

(* A ring without PDUs has its type, and no slot of it waits. *)
LEMMA IdleRing ==
  ASSUME NEW e \in End
  PROVE  /\ [i \in Index |-> IdleSlot] \in [Index -> RingElem(e)]
         /\ \A i \in Index : [j \in Index |-> IdleSlot][i].acknowledged
<1>1. IdleSlot \in RingElem(e) /\ IdleSlot.acknowledged
  BY DEF IdleSlot, RingElem, NotSent, NoPdu
<1>2. QED
  BY <1>1

(* set_tx_enabled keeps the types. *)
LEMMA SetTxType ==
  ASSUME TypeInv, NEW e \in End, HandleRlf(e) \/ Activate(e)
  PROVE  TypeInv'
<1>1. /\ is_tx_enabled' \in [End -> BOOLEAN]
      /\ is_rx_enabled' \in [End -> BOOLEAN]
      /\ rlf_event' \in [End -> BOOLEAN]
      /\ quiet' \in [End -> Age]
      /\ tx_ring'[e] = [i \in Index |-> IdleSlot] /\ tx_ring'[Peer(e)] = tx_ring[Peer(e)]
      /\ to_retx_list'[e] = <<>> /\ to_retx_list'[Peer(e)] = to_retx_list[Peer(e)]
      /\ to_ack_list'[e] = <<>> /\ to_ack_list'[Peer(e)] = to_ack_list[Peer(e)]
      /\ Domains'
      /\ UNCHANGED <<slot_number, tick, frame, sn_counter, sn_ring, next_pdu, air,
                     acked, received, exhausted, sends>>
  BY SetTxEffect
<1>2. WireTypes'
  BY <1>1 DEF TypeInv, WireTypes
<1>3. /\ slot_number' \in [End -> Index]
      /\ tick' \in [End -> {"wait", "probed"}]
      /\ sn_counter' \in [End -> Sn]
      /\ sn_ring' \in [End -> [0..(ArqWindow - 1) -> Index]]
  BY <1>1 DEF TypeInv, TypeOK, Sn
<1>4. /\ tx_ring'[e] \in [Index -> RingElem(e)]
      /\ \A i \in Index : tx_ring'[e][i].acknowledged
  BY <1>1, IdleRing
<1>5. \A x \in {e, Peer(e)} :
        /\ tx_ring'[x] \in [Index -> RingElem(x)]
        /\ \A i \in Index : ~tx_ring'[x][i].acknowledged => tx_ring'[x][i].pdcp_pdu # NoPdu
        /\ to_retx_list'[x] \in Seq(RetxElem(x))
        /\ to_ack_list'[x] \in Seq(AckElem)
        /\ next_pdu'[x] \in 1..(MaxPdu[x] + 1)
  <2>1. <<>> \in Seq(RetxElem(e)) /\ <<>> \in Seq(AckElem)
    BY EmptySeq
  <2>2. Peer(e) \in End
    BY PeerFacts
  <2>3. /\ tx_ring'[e] \in [Index -> RingElem(e)]
        /\ \A i \in Index : ~tx_ring'[e][i].acknowledged => tx_ring'[e][i].pdcp_pdu # NoPdu
        /\ to_retx_list'[e] \in Seq(RetxElem(e))
        /\ to_ack_list'[e] \in Seq(AckElem)
    BY <1>1, <1>4, <2>1
  <2>4. next_pdu'[e] \in 1..(MaxPdu[e] + 1)
    BY <1>1, TypeOfEnd
  <2>5. /\ tx_ring'[Peer(e)] \in [Index -> RingElem(Peer(e))]
        /\ \A i \in Index : ~tx_ring'[Peer(e)][i].acknowledged =>
                            tx_ring'[Peer(e)][i].pdcp_pdu # NoPdu
        /\ to_retx_list'[Peer(e)] \in Seq(RetxElem(Peer(e)))
        /\ to_ack_list'[Peer(e)] \in Seq(AckElem)
        /\ next_pdu'[Peer(e)] \in 1..(MaxPdu[Peer(e)] + 1)
    BY <1>1, <2>2, TypeOfEnd
  <2>6. QED
    BY <2>3, <2>4, <2>5
<1>6. QED
  BY <1>1, <1>2, <1>3, <1>5, TypeStep
-----------------------------------------------------------------------------
(* A PDU is taken from PDCP. *)
LEMMA TakeEffect ==
  ASSUME TypeInv, NEW e \in End, next_pdu[e] \in Pdu(e),
         next_pdu' = [next_pdu EXCEPT ![e] = @ + 1]
  PROVE  /\ DOMAIN next_pdu' = End
         /\ next_pdu'[e] = next_pdu[e] + 1
         /\ next_pdu'[Peer(e)] = next_pdu[Peer(e)]
         /\ \A x \in {e, Peer(e)} : next_pdu'[x] \in 1..(MaxPdu[x] + 1)
<1>1. Peer(e) \in End /\ Peer(e) # e
  BY PeerFacts
<1>2. /\ DOMAIN next_pdu' = End
      /\ next_pdu'[e] = next_pdu[e] + 1
      /\ next_pdu'[Peer(e)] = next_pdu[Peer(e)]
  BY <1>1 DEF TypeInv, Domains
<1>3. next_pdu[Peer(e)] \in 1..(MaxPdu[Peer(e)] + 1)
  BY <1>1, TypeOfEnd
<1>4. next_pdu[e] + 1 \in 1..(MaxPdu[e] + 1)
  BY LimitsAssumption DEF Pdu
<1>5. QED
  BY <1>2, <1>3, <1>4

(* Every action keeps the types. *)
LEMMA TypeNext ==
  ASSUME TypeInv, NEW e \in End,
         \/ OnTxProbe(e) \/ OnTxNew(e) \/ OnTxRetx(e) \/ OnTxRlf(e) \/ OnTxDrop(e)
         \/ OnTxAcksOnly(e) \/ OnTxNoRoom(e) \/ OnRxData(e) \/ OnRxAck(e)
         \/ HandleRlf(e) \/ Activate(e)
  PROVE  TypeInv'
<1>1. Peer(e) \in End /\ Peer(e) # e
  BY PeerFacts
<1>2. Domains /\ rlf_event \in [End -> BOOLEAN]
  BY DEF TypeInv, TypeOK
<1>3. CASE OnTxNew(e)
  <2>1. /\ Send(e, next_pdu[e], 0)
        /\ next_pdu[e] \in Pdu(e)
        /\ next_pdu' = [next_pdu EXCEPT ![e] = @ + 1]
        /\ UNCHANGED <<to_retx_list, exhausted>>
    BY <1>3, NewIsSend
  <2>2. \A x \in {e, Peer(e)} : /\ to_retx_list'[x] \in Seq(RetxElem(x))
                                /\ next_pdu'[x] \in 1..(MaxPdu[x] + 1)
    BY <1>1, <2>1, TypeOfEnd, TakeEffect
  <2>3. DOMAIN to_retx_list' = End /\ DOMAIN next_pdu' = End /\ DOMAIN exhausted' = End
    BY <1>2, <2>1 DEF Domains
  <2>4. QED
    BY <2>1, <2>2, <2>3, SendType
<1>4. CASE OnTxRetx(e)
  <2>1. /\ Send(e, Head(RetxNow(e)).pdcp_pdu, RetxCount(e))
        /\ RetxNow(e) # <<>>
        /\ to_retx_list' = [to_retx_list EXCEPT ![e] = Tail(RetxNow(e))]
        /\ UNCHANGED <<next_pdu, exhausted>>
    BY <1>4, RetxIsSend
  <2>2. /\ Head(RetxNow(e)).pdcp_pdu \in Pdu(e) /\ RetxCount(e) \in Nat
        /\ Tail(RetxNow(e)) \in Seq(RetxElem(e))
    BY <2>1, NowFacts
  <2>3. \A x \in {e, Peer(e)} : /\ to_retx_list'[x] \in Seq(RetxElem(x))
                                /\ next_pdu'[x] \in 1..(MaxPdu[x] + 1)
    BY <1>1, <1>2, <2>1, <2>2, TypeOfEnd DEF Domains
  <2>4. DOMAIN to_retx_list' = End /\ DOMAIN next_pdu' = End /\ DOMAIN exhausted' = End
    BY <1>2, <2>1 DEF Domains
  <2>5. QED
    BY <2>1, <2>2, <2>3, <2>4, SendType
<1>5. CASE OnTxDrop(e)
  <2>1. /\ RetxNow(e) # <<>>
        /\ exhausted' = [exhausted EXCEPT ![e] = @ \cup {Head(RetxNow(e)).pdcp_pdu}]
        /\ to_retx_list' = [to_retx_list EXCEPT ![e] = Tail(RetxNow(e))]
        /\ UNCHANGED rlf_event
    BY <1>5, DropIsSend
  <2>2. RetxCount(e) \in Nat /\ Tail(RetxNow(e)) \in Seq(RetxElem(e))
    BY <2>1, NowFacts
  <2>3. \A x \in {e, Peer(e)} : to_retx_list'[x] \in Seq(RetxElem(x))
    BY <1>1, <1>2, <2>1, <2>2, TypeOfEnd DEF Domains
  <2>4. DOMAIN to_retx_list' = End /\ DOMAIN exhausted' = End
    BY <1>2, <2>1 DEF Domains
  <2>5. CASE /\ Send(e, next_pdu[e], RetxCount(e))
             /\ next_pdu[e] \in Pdu(e)
             /\ next_pdu' = [next_pdu EXCEPT ![e] = @ + 1]
    <3>1. \A x \in {e, Peer(e)} : next_pdu'[x] \in 1..(MaxPdu[x] + 1)
      BY <2>5, TakeEffect
    <3>2. DOMAIN next_pdu' = End
      BY <1>2, <2>5 DEF Domains
    <3>3. QED
      BY <2>2, <2>3, <2>4, <2>5, <3>1, <3>2, SendType
  <2>6. CASE NoSend(e)
    BY <1>2, <2>1, <2>3, <2>4, <2>6, NoSendType
  <2>7. QED
    BY <1>5, <2>5, <2>6, DropIsSend
<1>6. CASE OnTxRlf(e)
  <2>1. /\ NoSend(e)
        /\ RetxNow(e) # <<>>
        /\ exhausted' = [exhausted EXCEPT ![e] = @ \cup {Head(RetxNow(e)).pdcp_pdu}]
        /\ to_retx_list' = [to_retx_list EXCEPT ![e] = Tail(RetxNow(e))]
        /\ rlf_event' = [rlf_event EXCEPT ![e] = TRUE]
    BY <1>6, RlfIsNoSend
  <2>2. Tail(RetxNow(e)) \in Seq(RetxElem(e))
    BY <2>1, NowFacts
  <2>3. \A x \in {e, Peer(e)} : to_retx_list'[x] \in Seq(RetxElem(x))
    BY <1>1, <1>2, <2>1, <2>2, TypeOfEnd DEF Domains
  <2>4. /\ DOMAIN to_retx_list' = End /\ DOMAIN exhausted' = End
        /\ rlf_event' \in [End -> BOOLEAN]
    BY <1>2, <2>1 DEF Domains
  <2>5. QED
    BY <2>1, <2>3, <2>4, NoSendType
<1>7. CASE OnTxAcksOnly(e)
  <2>1. /\ NoSend(e)
        /\ to_retx_list' = [to_retx_list EXCEPT ![e] = RetxNow(e)]
        /\ UNCHANGED <<exhausted, rlf_event>>
    BY <1>7, AcksOnlyIsNoSend
  <2>2. RetxNow(e) \in Seq(RetxElem(e))
    BY NowFacts
  <2>3. \A x \in {e, Peer(e)} : to_retx_list'[x] \in Seq(RetxElem(x))
    BY <1>1, <1>2, <2>1, <2>2, TypeOfEnd DEF Domains
  <2>4. DOMAIN to_retx_list' = End /\ DOMAIN exhausted' = End
    BY <1>2, <2>1 DEF Domains
  <2>5. QED
    BY <1>2, <2>1, <2>3, <2>4, NoSendType
<1>8. QED
  BY <1>3, <1>4, <1>5, <1>6, <1>7, ProbeType, NoRoomType, RxDataType, RxAckType, SetTxType

(* The types hold initially. *)
LEMMA TypeInit == Init => TypeInv
<1> SUFFICES ASSUME Init PROVE TypeInv
  OBVIOUS
<1>1. Domains /\ WireTypes
  BY DEF Init, Domains, WireTypes
<1>2. \A e \in End : tx_ring[e] = [i \in Index |-> IdleSlot]
  BY DEF Init
<1>3. \A e \in End : /\ tx_ring[e] \in [Index -> RingElem(e)]
                     /\ \A i \in Index : tx_ring[e][i].acknowledged
  BY <1>2, IdleRing
<1>4. 0 \in Index /\ 0 \in 0..(SnMod - 1)
  BY WindowAssumption, SnModAssumption DEF Index
<1>5. sn_ring \in [End -> [0..(ArqWindow - 1) -> Index]]
  BY <1>4 DEF Init
<1>6. /\ slot_number \in [End -> Index]
      /\ tick \in [End -> {"wait", "probed"}]
      /\ is_tx_enabled \in [End -> BOOLEAN]
      /\ is_rx_enabled \in [End -> BOOLEAN]
      /\ rlf_event \in [End -> BOOLEAN]
      /\ quiet \in [End -> Age]
      /\ sn_counter \in [End -> 0..(SnMod - 1)]
  BY <1>4, AgeFacts DEF Init
<1>7. \A e \in End : /\ to_retx_list[e] \in Seq(RetxElem(e))
                     /\ to_ack_list[e] \in Seq(AckElem)
                     /\ next_pdu[e] \in 1..(MaxPdu[e] + 1)
  <2> SUFFICES ASSUME NEW e \in End
               PROVE  /\ to_retx_list[e] \in Seq(RetxElem(e))
                      /\ to_ack_list[e] \in Seq(AckElem)
                      /\ next_pdu[e] \in 1..(MaxPdu[e] + 1)
    OBVIOUS
  <2>1. to_retx_list[e] = <<>> /\ to_ack_list[e] = <<>> /\ next_pdu[e] = 1
    BY DEF Init
  <2>2. <<>> \in Seq(RetxElem(e)) /\ <<>> \in Seq(AckElem)
    BY EmptySeq
  <2>3. 1 \in 1..(MaxPdu[e] + 1)
    BY LimitsAssumption
  <2>4. QED
    BY <2>1, <2>2, <2>3
<1>8. QED
  BY <1>1, <1>3, <1>5, <1>6, <1>7 DEF TypeInv, TypeOK, WaitingHoldsPdu

(* Stuttering keeps the types. *)
LEMMA TypeStutter == TypeInv /\ UNCHANGED vars => TypeInv'
BY DEF TypeInv, TypeOK, Domains, WireTypes, WaitingHoldsPdu, vars, sender, history

(***************************************************************************)
(* The state of both ends keeps the types of LLC.hpp, whatever the sizes   *)
(* of the ring, the window and the sequence numbers.                       *)
(***************************************************************************)
THEOREM TypeCorrect == Spec => []TypeOK
<1>1. TypeInv /\ [Next]_vars => TypeInv'
  <2> SUFFICES ASSUME TypeInv, [Next]_vars PROVE TypeInv'
    OBVIOUS
  <2>1. CASE UNCHANGED vars
    BY <2>1, TypeStutter
  <2>2. CASE Next
    BY <2>2, TypeNext DEF Next
  <2>3. QED
    BY <2>1, <2>2
<1>2. TypeInv => TypeOK
  BY DEF TypeInv
<1>3. QED
  BY <1>1, <1>2, TypeInit, PTL DEF Spec
-----------------------------------------------------------------------------
(***************************************************************************)
(* The condition under which an entry of sn_ring names one PDU: no ACK is  *)
(* under way for as long as a window and, where the window does not divide *)
(* the number of sequence numbers, for as long as the remainder.  With the *)
(* 256 numbers of the code the default window of 25 leaves 6 and the       *)
(* window of 30 of the examples leaves 16: their ACKs have to be back      *)
(* within 5 and 15 slots.                                                  *)
(***************************************************************************)
WindowFits ==
  /\ MaxRoundTrip < ArqWindow
  /\ SnMod % ArqWindow = 0 \/ MaxRoundTrip < SnMod % ArqWindow

(* The slot a slots before slot s, and how many numbers n lies behind c. *)
Back(s, a) == IF a <= s THEN s - a ELSE s + TxRingSize - a
Behind(c, n) == IF n < c THEN c - n ELSE c + SnMod - n

(* The slot an acknowledgement of sn marks. *)
SlotOf(e, sn) == SentSlot(tx_ring[e], tx_ring_index(sn_ring[e][sn_ring_index(sn)]))

(* The PDU p waits in slot i. *)
Holds(e, i, p) == ~tx_ring[e][i].acknowledged /\ tx_ring[e][i].pdcp_pdu = p

(***************************************************************************)
(* sn was sent a slots ago, and the rings still lead to the slot it was    *)
(* sent in: no more numbers than slots were used since.                    *)
(***************************************************************************)
SentAgo(e, sn, a) ==
  /\ sn_ring[e][sn_ring_index(sn)] = CheckSlot(Back(slot_number[e], a))
  /\ tx_ring[e][CheckSlot(Back(slot_number[e], a))].sent_index = Back(slot_number[e], a)
  /\ Behind(sn_counter[e], sn) <= IF tick[e] = "wait" THEN a + 1 ELSE a
Tracked(e, sn, age) == \E a \in 0..age : SentAgo(e, sn, a)

(***************************************************************************)
(* Data of e in flight: its number leads to the PDU it carries, or to a    *)
(* slot that does not wait.  An acknowledgement on its way to e: its       *)
(* numbers lead to PDUs that the peer has, or to slots that do not wait.   *)
(* While e is disabled, what is in flight is older than the silence.       *)
(***************************************************************************)
DataOk(e, m) ==
  /\ m.pdu < next_pdu[e]
  /\ is_tx_enabled[e] => /\ Tracked(e, m.sn, m.age)
                         /\ \A p \in Nat : Holds(e, SlotOf(e, m.sn), p) => p = m.pdu
  /\ ~is_tx_enabled[e] => quiet[e] <= m.age

AckOk(e, ack, age) ==
  age <= MaxRoundTrip =>
    /\ is_tx_enabled[e] =>
         \A sn \in AckedSns(ack) :
           /\ Tracked(e, sn, age)
           /\ \A p \in Nat : Holds(e, SlotOf(e, sn), p) => p \in received[e]
    /\ ~is_tx_enabled[e] => quiet[e] <= age

DataTracked(e) ==
  \A m \in air : (m.type = "data" /\ m.to = Peer(e)) => DataOk(e, m)
ListTracked(e) ==
  \A k \in DOMAIN to_ack_list[Peer(e)] :
    AckOk(e, to_ack_list[Peer(e)][k], to_ack_list[Peer(e)][k].age)
AcksTracked(e) ==
  \A m \in air \cup frame[Peer(e)] : (m.type = "ack" /\ m.to = e) =>
    \A k \in DOMAIN m.acks : AckOk(e, m.acks[k], m.age)
Wires(e) == DataTracked(e) /\ ListTracked(e) /\ AcksTracked(e)

(* A disabled end holds nothing. *)
Idle(e) ==
  ~is_tx_enabled[e] => (\A i \in Index : tx_ring[e][i].acknowledged) /\ to_retx_list[e] = <<>>

(* A slot that waits is checked within a window: so the current one is free. *)
WillBeChecked(e) ==
  \A i \in Index : ~tx_ring[e][i].acknowledged =>
    /\ \E a \in (IF tick[e] = "wait" THEN 0 ELSE 1)..(ArqWindow - 1) :
         i = Back(slot_number[e], a)
    /\ tx_ring[e][CheckSlot(i)].sent_index = i
-----------------------------------------------------------------------------
(* Going back up to a window leads to a slot, and only 0 to s itself. *)
LEMMA BackFacts ==
  ASSUME NEW s \in Index, NEW a \in 0..ArqWindow
  PROVE  /\ Back(s, a) \in Index
         /\ a # 0 => Back(s, a) # s
         /\ Back(s, 0) = s
BY WindowAssumption DEF Back, Index

(* The slot that follows s. *)
LEMMA NextSlot ==
  ASSUME NEW s \in Index
  PROVE  tx_ring_index(s + 1) = IF s + 1 = TxRingSize THEN 0 ELSE s + 1
<1>1. CASE s + 1 = TxRingSize
  BY <1>1, WindowAssumption DEF tx_ring_index
<1>2. CASE s + 1 # TxRingSize
  <2>1. s + 1 \in Index
    BY <1>2, WindowAssumption DEF Index
  <2>2. QED
    BY <1>2, <2>1, IndexType
<1>3. QED
  BY <1>1, <1>2

(* A tick later everything was one slot further back. *)
LEMMA BackTick ==
  ASSUME NEW s \in Index, NEW a \in 0..(ArqWindow - 1)
  PROVE  Back(tx_ring_index(s + 1), a + 1) = Back(s, a)
BY NextSlot, WindowAssumption DEF Back, Index

(* Two slots are not checked in the same one. *)
LEMMA CheckSlotInjective ==
  ASSUME NEW i \in Index, NEW j \in Index, CheckSlot(i) = CheckSlot(j)
  PROVE  i = j
BY CheckSlotFacts, WindowAssumption DEF Index

(* The remainder is determined by quotient and remainder. *)
LEMMA ModUnique ==
  ASSUME NEW w \in Nat \ {0}, NEW q \in Int, NEW r \in 0..(w - 1), NEW x \in Int,
         x = w * q + r
  PROVE  x % w = r
<1> DEFINE d == x \div w
           m == x % w
<1>1. m \in 0..(w - 1) /\ d \in Int
  OBVIOUS
<1>2. x = w * d + m
  OBVIOUS
<1> HIDE DEF d, m
<1>3. w * q + r = w * d + m
  BY <1>2
<1>4. w * (q - d) = m - r
  BY <1>1, <1>3
<1>5. CASE q - d >= 1
  <2>1. w * (q - d) >= w
    BY <1>1, <1>5
  <2>2. QED
    BY <2>1, <1>1, <1>4
<1>6. CASE q - d <= -1
  <2>1. w * (q - d) <= -w
    BY <1>1, <1>6
  <2>2. QED
    BY <2>1, <1>1, <1>4
<1>7. CASE q - d = 0
  <2>1. q = d
    BY <1>1, <1>7
  <2>2. QED
    BY <2>1, <1>1, <1>3 DEF m
<1>8. QED
  BY <1>1, <1>5, <1>6, <1>7

(* Counting on modulo w. *)
LEMMA ModStep ==
  ASSUME NEW w \in Nat \ {0}, NEW n \in Nat
  PROVE  (n + 1) % w = IF (n % w) + 1 = w THEN 0 ELSE (n % w) + 1
<1> DEFINE d == n \div w
           m == n % w
<1>1. m \in 0..(w - 1) /\ d \in Int
  OBVIOUS
<1>2. n = w * d + m
  OBVIOUS
<1> HIDE DEF d, m
<1>3. CASE m + 1 = w
  <2> DEFINE q == d + 1
             x == n + 1
  <2>1. x = w * q + 0 /\ q \in Int /\ x \in Int /\ 0 \in 0..(w - 1)
    BY <1>1, <1>2, <1>3
  <2> HIDE DEF q, x
  <2>2. x % w = 0
    BY <2>1, ModUnique, Zenon
  <2>3. QED
    BY <2>2, <1>3 DEF m, x
<1>4. CASE m + 1 # w
  <2> DEFINE r == m + 1
             x == n + 1
  <2>1. x = w * d + r /\ r \in 0..(w - 1) /\ x \in Int
    BY <1>1, <1>2, <1>4
  <2> HIDE DEF r, x
  <2>2. x % w = r
    BY <2>1, <1>1, ModUnique, Zenon
  <2>3. QED
    BY <2>2, <1>4 DEF m, r, x
<1>5. QED
  BY <1>3, <1>4

(* Numbers with the same remainder are a multiple of w apart. *)
LEMMA ModApart ==
  ASSUME NEW w \in Nat \ {0}, NEW x \in Nat, NEW y \in Nat, x % w = y % w
  PROVE  \E k \in Int : x - y = w * k
<1> DEFINE d == x \div w
           f == y \div w
           m == x % w
<1>1. d \in Int /\ f \in Int /\ m \in Int
  OBVIOUS
<1>2. x = w * d + m /\ y = w * f + m
  OBVIOUS
<1> HIDE DEF d, f, m
<1>3. d - f \in Int /\ x - y = w * (d - f)
  BY <1>1, <1>2
<1>4. QED
  BY <1>3

(* No multiple of w but 0 lies within w of 0. *)
LEMMA SmallMultiple ==
  ASSUME NEW w \in Nat \ {0}, NEW k \in Int, NEW z \in Int, z = w * k, -w < z, z < w
  PROVE  z = 0
<1>1. CASE k >= 1
  <2>1. w * k >= w
    BY <1>1
  <2>2. QED
    BY <2>1
<1>2. CASE k <= -1
  <2>1. w * k <= -w
    BY <1>2
  <2>2. QED
    BY <2>1
<1>3. CASE k = 0
  BY <1>3
<1>4. QED
  BY <1>1, <1>2, <1>3

(* How far a number lies behind another one, and how that grows. *)
LEMMA BehindFacts ==
  ASSUME NEW c \in Sn, NEW n \in Sn
  PROVE  /\ Behind(c, n) \in 1..SnMod
         /\ Behind(c, n) < SnMod => Behind(increment_sn(c), n) = Behind(c, n) + 1
         /\ Behind(increment_sn(c), c) = 1
<1>1. c \in 0..(SnMod - 1) /\ n \in 0..(SnMod - 1) /\ SnMod \in Nat \ {0}
  BY SnModAssumption DEF Sn
<1>2. increment_sn(c) = IF c + 1 = SnMod THEN 0 ELSE c + 1
  BY <1>1 DEF increment_sn
<1>3. QED
  BY <1>1, <1>2 DEF Behind

(* Numbers sent within a round trip have entries of sn_ring of their own. *)
LEMMA OwnEntry ==
  ASSUME WindowFits, NEW c \in Sn, NEW n \in Sn, Behind(c, n) <= MaxRoundTrip
  PROVE  sn_ring_index(c) # sn_ring_index(n) /\ Behind(c, n) < SnMod
<1> DEFINE g == Behind(c, n)
           r == SnMod % ArqWindow
           q == SnMod \div ArqWindow
<1>1. /\ c \in Nat /\ n \in Nat /\ c < SnMod /\ n < SnMod
      /\ SnMod \in Nat \ {0} /\ ArqWindow \in Nat \ {0} /\ MaxRoundTrip \in Nat
  BY SnModAssumption, WindowAssumption, LimitsAssumption DEF Sn
<1>2. g \in 1..MaxRoundTrip
  BY <1>1, BehindFacts
<1>3. r \in 0..(ArqWindow - 1) /\ q \in Int /\ SnMod = ArqWindow * q + r
  BY <1>1
<1>4. MaxRoundTrip < ArqWindow /\ (r = 0 \/ MaxRoundTrip < r)
  BY DEF WindowFits
<1>5. g = (IF n < c THEN c - n ELSE c + SnMod - n)
  BY DEF Behind
<1> HIDE DEF g, r, q
<1>6. ASSUME c % ArqWindow = n % ArqWindow
      PROVE  FALSE
  <2>1. PICK k \in Int : c - n = ArqWindow * k
    <3>1. \E k \in Int : c - n = ArqWindow * k
      BY <1>1, <1>6, ModApart, Zenon
    <3>2. QED
      BY <3>1
  <2>2. CASE n < c
    <3>1. g = ArqWindow * k /\ g \in Int /\ -ArqWindow < g /\ g < ArqWindow
      BY <1>1, <1>2, <1>4, <1>5, <2>1, <2>2
    <3>2. g = 0
      BY <1>1, <2>1, <3>1, SmallMultiple, Zenon
    <3>3. QED
      BY <1>2, <3>2
  <2>3. CASE ~(n < c)
    <3> DEFINE z == g - r
               j == k + q
    <3>1. /\ z = ArqWindow * k + ArqWindow * q
          /\ z \in Int /\ j \in Int /\ -ArqWindow < z /\ z < ArqWindow
      BY <1>1, <1>2, <1>3, <1>4, <1>5, <2>1, <2>3
    <3>2. ArqWindow * j = ArqWindow * k + ArqWindow * q
      BY <1>1, <1>3, <2>1
    <3>3. z = ArqWindow * j
      BY <3>1, <3>2
    <3>4. z = 0 => FALSE
      BY <1>1, <1>2, <1>3, <1>4
    <3> HIDE DEF z, j
    <3>5. z = 0
      BY <1>1, <3>1, <3>3, SmallMultiple, Zenon
    <3>6. QED
      BY <3>4, <3>5
  <2>4. QED
    BY <2>2, <2>3
<1>7. g < SnMod
  <2>1. r <= SnMod /\ (r = 0 => ArqWindow <= SnMod)
    <3>1. CASE q <= 0
      <4>1. ArqWindow * q <= 0
        BY <1>1, <1>3, <3>1
      <4>2. QED
        BY <1>1, <1>3, <4>1
    <3>2. CASE q >= 1
      <4>1. ArqWindow * q >= ArqWindow
        BY <1>1, <1>3, <3>2
      <4>2. QED
        BY <1>1, <1>3, <4>1
    <3>3. QED
      BY <1>3, <3>1, <3>2
  <2>2. QED
    BY <1>1, <1>2, <1>3, <1>4, <2>1
<1>8. QED
  BY <1>6, <1>7 DEF sn_ring_index, g
-----------------------------------------------------------------------------
(* A number that is tracked leads to the slot it was sent in. *)
LEMMA SentAgoSlot ==
  ASSUME TypeInv, NEW e \in End, NEW sn \in Sn, NEW a \in 0..(ArqWindow - 1), SentAgo(e, sn, a)
  PROVE  /\ SlotOf(e, sn) = Back(slot_number[e], a)
         /\ SlotOf(e, sn) \in Index
<1> DEFINE i == Back(slot_number[e], a)
<1>1. slot_number[e] \in Index
  BY TypeOfEnd
<1>2. i \in Index
  <2>1. a \in 0..ArqWindow
    BY WindowAssumption
  <2>2. QED
    BY <1>1, <2>1, BackFacts
<1>3. sn_ring[e][sn_ring_index(sn)] = CheckSlot(i) /\ tx_ring[e][CheckSlot(i)].sent_index = i
  BY DEF SentAgo
<1> HIDE DEF i
<1>4. CheckSlot(i) \in Index
  BY <1>2, CheckSlotFacts
<1>5. tx_ring_index(CheckSlot(i)) = CheckSlot(i) /\ tx_ring_index(i) = i
  BY <1>2, <1>4, IndexType
<1>6. SlotOf(e, sn) = i
  BY <1>3, <1>5 DEF SlotOf, SentSlot
<1>7. QED
  BY <1>2, <1>6 DEF i

(***************************************************************************)
(* What a step does to the numbers of e that are tracked: with d = 0 no    *)
(* slot passed, with d = 1 one did.                                        *)
(***************************************************************************)
Carried(e, d) ==
  \A sn \in Sn, age \in Age :
    (age + d <= MaxRoundTrip /\ Tracked(e, sn, age)) =>
      /\ Tracked(e, sn, age + d)'
      /\ \A p \in Nat : Holds(e, SlotOf(e, sn), p)' => Holds(e, SlotOf(e, sn), p)

(* Slots may be released, and the tick may end. *)
LEMMA KeptCarried ==
  ASSUME WindowFits, TypeInv, TypeInv', NEW e \in End,
         slot_number'[e] = slot_number[e],
         tick'[e] = tick[e] \/ tick'[e] = "wait",
         sn_counter'[e] = sn_counter[e],
         sn_ring'[e] = sn_ring[e],
         \A i \in Index : tx_ring'[e][i].sent_index = tx_ring[e][i].sent_index,
         \A i \in Index : tx_ring'[e][i].acknowledged \/ tx_ring'[e][i] = tx_ring[e][i]
  PROVE  Carried(e, 0)
<1> SUFFICES ASSUME NEW sn \in Sn, NEW age \in Age, age + 0 <= MaxRoundTrip, Tracked(e, sn, age)
             PROVE  /\ Tracked(e, sn, age + 0)'
                    /\ \A p \in Nat : Holds(e, SlotOf(e, sn), p)' => Holds(e, SlotOf(e, sn), p)
  BY DEF Carried
<1>1. age \in Nat /\ age < ArqWindow /\ age + 0 = age
  BY AgeFacts, LimitsAssumption, WindowAssumption DEF WindowFits
<1>2. PICK a \in 0..age : SentAgo(e, sn, a)
  BY DEF Tracked
<1>3. a \in 0..(ArqWindow - 1)
  BY <1>1, WindowAssumption
<1>4. slot_number[e] \in Index /\ tick[e] \in {"wait", "probed"}
  BY TypeOfEnd
<1>5. Back(slot_number[e], a) \in Index
  BY <1>3, <1>4, BackFacts, WindowAssumption
<1>6. CheckSlot(Back(slot_number[e], a)) \in Index
  BY <1>5, CheckSlotFacts
<1>7. Behind(sn_counter[e], sn) \in Nat
  <2>1. sn_counter[e] \in Sn
    BY TypeOfEnd
  <2>2. Behind(sn_counter[e], sn) \in 1..SnMod
    BY <2>1, BehindFacts
  <2>3. QED
    BY <2>2, SnModAssumption
<1>8. SentAgo(e, sn, a)'
  BY <1>1, <1>2, <1>4, <1>6, <1>7 DEF SentAgo
<1>9. Tracked(e, sn, age + 0)'
  BY <1>1, <1>8 DEF Tracked
<1>10. SlotOf(e, sn) = Back(slot_number[e], a) /\ SlotOf(e, sn) \in Index
  BY <1>2, <1>3, SentAgoSlot
<1>11. SlotOf(e, sn)' = SlotOf(e, sn)
  <2>1. sn_ring[e][sn_ring_index(sn)] \in Index
    BY SnIndexType, TypeOfEnd
  <2>2. tx_ring_index(sn_ring[e][sn_ring_index(sn)]) \in Index
    BY <2>1, IndexType
  <2>3. QED
    BY <2>2 DEF SlotOf, SentSlot
<1>12. QED
  BY <1>9, <1>10, <1>11 DEF Holds

(* A tick of e: what was sent a slots ago was sent a + 1 slots ago. *)
LEMMA TickCarried ==
  ASSUME WindowFits, TypeInv, TypeInv', NEW e \in End,
         slot_number'[e] = tx_ring_index(slot_number[e] + 1),
         tick[e] = "wait",
         sn_counter'[e] = sn_counter[e],
         sn_ring'[e] = sn_ring[e],
         \A i \in Index : tx_ring'[e][i].sent_index = tx_ring[e][i].sent_index,
         \A i \in Index : tx_ring'[e][i].acknowledged \/ tx_ring'[e][i] = tx_ring[e][i]
  PROVE  Carried(e, 1)
<1> SUFFICES ASSUME NEW sn \in Sn, NEW age \in Age, age + 1 <= MaxRoundTrip, Tracked(e, sn, age)
             PROVE  /\ Tracked(e, sn, age + 1)'
                    /\ \A p \in Nat : Holds(e, SlotOf(e, sn), p)' => Holds(e, SlotOf(e, sn), p)
  BY DEF Carried
<1>1. age \in Nat /\ age < ArqWindow
  BY AgeFacts, LimitsAssumption, WindowAssumption DEF WindowFits
<1>2. PICK a \in 0..age : SentAgo(e, sn, a)
  BY DEF Tracked
<1>3. a \in 0..(ArqWindow - 1) /\ a \in 0..ArqWindow /\ a + 1 \in 0..(age + 1)
  BY <1>1, WindowAssumption
<1>4. slot_number[e] \in Index /\ tick'[e] \in {"wait", "probed"}
  BY TypeOfEnd DEF TypeInv, TypeOK
<1>5. Back(slot_number[e], a) \in Index
  BY <1>3, <1>4, BackFacts
<1>6. CheckSlot(Back(slot_number[e], a)) \in Index
  BY <1>5, CheckSlotFacts
<1>7. Back(slot_number'[e], a + 1) = Back(slot_number[e], a)
  BY <1>3, <1>4, BackTick
<1>8. Behind(sn_counter[e], sn) \in Nat
  <2>1. sn_counter[e] \in Sn
    BY TypeOfEnd
  <2>2. Behind(sn_counter[e], sn) \in 1..SnMod
    BY <2>1, BehindFacts
  <2>3. QED
    BY <2>2, SnModAssumption
<1>9. SentAgo(e, sn, a + 1)'
  BY <1>1, <1>2, <1>4, <1>6, <1>7, <1>8 DEF SentAgo
<1>10. Tracked(e, sn, age + 1)'
  BY <1>3, <1>9 DEF Tracked
<1>11. SlotOf(e, sn) = Back(slot_number[e], a) /\ SlotOf(e, sn) \in Index
  BY <1>2, <1>3, SentAgoSlot
<1>12. SlotOf(e, sn)' = SlotOf(e, sn)
  <2>1. sn_ring[e][sn_ring_index(sn)] \in Index
    BY SnIndexType, TypeOfEnd
  <2>2. tx_ring_index(sn_ring[e][sn_ring_index(sn)]) \in Index
    BY <2>1, IndexType
  <2>3. QED
    BY <2>2 DEF SlotOf, SentSlot
<1>13. QED
  BY <1>10, <1>11, <1>12 DEF Holds

(***************************************************************************)
(* A PDU is sent: it takes a slot, a checking slot and an entry of sn_ring *)
(* of its own, since no more numbers than a round trip has slots are under *)
(* way.                                                                    *)
(***************************************************************************)
LEMMA SendCarried ==
  ASSUME WindowFits, TypeInv, NEW e \in End, NEW pdu \in Pdu(e), NEW rc \in Nat,
         Send(e, pdu, rc), NEW n \in Sn, n = sn_counter[e]
  PROVE  /\ Carried(e, 0)
         /\ Tracked(e, n, 0)'
         /\ SlotOf(e, n)' = slot_number[e]
<1> DEFINE s == slot_number[e]
           c == CheckSlot(s)
           W == 0..(ArqWindow - 1)
<1>1. /\ tick[e] = "probed"
      /\ SendData(e, RingNow(e), pdu, rc)
      /\ slot_number' = slot_number
  BY DEF Send, Granted
<1>2. /\ RingNow(e) \in [Index -> RingElem(e)]
      /\ \A i \in Index : RingNow(e)[i].acknowledged \/ RingNow(e)[i] = tx_ring[e][i]
      /\ \A i \in Index : RingNow(e)[i].sent_index = tx_ring[e][i].sent_index
  BY NowFacts
<1>3. /\ sn_counter'[e] = increment_sn(n)
      /\ \A i \in Index : tx_ring'[e][i].sent_index = IF i = c THEN s ELSE RingNow(e)[i].sent_index
      /\ \A i \in Index : i # s =>
           /\ tx_ring'[e][i].acknowledged = RingNow(e)[i].acknowledged
           /\ tx_ring'[e][i].pdcp_pdu = RingNow(e)[i].pdcp_pdu
      /\ \A k \in 0..(ArqWindow - 1) :
           sn_ring'[e][k] = IF k = sn_ring_index(n) THEN c ELSE sn_ring[e][k]
      /\ tick'[e] = "wait"
  BY <1>1, <1>2, SendEffect
<1>4. s \in Index
  BY TypeOfEnd
<1>5. c \in Index
  BY <1>4, CheckSlotFacts
<1>6. sn_ring_index(n) \in W
  BY SnIndexType
<1>7. MaxRoundTrip \in Nat /\ MaxRoundTrip < ArqWindow
  BY LimitsAssumption DEF WindowFits
<1> HIDE DEF s, c
<1>8. ASSUME NEW sn \in Sn, NEW age \in Age, age + 0 <= MaxRoundTrip, Tracked(e, sn, age)
      PROVE  /\ Tracked(e, sn, age + 0)'
             /\ \A p \in Nat : Holds(e, SlotOf(e, sn), p)' => Holds(e, SlotOf(e, sn), p)
  <2>1. age \in Nat /\ age < ArqWindow /\ age + 0 = age /\ age <= MaxRoundTrip
    BY <1>8, AgeFacts, LimitsAssumption, WindowAssumption DEF WindowFits
  <2>2. PICK a \in 0..age : SentAgo(e, sn, a)
    BY <1>8 DEF Tracked
  <2>3. sn_ring_index(sn) \in W
    BY SnIndexType
  <2>4. Behind(n, sn) \in 1..SnMod /\ Behind(n, sn) <= a
    BY <1>1, <2>2, BehindFacts DEF SentAgo
  <2>5. a \in 1..(ArqWindow - 1) /\ a \in 0..(ArqWindow - 1) /\ a \in 0..ArqWindow
    BY <2>1, <2>4, WindowAssumption, SnModAssumption
  <2> DEFINE i == Back(s, a)
  <2>6. i \in Index /\ i # s
    BY <1>4, <2>5, BackFacts
  <2>7. CheckSlot(i) \in Index /\ CheckSlot(i) # c
    BY <1>4, <2>6, CheckSlotFacts, CheckSlotInjective DEF c
  <2>8. /\ sn_ring_index(n) # sn_ring_index(sn)
        /\ Behind(sn_counter'[e], sn) = Behind(n, sn) + 1
    <3>1. Behind(n, sn) <= MaxRoundTrip
      BY <1>7, <2>1, <2>4, <2>5, SnModAssumption
    <3>2. sn_ring_index(n) # sn_ring_index(sn) /\ Behind(n, sn) < SnMod
      BY <3>1, OwnEntry
    <3>3. QED
      BY <1>3, <3>2, BehindFacts
  <2>9. sn_ring[e][sn_ring_index(sn)] = CheckSlot(i) /\ tx_ring[e][CheckSlot(i)].sent_index = i
    BY <2>2 DEF SentAgo, s
  <2> HIDE DEF i
  <2>10. sn_ring'[e][sn_ring_index(sn)] = CheckSlot(i) /\ tx_ring'[e][CheckSlot(i)].sent_index = i
    BY <1>2, <1>3, <2>3, <2>7, <2>8, <2>9
  <2>11. SentAgo(e, sn, a)'
    <3>1. Back(slot_number'[e], a) = i
      BY <1>1 DEF i, s
    <3>2. Behind(sn_counter'[e], sn) <= a + 1
      BY <2>4, <2>5, <2>8, WindowAssumption, SnModAssumption
    <3>3. QED
      BY <1>3, <2>10, <3>1, <3>2 DEF SentAgo
  <2>12. Tracked(e, sn, age + 0)'
    BY <2>1, <2>11 DEF Tracked
  <2>13. tx_ring_index(CheckSlot(i)) = CheckSlot(i) /\ tx_ring_index(i) = i
    BY <2>6, <2>7, IndexType
  <2>14. SlotOf(e, sn) = i /\ SlotOf(e, sn)' = i
    BY <2>9, <2>10, <2>13 DEF SlotOf, SentSlot
  <2>15. ASSUME NEW p \in Nat, Holds(e, SlotOf(e, sn), p)'
         PROVE  Holds(e, SlotOf(e, sn), p)
    <3>1. ~tx_ring'[e][i].acknowledged /\ tx_ring'[e][i].pdcp_pdu = p
      BY <2>14, <2>15 DEF Holds
    <3>2. ~RingNow(e)[i].acknowledged /\ RingNow(e)[i].pdcp_pdu = p
      BY <1>3, <2>6, <3>1
    <3>3. RingNow(e)[i] = tx_ring[e][i]
      BY <1>2, <2>6, <3>2
    <3>4. QED
      BY <2>14, <3>2, <3>3 DEF Holds
  <2>16. QED
    BY <2>12, <2>15
<1>9. Carried(e, 0)
  BY <1>8 DEF Carried
<1>10. /\ sn_ring'[e][sn_ring_index(n)] = c /\ tx_ring'[e][c].sent_index = s
  BY <1>3, <1>5, <1>6
<1>11. Back(slot_number'[e], 0) = s
  BY <1>1, <1>4, BackFacts, WindowAssumption DEF s
<1>12. Behind(sn_counter'[e], n) = 1
  BY <1>3, BehindFacts
<1>13. SentAgo(e, n, 0)'
  BY <1>3, <1>10, <1>11, <1>12 DEF SentAgo, c
<1>14. Tracked(e, n, 0)'
  BY <1>13 DEF Tracked
<1>15. tx_ring_index(c) = c /\ tx_ring_index(s) = s
  BY <1>4, <1>5, IndexType
<1>16. SlotOf(e, n)' = s
  BY <1>10, <1>15 DEF SlotOf, SentSlot
<1>17. QED
  BY <1>9, <1>14, <1>16 DEF s
-----------------------------------------------------------------------------
(* Ages and PDU counters are numbers. *)
LEMMA AgeNat ==
  ASSUME NEW a \in Age
  PROVE  a \in Nat /\ a = a + 0
BY LimitsAssumption DEF Age

(* next_pdu is a number. *)
LEMMA NextPduNat ==
  ASSUME NEW x \in End, NEW n \in 1..(MaxPdu[x] + 1)
  PROVE  n \in Nat
BY LimitsAssumption

(* The end f keeps what it promises to the PDUs in flight. *)
Steady(f, d) ==
  /\ Carried(f, d)
  /\ is_tx_enabled'[f] = is_tx_enabled[f]
  /\ quiet'[f] <= quiet[f] + d
  /\ next_pdu[f] <= next_pdu'[f]
  /\ received[f] \subseteq received'[f]

(* Data in flight that age by d stay in order. *)
LEMMA DataSteady ==
  ASSUME TypeInv, TypeInv', NEW f \in End, NEW d \in {0, 1}, Steady(f, d),
         NEW m \in DataMsg(f), NEW n \in DataMsg(f), n.sn = m.sn, n.pdu = m.pdu,
         n.age = m.age + d, n.age <= MaxRoundTrip, DataOk(f, m)
  PROVE  DataOk(f, n)'
<1>1. m.sn \in Sn /\ m.age \in Age /\ m.pdu \in Nat /\ n.age \in Age
  BY DEF DataMsg, Pdu
<1>2. m.age \in Nat /\ n.age \in Nat /\ quiet[f] \in Nat /\ quiet'[f] \in Nat
      /\ next_pdu[f] \in Nat /\ next_pdu'[f] \in Nat
  <2>1. quiet[f] \in Age /\ quiet'[f] \in Age
    BY TypeOfEnd, TypeOfEndNext
  <2>2. next_pdu[f] \in 1..(MaxPdu[f] + 1) /\ next_pdu'[f] \in 1..(MaxPdu[f] + 1)
    BY TypeOfEnd, TypeOfEndNext
  <2>3. m.age \in Nat /\ n.age \in Nat /\ quiet[f] \in Nat /\ quiet'[f] \in Nat
    BY <1>1, <2>1, AgeNat
  <2>4. next_pdu[f] \in Nat /\ next_pdu'[f] \in Nat
    BY <2>2, NextPduNat
  <2>5. QED
    BY <2>3, <2>4
<1>3. n.pdu < next_pdu'[f]
  BY <1>1, <1>2 DEF Steady, DataOk
<1>4. ASSUME is_tx_enabled'[f]
      PROVE  /\ Tracked(f, n.sn, n.age)'
             /\ \A p \in Nat : Holds(f, SlotOf(f, n.sn), p)' => p = n.pdu
  <2>1. /\ Tracked(f, m.sn, m.age)
        /\ \A p \in Nat : Holds(f, SlotOf(f, m.sn), p) => p = m.pdu
    BY <1>4 DEF Steady, DataOk
  <2>2. /\ Tracked(f, m.sn, m.age + d)'
        /\ \A p \in Nat : Holds(f, SlotOf(f, m.sn), p)' => Holds(f, SlotOf(f, m.sn), p)
    BY <1>1, <2>1 DEF Steady, Carried
  <2>3. QED
    BY <2>1, <2>2
<1>5. ~is_tx_enabled'[f] => quiet'[f] <= n.age
  BY <1>2 DEF Steady, DataOk
<1>6. QED
  BY <1>3, <1>4, <1>5 DEF DataOk

(* Acknowledgements that age by d stay in order. *)
LEMMA AckSteady ==
  ASSUME TypeInv, TypeInv', NEW f \in End, NEW d \in {0, 1}, Steady(f, d),
         NEW x \in AckElem, NEW y \in AckElem, AckedSns(y) = AckedSns(x),
         NEW a \in Age, NEW b \in Age, b = a + d \/ b > MaxRoundTrip, AckOk(f, x, a)
  PROVE  AckOk(f, y, b)'
<1> SUFFICES ASSUME b <= MaxRoundTrip
             PROVE  /\ is_tx_enabled'[f] =>
                         \A sn \in AckedSns(y) :
                           /\ Tracked(f, sn, b)'
                           /\ \A p \in Nat : Holds(f, SlotOf(f, sn), p)' => p \in received'[f]
                    /\ ~is_tx_enabled'[f] => quiet'[f] <= b
  BY DEF AckOk
<1>1. a \in Nat /\ b \in Nat /\ MaxRoundTrip \in Nat /\ quiet[f] \in Nat /\ quiet'[f] \in Nat
  BY AgeFacts, LimitsAssumption DEF TypeInv, TypeOK
<1>2. b = a + d /\ a <= MaxRoundTrip
  BY <1>1
<1>3. ASSUME is_tx_enabled'[f], NEW sn \in AckedSns(y)
      PROVE  /\ Tracked(f, sn, b)'
             /\ \A p \in Nat : Holds(f, SlotOf(f, sn), p)' => p \in received'[f]
  <2>1. sn \in Sn /\ sn \in AckedSns(x)
    BY AckedSnsType
  <2>2. /\ Tracked(f, sn, a)
        /\ \A p \in Nat : Holds(f, SlotOf(f, sn), p) => p \in received[f]
    BY <1>2, <1>3, <2>1 DEF Steady, AckOk
  <2>3. /\ Tracked(f, sn, a + d)'
        /\ \A p \in Nat : Holds(f, SlotOf(f, sn), p)' => Holds(f, SlotOf(f, sn), p)
    BY <1>2, <2>1, <2>2 DEF Steady, Carried
  <2>4. QED
    BY <1>2, <2>2, <2>3 DEF Steady
<1>4. ~is_tx_enabled'[f] => quiet'[f] <= b
  BY <1>1, <1>2 DEF Steady, AckOk
<1>5. QED
  BY <1>3, <1>4

(* What holds for an age holds for a greater one. *)
LEMMA TrackedOlder ==
  ASSUME NEW e, NEW sn, NEW a \in Nat, NEW b \in Nat, a <= b, Tracked(e, sn, a)
  PROVE  Tracked(e, sn, b)
<1>1. PICK k \in 0..a : SentAgo(e, sn, k)
  BY DEF Tracked
<1>2. k \in 0..b
  OBVIOUS
<1>3. QED
  BY <1>1, <1>2 DEF Tracked

(* An acknowledgement in order is in order as an older one. *)
LEMMA AckOlder ==
  ASSUME TypeInv, NEW e \in End, NEW x, NEW a \in Age, NEW b \in Age, a <= b, AckOk(e, x, a)
  PROVE  AckOk(e, x, b)
<1> SUFFICES ASSUME b <= MaxRoundTrip
             PROVE  /\ is_tx_enabled[e] =>
                         \A sn \in AckedSns(x) :
                           /\ Tracked(e, sn, b)
                           /\ \A p \in Nat : Holds(e, SlotOf(e, sn), p) => p \in received[e]
                    /\ ~is_tx_enabled[e] => quiet[e] <= b
  BY DEF AckOk
<1>1. a \in Nat /\ b \in Nat /\ MaxRoundTrip \in Nat /\ quiet[e] \in Nat
  BY AgeFacts, LimitsAssumption, TypeOfEnd
<1>2. a <= MaxRoundTrip
  BY <1>1
<1>3. QED
  BY <1>1, <1>2, TrackedOlder DEF AckOk
-----------------------------------------------------------------------------
(* An action of e that takes no tick, and the data that e sent. *)
LEMMA OwnWires ==
  ASSUME TypeInv, TypeInv', NEW e \in End, Steady(e, 0), Wires(e),
         to_ack_list'[Peer(e)] = to_ack_list[Peer(e)],
         frame'[Peer(e)] = frame[Peer(e)],
         \A m \in air' : \/ m \in air \cup AckMsg(Peer(e))
                         \/ m \in DataMsg(e) /\ DataOk(e, m)'
  PROVE  Wires(e)'
<1> DEFINE p == Peer(e)
<1>1. p \in End /\ p # e
  BY PeerFacts
<1>2. ASSUME NEW m \in air', m.type = "data", m.to = p
      PROVE  DataOk(e, m)'
  <2>1. m \notin AckMsg(p)
    BY <1>2 DEF AckMsg
  <2>2. CASE m \in air
    <3>1. m \in DataMsg(e) /\ m.age <= MaxRoundTrip /\ m.age \in Age
      BY <1>1, <1>2, <2>2, AirType, PeerFacts
    <3>2. DataOk(e, m)
      BY <1>2, <2>2 DEF Wires, DataTracked
    <3>3. m.age = m.age + 0
      BY <3>1, AgeNat
    <3>4. QED
      BY <3>1, <3>2, <3>3, DataSteady
  <2>3. QED
    BY <2>1, <2>2
<1>3. ASSUME NEW k \in DOMAIN to_ack_list'[p]
      PROVE  AckOk(e, to_ack_list[p][k], to_ack_list[p][k].age)'
  <2> DEFINE x == to_ack_list[p][k]
  <2>1. x \in AckElem /\ k \in DOMAIN to_ack_list[p]
    BY <1>1, <1>3, TypeOfEnd, LenProperties
  <2>2. AckOk(e, x, x.age)
    BY <2>1 DEF Wires, ListTracked
  <2>3. x.age \in Age /\ x.age = x.age + 0
    <3>1. x.age \in Age
      BY <2>1 DEF AckElem
    <3>2. QED
      BY <3>1, AgeNat
  <2>4. (to_ack_list[p][k])' = x
    OBVIOUS
  <2> HIDE DEF x
  <2>5. \A y, a : y = x /\ a = x.age => AckOk(e, y, a)'
    BY <2>1, <2>2, <2>3, AckSteady
  <2>6. QED
    BY <2>4, <2>5
<1>4. ASSUME NEW m \in (air \cup frame[p])', m.type = "ack", m.to = e,
             NEW k \in DOMAIN m.acks
      PROVE  AckOk(e, m.acks[k], m.age)'
  <2>1. m \notin AckMsg(p) /\ m \notin DataMsg(e)
    BY <1>1, <1>4 DEF AckMsg, DataMsg
  <2>2. m \in air \cup frame[p]
    BY <1>4, <2>1
  <2>3. m \in AckMsg(e)
    BY <1>4, <2>2, <1>1, AirType, PeerFacts DEF TypeInv, WireTypes
  <2>4. m.acks[k] \in AckElem /\ m.age \in Age
    BY <1>4, <2>3, LenProperties DEF AckMsg
  <2>5. AckOk(e, m.acks[k], m.age)
    BY <1>4, <2>2 DEF Wires, AcksTracked
  <2>6. m.age = m.age + 0
    BY <2>4, AgeNat
  <2>7. QED
    BY <2>4, <2>5, <2>6, AckSteady
<1>5. QED
  BY <1>2, <1>3, <1>4 DEF Wires, DataTracked, ListTracked, AcksTracked

(* The same for the data of its peer f: e places acknowledgements of them. *)
LEMMA OtherWires ==
  ASSUME TypeInv, TypeInv', NEW f \in End, NEW e \in End, e = Peer(f), Steady(f, 0), Wires(f),
         \A k \in DOMAIN to_ack_list'[e] :
           \E j \in DOMAIN to_ack_list[e] : to_ack_list'[e][k] = to_ack_list[e][j],
         \A m \in frame'[e] : m \in frame[e] \cup AckPdus(e),
         \A m \in air' : \/ m \in air \cup frame[e] \cup AckPdus(e) \cup DataMsg(e)
                         \/ \E n \in air : m = Aged(n, e)
  PROVE  Wires(f)'
<1>1. e # f /\ Peer(e) = f /\ \A x \in End : x = e \/ x = f
  BY PeerFacts
<1>2. \A m \in air' : m \in air \cup frame[e] \cup AckPdus(e) \cup DataMsg(e) \cup AckMsg(e)
  <2> SUFFICES ASSUME NEW n \in air
               PROVE  Aged(n, e) \in air \cup DataMsg(e) \cup AckMsg(e)
    OBVIOUS
  <2>1. PICK x \in End : n \in AckMsg(x) \cup DataMsg(x)
    BY DEF TypeInv, WireTypes
  <2>2. CASE x = e
    BY <2>1, <2>2, AgedAckMsg, AgedDataMsg
  <2>3. CASE x # e
    <3>1. Aged(n, e) = n
      BY <2>1, <2>3, AgedAckMsg, AgedDataMsg
    <3>2. QED
      BY <3>1
  <2>4. QED
    BY <2>2, <2>3
<1>3. \A m \in frame[e] \cup AckPdus(e) : m \in AckMsg(f)
  BY <1>1, AckPdusFacts DEF TypeInv, WireTypes
<1>4. \A m \in AckMsg(f) : m.type = "ack" /\ m.age \in Age /\ m.acks \in Seq(AckElem)
  BY DEF AckMsg
<1>5. ASSUME NEW m \in air', m.type = "data", m.to = e
      PROVE  DataOk(f, m)'
  <2>1. m \notin DataMsg(e) /\ m \notin AckMsg(e)
    BY <1>1, <1>5 DEF AckMsg, DataMsg
  <2>2. m \in air
    BY <1>2, <1>3, <1>4, <1>5, <2>1
  <2>3. m \in DataMsg(f) /\ m.age <= MaxRoundTrip /\ m.age \in Age
    BY <1>1, <1>5, <2>2, AirType
  <2>4. DataOk(f, m)
    BY <1>5, <2>2 DEF Wires, DataTracked
  <2>5. m.age = m.age + 0
    BY <2>3, AgeNat
  <2>6. QED
    BY <2>3, <2>4, <2>5, DataSteady
<1>6. ASSUME NEW k \in DOMAIN to_ack_list'[e]
      PROVE  AckOk(f, to_ack_list[e][k], to_ack_list[e][k].age)'
  <2>1. PICK j \in DOMAIN to_ack_list[e] : to_ack_list'[e][k] = to_ack_list[e][j]
    BY <1>6
  <2> DEFINE x == to_ack_list[e][j]
  <2>2. x \in AckElem
    BY <2>1, TypeOfEnd, LenProperties
  <2>3. AckOk(f, x, x.age)
    BY <2>1 DEF Wires, ListTracked
  <2>4. x.age \in Age /\ x.age = x.age + 0
    <3>1. x.age \in Age
      BY <2>2 DEF AckElem
    <3>2. QED
      BY <3>1, AgeNat
  <2>5. (to_ack_list[e][k])' = x
    BY <2>1
  <2> HIDE DEF x
  <2>6. \A y, a : y = x /\ a = x.age => AckOk(f, y, a)'
    BY <2>2, <2>3, <2>4, AckSteady
  <2>7. QED
    BY <2>5, <2>6
<1>7. ASSUME NEW m \in (air \cup frame[e])', m.type = "ack", m.to = f,
             NEW k \in DOMAIN m.acks
      PROVE  AckOk(f, m.acks[k], m.age)'
  <2>1. m \notin DataMsg(e) /\ m \notin AckMsg(e)
    BY <1>1, <1>7 DEF AckMsg, DataMsg
  <2>2. m \in air \cup frame[e] \cup AckPdus(e)
    BY <1>2, <1>7, <2>1
  <2>3. m \in AckMsg(f)
    BY <1>3, <1>7, <2>2, AirType
  <2>4. m.acks[k] \in AckElem /\ m.age \in Age
    BY <1>7, <2>3, <1>4, LenProperties
  <2>5. AckOk(f, m.acks[k], m.age)
    <3>1. CASE m \in air \cup frame[e]
      BY <1>7, <3>1 DEF Wires, AcksTracked
    <3>2. CASE m \in AckPdus(e)
      <4>1. PICK j \in DOMAIN to_ack_list[e] :
              m.acks[k] = to_ack_list[e][j] /\ to_ack_list[e][j].age <= m.age
        BY <1>7, <3>2, AckPdusFacts
      <4>2. AckOk(f, to_ack_list[e][j], to_ack_list[e][j].age)
        BY <4>1 DEF Wires, ListTracked
      <4>3. to_ack_list[e][j].age \in Age
        BY <2>4, <4>1 DEF AckElem
      <4>4. QED
        BY <2>4, <4>1, <4>2, <4>3, AckOlder
    <3>3. QED
      BY <2>2, <3>1, <3>2
  <2>6. m.age = m.age + 0
    BY <2>4, AgeNat
  <2>7. QED
    BY <2>4, <2>5, <2>6, AckSteady
<1>8. QED
  BY <1>1, <1>5, <1>6, <1>7 DEF Wires, DataTracked, ListTracked, AcksTracked

(* A tick of e: the data of e, and what acknowledges them, are a slot older. *)
LEMMA TickWires ==
  ASSUME TypeInv, TypeInv', NEW e \in End, NEW p \in End, p = Peer(e), Steady(e, 1), Wires(e),
         to_ack_list'[p] = AgedAcks(to_ack_list[p]),
         \A m \in frame'[p] : \E n \in frame[p] : m = Aged(n, e),
         \A m \in air' : /\ m.age <= MaxRoundTrip
                         /\ m \in AckPdus(e) \/ \E n \in air : m = Aged(n, e)
  PROVE  Wires(e)'
<1>1. e # p /\ Peer(p) = e /\ \A x \in End : x = e \/ x = p
  BY PeerFacts
<1>2. \A m \in AckPdus(e) : m.type = "ack" /\ m.to = p
  BY <1>1, AckPdusFacts DEF AckMsg
<1>3. ASSUME NEW m \in air', m.type = "data", m.to = p
      PROVE  DataOk(e, m)'
  <2>1. PICK n \in air : m = Aged(n, e)
    BY <1>2, <1>3
  <2>2. PICK x \in End : n \in AckMsg(x) \cup DataMsg(x)
    BY DEF TypeInv, WireTypes
  <2>3. m \in AckMsg(x) \cup DataMsg(x)
    BY <2>1, <2>2, AgedAckMsg, AgedDataMsg
  <2>4. x = e /\ n \in DataMsg(e)
    BY <1>1, <1>3, <2>1, <2>2, <2>3, AgedAckMsg DEF AckMsg, DataMsg
  <2>5. /\ m \in DataMsg(e) /\ m.sn = n.sn /\ m.pdu = n.pdu
        /\ m.age = Older(n.age)
    BY <2>1, <2>4, AgedDataMsg
  <2>6. n.type = "data" /\ n.to = p /\ n.age \in Age
    BY <2>4 DEF DataMsg
  <2>7. m.age = n.age + 1 /\ m.age <= MaxRoundTrip
    <3>1. n.age <= MaxRoundTrip
      BY DEF TypeInv, WireTypes
    <3>2. QED
      BY <2>5, <2>6, <3>1, AgeFacts
  <2>8. DataOk(e, n)
    BY <2>6 DEF Wires, DataTracked
  <2>9. QED
    BY <2>4, <2>5, <2>7, <2>8, DataSteady
<1>4. \A a \in Age : Older(a) = a + 1 \/ Older(a) > MaxRoundTrip
  BY LimitsAssumption DEF Older, Age
<1>5. ASSUME NEW k \in DOMAIN to_ack_list'[p]
      PROVE  AckOk(e, to_ack_list[p][k], to_ack_list[p][k].age)'
  <2> DEFINE x == to_ack_list[p][k]
  <2>1. to_ack_list[p] \in Seq(AckElem)
    BY TypeOfEnd
  <2>2. k \in DOMAIN to_ack_list[p] /\ to_ack_list'[p][k] = AgedAck(x)
    BY <1>5, <2>1, AgedAcksFacts
  <2>3. x \in AckElem
    BY <2>1, <2>2, LenProperties
  <2>4. AckOk(e, x, x.age)
    BY <2>2 DEF Wires, ListTracked
  <2>5. x.age \in Age
    BY <2>3 DEF AckElem
  <2>6. (to_ack_list[p][k])' = AgedAck(x)
    BY <2>2
  <2> HIDE DEF x
  <2>7. /\ AgedAck(x) \in AckElem /\ AckedSns(AgedAck(x)) = AckedSns(x)
        /\ AgedAck(x).age = Older(x.age) /\ AgedAck(x).age \in Age
    <3>1. /\ AgedAck(x) \in AckElem /\ AckedSns(AgedAck(x)) = AckedSns(x)
          /\ AgedAck(x).age = Older(x.age)
      BY <2>3, AgedAckFacts
    <3>2. QED
      BY <3>1, <2>5, AgeFacts
  <2>8. \A y, a : y = AgedAck(x) /\ a = AgedAck(x).age => AckOk(e, y, a)'
    BY <1>4, <2>3, <2>4, <2>5, <2>7, AckSteady
  <2>9. QED
    BY <2>6, <2>8
<1>6. ASSUME NEW m \in (air \cup frame[p])', m.type = "ack", m.to = e,
             NEW k \in DOMAIN m.acks
      PROVE  AckOk(e, m.acks[k], m.age)'
  <2>1. PICK n \in air \cup frame[p] : m = Aged(n, e)
    BY <1>1, <1>2, <1>6
  <2>2. PICK x \in End : n \in AckMsg(x) \cup DataMsg(x)
    BY <1>1 DEF TypeInv, WireTypes
  <2>3. m \in AckMsg(x) \cup DataMsg(x)
    BY <2>1, <2>2, AgedAckMsg, AgedDataMsg
  <2>4. x = e /\ n \in AckMsg(e)
    BY <1>1, <1>6, <2>1, <2>2, <2>3, AgedDataMsg DEF AckMsg, DataMsg
  <2>5. m.acks = n.acks /\ m.age = Older(n.age)
    BY <2>1, <2>4, AgedAckMsg
  <2>6. n.type = "ack" /\ n.to = e /\ n.age \in Age /\ n.acks \in Seq(AckElem)
    BY <2>4 DEF AckMsg
  <2>7. m.acks[k] \in AckElem /\ m.age \in Age
    BY <1>6, <2>5, <2>6, LenProperties, AgeFacts
  <2>8. AckOk(e, m.acks[k], n.age)
    BY <1>6, <2>1, <2>5, <2>6 DEF Wires, AcksTracked
  <2>9. QED
    BY <1>4, <2>5, <2>6, <2>7, <2>8, AckSteady
<1>7. QED
  BY <1>3, <1>5, <1>6 DEF Wires, DataTracked, ListTracked, AcksTracked

(* An entry that also acknowledges data m of f, which the peer of f now has. *)
LEMMA AckJoin ==
  ASSUME TypeInv, TypeInv', NEW f \in End, Steady(f, 0),
         NEW m \in DataMsg(f), m.age <= MaxRoundTrip, DataOk(f, m), m.pdu \in received'[f],
         NEW y \in AckElem, NEW b \in Age, m.age <= b, NEW S, AckedSns(y) \subseteq S \cup {m.sn},
         \A sn \in S \cap Sn : is_tx_enabled[f] /\ b <= MaxRoundTrip =>
           /\ Tracked(f, sn, b)
           /\ \A p \in Nat : Holds(f, SlotOf(f, sn), p) => p \in received[f]
  PROVE  AckOk(f, y, b)'
<1> SUFFICES ASSUME b <= MaxRoundTrip
             PROVE  /\ is_tx_enabled'[f] =>
                         \A sn \in AckedSns(y) :
                           /\ Tracked(f, sn, b)'
                           /\ \A p \in Nat : Holds(f, SlotOf(f, sn), p)' => p \in received'[f]
                    /\ ~is_tx_enabled'[f] => quiet'[f] <= b
  BY DEF AckOk
<1>1. m.sn \in Sn /\ m.age \in Age
  BY DEF DataMsg
<1>2. m.age \in Nat /\ b \in Nat /\ b + 0 = b /\ quiet[f] \in Nat /\ quiet'[f] \in Nat
  BY <1>1, AgeNat, TypeOfEnd, TypeOfEndNext
<1>3. ASSUME is_tx_enabled'[f], NEW sn \in AckedSns(y)
      PROVE  /\ Tracked(f, sn, b)'
             /\ \A p \in Nat : Holds(f, SlotOf(f, sn), p)' => p \in received'[f]
  <2>1. sn \in Sn /\ (sn \in S \/ sn = m.sn)
    BY AckedSnsType
  <2>2. is_tx_enabled[f]
    BY <1>3 DEF Steady
  <2>3. /\ Tracked(f, sn, b)
        /\ \A p \in Nat : Holds(f, SlotOf(f, sn), p) => p \in received'[f]
    <3>1. CASE sn \in S
      BY <2>1, <2>2, <3>1 DEF Steady
    <3>2. CASE sn = m.sn
      <4>1. Tracked(f, sn, m.age) /\ \A p \in Nat : Holds(f, SlotOf(f, sn), p) => p = m.pdu
        BY <2>2, <3>2 DEF DataOk
      <4>2. Tracked(f, sn, b)
        BY <1>2, <4>1, TrackedOlder
      <4>3. QED
        BY <4>1, <4>2
    <3>3. QED
      BY <2>1, <3>1, <3>2
  <2>4. /\ Tracked(f, sn, b + 0)'
        /\ \A p \in Nat : Holds(f, SlotOf(f, sn), p)' => Holds(f, SlotOf(f, sn), p)
    BY <1>2, <2>1, <2>3 DEF Steady, Carried
  <2>5. QED
    BY <1>2, <2>3, <2>4
<1>4. ~is_tx_enabled'[f] => quiet'[f] <= b
  BY <1>2 DEF Steady, DataOk
<1>5. QED
  BY <1>3, <1>4

(* Data of f arrive at its peer e. *)
LEMMA RxDataWires ==
  ASSUME TypeInv, TypeInv', NEW f \in End, NEW e \in End, e = Peer(f), Steady(f, 0), Wires(f),
         NEW m \in air, m.type = "data", m.to = e, m.pdu \in received'[f],
         to_ack_list'[e] = to_acknowledge(to_ack_list[e], m.sn, m.age),
         frame' = frame, air' \subseteq air
  PROVE  Wires(f)'
<1>1. e # f /\ Peer(e) = f
  BY PeerFacts
<1>2. m \in DataMsg(f) /\ m.age <= MaxRoundTrip /\ m.age \in Age /\ m.sn \in Sn
  <2>1. m \in DataMsg(f) /\ m.age <= MaxRoundTrip /\ m.age \in Age
    BY <1>1, AirType
  <2>2. QED
    BY <2>1 DEF DataMsg
<1>3. DataOk(f, m)
  BY DEF Wires, DataTracked
<1>4. DataTracked(f)'
  <2> SUFFICES ASSUME NEW n \in air', n.type = "data", n.to = e
               PROVE  DataOk(f, n)'
    BY DEF DataTracked
  <2>1. n \in DataMsg(f) /\ n.age <= MaxRoundTrip /\ n.age \in Age
    BY <1>1, AirType
  <2>2. n.age = n.age + 0
    BY <2>1, AgeNat
  <2>3. DataOk(f, n)
    BY DEF Wires, DataTracked
  <2>4. QED
    BY <2>1, <2>2, <2>3, DataSteady
<1>5. AcksTracked(f)'
  <2> SUFFICES ASSUME NEW n \in (air \cup frame[e])', n.type = "ack", n.to = f,
                      NEW k \in DOMAIN n.acks
               PROVE  AckOk(f, n.acks[k], n.age)'
    BY DEF AcksTracked
  <2>1. n \in air \cup frame[e]
    OBVIOUS
  <2>2. n \in AckMsg(f)
    BY <1>1, <2>1, AirType DEF TypeInv, WireTypes
  <2>3. n.acks \in Seq(AckElem) /\ n.age \in Age
    BY <2>2 DEF AckMsg
  <2>4. n.acks[k] \in AckElem /\ n.age = n.age + 0
    BY <2>3, LenProperties, AgeNat
  <2>5. AckOk(f, n.acks[k], n.age)
    BY <2>1 DEF Wires, AcksTracked
  <2>6. QED
    BY <2>3, <2>4, <2>5, AckSteady
<1>6. ListTracked(f)'
  <2> SUFFICES ASSUME NEW k \in DOMAIN to_ack_list'[e]
               PROVE  AckOk(f, to_ack_list[e][k], to_ack_list[e][k].age)'
    BY DEF ListTracked
  <2> DEFINE list == to_ack_list[e]
             y == to_ack_list'[e][k]
  <2>1. list \in Seq(AckElem) /\ to_ack_list'[e] \in Seq(AckElem)
    BY TypeOfEnd, TypeOfEndNext
  <2>2. y \in AckElem
    BY <2>1, LenProperties
  <2>3. y.age \in Age
    BY <2>2 DEF AckElem
  <2>4. \/ k \in DOMAIN list /\ y = list[k]
        \/ m.age <= y.age /\ AckedSns(y) \subseteq {m.sn}
        \/ /\ k \in DOMAIN list
           /\ m.age <= y.age /\ list[k].age <= y.age
           /\ AckedSns(y) \subseteq AckedSns(list[k]) \cup {m.sn}
    BY <1>2, <2>1, ToAcknowledgeFacts
  <2>5. k \in DOMAIN list => /\ list[k] \in AckElem
                             /\ list[k].age \in Age
                             /\ AckOk(f, list[k], list[k].age)
    <3> SUFFICES ASSUME k \in DOMAIN list
                 PROVE  /\ list[k] \in AckElem
                        /\ list[k].age \in Age
                        /\ AckOk(f, list[k], list[k].age)
      OBVIOUS
    <3>1. list[k] \in AckElem
      BY <2>1, LenProperties
    <3>2. QED
      BY <3>1 DEF AckElem, Wires, ListTracked
  <2> DEFINE x == list[k]
  <2> HIDE DEF list, y, x
  <2>6. ASSUME k \in DOMAIN list, y = x
        PROVE  \A z, a : z = y /\ a = y.age => AckOk(f, z, a)'
    <3>1. y.age = y.age + 0
      BY <2>3, AgeNat
    <3>2. QED
      BY <2>2, <2>3, <2>5, <2>6, <3>1, AckSteady DEF x
  <2>7. ASSUME m.age <= y.age, AckedSns(y) \subseteq {m.sn}
        PROVE  \A z, a : z = y /\ a = y.age => AckOk(f, z, a)'
    <3> DEFINE S == {}
    <3>1. AckedSns(y) \subseteq S \cup {m.sn} /\ S \cap Sn = {}
      BY <2>7
    <3> HIDE DEF S
    <3>2. QED
      BY <1>2, <1>3, <2>2, <2>3, <2>7, <3>1, AckJoin
  <2>8. ASSUME k \in DOMAIN list, m.age <= y.age, x.age <= y.age,
               AckedSns(y) \subseteq AckedSns(x) \cup {m.sn}
        PROVE  \A z, a : z = y /\ a = y.age => AckOk(f, z, a)'
    <3>1. AckOk(f, x, y.age)
      BY <2>3, <2>5, <2>8, AckOlder DEF x
    <3>2. \A sn \in AckedSns(x) \cap Sn : is_tx_enabled[f] /\ y.age <= MaxRoundTrip =>
           /\ Tracked(f, sn, y.age)
           /\ \A p \in Nat : Holds(f, SlotOf(f, sn), p) => p \in received[f]
      BY <3>1 DEF AckOk
    <3>3. QED
      BY <1>2, <1>3, <2>2, <2>3, <2>8, <3>2, AckJoin
  <2>9. \A z, a : z = y /\ a = y.age => AckOk(f, z, a)'
    BY <2>4, <2>6, <2>7, <2>8 DEF x
  <2>10. (to_ack_list[e][k])' = y
    BY DEF y
  <2>11. QED
    BY <2>9, <2>10
<1>7. QED
  BY <1>4, <1>5, <1>6 DEF Wires

(* The link of e is disabled: what is under way is no younger than that. *)
LEMMA DisabledWires ==
  ASSUME TypeInv, TypeInv', NEW e \in End, Wires(e), ~is_tx_enabled'[e], quiet'[e] = 0,
         to_ack_list'[Peer(e)] = to_ack_list[Peer(e)],
         UNCHANGED <<frame, air, next_pdu>>
  PROVE  Wires(e)'
<1>1. Peer(e) \in End /\ Peer(Peer(e)) = e
  BY PeerFacts
<1>2. \A a \in Age : 0 <= a
  BY AgeNat
<1>3. DataTracked(e)'
  <2> SUFFICES ASSUME NEW m \in air', m.type = "data", m.to = Peer(e)
               PROVE  DataOk(e, m)'
    BY DEF DataTracked
  <2>1. DataOk(e, m) /\ m.age \in Age
    BY <1>1, AirType DEF Wires, DataTracked
  <2>2. QED
    BY <1>2, <2>1 DEF DataOk
<1>4. \A x : \A a \in Age : AckOk(e, x, a)'
  BY <1>2 DEF AckOk
<1>5. AcksTracked(e)'
  <2> SUFFICES ASSUME NEW n \in (air \cup frame[Peer(e)])', n.type = "ack", n.to = e,
                      NEW k \in DOMAIN n.acks
               PROVE  AckOk(e, n.acks[k], n.age)'
    BY DEF AcksTracked
  <2>1. n \in AckMsg(e)
    BY <1>1, AirType DEF TypeInv, WireTypes
  <2>2. n.age \in Age
    BY <2>1 DEF AckMsg
  <2>3. QED
    BY <1>4, <2>2
<1>6. ListTracked(e)'
  <2> SUFFICES ASSUME NEW k \in DOMAIN to_ack_list'[Peer(e)]
               PROVE  AckOk(e, to_ack_list[Peer(e)][k], to_ack_list[Peer(e)][k].age)'
    BY DEF ListTracked
  <2> DEFINE y == to_ack_list'[Peer(e)][k]
  <2>1. y \in AckElem
    BY <1>1, TypeOfEndNext, LenProperties
  <2>2. y.age \in Age
    BY <2>1 DEF AckElem
  <2>3. (to_ack_list[Peer(e)][k])' = y
    OBVIOUS
  <2> HIDE DEF y
  <2>4. \A z, a : z = y /\ a = y.age => AckOk(e, z, a)'
    BY <1>4, <2>2
  <2>5. QED
    BY <2>3, <2>4
<1>7. QED
  BY <1>3, <1>5, <1>6 DEF Wires

(* It is enabled again after a round trip: nothing is under way any more. *)
LEMMA EnabledWires ==
  ASSUME TypeInv, TypeInv', NEW e \in End, Wires(e), ~is_tx_enabled[e], quiet[e] > MaxRoundTrip,
         to_ack_list'[Peer(e)] = to_ack_list[Peer(e)],
         UNCHANGED <<frame, air, next_pdu>>
  PROVE  Wires(e)'
<1>1. Peer(e) \in End /\ Peer(Peer(e)) = e
  BY PeerFacts
<1>2. quiet[e] \in Nat /\ MaxRoundTrip \in Nat
  BY TypeOfEnd, AgeNat, LimitsAssumption
<1>3. DataTracked(e)'
  <2> SUFFICES ASSUME NEW m \in air', m.type = "data", m.to = Peer(e)
               PROVE  FALSE
    BY DEF DataTracked
  <2>1. DataOk(e, m) /\ m.age \in Age /\ m.age <= MaxRoundTrip
    BY <1>1, AirType DEF Wires, DataTracked
  <2>2. m.age \in Nat
    BY <2>1, AgeNat
  <2>3. QED
    BY <1>2, <2>1, <2>2 DEF DataOk
<1>4. \A x : \A a \in Age : AckOk(e, x, a) => ~(a <= MaxRoundTrip)
  <2> SUFFICES ASSUME NEW x, NEW a \in Age, AckOk(e, x, a), a <= MaxRoundTrip
               PROVE  FALSE
    OBVIOUS
  <2>1. a \in Nat
    BY AgeNat
  <2>2. QED
    BY <1>2, <2>1 DEF AckOk
<1>5. \A x : \A a \in Age : AckOk(e, x, a) => AckOk(e, x, a)'
  BY <1>4 DEF AckOk
<1>6. AcksTracked(e)'
  <2> SUFFICES ASSUME NEW n \in (air \cup frame[Peer(e)])', n.type = "ack", n.to = e,
                      NEW k \in DOMAIN n.acks
               PROVE  AckOk(e, n.acks[k], n.age)'
    BY DEF AcksTracked
  <2>1. n \in AckMsg(e)
    BY <1>1, AirType DEF TypeInv, WireTypes
  <2>2. n.age \in Age
    BY <2>1 DEF AckMsg
  <2>3. AckOk(e, n.acks[k], n.age)
    BY DEF Wires, AcksTracked
  <2>4. QED
    BY <1>5, <2>2, <2>3
<1>7. ListTracked(e)'
  <2> SUFFICES ASSUME NEW k \in DOMAIN to_ack_list'[Peer(e)]
               PROVE  AckOk(e, to_ack_list[Peer(e)][k], to_ack_list[Peer(e)][k].age)'
    BY DEF ListTracked
  <2> DEFINE y == to_ack_list[Peer(e)][k]
  <2>1. y \in AckElem
    BY <1>1, TypeOfEnd, LenProperties
  <2>2. y.age \in Age
    BY <2>1 DEF AckElem
  <2>3. (to_ack_list[Peer(e)][k])' = y
    OBVIOUS
  <2>4. AckOk(e, y, y.age)
    BY DEF Wires, ListTracked
  <2> HIDE DEF y
  <2>5. \A z, a : z = y /\ a = y.age => AckOk(e, z, a)'
    BY <1>5, <2>2, <2>4
  <2>6. QED
    BY <2>3, <2>5
<1>8. QED
  BY <1>3, <1>6, <1>7 DEF Wires
-----------------------------------------------------------------------------
(* What is promised for one end. *)
LinkInv(e) == Wires(e) /\ Idle(e) /\ WillBeChecked(e)

(* A step of its peer leaves the sender of f alone. *)
Untouched(f) ==
  /\ slot_number'[f] = slot_number[f]
  /\ tick'[f] = tick[f]
  /\ is_tx_enabled'[f] = is_tx_enabled[f]
  /\ sn_counter'[f] = sn_counter[f]
  /\ tx_ring'[f] = tx_ring[f]
  /\ sn_ring'[f] = sn_ring[f]
  /\ to_retx_list'[f] = to_retx_list[f]
  /\ quiet'[f] = quiet[f]
  /\ next_pdu'[f] = next_pdu[f]

(* An end that is left alone keeps what it promises. *)
LEMMA UntouchedSteady ==
  ASSUME WindowFits, TypeInv, TypeInv', NEW f \in End, Untouched(f), received[f] \subseteq received'[f]
  PROVE  Steady(f, 0)
<1>1. Carried(f, 0)
  <2>1. /\ slot_number'[f] = slot_number[f]
        /\ tick'[f] = tick[f]
        /\ sn_counter'[f] = sn_counter[f]
        /\ sn_ring'[f] = sn_ring[f]
        /\ tx_ring'[f] = tx_ring[f]
    BY DEF Untouched
  <2>2. QED
    BY <2>1, KeptCarried
<1>2. quiet[f] \in Nat /\ next_pdu[f] \in Nat
  BY TypeOfEnd, AgeNat, NextPduNat
<1>3. QED
  BY <1>1, <1>2 DEF Steady, Untouched

(* An end that is left alone keeps its slots in order. *)
LEMMA UntouchedInv ==
  ASSUME NEW f \in End, Untouched(f), Idle(f), WillBeChecked(f)
  PROVE  Idle(f)' /\ WillBeChecked(f)'
BY DEF Untouched, Idle, WillBeChecked

(* The PDUs that wait in a slot are looked at in time. *)
LEMMA CheckSlotBack ==
  ASSUME NEW s \in Index
  PROVE  CheckSlot(Back(s, ArqWindow)) = s
<1>1. ArqWindow \in 0..ArqWindow
  BY WindowAssumption
<1>2. Back(s, ArqWindow) \in Index
  BY <1>1, BackFacts
<1>3. QED
  BY <1>2, CheckSlotFacts, WindowAssumption DEF Back, Index

(* The slot of a tick in which a PDU may be sent does not hold one. *)
LEMMA CurrentSlotFree ==
  ASSUME TypeInv, NEW e \in End, WillBeChecked(e), tick[e] = "probed"
  PROVE  tx_ring[e][slot_number[e]].acknowledged
<1> SUFFICES ASSUME ~tx_ring[e][slot_number[e]].acknowledged
             PROVE  FALSE
  OBVIOUS
<1>1. slot_number[e] \in Index
  BY TypeOfEnd
<1>2. PICK a \in 1..(ArqWindow - 1) : slot_number[e] = Back(slot_number[e], a)
  BY <1>1 DEF WillBeChecked
<1>3. a \in 0..ArqWindow /\ a # 0
  BY <1>2, WindowAssumption
<1>4. QED
  BY <1>1, <1>2, <1>3, BackFacts

(* Slots that are only released are still checked in time. *)
LEMMA KeptChecked ==
  ASSUME TypeInv, NEW e \in End, WillBeChecked(e),
         slot_number'[e] = slot_number[e],
         tick'[e] = tick[e] \/ tick'[e] = "wait",
         \A i \in Index : tx_ring'[e][i].sent_index = tx_ring[e][i].sent_index,
         \A i \in Index : tx_ring'[e][i].acknowledged \/ tx_ring'[e][i] = tx_ring[e][i]
  PROVE  WillBeChecked(e)'
<1> SUFFICES ASSUME NEW i \in Index, ~tx_ring'[e][i].acknowledged
             PROVE  /\ \E a \in (IF tick'[e] = "wait" THEN 0 ELSE 1)..(ArqWindow - 1) :
                         i = Back(slot_number'[e], a)
                    /\ tx_ring'[e][CheckSlot(i)].sent_index = i
  BY DEF WillBeChecked
<1>1. ~tx_ring[e][i].acknowledged
  OBVIOUS
<1>2. PICK a \in (IF tick[e] = "wait" THEN 0 ELSE 1)..(ArqWindow - 1) : i = Back(slot_number[e], a)
  BY <1>1 DEF WillBeChecked
<1>3. a \in (IF tick'[e] = "wait" THEN 0 ELSE 1)..(ArqWindow - 1)
  BY <1>2, WindowAssumption
<1>4. CheckSlot(i) \in Index
  BY CheckSlotFacts
<1>5. QED
  BY <1>1, <1>2, <1>3, <1>4 DEF WillBeChecked

(* check_retransmit comes to a slot a window after it was used. *)
LEMMA TickChecked ==
  ASSUME TypeInv, NEW e \in End, WillBeChecked(e), tick[e] = "wait",
         NEW t \in Index, t = tx_ring_index(slot_number[e] + 1),
         slot_number'[e] = t, tick'[e] \in {"wait", "probed"},
         tx_ring'[e] = RingAfterCheck(e, t)
  PROVE  WillBeChecked(e)'
<1> SUFFICES ASSUME NEW i \in Index, ~tx_ring'[e][i].acknowledged
             PROVE  /\ \E a \in (IF tick'[e] = "wait" THEN 0 ELSE 1)..(ArqWindow - 1) :
                         i = Back(slot_number'[e], a)
                    /\ tx_ring'[e][CheckSlot(i)].sent_index = i
  BY DEF WillBeChecked
<1>1. /\ tx_ring'[e][SentSlot(tx_ring[e], t)].acknowledged
      /\ \A j \in Index :
           /\ tx_ring'[e][j].sent_index = tx_ring[e][j].sent_index
           /\ j # SentSlot(tx_ring[e], t) => tx_ring'[e][j] = tx_ring[e][j]
  <2> DEFINE r == RingAfterCheck(e, t)
  <2>1. /\ r[SentSlot(tx_ring[e], t)].acknowledged
        /\ \A j \in Index : r[j].sent_index = tx_ring[e][j].sent_index
        /\ \A j \in Index : j # SentSlot(tx_ring[e], t) => r[j] = tx_ring[e][j]
    BY CheckFacts, Zenon
  <2>2. tx_ring'[e] = r
    OBVIOUS
  <2> HIDE DEF r
  <2>3. QED
    BY <2>1, <2>2
<1>2. i # SentSlot(tx_ring[e], t) /\ ~tx_ring[e][i].acknowledged
  BY <1>1
<1>3. tx_ring[e][CheckSlot(i)].sent_index = i
  BY <1>2 DEF WillBeChecked
<1>4. PICK a \in 0..(ArqWindow - 1) : i = Back(slot_number[e], a)
  BY <1>2 DEF WillBeChecked
<1>5. slot_number[e] \in Index
  BY TypeOfEnd
<1>6. Back(t, a + 1) = i
  BY <1>4, <1>5, BackTick
<1>7. a + 1 # ArqWindow
  <2> SUFFICES ASSUME a + 1 = ArqWindow PROVE FALSE
    OBVIOUS
  <2>1. CheckSlot(i) = t
    BY <1>6, CheckSlotBack
  <2>2. SentSlot(tx_ring[e], t) = i
    BY <1>3, <2>1, IndexType DEF SentSlot
  <2>3. QED
    BY <1>2, <2>2
<1>8. a + 1 \in 1..(ArqWindow - 1) /\ a + 1 \in 0..(ArqWindow - 1)
  BY <1>4, <1>7, WindowAssumption
<1>9. CheckSlot(i) \in Index
  BY CheckSlotFacts
<1>10. QED
  BY <1>1, <1>3, <1>6, <1>8, <1>9

(* The slot of a PDU that is sent is checked within a window. *)
LEMMA SendChecked ==
  ASSUME TypeInv, NEW e \in End, NEW pdu \in Pdu(e), NEW rc \in Nat, Send(e, pdu, rc),
         WillBeChecked(e)
  PROVE  WillBeChecked(e)'
<1> SUFFICES ASSUME NEW i \in Index, ~tx_ring'[e][i].acknowledged
             PROVE  /\ \E a \in (IF tick'[e] = "wait" THEN 0 ELSE 1)..(ArqWindow - 1) :
                         i = Back(slot_number'[e], a)
                    /\ tx_ring'[e][CheckSlot(i)].sent_index = i
  BY DEF WillBeChecked
<1> DEFINE s == slot_number[e]
           c == CheckSlot(s)
<1>1. /\ tick[e] = "probed"
      /\ SendData(e, RingNow(e), pdu, rc)
      /\ slot_number' = slot_number
  BY DEF Send, Granted
<1>2. /\ RingNow(e) \in [Index -> RingElem(e)]
      /\ \A j \in Index : RingNow(e)[j].acknowledged \/ RingNow(e)[j] = tx_ring[e][j]
      /\ \A j \in Index : RingNow(e)[j].sent_index = tx_ring[e][j].sent_index
  BY NowFacts
<1>3. /\ \A j \in Index : tx_ring'[e][j].sent_index = IF j = c THEN s ELSE RingNow(e)[j].sent_index
      /\ \A j \in Index : j # s => tx_ring'[e][j].acknowledged = RingNow(e)[j].acknowledged
      /\ tick'[e] = "wait"
  BY <1>1, <1>2, SendEffect
<1>4. s \in Index
  BY TypeOfEnd
<1>5. c \in Index /\ CheckSlot(i) \in Index
  BY <1>4, CheckSlotFacts
<1>6. CASE i = s
  <2>1. Back(s, 0) = s /\ 0 \in 0..(ArqWindow - 1)
    BY <1>4, BackFacts, WindowAssumption
  <2>2. QED
    BY <1>1, <1>3, <1>5, <1>6, <2>1
<1>7. CASE i # s
  <2>1. ~tx_ring[e][i].acknowledged
    BY <1>2, <1>3, <1>7
  <2>2. PICK a \in 1..(ArqWindow - 1) : i = Back(s, a)
    BY <1>1, <2>1 DEF WillBeChecked
  <2>3. a \in 0..(ArqWindow - 1)
    BY <2>2, WindowAssumption
  <2>4. tx_ring[e][CheckSlot(i)].sent_index = i
    BY <2>1 DEF WillBeChecked
  <2>5. CheckSlot(i) # c
    BY <1>4, <1>7, CheckSlotInjective
  <2>6. tx_ring'[e][CheckSlot(i)].sent_index = i
    BY <1>2, <1>3, <1>5, <2>4, <2>5
  <2>7. QED
    BY <1>1, <1>3, <2>2, <2>3, <2>6
<1>8. QED
  BY <1>6, <1>7
-----------------------------------------------------------------------------
(* An action of e, at its peer f. *)
LEMMA PeerLink ==
  ASSUME WindowFits, TypeInv, TypeInv', NEW f \in End, NEW e \in End, e = Peer(f), LinkInv(f),
         Untouched(f), received[f] \subseteq received'[f],
         \A k \in DOMAIN to_ack_list'[e] :
           \E j \in DOMAIN to_ack_list[e] : to_ack_list'[e][k] = to_ack_list[e][j],
         \A m \in frame'[e] : m \in frame[e] \cup AckPdus(e),
         \A m \in air' : \/ m \in air \cup frame[e] \cup AckPdus(e) \cup DataMsg(e)
                         \/ \E n \in air : m = Aged(n, e)
  PROVE  LinkInv(f)'
<1>1. Steady(f, 0)
  BY UntouchedSteady
<1>2. Wires(f)'
  BY <1>1, OtherWires DEF LinkInv
<1>3. Idle(f)' /\ WillBeChecked(f)'
  BY UntouchedInv DEF LinkInv
<1>4. QED
  BY <1>2, <1>3 DEF LinkInv

(* The tick. *)
LEMMA ProbeLink ==
  ASSUME WindowFits, TypeInv, TypeInv', NEW e \in End, NEW p \in End, p = Peer(e),
         LinkInv(e), LinkInv(p), OnTxProbe(e)
  PROVE  LinkInv(e)' /\ LinkInv(p)'
<1>1. e # p /\ Peer(p) = e
  BY PeerFacts
<1>2. PICK t \in Index : t = tx_ring_index(slot_number[e] + 1)
  BY TypeOfEnd, IndexType
<1>3. /\ tick[e] = "wait"
      /\ slot_number'[e] = t /\ slot_number'[p] = slot_number[p]
      /\ tick'[p] = tick[p]
      /\ tx_ring'[p] = tx_ring[p]
      /\ to_retx_list'[p] = to_retx_list[p]
      /\ quiet'[p] = quiet[p]
      /\ UNCHANGED <<is_tx_enabled, sn_counter, sn_ring, next_pdu, history>>
  BY <1>2, ProbeEffect
<1>4. /\ to_ack_list'[p] = AgedAcks(to_ack_list[p])
      /\ \A m \in frame'[p] : \E n \in frame[p] : m = Aged(n, e)
      /\ \A m \in frame'[e] : m \in frame[e] \cup AckPdus(e)
      /\ \A m \in air' : /\ m.age <= MaxRoundTrip
                         /\ m \in AckPdus(e) \/ \E n \in air : m = Aged(n, e)
  BY ProbeEffect
<1>5. received' = received
  BY <1>3 DEF history
<1>6. LinkInv(p)'
  <2>1. Untouched(p)
    BY <1>3 DEF Untouched
  <2>2. \A k \in DOMAIN to_ack_list'[e] :
          \E j \in DOMAIN to_ack_list[e] : to_ack_list'[e][k] = to_ack_list[e][j]
    <3>1. to_ack_list'[e] = AcksLeft(e) \/ to_ack_list'[e] = to_ack_list[e]
      BY ProbeEffect
    <3>2. QED
      BY <3>1, AckSplit
  <2>3. QED
    BY <1>1, <1>4, <1>5, <2>1, <2>2, PeerLink
<1>7. CASE is_tx_enabled[e]
  <2>1. tx_ring'[e] = RingAfterCheck(e, t) /\ quiet' = quiet
    BY <1>2, <1>7, ProbeEffect
  <2>2. /\ \A i \in Index : tx_ring'[e][i].sent_index = tx_ring[e][i].sent_index
        /\ \A i \in Index : tx_ring'[e][i].acknowledged \/ tx_ring'[e][i] = tx_ring[e][i]
    <3> DEFINE r == RingAfterCheck(e, t)
    <3>1. /\ r[SentSlot(tx_ring[e], t)].acknowledged
          /\ \A j \in Index : r[j].sent_index = tx_ring[e][j].sent_index
          /\ \A j \in Index : j # SentSlot(tx_ring[e], t) => r[j] = tx_ring[e][j]
      BY CheckFacts, Zenon
    <3> HIDE DEF r
    <3>2. QED
      BY <2>1, <3>1 DEF r
  <2>3. Carried(e, 1)
    BY <1>2, <1>3, <2>2, TickCarried
  <2>4. quiet[e] \in Nat /\ next_pdu[e] \in Nat
    BY TypeOfEnd, AgeNat, NextPduNat
  <2>5. Steady(e, 1)
    BY <1>3, <1>5, <2>1, <2>3, <2>4 DEF Steady
  <2>6. Wires(e)'
    BY <1>4, <2>5, TickWires DEF LinkInv
  <2>7. WillBeChecked(e)'
    <3>1. tick'[e] \in {"wait", "probed"}
      BY TypeOfEndNext
    <3>2. QED
      BY <1>2, <1>3, <2>1, <3>1, TickChecked DEF LinkInv
  <2>8. Idle(e)'
    BY <1>3, <1>7 DEF Idle
  <2>9. QED
    BY <1>6, <2>6, <2>7, <2>8 DEF LinkInv
<1>8. CASE ~is_tx_enabled[e]
  <2>1. tx_ring'[e] = tx_ring[e] /\ to_retx_list'[e] = to_retx_list[e] /\ quiet'[e] = Older(quiet[e])
    BY <1>8, ProbeEffect
  <2>2. Carried(e, 1)
    BY <1>2, <1>3, <2>1, TickCarried
  <2>3. quiet[e] \in Nat /\ next_pdu[e] \in Nat /\ quiet'[e] <= quiet[e] + 1
    <3>1. quiet[e] \in Nat /\ next_pdu[e] \in Nat
      BY TypeOfEnd, AgeNat, NextPduNat
    <3>2. QED
      BY <2>1, <3>1 DEF Older
  <2>4. Steady(e, 1)
    BY <1>3, <1>5, <2>2, <2>3 DEF Steady
  <2>5. Wires(e)'
    BY <1>4, <2>4, TickWires DEF LinkInv
  <2>6. Idle(e)' /\ \A i \in Index : tx_ring'[e][i].acknowledged
    BY <1>3, <1>8, <2>1 DEF LinkInv, Idle
  <2>7. WillBeChecked(e)'
    BY <2>6 DEF WillBeChecked
  <2>8. QED
    BY <1>6, <2>5, <2>6, <2>7 DEF LinkInv
<1>9. QED
  BY <1>7, <1>8

(* A PDU is sent. *)
LEMMA SendLink ==
  ASSUME WindowFits, TypeInv, TypeInv', NEW e \in End, NEW p \in End, p = Peer(e),
         LinkInv(e), LinkInv(p),
         NEW pdu \in Pdu(e), NEW rc \in Nat, Send(e, pdu, rc),
         next_pdu[e] <= next_pdu'[e], pdu < next_pdu'[e], next_pdu'[p] = next_pdu[p],
         to_retx_list'[p] = to_retx_list[p]
  PROVE  LinkInv(e)' /\ LinkInv(p)'
<1>1. e # p /\ Peer(p) = e
  BY PeerFacts
<1>2. PICK n \in Sn : n = sn_counter[e]
  BY TypeOfEnd
<1>3. /\ Granted(e)
      /\ SendData(e, RingNow(e), pdu, rc)
      /\ UNCHANGED <<slot_number, is_tx_enabled, quiet, received>>
  BY DEF Send
<1>4. RingNow(e) \in [Index -> RingElem(e)]
  BY NowFacts
<1> DEFINE d == DataPdu(p, n, pdu)
<1>5. /\ sn_counter'[p] = sn_counter[p]
      /\ tx_ring'[p] = tx_ring[p]
      /\ tx_ring'[e][slot_number[e]].pdcp_pdu = pdu
      /\ sn_ring'[p] = sn_ring[p]
      /\ to_ack_list'[e] = AcksLeft(e) /\ to_ack_list'[p] = to_ack_list[p]
      /\ frame'[e] = {} /\ frame'[p] = frame[p]
      /\ tick'[p] = tick[p]
  BY <1>3, <1>4, SendEffect
<1>6. \A m \in air' : m \in air \cup frame[e] \cup AckPdus(e) \cup {d}
  BY <1>2, <1>3, <1>4, SendEffect
<1>7. /\ d \in DataMsg(e) /\ d.sn = n /\ d.pdu = pdu /\ d.age = 0
  BY AgeFacts DEF DataPdu, DataMsg
<1> HIDE DEF d
<1>8. LinkInv(p)'
  <2>1. Untouched(p)
    BY <1>3, <1>5 DEF Untouched
  <2>2. \A k \in DOMAIN to_ack_list'[e] :
          \E j \in DOMAIN to_ack_list[e] : to_ack_list'[e][k] = to_ack_list[e][j]
    BY <1>5, AckSplit
  <2>3. \A m \in air' : m \in air \cup frame[e] \cup AckPdus(e) \cup DataMsg(e)
    BY <1>6, <1>7
  <2>4. QED
    BY <1>1, <1>3, <1>5, <2>1, <2>2, <2>3, PeerLink
<1>9. /\ Carried(e, 0)
      /\ Tracked(e, n, 0)'
      /\ SlotOf(e, n)' = slot_number[e]
  BY <1>2, SendCarried
<1>10. Steady(e, 0)
  <2>1. quiet[e] \in Nat
    BY TypeOfEnd, AgeNat
  <2>2. QED
    BY <1>3, <1>9, <2>1 DEF Steady
<1>11. DataOk(e, d)'
  <2>1. is_tx_enabled'[e]
    BY <1>3 DEF Granted
  <2>2. \A q \in Nat : Holds(e, SlotOf(e, n), q)' => q = pdu
    BY <1>5, <1>9 DEF Holds
  <2>3. QED
    BY <1>7, <1>9, <2>1, <2>2 DEF DataOk
<1>12. \A m \in frame[e] \cup AckPdus(e) : m \in AckMsg(p)
  BY AckPdusFacts DEF TypeInv, WireTypes
<1>13. Wires(e)'
  <2>1. \A m \in air' : \/ m \in air \cup AckMsg(p)
                        \/ m \in DataMsg(e) /\ DataOk(e, m)'
    BY <1>6, <1>7, <1>11, <1>12
  <2>2. QED
    BY <1>5, <1>10, <2>1, OwnWires DEF LinkInv
<1>14. WillBeChecked(e)'
  BY SendChecked DEF LinkInv
<1>15. Idle(e)'
  BY <1>3 DEF Idle, Granted
<1>16. QED
  BY <1>8, <1>13, <1>14, <1>15 DEF LinkInv

(* on_tx is called and no PDU is sent. *)
LEMMA NoSendLink ==
  ASSUME WindowFits, TypeInv, TypeInv', NEW e \in End, NEW p \in End, p = Peer(e),
         LinkInv(e), LinkInv(p), NoSend(e), to_retx_list'[p] = to_retx_list[p]
  PROVE  LinkInv(e)' /\ LinkInv(p)'
<1>1. e # p /\ Peer(p) = e
  BY PeerFacts
<1>2. /\ tx_ring'[e] = RingNow(e) /\ tx_ring'[p] = tx_ring[p]
      /\ to_ack_list'[e] = AcksLeft(e) /\ to_ack_list'[p] = to_ack_list[p]
      /\ frame'[p] = frame[p]
      /\ \A m \in frame'[e] : m \in frame[e] \cup AckPdus(e)
      /\ tick'[p] = tick[p]
      /\ tick'[e] = tick[e] \/ tick'[e] = "wait"
      /\ UNCHANGED <<slot_number, is_tx_enabled, sn_counter, sn_ring, quiet, next_pdu, received>>
  BY NoSendEffect
<1>3. \A m \in air' : m \in air \cup frame[e] \cup AckPdus(e)
  BY NoSendEffect
<1>4. is_tx_enabled[e]
  BY DEF NoSend, Granted
<1>5. LinkInv(p)'
  <2>1. Untouched(p)
    BY <1>2 DEF Untouched
  <2>2. \A k \in DOMAIN to_ack_list'[e] :
          \E j \in DOMAIN to_ack_list[e] : to_ack_list'[e][k] = to_ack_list[e][j]
    BY <1>2, AckSplit
  <2>3. QED
    BY <1>1, <1>2, <1>3, <2>1, <2>2, PeerLink
<1>6. /\ \A i \in Index : tx_ring'[e][i].sent_index = tx_ring[e][i].sent_index
      /\ \A i \in Index : tx_ring'[e][i].acknowledged \/ tx_ring'[e][i] = tx_ring[e][i]
  BY <1>2, NowFacts
<1>7. Steady(e, 0)
  <2>1. Carried(e, 0)
    BY <1>2, <1>6, KeptCarried
  <2>2. quiet[e] \in Nat /\ next_pdu[e] \in Nat
    BY TypeOfEnd, AgeNat, NextPduNat
  <2>3. QED
    BY <1>2, <2>1, <2>2 DEF Steady
<1>8. \A m \in frame[e] \cup AckPdus(e) : m \in AckMsg(p)
  BY AckPdusFacts DEF TypeInv, WireTypes
<1>9. Wires(e)'
  BY <1>2, <1>3, <1>7, <1>8, OwnWires DEF LinkInv
<1>10. WillBeChecked(e)'
  BY <1>2, <1>6, KeptChecked DEF LinkInv
<1>11. Idle(e)'
  BY <1>2, <1>4 DEF Idle
<1>12. QED
  BY <1>5, <1>9, <1>10, <1>11 DEF LinkInv

(* The tick ends. *)
LEMMA NoRoomLink ==
  ASSUME WindowFits, TypeInv, TypeInv', NEW e \in End, NEW p \in End, p = Peer(e),
         LinkInv(e), LinkInv(p), OnTxNoRoom(e)
  PROVE  LinkInv(e)' /\ LinkInv(p)'
<1>1. e # p /\ Peer(p) = e
  BY PeerFacts
<1>2. /\ frame'[e] = {} /\ frame'[p] = frame[p]
      /\ \A m \in air' : m \in air \cup frame[e]
      /\ tick'[p] = tick[p]
      /\ tick'[e] = "wait"
      /\ UNCHANGED <<slot_number, is_tx_enabled, is_rx_enabled, sn_counter, tx_ring, sn_ring,
                     to_retx_list, to_ack_list, rlf_event, quiet, next_pdu, history>>
  BY NoRoomEffect
<1>3. received' = received
  BY <1>2 DEF history
<1>4. LinkInv(p)'
  <2>1. Untouched(p)
    BY <1>2 DEF Untouched
  <2>2. QED
    BY <1>1, <1>2, <1>3, <2>1, PeerLink
<1>5. Steady(e, 0)
  <2>1. Carried(e, 0)
    BY <1>2, KeptCarried
  <2>2. quiet[e] \in Nat /\ next_pdu[e] \in Nat
    BY TypeOfEnd, AgeNat, NextPduNat
  <2>3. QED
    BY <1>2, <1>3, <2>1, <2>2 DEF Steady
<1>6. \A m \in frame[e] : m \in AckMsg(p)
  BY DEF TypeInv, WireTypes
<1>7. Wires(e)'
  BY <1>2, <1>5, <1>6, OwnWires DEF LinkInv
<1>8. WillBeChecked(e)'
  BY <1>2, KeptChecked DEF LinkInv
<1>9. Idle(e)'
  BY <1>2 DEF Idle, LinkInv
<1>10. QED
  BY <1>4, <1>7, <1>8, <1>9 DEF LinkInv

(* Data of p arrive at e. *)
LEMMA RxDataLink ==
  ASSUME WindowFits, TypeInv, TypeInv', NEW e \in End, NEW p \in End, p = Peer(e),
         LinkInv(e), LinkInv(p), OnRxData(e)
  PROVE  LinkInv(e)' /\ LinkInv(p)'
<1>1. e # p /\ Peer(p) = e
  BY PeerFacts
<1>2. PICK m \in air :
           /\ m.to = e /\ m.type = "data"
           /\ air' = air \ {m}
           /\ \/ to_ack_list' = to_ack_list /\ received' = received
              \/ /\ to_ack_list'[e] = to_acknowledge(to_ack_list[e], m.sn, m.age)
                 /\ to_ack_list'[p] = to_ack_list[p]
                 /\ received'[p] = received[p] \cup {m.pdu} /\ received'[e] = received[e]
           /\ UNCHANGED <<sender, is_rx_enabled, acked, exhausted, flushed, sends>>
  BY RxDataEffect
<1>3. /\ UNCHANGED <<slot_number, tick, frame, is_tx_enabled, sn_counter, tx_ring, sn_ring,
                     to_retx_list, rlf_event, quiet, next_pdu>>
      /\ to_ack_list'[p] = to_ack_list[p]
      /\ received[p] \subseteq received'[p] /\ received'[e] = received[e]
  BY <1>2 DEF sender
<1>4. Untouched(p) /\ Untouched(e)
  BY <1>3 DEF Untouched
<1>5. LinkInv(e)'
  <2>1. Steady(e, 0)
    BY <1>3, <1>4, UntouchedSteady
  <2>2. Wires(e)'
    BY <1>2, <1>3, <2>1, OwnWires DEF LinkInv
  <2>3. QED
    BY <1>4, <2>2, UntouchedInv DEF LinkInv
<1>6. CASE to_ack_list' = to_ack_list
  <2>1. LinkInv(p)'
    BY <1>1, <1>2, <1>3, <1>4, <1>6, PeerLink
  <2>2. QED
    BY <1>5, <2>1
<1>7. CASE to_ack_list'[e] = to_acknowledge(to_ack_list[e], m.sn, m.age) /\ m.pdu \in received'[p]
  <2>1. Steady(p, 0)
    BY <1>3, <1>4, UntouchedSteady
  <2>2. Wires(p)'
    BY <1>1, <1>2, <1>3, <1>7, <2>1, RxDataWires DEF LinkInv
  <2>3. QED
    BY <1>4, <1>5, <2>2, UntouchedInv DEF LinkInv
<1>8. QED
  BY <1>2, <1>6, <1>7

(* Acknowledgements arrive at e. *)
LEMMA RxAckLink ==
  ASSUME WindowFits, TypeInv, TypeInv', NEW e \in End, NEW p \in End, p = Peer(e),
         LinkInv(e), LinkInv(p), OnRxAck(e)
  PROVE  LinkInv(e)' /\ LinkInv(p)'
<1>1. e # p /\ Peer(p) = e
  BY PeerFacts
<1>2. PICK m \in air :
           /\ air' = air \ {m}
           /\ \/ tx_ring' = tx_ring
              \/ /\ tx_ring'[p] = tx_ring[p]
                 /\ \A i \in Index :
                      tx_ring'[e][i] = IF i \in AckedSlots(e, m.acks) THEN Released(tx_ring[e][i])
                                       ELSE tx_ring[e][i]
           /\ UNCHANGED <<slot_number, tick, frame, is_tx_enabled, sn_counter,
                          sn_ring, to_retx_list, to_ack_list, rlf_event, quiet, next_pdu,
                          received>>
  BY RxAckEffect
<1>3. tx_ring'[p] = tx_ring[p]
  BY <1>2
<1>4. LinkInv(p)'
  <2>1. Untouched(p)
    BY <1>2, <1>3 DEF Untouched
  <2>2. QED
    BY <1>1, <1>2, <2>1, PeerLink
<1>5. /\ \A i \in Index : tx_ring'[e][i].sent_index = tx_ring[e][i].sent_index
      /\ \A i \in Index : tx_ring'[e][i].acknowledged \/ tx_ring'[e][i] = tx_ring[e][i]
  <2>1. \A i \in Index : /\ Released(tx_ring[e][i]).acknowledged
                         /\ Released(tx_ring[e][i]).sent_index = tx_ring[e][i].sent_index
    BY TypeOfEnd, ReleasedFacts
  <2>2. QED
    BY <1>2, <2>1
<1>6. Steady(e, 0)
  <2>1. Carried(e, 0)
    BY <1>2, <1>5, KeptCarried
  <2>2. quiet[e] \in Nat /\ next_pdu[e] \in Nat
    BY TypeOfEnd, AgeNat, NextPduNat
  <2>3. QED
    BY <1>2, <2>1, <2>2 DEF Steady
<1>7. Wires(e)'
  BY <1>2, <1>6, OwnWires DEF LinkInv
<1>8. WillBeChecked(e)'
  BY <1>2, <1>5, KeptChecked DEF LinkInv
<1>9. Idle(e)'
  BY <1>2, <1>5 DEF Idle, LinkInv
<1>10. QED
  BY <1>4, <1>7, <1>8, <1>9 DEF LinkInv

(* The link of e is disabled, or enabled again. *)
LEMMA SetTxLink ==
  ASSUME WindowFits, TypeInv, TypeInv', NEW e \in End, NEW p \in End, p = Peer(e),
         LinkInv(e), LinkInv(p), HandleRlf(e) \/ Activate(e)
  PROVE  LinkInv(e)' /\ LinkInv(p)'
<1>1. e # p /\ Peer(p) = e
  BY PeerFacts
<1>2. /\ is_tx_enabled'[p] = is_tx_enabled[p]
      /\ quiet'[p] = quiet[p]
      /\ tx_ring'[e] = [i \in Index |-> IdleSlot] /\ tx_ring'[p] = tx_ring[p]
      /\ to_retx_list'[e] = <<>> /\ to_retx_list'[p] = to_retx_list[p]
      /\ to_ack_list'[e] = <<>> /\ to_ack_list'[p] = to_ack_list[p]
      /\ UNCHANGED <<slot_number, tick, frame, sn_counter, sn_ring, next_pdu, air, received>>
  BY SetTxEffect
<1>3. Flush(e)
  BY SetTxEffect
<1>4. LinkInv(p)'
  <2>1. Untouched(p)
    BY <1>2 DEF Untouched
  <2>2. DOMAIN to_ack_list'[e] = {}
    BY <1>2
  <2>3. QED
    BY <1>1, <1>2, <2>1, <2>2, PeerLink
<1>5. \A i \in Index : tx_ring'[e][i].acknowledged
  BY <1>2, IdleRing
<1>6. Wires(e)'
  <2>1. CASE HandleRlf(e) /\ ~is_tx_enabled'[e] /\ quiet'[e] = 0
    BY <1>2, <2>1, DisabledWires DEF LinkInv
  <2>2. CASE Activate(e)
    <3>1. ~is_tx_enabled[e] /\ quiet[e] > MaxRoundTrip
      BY <2>2 DEF Activate
    <3>2. QED
      BY <1>2, <3>1, EnabledWires DEF LinkInv
  <2>3. QED
    BY <1>3, <2>1, <2>2 DEF Flush
<1>7. Idle(e)' /\ WillBeChecked(e)'
  BY <1>2, <1>5 DEF Idle, WillBeChecked
<1>8. QED
  BY <1>4, <1>6, <1>7 DEF LinkInv
-----------------------------------------------------------------------------
(***************************************************************************)
(* The PDUs a sender holds, in a ring and a list of PDUs to retransmit,    *)
(* each with its retry count.                                              *)
(***************************************************************************)
Waiting(ring) == {i \in Index : ~ring[i].acknowledged}
Entry(x) == <<x.pdcp_pdu, x.retry_count>>
Entries(ring, list) ==
  {Entry(ring[i]) : i \in Waiting(ring)} \cup {Entry(list[k]) : k \in 1..Len(list)}
HeldIn(ring, list) ==
  {ring[i].pdcp_pdu : i \in Waiting(ring)} \cup {list[k].pdcp_pdu : k \in 1..Len(list)}

(* No PDU is held twice. *)
Once(ring, list) ==
  /\ \A i, j \in Waiting(ring) : ring[i].pdcp_pdu = ring[j].pdcp_pdu => i = j
  /\ \A k, l \in 1..Len(list) : list[k].pdcp_pdu = list[l].pdcp_pdu => k = l
  /\ \A i \in Waiting(ring), k \in 1..Len(list) : ring[i].pdcp_pdu # list[k].pdcp_pdu

(* The PDUs held are the PDUs of the entries. *)
LEMMA HeldEntries ==
  ASSUME NEW ring, NEW list
  PROVE  HeldIn(ring, list) = {x[1] : x \in Entries(ring, list)}
<1>1. \A y : Entry(y)[1] = y.pdcp_pdu
  BY DEF Entry
<1>2. ASSUME NEW p \in HeldIn(ring, list)
      PROVE  \E x \in Entries(ring, list) : x[1] = p
  <2>1. CASE \E i \in Waiting(ring) : p = ring[i].pdcp_pdu
    BY <1>1, <2>1 DEF Entries
  <2>2. CASE \E k \in 1..Len(list) : p = list[k].pdcp_pdu
    BY <1>1, <2>2 DEF Entries
  <2>3. QED
    BY <2>1, <2>2 DEF HeldIn
<1>3. ASSUME NEW x \in Entries(ring, list)
      PROVE  x[1] \in HeldIn(ring, list)
  BY <1>1 DEF Entries, HeldIn
<1>4. QED
  BY <1>2, <1>3

(* An entry is a pair, and its PDU is held. *)
LEMMA EntryHeld ==
  ASSUME NEW ring, NEW list, NEW x \in Entries(ring, list)
  PROVE  x = <<x[1], x[2]>> /\ x[1] \in HeldIn(ring, list)
BY DEF HeldIn, Entries, Entry

(* In the terms of LLC: what tx_ring and to_retx_list hold. *)
LEMMA HeldFacts ==
  ASSUME NEW e
  PROVE  HeldIn(tx_ring[e], to_retx_list[e]) = Outstanding(e) \cup QueuedForRetx(e)
BY DEF HeldIn, Waiting, Outstanding, QueuedForRetx

(* A PDU goes from its slot to the end of the list. *)
LEMMA MoveFacts ==
  ASSUME NEW ring, NEW list, Len(list) \in Nat, NEW t \in Index, ~ring[t].acknowledged,
         NEW r, r[t].acknowledged, \A j \in Index : j # t => r[j] = ring[j],
         NEW l, Len(l) = Len(list) + 1, \A k \in 1..Len(list) : l[k] = list[k],
         l[Len(list) + 1].pdcp_pdu = ring[t].pdcp_pdu,
         l[Len(list) + 1].retry_count = ring[t].retry_count
  PROVE  /\ Entries(r, l) = Entries(ring, list)
         /\ Once(ring, list) => Once(r, l)
<1> DEFINE n == Len(list)
<1>1. n \in Nat /\ 1..Len(l) = 1..n \cup {n + 1} /\ n + 1 \notin 1..n
  OBVIOUS
<1>2. Waiting(ring) = Waiting(r) \cup {t} /\ t \notin Waiting(r)
  BY DEF Waiting
<1>3. \A i \in Waiting(r) : r[i] = ring[i]
  BY <1>2 DEF Waiting
<1>4. Entry(l[n + 1]) = Entry(ring[t])
  BY DEF Entry
<1>5. Entries(r, l) = Entries(ring, list)
  <2>1. {Entry(ring[i]) : i \in Waiting(ring)} = {Entry(r[i]) : i \in Waiting(r)} \cup {Entry(ring[t])}
    BY <1>2, <1>3
  <2>2. {Entry(l[k]) : k \in 1..Len(l)} = {Entry(list[k]) : k \in 1..n} \cup {Entry(l[n + 1])}
    BY <1>1
  <2>3. QED
    BY <1>4, <2>1, <2>2 DEF Entries
<1>6. ASSUME Once(ring, list)
      PROVE  Once(r, l)
  <2>1. \A i, j \in Waiting(r) : r[i].pdcp_pdu = r[j].pdcp_pdu => i = j
    BY <1>2, <1>3, <1>6 DEF Once
  <2>2. \A k \in 1..n : list[k].pdcp_pdu # ring[t].pdcp_pdu
    BY <1>2, <1>6 DEF Once
  <2>3. \A k, m \in 1..Len(l) : l[k].pdcp_pdu = l[m].pdcp_pdu => k = m
    BY <1>1, <1>6, <2>2 DEF Once
  <2>4. \A i \in Waiting(r), k \in 1..Len(l) : r[i].pdcp_pdu # l[k].pdcp_pdu
    <3>1. \A i \in Waiting(r), k \in 1..n : r[i].pdcp_pdu # l[k].pdcp_pdu
      BY <1>2, <1>3, <1>6 DEF Once
    <3>2. \A i \in Waiting(r) : r[i].pdcp_pdu # l[n + 1].pdcp_pdu
      BY <1>2, <1>3, <1>6 DEF Once
    <3>3. QED
      BY <1>1, <3>1, <3>2
  <2>5. QED
    BY <2>1, <2>3, <2>4 DEF Once
<1>7. QED
  BY <1>5, <1>6

(* check_retransmit lets go of nothing. *)
LEMMA CheckEntries ==
  ASSUME TypeInv, NEW e \in End, NEW slot \in Index,
         NEW r, r = RingAfterCheck(e, slot), NEW l, l = RetxAfterCheck(e, slot)
  PROVE  /\ Entries(r, l) = Entries(tx_ring[e], to_retx_list[e])
         /\ Once(tx_ring[e], to_retx_list[e]) => Once(r, l)
<1> DEFINE t == SentSlot(tx_ring[e], slot)
           list == to_retx_list[e]
<1>1. /\ t \in Index
      /\ r[t].acknowledged
      /\ \A j \in Index : j # t => r[j] = tx_ring[e][j]
  BY CheckFacts, Zenon
<1>2. list \in Seq(RetxElem(e))
  BY TypeOfEnd
<1>3. Len(list) \in Nat
  BY <1>2, LenProperties
<1>4. CASE tx_ring[e][t].acknowledged
  <2>1. l = list
    BY <1>4, RetxFacts
  <2>2. Waiting(r) = Waiting(tx_ring[e]) /\ \A i \in Waiting(r) : r[i] = tx_ring[e][i]
    BY <1>1, <1>4 DEF Waiting
  <2>3. QED
    BY <2>1, <2>2 DEF Entries, Once
<1>5. CASE ~tx_ring[e][t].acknowledged
  <2>1. /\ Len(l) = Len(list) + 1
        /\ \A k \in 1..Len(list) : l[k] = list[k]
        /\ l[Len(list) + 1] = [retry_count |-> tx_ring[e][t].retry_count,
                               pdcp_pdu |-> tx_ring[e][t].pdcp_pdu]
    BY <1>5, RetxFacts
  <2>2. /\ l[Len(list) + 1].pdcp_pdu = tx_ring[e][t].pdcp_pdu
        /\ l[Len(list) + 1].retry_count = tx_ring[e][t].retry_count
    BY <2>1
  <2> HIDE DEF t, list
  <2>3. /\ Entries(r, l) = Entries(tx_ring[e], list)
        /\ Once(tx_ring[e], list) => Once(r, l)
    BY <1>1, <1>3, <1>5, <2>1, <2>2, MoveFacts, SMTT(40)
  <2>4. QED
    BY <2>3 DEF list
<1>6. QED
  BY <1>4, <1>5

(* The first PDU leaves the list. *)
LEMMA TailEntries ==
  ASSUME NEW e \in End, NEW ring, NEW list \in Seq(RetxElem(e)), list # <<>>
  PROVE  /\ Entries(ring, list) = Entries(ring, Tail(list)) \cup {Entry(Head(list))}
         /\ HeldIn(ring, list) = HeldIn(ring, Tail(list)) \cup {Head(list).pdcp_pdu}
         /\ Once(ring, list) => /\ Once(ring, Tail(list))
                                /\ Head(list).pdcp_pdu \notin HeldIn(ring, Tail(list))
<1> DEFINE l == Tail(list)
           h == Head(list)
           n == Len(l)
<1>1. /\ h = list[1] /\ Len(list) \in Nat \ {0} /\ n = Len(list) - 1
      /\ \A k \in 1..n : l[k] = list[k + 1]
  BY RetxHeadTail
<1> HIDE DEF l, h
<1>2. \A k \in 1..n : k + 1 \in 1..Len(list) /\ k + 1 # 1
  BY <1>1
<1>3. \A k \in 1..Len(list) : k = 1 \/ (k - 1 \in 1..n /\ list[k] = l[k - 1])
  BY <1>1
<1>4. 1 \in 1..Len(list)
  BY <1>1
<1>5. /\ {Entry(list[k]) : k \in 1..Len(list)} = {Entry(l[k]) : k \in 1..n} \cup {Entry(h)}
      /\ {list[k].pdcp_pdu : k \in 1..Len(list)} = {l[k].pdcp_pdu : k \in 1..n} \cup {h.pdcp_pdu}
  <2>1. \A k \in 1..Len(list) : list[k] = h \/ \E j \in 1..n : list[k] = l[j]
    BY <1>1, <1>3
  <2>2. \A j \in 1..n : \E k \in 1..Len(list) : l[j] = list[k]
    BY <1>1, <1>2
  <2>3. h = list[1]
    BY <1>1
  <2>4. {Entry(list[k]) : k \in 1..Len(list)} = {Entry(l[k]) : k \in 1..n} \cup {Entry(h)}
    BY <1>4, <2>1, <2>2, <2>3
  <2>5. {list[k].pdcp_pdu : k \in 1..Len(list)} = {l[k].pdcp_pdu : k \in 1..n} \cup {h.pdcp_pdu}
    <3>1. \A k \in 1..Len(list) : list[k].pdcp_pdu \in {l[j].pdcp_pdu : j \in 1..n} \cup {h.pdcp_pdu}
      BY <2>1
    <3>2. h.pdcp_pdu \in {list[k].pdcp_pdu : k \in 1..Len(list)}
      BY <1>4, <2>3
    <3>3. \A j \in 1..n : l[j].pdcp_pdu \in {list[k].pdcp_pdu : k \in 1..Len(list)}
      BY <2>2
    <3>4. QED
      BY <3>1, <3>2, <3>3
  <2>6. QED
    BY <2>4, <2>5
<1>6. /\ Entries(ring, list) = Entries(ring, l) \cup {Entry(h)}
      /\ HeldIn(ring, list) = HeldIn(ring, l) \cup {h.pdcp_pdu}
  BY <1>5 DEF Entries, HeldIn
<1>7. ASSUME Once(ring, list)
      PROVE  Once(ring, l) /\ h.pdcp_pdu \notin HeldIn(ring, l)
  <2>1. \A k, m \in 1..n : l[k].pdcp_pdu = l[m].pdcp_pdu => k = m
    <3> SUFFICES ASSUME NEW k \in 1..n, NEW m \in 1..n, l[k].pdcp_pdu = l[m].pdcp_pdu
                 PROVE  k = m
      OBVIOUS
    <3>1. k + 1 = m + 1
      BY <1>1, <1>2, <1>7 DEF Once
    <3>2. QED
      BY <3>1
  <2>2. \A i \in Waiting(ring), k \in 1..n : ring[i].pdcp_pdu # l[k].pdcp_pdu
    BY <1>1, <1>2, <1>7 DEF Once
  <2>3. \A k \in 1..n : l[k].pdcp_pdu # h.pdcp_pdu
    BY <1>1, <1>2, <1>4, <1>7 DEF Once
  <2>4. \A i \in Waiting(ring) : ring[i].pdcp_pdu # h.pdcp_pdu
    BY <1>1, <1>4, <1>7 DEF Once
  <2>5. Once(ring, l)
    BY <1>7, <2>1, <2>2 DEF Once
  <2>6. h.pdcp_pdu \notin HeldIn(ring, l)
    BY <2>3, <2>4 DEF HeldIn
  <2>7. QED
    BY <2>5, <2>6
<1>8. QED
  BY <1>6, <1>7 DEF l, h

(* A PDU is put into a free slot. *)
LEMMA AddEntry ==
  ASSUME NEW ring, NEW list, NEW s \in Index, ring[s].acknowledged,
         NEW new, NEW pdu, NEW rc,
         ~new[s].acknowledged, new[s].pdcp_pdu = pdu, new[s].retry_count = rc,
         \A i \in Index : i # s => /\ new[i].acknowledged <=> ring[i].acknowledged
                                   /\ new[i].pdcp_pdu = ring[i].pdcp_pdu
                                   /\ new[i].retry_count = ring[i].retry_count
  PROVE  /\ Entries(new, list) = Entries(ring, list) \cup {<<pdu, rc>>}
         /\ HeldIn(new, list) = HeldIn(ring, list) \cup {pdu}
         /\ (Once(ring, list) /\ pdu \notin HeldIn(ring, list)) => Once(new, list)
<1>1. Waiting(new) = Waiting(ring) \cup {s} /\ s \notin Waiting(ring)
  BY DEF Waiting
<1>2. \A i \in Waiting(ring) : /\ Entry(new[i]) = Entry(ring[i])
                               /\ new[i].pdcp_pdu = ring[i].pdcp_pdu
  BY <1>1 DEF Waiting, Entry
<1>3. Entry(new[s]) = <<pdu, rc>>
  BY DEF Entry
<1>4. /\ {Entry(new[i]) : i \in Waiting(new)} = {Entry(ring[i]) : i \in Waiting(ring)} \cup {<<pdu, rc>>}
      /\ {new[i].pdcp_pdu : i \in Waiting(new)} = {ring[i].pdcp_pdu : i \in Waiting(ring)} \cup {pdu}
  BY <1>1, <1>2, <1>3
<1>5. /\ Entries(new, list) = Entries(ring, list) \cup {<<pdu, rc>>}
      /\ HeldIn(new, list) = HeldIn(ring, list) \cup {pdu}
  BY <1>4 DEF Entries, HeldIn
<1>6. ASSUME Once(ring, list), pdu \notin HeldIn(ring, list)
      PROVE  Once(new, list)
  BY <1>1, <1>2, <1>6 DEF Once, HeldIn
<1>7. QED
  BY <1>5, <1>6

(* Slots are released. *)
LEMMA FreeEntries ==
  ASSUME NEW ring, NEW list, NEW new,
         \A i \in Index : new[i].acknowledged \/ new[i] = ring[i]
  PROVE  /\ Entries(new, list) \subseteq Entries(ring, list)
         /\ HeldIn(new, list) \subseteq HeldIn(ring, list)
         /\ \A p \in HeldIn(ring, list) :
              \/ p \in HeldIn(new, list)
              \/ \E i \in Index : /\ ~ring[i].acknowledged /\ ring[i].pdcp_pdu = p
                                  /\ new[i].acknowledged
         /\ Once(ring, list) =>
              /\ Once(new, list)
              /\ \A i \in Index : ~ring[i].acknowledged /\ new[i].acknowledged =>
                                    ring[i].pdcp_pdu \notin HeldIn(new, list)
<1>1. \A i \in Waiting(new) : i \in Waiting(ring) /\ new[i] = ring[i]
  BY DEF Waiting
<1>2. /\ Entries(new, list) \subseteq Entries(ring, list)
      /\ HeldIn(new, list) \subseteq HeldIn(ring, list)
  BY <1>1 DEF Entries, HeldIn
<1>3. ASSUME NEW p \in HeldIn(ring, list)
      PROVE  \/ p \in HeldIn(new, list)
             \/ \E i \in Index : /\ ~ring[i].acknowledged /\ ring[i].pdcp_pdu = p
                                 /\ new[i].acknowledged
  <2>1. CASE \E k \in 1..Len(list) : p = list[k].pdcp_pdu
    BY <2>1 DEF HeldIn
  <2>2. CASE \E i \in Waiting(ring) : p = ring[i].pdcp_pdu
    <3>1. PICK i \in Waiting(ring) : p = ring[i].pdcp_pdu
      BY <2>2
    <3>2. i \in Index /\ ~ring[i].acknowledged
      BY <3>1 DEF Waiting
    <3>3. CASE new[i].acknowledged
      BY <3>1, <3>2, <3>3
    <3>4. CASE ~new[i].acknowledged
      <4>1. i \in Waiting(new) /\ new[i].pdcp_pdu = p
        BY <3>1, <3>2, <3>4 DEF Waiting
      <4>2. QED
        BY <4>1 DEF HeldIn
    <3>5. QED
      BY <3>3, <3>4
  <2>3. QED
    BY <2>1, <2>2 DEF HeldIn
<1>4. ASSUME Once(ring, list)
      PROVE  /\ Once(new, list)
             /\ \A i \in Index : ~ring[i].acknowledged /\ new[i].acknowledged =>
                                    ring[i].pdcp_pdu \notin HeldIn(new, list)
  <2>1. Once(new, list)
    BY <1>1, <1>4 DEF Once
  <2>2. ASSUME NEW i \in Index, ~ring[i].acknowledged, new[i].acknowledged
        PROVE  ring[i].pdcp_pdu \notin HeldIn(new, list)
    <3>1. i \in Waiting(ring) /\ i \notin Waiting(new)
      BY <2>2 DEF Waiting
    <3>2. QED
      BY <1>1, <1>4, <3>1 DEF Once, HeldIn
  <2>3. QED
    BY <2>1, <2>2
<1>5. QED
  BY <1>2, <1>3, <1>4
-----------------------------------------------------------------------------
(* What end e holds; the PDUs it holds were taken from PDCP. *)
Ents(e) == Entries(tx_ring[e], to_retx_list[e])
HeldOf(e) == HeldIn(tx_ring[e], to_retx_list[e])
OnceAt(e) == Once(tx_ring[e], to_retx_list[e])
HeldInv(e) == OnceAt(e) /\ \A p \in HeldOf(e) : p < next_pdu[e]

(***************************************************************************)
(* What a step does to the PDUs that e holds: nothing; a new one is taken; *)
(* one is sent again; one is given up, and perhaps a new one taken in its  *)
(* place; some are released that the peer has; all are flushed.            *)
(***************************************************************************)
Kept(e) ==
  /\ Ents(e)' = Ents(e) /\ HeldOf(e)' = HeldOf(e) /\ OnceAt(e)'
  /\ next_pdu'[e] = next_pdu[e] /\ sends'[e] = sends[e]
  /\ exhausted'[e] = exhausted[e] /\ flushed'[e] = flushed[e] /\ acked'[e] = acked[e]

Taken(e) ==
  /\ next_pdu[e] \in Pdu(e) /\ next_pdu'[e] = next_pdu[e] + 1
  /\ Ents(e)' = Ents(e) \cup {<<next_pdu[e], 0>>}
  /\ HeldOf(e)' = HeldOf(e) \cup {next_pdu[e]} /\ OnceAt(e)'
  /\ sends'[e] = [sends[e] EXCEPT ![next_pdu[e]] = @ + 1]
  /\ exhausted'[e] = exhausted[e] /\ flushed'[e] = flushed[e] /\ acked'[e] = acked[e]

Resent(e, pdu, rc) ==
  /\ <<pdu, rc>> \in Ents(e) /\ rc + 1 <= MaxRetx
  /\ \A x \in Ents(e)' : (x \in Ents(e) /\ x[1] # pdu) \/ x = <<pdu, rc + 1>>
  /\ HeldOf(e)' = HeldOf(e) /\ OnceAt(e)'
  /\ next_pdu'[e] = next_pdu[e]
  /\ sends'[e] = [sends[e] EXCEPT ![pdu] = @ + 1]
  /\ exhausted'[e] = exhausted[e] /\ flushed'[e] = flushed[e] /\ acked'[e] = acked[e]

GivenUp(e, pdu, rc) ==
  /\ <<pdu, rc>> \in Ents(e) /\ rc + 1 > MaxRetx
  /\ Ents(e)' \subseteq Ents(e)
  /\ HeldOf(e)' = HeldOf(e) \ {pdu} /\ OnceAt(e)'
  /\ next_pdu'[e] = next_pdu[e] /\ sends'[e] = sends[e]
  /\ exhausted'[e] = exhausted[e] \cup {pdu} /\ flushed'[e] = flushed[e] /\ acked'[e] = acked[e]

Replaced(e, pdu) ==
  /\ ~AllowRlf[e]
  /\ pdu \in HeldOf(e)
  /\ next_pdu[e] \in Pdu(e) /\ next_pdu'[e] = next_pdu[e] + 1
  /\ HeldOf(e)' = (HeldOf(e) \ {pdu}) \cup {next_pdu[e]} /\ OnceAt(e)'
  /\ \E rc \in Nat : /\ rc + 1 > MaxRetx /\ <<pdu, rc>> \in Ents(e)
                     /\ Ents(e)' \subseteq Ents(e) \cup {<<next_pdu[e], rc + 1>>}
  /\ sends'[e] = [sends[e] EXCEPT ![next_pdu[e]] = @ + 1]
  /\ exhausted'[e] = exhausted[e] \cup {pdu} /\ flushed'[e] = flushed[e] /\ acked'[e] = acked[e]

Freed(e) ==
  /\ Ents(e)' \subseteq Ents(e)
  /\ HeldOf(e)' \subseteq HeldOf(e) /\ OnceAt(e)'
  /\ \A p \in HeldOf(e) : p \in HeldOf(e)' \/ p \in received[e]
  /\ acked'[e] \subseteq acked[e] \cup received[e]
  /\ next_pdu'[e] = next_pdu[e] /\ sends'[e] = sends[e]
  /\ exhausted'[e] = exhausted[e] /\ flushed'[e] = flushed[e]

Flushed(e) ==
  /\ Ents(e)' = {} /\ HeldOf(e)' = {} /\ OnceAt(e)'
  /\ flushed'[e] = flushed[e] \cup HeldOf(e)
  /\ next_pdu'[e] = next_pdu[e] /\ sends'[e] = sends[e]
  /\ exhausted'[e] = exhausted[e] /\ acked'[e] = acked[e]

Shape(e) ==
  \/ Kept(e)
  \/ Taken(e)
  \/ \E pdu \in Pdu(e), rc \in Nat : Resent(e, pdu, rc)
  \/ \E pdu \in Pdu(e), rc \in Nat : GivenUp(e, pdu, rc)
  \/ \E pdu \in Pdu(e) : Replaced(e, pdu)
  \/ Freed(e)
  \/ Flushed(e)

(* A step that leaves the sender of f and its history alone. *)
LEMMA UntouchedKept ==
  ASSUME NEW f \in End, Untouched(f), OnceAt(f),
         sends'[f] = sends[f], exhausted'[f] = exhausted[f], flushed'[f] = flushed[f],
         acked'[f] = acked[f]
  PROVE  Kept(f)
BY DEF Untouched, Kept, Ents, HeldOf, OnceAt

(* Equal entries, equal PDUs. *)
LEMMA SameEntries ==
  ASSUME NEW ring, NEW list, NEW r, NEW l, Entries(r, l) = Entries(ring, list)
  PROVE  HeldIn(r, l) = HeldIn(ring, list)
BY HeldEntries

(* What is held after check_retransmit in the slot of the tick. *)
LEMMA NowEntries ==
  ASSUME TypeInv, NEW e \in End
  PROVE  /\ Entries(RingNow(e), RetxNow(e)) = Ents(e)
         /\ HeldIn(RingNow(e), RetxNow(e)) = HeldOf(e)
         /\ OnceAt(e) => Once(RingNow(e), RetxNow(e))
<1>1. slot_number[e] \in Index
  BY TypeOfEnd
<1>2. RingNow(e) = RingAfterCheck(e, slot_number[e]) /\ RetxNow(e) = RetxAfterCheck(e, slot_number[e])
  BY DEF RingNow, RetxNow
<1>3. /\ Entries(RingNow(e), RetxNow(e)) = Entries(tx_ring[e], to_retx_list[e])
      /\ Once(tx_ring[e], to_retx_list[e]) => Once(RingNow(e), RetxNow(e))
  BY <1>1, <1>2, CheckEntries
<1>4. HeldIn(RingNow(e), RetxNow(e)) = HeldIn(tx_ring[e], to_retx_list[e])
  BY <1>3, SameEntries
<1>5. QED
  BY <1>3, <1>4 DEF Ents, HeldOf, OnceAt

(* The PDU that is sent takes the slot of the tick, which is free. *)
LEMMA SendEntries ==
  ASSUME TypeInv, NEW e \in End, WillBeChecked(e), NEW pdu \in Pdu(e), NEW rc \in Nat,
         Send(e, pdu, rc), NEW list
  PROVE  /\ Entries(tx_ring'[e], list) = Entries(RingNow(e), list) \cup {<<pdu, rc>>}
         /\ HeldIn(tx_ring'[e], list) = HeldIn(RingNow(e), list) \cup {pdu}
         /\ (Once(RingNow(e), list) /\ pdu \notin HeldIn(RingNow(e), list))
               => Once(tx_ring'[e], list)
         /\ sends'[e] = [sends[e] EXCEPT ![pdu] = @ + 1]
         /\ sends'[Peer(e)] = sends[Peer(e)]
         /\ flushed' = flushed /\ acked' = acked /\ received' = received
<1> DEFINE s == slot_number[e]
           ring == RingNow(e)
           new == tx_ring'[e]
<1>1. /\ tick[e] = "probed"
      /\ SendData(e, ring, pdu, rc)
      /\ flushed' = flushed /\ acked' = acked /\ received' = received
  BY DEF Send, Granted
<1>2. s \in Index
  BY TypeOfEnd
<1>3. /\ ring \in [Index -> RingElem(e)]
      /\ \A i \in Index : ring[i].acknowledged \/ ring[i] = tx_ring[e][i]
  BY NowFacts
<1>4. ring[s].acknowledged
  BY <1>1, <1>2, <1>3, CurrentSlotFree
<1>5. /\ ~new[s].acknowledged /\ new[s].pdcp_pdu = pdu /\ new[s].retry_count = rc
      /\ \A i \in Index : i # s =>
           /\ new[i].acknowledged = ring[i].acknowledged
           /\ new[i].pdcp_pdu = ring[i].pdcp_pdu
           /\ new[i].retry_count = ring[i].retry_count
  BY <1>1, <1>3, SendEffect
<1>6. /\ sends'[e] = [sends[e] EXCEPT ![pdu] = @ + 1]
      /\ sends'[Peer(e)] = sends[Peer(e)]
  <2>1. sends' = [sends EXCEPT ![e][pdu] = @ + 1]
    BY <1>1, <1>3, SendEffect
  <2>2. QED
    BY <2>1, PeerFacts DEF TypeInv, Domains
<1> HIDE DEF s, ring, new
<1>7. /\ Entries(new, list) = Entries(ring, list) \cup {<<pdu, rc>>}
      /\ HeldIn(new, list) = HeldIn(ring, list) \cup {pdu}
      /\ (Once(ring, list) /\ pdu \notin HeldIn(ring, list)) => Once(new, list)
  <2>1. /\ ~new[s].acknowledged /\ new[s].pdcp_pdu = pdu /\ new[s].retry_count = rc
    BY <1>5
  <2>2. \A i \in Index : i # s =>
           /\ new[i].acknowledged <=> ring[i].acknowledged
           /\ new[i].pdcp_pdu = ring[i].pdcp_pdu
           /\ new[i].retry_count = ring[i].retry_count
    BY <1>5
  <2>3. QED
    BY <1>2, <1>4, <2>1, <2>2, AddEntry
<1>8. QED
  BY <1>1, <1>6, <1>7 DEF ring, new

(* The head of the list of PDUs to retransmit. *)
LEMMA NowHead ==
  ASSUME TypeInv, NEW e \in End, OnceAt(e), RetxNow(e) # <<>>,
         NEW pdu, pdu = Head(RetxNow(e)).pdcp_pdu, NEW rc, rc = Head(RetxNow(e)).retry_count,
         NEW l, l = Tail(RetxNow(e))
  PROVE  /\ pdu \in Pdu(e) /\ rc \in Nat /\ RetxCount(e) = rc + 1
         /\ Ents(e) = Entries(RingNow(e), l) \cup {<<pdu, rc>>}
         /\ HeldOf(e) = HeldIn(RingNow(e), l) \cup {pdu}
         /\ Once(RingNow(e), l)
         /\ pdu \notin HeldIn(RingNow(e), l)
<1>1. RetxNow(e) \in Seq(RetxElem(e))
  BY NowFacts
<1>2. pdu \in Pdu(e) /\ rc \in Nat
  BY <1>1, RetxHeadTail
<1>3. /\ Entries(RingNow(e), RetxNow(e)) = Entries(RingNow(e), l) \cup {Entry(Head(RetxNow(e)))}
      /\ HeldIn(RingNow(e), RetxNow(e)) = HeldIn(RingNow(e), l) \cup {pdu}
      /\ Once(RingNow(e), RetxNow(e)) => Once(RingNow(e), l) /\ pdu \notin HeldIn(RingNow(e), l)
  BY <1>1, TailEntries
<1>4. Entry(Head(RetxNow(e))) = <<pdu, rc>>
  BY DEF Entry
<1>5. QED
  BY <1>2, <1>3, <1>4, NowEntries DEF RetxCount

(* The PDUs held are PDUs of the end. *)
LEMMA HeldType ==
  ASSUME TypeInv, NEW e \in End
  PROVE  /\ HeldOf(e) \subseteq Pdu(e)
         /\ \A x \in Ents(e) : x[1] \in Pdu(e) /\ x[2] \in Nat /\ x = <<x[1], x[2]>> /\ x[1] \in HeldOf(e)
<1>1. \A i \in Waiting(tx_ring[e]) : tx_ring[e][i].pdcp_pdu \in Pdu(e) /\ tx_ring[e][i].retry_count \in Nat
  BY RingType DEF Waiting
<1>2. \A k \in 1..Len(to_retx_list[e]) : to_retx_list[e][k] \in RetxElem(e)
  BY TypeOfEnd, LenProperties
<1>3. \A k \in 1..Len(to_retx_list[e]) : to_retx_list[e][k].pdcp_pdu \in Pdu(e)
                                         /\ to_retx_list[e][k].retry_count \in Nat
  BY <1>2 DEF RetxElem
<1>4. HeldOf(e) \subseteq Pdu(e)
  BY <1>1, <1>3 DEF HeldOf, HeldIn
<1>5. \A x \in Ents(e) : x[2] \in Nat
  BY <1>1, <1>3 DEF Ents, Entries, Entry
<1>6. \A x \in Ents(e) : x = <<x[1], x[2]>> /\ x[1] \in HeldOf(e)
  BY EntryHeld DEF Ents, HeldOf
<1>7. QED
  BY <1>4, <1>5, <1>6

(* The shape of each action, at the end e that takes it and at its peer p. *)
LEMMA ProbeShape ==
  ASSUME TypeInv, NEW e \in End, NEW p \in End, p = Peer(e), OnceAt(e), OnceAt(p), OnTxProbe(e)
  PROVE  Kept(e) /\ Kept(p)
<1>1. PICK t \in Index : t = tx_ring_index(slot_number[e] + 1)
  BY TypeOfEnd, IndexType
<1>2. /\ slot_number'[p] = slot_number[p]
      /\ tick'[p] = tick[p]
      /\ tx_ring'[p] = tx_ring[p]
      /\ to_retx_list'[p] = to_retx_list[p]
      /\ quiet'[p] = quiet[p]
      /\ UNCHANGED <<is_tx_enabled, sn_counter, sn_ring, next_pdu, history>>
  BY ProbeEffect
<1>3. UNCHANGED <<acked, exhausted, flushed, sends>>
  BY <1>2 DEF history
<1>4. Kept(p)
  <2>1. Untouched(p)
    BY <1>2 DEF Untouched
  <2>2. QED
    BY <1>3, <2>1, UntouchedKept
<1>5. /\ Entries(tx_ring'[e], to_retx_list'[e]) = Ents(e)
      /\ OnceAt(e)'
  <2>1. CASE is_tx_enabled[e]
    <3>1. tx_ring'[e] = RingAfterCheck(e, t) /\ to_retx_list'[e] = RetxAfterCheck(e, t)
      BY <1>1, <2>1, ProbeEffect
    <3>2. /\ Entries(tx_ring'[e], to_retx_list'[e]) = Entries(tx_ring[e], to_retx_list[e])
          /\ Once(tx_ring[e], to_retx_list[e]) => Once(tx_ring'[e], to_retx_list'[e])
      BY <3>1, CheckEntries
    <3>3. QED
      BY <3>2 DEF OnceAt, Ents
  <2>2. CASE ~is_tx_enabled[e]
    BY <2>2, ProbeEffect DEF OnceAt, Ents
  <2>3. QED
    BY <2>1, <2>2
<1>6. HeldIn(tx_ring'[e], to_retx_list'[e]) = HeldOf(e)
  BY <1>5, SameEntries DEF Ents, HeldOf
<1>7. Kept(e)
  BY <1>2, <1>3, <1>5, <1>6 DEF Kept, Ents, HeldOf
<1>8. QED
  BY <1>4, <1>7

(* A call of on_tx, at the peer. *)
LEMMA SendPeer ==
  ASSUME TypeInv, NEW e \in End, NEW p \in End, p = Peer(e), OnceAt(p),
         NEW pdu \in Pdu(e), NEW rc \in Nat, Send(e, pdu, rc),
         to_retx_list'[p] = to_retx_list[p], next_pdu'[p] = next_pdu[p],
         exhausted'[p] = exhausted[p], sends'[p] = sends[p]
  PROVE  Kept(p)
<1>1. /\ SendData(e, RingNow(e), pdu, rc)
      /\ UNCHANGED <<slot_number, is_tx_enabled, quiet, acked, flushed>>
  BY DEF Send
<1>2. RingNow(e) \in [Index -> RingElem(e)]
  BY NowFacts
<1>3. /\ sn_counter'[p] = sn_counter[p]
      /\ tx_ring'[p] = tx_ring[p]
      /\ sn_ring'[p] = sn_ring[p]
      /\ tick'[p] = tick[p]
  BY <1>1, <1>2, SendEffect
<1>4. Untouched(p)
  BY <1>1, <1>3 DEF Untouched
<1>5. QED
  BY <1>1, <1>4, UntouchedKept

(* A call of on_tx that sends nothing, at the peer. *)
LEMMA NoSendPeer ==
  ASSUME TypeInv, NEW e \in End, NEW p \in End, p = Peer(e), OnceAt(p), NoSend(e),
         to_retx_list'[p] = to_retx_list[p], exhausted'[p] = exhausted[p]
  PROVE  Kept(p)
<1>1. /\ tx_ring'[p] = tx_ring[p]
      /\ tick'[p] = tick[p]
      /\ UNCHANGED <<slot_number, is_tx_enabled, sn_counter, sn_ring, quiet, next_pdu,
                     acked, flushed, sends>>
  BY NoSendEffect
<1>2. Untouched(p)
  BY <1>1 DEF Untouched
<1>3. QED
  BY <1>1, <1>2, UntouchedKept

(* A PDU from PDCP is taken. *)
LEMMA NewShape ==
  ASSUME TypeInv, NEW e \in End, NEW p \in End, p = Peer(e), HeldInv(e), OnceAt(p),
         WillBeChecked(e), OnTxNew(e)
  PROVE  Taken(e) /\ Kept(p)
<1> DEFINE n == next_pdu[e]
<1>1. p \in End /\ p # e
  BY PeerFacts
<1>2. /\ Send(e, n, 0)
      /\ n \in Pdu(e)
      /\ RetxNow(e) = <<>>
      /\ next_pdu' = [next_pdu EXCEPT ![e] = @ + 1]
      /\ UNCHANGED <<to_retx_list, exhausted>>
  BY NewIsSend
<1>3. next_pdu'[e] = n + 1 /\ next_pdu'[p] = next_pdu[p]
  BY <1>2, TakeEffect
<1>4. to_retx_list[e] = <<>>
  <2>1. slot_number[e] \in Index /\ to_retx_list[e] \in Seq(RetxElem(e))
    BY TypeOfEnd
  <2>2. \/ RetxNow(e) = to_retx_list[e]
        \/ Len(RetxNow(e)) = Len(to_retx_list[e]) + 1
    BY <2>1, RetxFacts DEF RetxNow
  <2>3. Len(to_retx_list[e]) \in Nat /\ Len(<<>>) = 0
    BY <2>1, LenProperties
  <2>4. QED
    BY <1>2, <2>2, <2>3
<1>5. to_retx_list'[e] = RetxNow(e)
  BY <1>2, <1>4
<1>6. /\ Entries(tx_ring'[e], RetxNow(e)) = Entries(RingNow(e), RetxNow(e)) \cup {<<n, 0>>}
      /\ HeldIn(tx_ring'[e], RetxNow(e)) = HeldIn(RingNow(e), RetxNow(e)) \cup {n}
      /\ (Once(RingNow(e), RetxNow(e)) /\ n \notin HeldIn(RingNow(e), RetxNow(e)))
            => Once(tx_ring'[e], RetxNow(e))
      /\ sends'[e] = [sends[e] EXCEPT ![n] = @ + 1]
      /\ sends'[p] = sends[p]
      /\ flushed' = flushed /\ acked' = acked
  <2> DEFINE l == RetxNow(e)
             zero == 0
  <2>1. n \in Pdu(e) /\ zero \in Nat /\ Send(e, n, zero)
    BY <1>2
  <2> HIDE DEF n, l, zero
  <2>2. /\ Entries(tx_ring'[e], l) = Entries(RingNow(e), l) \cup {<<n, zero>>}
        /\ HeldIn(tx_ring'[e], l) = HeldIn(RingNow(e), l) \cup {n}
        /\ (Once(RingNow(e), l) /\ n \notin HeldIn(RingNow(e), l)) => Once(tx_ring'[e], l)
        /\ sends'[e] = [sends[e] EXCEPT ![n] = @ + 1]
        /\ sends'[p] = sends[p]
        /\ flushed' = flushed /\ acked' = acked
    BY <2>1, SendEntries
  <2>3. QED
    BY <2>2 DEF l, zero
<1>7. n \notin HeldOf(e)
  BY <1>2 DEF HeldInv, Pdu
<1>8. /\ Entries(tx_ring'[e], to_retx_list'[e]) = Ents(e) \cup {<<n, 0>>}
      /\ HeldIn(tx_ring'[e], to_retx_list'[e]) = HeldOf(e) \cup {n}
      /\ Once(tx_ring'[e], to_retx_list'[e])
  BY <1>5, <1>6, <1>7, NowEntries DEF HeldInv
<1>9. Taken(e)
  BY <1>2, <1>3, <1>6, <1>8 DEF Taken, Ents, HeldOf, OnceAt
<1>10. Kept(p)
  BY <1>2, <1>3, <1>6, SendPeer
<1>11. QED
  BY <1>9, <1>10

(* The head of the list is sent again. *)
LEMMA RetxShape ==
  ASSUME TypeInv, NEW e \in End, NEW p \in End, p = Peer(e), OnceAt(e), OnceAt(p),
         WillBeChecked(e), OnTxRetx(e)
  PROVE  /\ \E pdu \in Pdu(e), rc \in Nat : Resent(e, pdu, rc)
         /\ Kept(p)
<1> DEFINE pdu == Head(RetxNow(e)).pdcp_pdu
           rc == Head(RetxNow(e)).retry_count
           l == Tail(RetxNow(e))
<1>1. p \in End /\ p # e
  BY PeerFacts
<1>2. /\ Send(e, pdu, RetxCount(e))
      /\ RetxNow(e) # <<>>
      /\ RetxCount(e) <= MaxRetx
      /\ to_retx_list' = [to_retx_list EXCEPT ![e] = l]
      /\ UNCHANGED <<next_pdu, exhausted>>
  BY RetxIsSend
<1>3. to_retx_list'[e] = l /\ to_retx_list'[p] = to_retx_list[p]
  BY <1>1, <1>2 DEF TypeInv, Domains
<1>4. /\ pdu \in Pdu(e) /\ rc \in Nat /\ RetxCount(e) = rc + 1
      /\ Ents(e) = Entries(RingNow(e), l) \cup {<<pdu, rc>>}
      /\ HeldOf(e) = HeldIn(RingNow(e), l) \cup {pdu}
      /\ Once(RingNow(e), l)
      /\ pdu \notin HeldIn(RingNow(e), l)
  BY <1>2, NowHead
<1> HIDE DEF pdu, rc, l
<1>5. rc + 1 \in Nat /\ Send(e, pdu, rc + 1) /\ rc + 1 <= MaxRetx
  BY <1>2, <1>4
<1>6. /\ Entries(tx_ring'[e], l) = Entries(RingNow(e), l) \cup {<<pdu, rc + 1>>}
      /\ HeldIn(tx_ring'[e], l) = HeldIn(RingNow(e), l) \cup {pdu}
      /\ Once(tx_ring'[e], l)
      /\ sends'[e] = [sends[e] EXCEPT ![pdu] = @ + 1]
      /\ sends'[p] = sends[p]
      /\ flushed' = flushed /\ acked' = acked
  BY <1>4, <1>5, SendEntries
<1>7. \A x \in Entries(RingNow(e), l) : x[1] # pdu
  BY <1>4, EntryHeld
<1>8. Resent(e, pdu, rc)
  <2>1. /\ Ents(e)' = Entries(RingNow(e), l) \cup {<<pdu, rc + 1>>}
        /\ HeldOf(e)' = HeldOf(e)
        /\ OnceAt(e)'
    BY <1>3, <1>4, <1>6 DEF Ents, HeldOf, OnceAt
  <2>2. \A x \in Ents(e)' : (x \in Ents(e) /\ x[1] # pdu) \/ x = <<pdu, rc + 1>>
    BY <1>4, <1>7, <2>1
  <2>3. QED
    BY <1>2, <1>4, <1>5, <1>6, <2>1, <2>2 DEF Resent
<1>9. Kept(p)
  BY <1>2, <1>3, <1>4, <1>5, <1>6, SendPeer
<1>10. QED
  BY <1>4, <1>8, <1>9

(* The PDU at the head of the list is given up. *)
LEMMA NoSendGivesUp ==
  ASSUME TypeInv, NEW e \in End, NEW p \in End, p = Peer(e), OnceAt(e), OnceAt(p),
         NoSend(e), RetxNow(e) # <<>>, RetxCount(e) > MaxRetx,
         exhausted' = [exhausted EXCEPT ![e] = @ \cup {Head(RetxNow(e)).pdcp_pdu}],
         to_retx_list' = [to_retx_list EXCEPT ![e] = Tail(RetxNow(e))]
  PROVE  /\ \E pdu \in Pdu(e), rc \in Nat : GivenUp(e, pdu, rc)
         /\ Kept(p)
<1> DEFINE pdu == Head(RetxNow(e)).pdcp_pdu
           rc == Head(RetxNow(e)).retry_count
           l == Tail(RetxNow(e))
<1>1. p \in End /\ p # e
  BY PeerFacts
<1>2. /\ to_retx_list'[e] = l /\ to_retx_list'[p] = to_retx_list[p]
      /\ exhausted'[e] = exhausted[e] \cup {pdu} /\ exhausted'[p] = exhausted[p]
  BY <1>1 DEF TypeInv, Domains
<1>3. /\ pdu \in Pdu(e) /\ rc \in Nat /\ RetxCount(e) = rc + 1
      /\ Ents(e) = Entries(RingNow(e), l) \cup {<<pdu, rc>>}
      /\ HeldOf(e) = HeldIn(RingNow(e), l) \cup {pdu}
      /\ Once(RingNow(e), l)
      /\ pdu \notin HeldIn(RingNow(e), l)
  BY NowHead
<1> HIDE DEF pdu, rc, l
<1>4. /\ tx_ring'[e] = RingNow(e)
      /\ UNCHANGED <<next_pdu, acked, flushed, sends>>
  BY NoSendEffect
<1>5. /\ Ents(e)' = Entries(RingNow(e), l)
      /\ HeldOf(e)' = HeldIn(RingNow(e), l)
      /\ OnceAt(e)'
  BY <1>2, <1>3, <1>4 DEF Ents, HeldOf, OnceAt
<1>6. GivenUp(e, pdu, rc)
  BY <1>2, <1>3, <1>4, <1>5 DEF GivenUp
<1>7. Kept(p)
  BY <1>2, NoSendPeer
<1>8. QED
  BY <1>3, <1>6, <1>7

(* The head of the list is given up, perhaps for a PDU from PDCP. *)
LEMMA DropShape ==
  ASSUME TypeInv, NEW e \in End, NEW p \in End, p = Peer(e), HeldInv(e), OnceAt(p),
         WillBeChecked(e), OnTxDrop(e)
  PROVE  /\ \/ \E pdu \in Pdu(e), rc \in Nat : GivenUp(e, pdu, rc)
            \/ \E pdu \in Pdu(e) : Replaced(e, pdu)
         /\ Kept(p)
<1> DEFINE pdu == Head(RetxNow(e)).pdcp_pdu
           rc == Head(RetxNow(e)).retry_count
           l == Tail(RetxNow(e))
           n == next_pdu[e]
<1>1. p \in End /\ p # e
  BY PeerFacts
<1>2. /\ RetxNow(e) # <<>>
      /\ RetxCount(e) > MaxRetx
      /\ ~AllowRlf[e]
      /\ exhausted' = [exhausted EXCEPT ![e] = @ \cup {pdu}]
      /\ to_retx_list' = [to_retx_list EXCEPT ![e] = l]
      /\ \/ /\ Send(e, n, RetxCount(e))
            /\ n \in Pdu(e)
            /\ next_pdu' = [next_pdu EXCEPT ![e] = @ + 1]
         \/ NoSend(e)
  BY DropIsSend
<1>3. CASE NoSend(e)
  BY <1>2, <1>3, NoSendGivesUp DEF HeldInv
<1>4. CASE /\ Send(e, n, RetxCount(e))
           /\ n \in Pdu(e)
           /\ next_pdu' = [next_pdu EXCEPT ![e] = @ + 1]
  <2>1. /\ to_retx_list'[e] = l /\ to_retx_list'[p] = to_retx_list[p]
        /\ exhausted'[e] = exhausted[e] \cup {pdu} /\ exhausted'[p] = exhausted[p]
    BY <1>1, <1>2 DEF TypeInv, Domains
  <2>2. /\ pdu \in Pdu(e) /\ rc \in Nat /\ RetxCount(e) = rc + 1
        /\ Ents(e) = Entries(RingNow(e), l) \cup {<<pdu, rc>>}
        /\ HeldOf(e) = HeldIn(RingNow(e), l) \cup {pdu}
        /\ Once(RingNow(e), l)
        /\ pdu \notin HeldIn(RingNow(e), l)
    BY <1>2, NowHead DEF HeldInv
  <2>3. next_pdu'[e] = n + 1 /\ next_pdu'[p] = next_pdu[p]
    BY <1>4, TakeEffect
  <2>4. n \notin HeldOf(e)
    BY <1>4 DEF HeldInv, Pdu
  <2> HIDE DEF pdu, rc, l
  <2>5. RetxCount(e) \in Nat
    BY <2>2
  <2>6. /\ Entries(tx_ring'[e], l) = Entries(RingNow(e), l) \cup {<<n, RetxCount(e)>>}
        /\ HeldIn(tx_ring'[e], l) = HeldIn(RingNow(e), l) \cup {n}
        /\ Once(tx_ring'[e], l)
        /\ sends'[e] = [sends[e] EXCEPT ![n] = @ + 1] /\ sends'[p] = sends[p]
        /\ flushed' = flushed /\ acked' = acked
    <3>1. n \in Pdu(e) /\ Send(e, n, RetxCount(e))
      BY <1>4
    <3>2. n \notin HeldIn(RingNow(e), l)
      BY <2>2, <2>4
    <3> HIDE DEF n
    <3>3. QED
      BY <2>2, <2>5, <3>1, <3>2, SendEntries
  <2>7. HeldOf(e)' = (HeldOf(e) \ {pdu}) \cup {n} /\ OnceAt(e)'
    BY <2>1, <2>2, <2>4, <2>6 DEF HeldOf, OnceAt
  <2>8. Replaced(e, pdu)
    <3>1. /\ rc + 1 > MaxRetx /\ <<pdu, rc>> \in Ents(e)
          /\ Ents(e)' \subseteq Ents(e) \cup {<<n, rc + 1>>}
      BY <1>2, <2>1, <2>2, <2>6 DEF Ents
    <3>2. QED
      BY <1>2, <1>4, <2>1, <2>2, <2>3, <2>6, <2>7, <3>1 DEF Replaced
  <2>9. Kept(p)
    BY <1>4, <2>1, <2>3, <2>5, <2>6, SendPeer
  <2>10. QED
    BY <2>2, <2>8, <2>9
<1>5. QED
  BY <1>2, <1>3, <1>4

(* An allocation that only holds ACKs. *)
LEMMA AcksOnlyShape ==
  ASSUME TypeInv, NEW e \in End, NEW p \in End, p = Peer(e), OnceAt(e), OnceAt(p), OnTxAcksOnly(e)
  PROVE  Kept(e) /\ Kept(p)
<1>1. p \in End /\ p # e
  BY PeerFacts
<1>2. /\ NoSend(e)
      /\ to_retx_list' = [to_retx_list EXCEPT ![e] = RetxNow(e)]
      /\ UNCHANGED <<exhausted, rlf_event>>
  BY AcksOnlyIsNoSend
<1>3. to_retx_list'[e] = RetxNow(e) /\ to_retx_list'[p] = to_retx_list[p]
  BY <1>1, <1>2 DEF TypeInv, Domains
<1>4. tx_ring'[e] = RingNow(e) /\ UNCHANGED <<next_pdu, acked, flushed, sends>>
  BY <1>2, NoSendEffect
<1>5. Ents(e)' = Ents(e) /\ HeldOf(e)' = HeldOf(e) /\ OnceAt(e)'
  BY <1>3, <1>4, NowEntries DEF Ents, HeldOf, OnceAt
<1>6. Kept(e)
  BY <1>2, <1>4, <1>5 DEF Kept
<1>7. QED
  BY <1>2, <1>3, <1>6, NoSendPeer

(* The end of a tick without an allocation. *)
LEMMA NoRoomShape ==
  ASSUME TypeInv, NEW e \in End, NEW p \in End, p = Peer(e), OnceAt(e), OnceAt(p), OnTxNoRoom(e)
  PROVE  Kept(e) /\ Kept(p)
<1>1. UNCHANGED <<tx_ring, to_retx_list, next_pdu, history>>
  BY NoRoomEffect
<1>2. QED
  BY <1>1 DEF Kept, Ents, HeldOf, OnceAt, history

(* Data arrive. *)
LEMMA RxDataShape ==
  ASSUME TypeInv, NEW e \in End, NEW p \in End, p = Peer(e), OnceAt(e), OnceAt(p), OnRxData(e)
  PROVE  Kept(e) /\ Kept(p)
<1>1. UNCHANGED <<sender, acked, exhausted, flushed, sends>>
  BY RxDataEffect
<1>2. QED
  BY <1>1 DEF Kept, Ents, HeldOf, OnceAt, sender

(* An acknowledgement releases PDUs that the peer has. *)
LEMMA RxAckShape ==
  ASSUME WindowFits, TypeInv, NEW e \in End, NEW p \in End, p = Peer(e), OnceAt(e), OnceAt(p),
         LinkInv(e), OnRxAck(e)
  PROVE  Freed(e) /\ Kept(p)
<1>1. p \in End /\ p # e /\ Peer(p) = e
  BY PeerFacts
<1>2. PICK m \in air :
           /\ m.to = e /\ m.type = "ack"
           /\ m.acks \in Seq(AckElem) /\ m.age \in Age /\ m.age <= MaxRoundTrip
           /\ \/ tx_ring' = tx_ring /\ acked' = acked
              \/ /\ tx_ring'[p] = tx_ring[p]
                 /\ \A i \in Index :
                      tx_ring'[e][i] = IF i \in AckedSlots(e, m.acks) THEN Released(tx_ring[e][i])
                                       ELSE tx_ring[e][i]
                 /\ acked'[p] = acked[p]
                 /\ acked'[e] = acked[e] \cup
                      {tx_ring[e][i].pdcp_pdu :
                         i \in {j \in AckedSlots(e, m.acks) : ~tx_ring[e][j].acknowledged}}
           /\ UNCHANGED <<slot_number, tick, is_tx_enabled, sn_counter,
                          sn_ring, to_retx_list, quiet, next_pdu,
                          exhausted, flushed, sends>>
  BY RxAckEffect
<1>3. Kept(p)
  <2>1. Untouched(p) /\ acked'[p] = acked[p]
    BY <1>2 DEF Untouched
  <2>2. QED
    BY <1>2, <2>1, UntouchedKept
<1>4. ASSUME NEW i \in AckedSlots(e, m.acks), ~tx_ring[e][i].acknowledged
      PROVE  tx_ring[e][i].pdcp_pdu \in received[e]
  <2>1. i \in Index
    BY <1>2, AckedSlotsType
  <2>2. PICK k \in DOMAIN m.acks : \E sn \in AckedSns(m.acks[k]) : i = SlotOf(e, sn)
    BY DEF AckedSlots, SlotOf
  <2>3. PICK sn \in AckedSns(m.acks[k]) : i = SlotOf(e, sn)
    BY <2>2
  <2>4. is_tx_enabled[e]
    BY <1>4, <2>1 DEF LinkInv, Idle
  <2>5. AckOk(e, m.acks[k], m.age)
    BY <1>2, <2>2 DEF LinkInv, Wires, AcksTracked
  <2>6. \A q \in Nat : Holds(e, i, q) => q \in received[e]
    BY <1>2, <2>3, <2>4, <2>5 DEF AckOk
  <2>7. tx_ring[e][i].pdcp_pdu \in Nat
    BY <1>4, <2>1, RingType DEF Pdu
  <2>8. QED
    BY <1>4, <2>6, <2>7 DEF Holds
<1>5. \A i \in Index : Released(tx_ring[e][i]).acknowledged
  BY TypeOfEnd, ReleasedFacts
<1>6. /\ \A i \in Index : tx_ring'[e][i].acknowledged \/ tx_ring'[e][i] = tx_ring[e][i]
      /\ \A i \in Index : ~tx_ring[e][i].acknowledged /\ tx_ring'[e][i].acknowledged =>
                            tx_ring[e][i].pdcp_pdu \in received[e]
  BY <1>2, <1>4, <1>5
<1>7. acked'[e] \subseteq acked[e] \cup received[e]
  BY <1>2, <1>4
<1>8. /\ Entries(tx_ring'[e], to_retx_list[e]) \subseteq Ents(e)
      /\ HeldIn(tx_ring'[e], to_retx_list[e]) \subseteq HeldOf(e)
      /\ \A q \in HeldOf(e) :
              \/ q \in HeldIn(tx_ring'[e], to_retx_list[e])
              \/ \E i \in Index : /\ ~tx_ring[e][i].acknowledged /\ tx_ring[e][i].pdcp_pdu = q
                                  /\ tx_ring'[e][i].acknowledged
      /\ Once(tx_ring'[e], to_retx_list[e])
  BY <1>6, FreeEntries DEF Ents, HeldOf, OnceAt
<1>9. to_retx_list'[e] = to_retx_list[e]
  BY <1>2
<1>10. /\ Ents(e)' \subseteq Ents(e)
       /\ HeldOf(e)' \subseteq HeldOf(e)
       /\ OnceAt(e)'
       /\ \A q \in HeldOf(e) : q \in HeldOf(e)' \/ q \in received[e]
  BY <1>6, <1>8, <1>9 DEF Ents, HeldOf, OnceAt
<1>11. Freed(e)
  BY <1>2, <1>7, <1>10 DEF Freed
<1>12. QED
  BY <1>3, <1>11

(* Everything is flushed when the layers are disabled or enabled. *)
LEMMA SetTxShape ==
  ASSUME TypeInv, NEW e \in End, NEW p \in End, p = Peer(e), OnceAt(p), HandleRlf(e) \/ Activate(e)
  PROVE  Flushed(e) /\ Kept(p)
<1>1. /\ is_tx_enabled'[p] = is_tx_enabled[p]
      /\ quiet'[p] = quiet[p]
      /\ tx_ring'[e] = [i \in Index |-> IdleSlot] /\ tx_ring'[p] = tx_ring[p]
      /\ to_retx_list'[e] = <<>> /\ to_retx_list'[p] = to_retx_list[p]
      /\ flushed'[e] = flushed[e] \cup Outstanding(e) \cup QueuedForRetx(e)
      /\ flushed'[p] = flushed[p]
      /\ UNCHANGED <<slot_number, tick, sn_counter, sn_ring, next_pdu, acked, exhausted, sends>>
  BY SetTxEffect
<1>2. Kept(p)
  <2>1. Untouched(p)
    BY <1>1 DEF Untouched
  <2>2. QED
    BY <1>1, <2>1, UntouchedKept
<1>3. \A i \in Index : tx_ring'[e][i].acknowledged
  BY <1>1, IdleRing
<1>4. Waiting(tx_ring'[e]) = {} /\ 1..Len(to_retx_list'[e]) = {}
  BY <1>1, <1>3 DEF Waiting
<1>5. /\ Entries(tx_ring'[e], to_retx_list'[e]) = {}
      /\ HeldIn(tx_ring'[e], to_retx_list'[e]) = {}
      /\ Once(tx_ring'[e], to_retx_list'[e])
  BY <1>4 DEF Entries, HeldIn, Once
<1>6. flushed'[e] = flushed[e] \cup HeldOf(e)
  BY <1>1, HeldFacts DEF HeldOf
<1>7. Flushed(e)
  BY <1>1, <1>5, <1>6 DEF Flushed, Ents, HeldOf, OnceAt
<1>8. QED
  BY <1>2, <1>7
-----------------------------------------------------------------------------
Step(e) ==
  \/ OnTxProbe(e) \/ OnTxNew(e) \/ OnTxRetx(e) \/ OnTxRlf(e) \/ OnTxDrop(e)
  \/ OnTxAcksOnly(e) \/ OnTxNoRoom(e) \/ OnRxData(e) \/ OnRxAck(e)
  \/ HandleRlf(e) \/ Activate(e)

(* Only on_rx with data passes a PDU to PDCP: one that p, its sender, took. *)
Delivers(p) ==
  \E q \in 1..(next_pdu[p] - 1) : received' = [received EXCEPT ![p] = @ \cup {q}]

(* No other action touches received. *)
LEMMA OnlyRxDelivers ==
  ASSUME NEW e \in End, Step(e)
  PROVE  received' = received \/ OnRxData(e)
BY DEF Step, OnTxProbe, OnTxNew, OnTxRetx, OnTxRlf, OnTxDrop, OnTxAcksOnly, OnTxNoRoom, OnRxAck,
       HandleRlf, Activate, history

(* The PDU passed to PDCP was taken by its sender. *)
LEMMA RxDelivers ==
  ASSUME TypeInv, NEW e \in End, NEW p \in End, p = Peer(e), LinkInv(p), OnRxData(e)
  PROVE  received' = received \/ Delivers(p)
<1>1. Peer(p) = e
  BY PeerFacts
<1>2. PICK m \in air :
           /\ m.to = e /\ m.type = "data" /\ m.pdu \in Pdu(p)
           /\ \/ received' = received
              \/ received' = [received EXCEPT ![p] = @ \cup {m.pdu}]
  BY RxDataEffect
<1>3. m.pdu < next_pdu[p]
  BY <1>1, <1>2 DEF LinkInv, Wires, DataTracked, DataOk
<1>4. m.pdu \in 1..(next_pdu[p] - 1)
  <2>1. next_pdu[p] \in Nat
    BY TypeOfEnd, NextPduNat
  <2>2. m.pdu \in Nat /\ 1 <= m.pdu
    BY <1>2 DEF Pdu
  <2>3. QED
    BY <1>3, <2>1, <2>2
<1>5. QED
  BY <1>2, <1>4 DEF Delivers

(* Every step has one of the shapes at its end, and leaves the other alone. *)
LEMMA StepShape ==
  ASSUME WindowFits, TypeInv, NEW e \in End, NEW p \in End, p = Peer(e),
         LinkInv(e), LinkInv(p), HeldInv(e), HeldInv(p), Step(e)
  PROVE  /\ Shape(e) /\ Kept(p)
         /\ received' = received \/ (Kept(e) /\ Delivers(p))
<1>1. OnceAt(e) /\ OnceAt(p) /\ WillBeChecked(e)
  BY DEF HeldInv, LinkInv
<1>2. CASE OnRxData(e)
  BY <1>1, <1>2, RxDataShape, RxDelivers DEF Shape
<1>3. CASE ~OnRxData(e)
  <2>1. received' = received
    BY <1>3, OnlyRxDelivers
  <2> SUFFICES Shape(e) /\ Kept(p)
    BY <2>1
  <2>2. CASE OnTxProbe(e)
    BY <1>1, <2>2, ProbeShape DEF Shape
  <2>3. CASE OnTxNew(e)
    BY <1>1, <2>3, NewShape DEF Shape
  <2>4. CASE OnTxRetx(e)
    BY <1>1, <2>4, RetxShape DEF Shape
  <2>5. CASE OnTxRlf(e)
    BY <1>1, <2>5, RlfIsNoSend, NoSendGivesUp DEF Shape
  <2>6. CASE OnTxDrop(e)
    BY <1>1, <2>6, DropShape DEF Shape
  <2>7. CASE OnTxAcksOnly(e)
    BY <1>1, <2>7, AcksOnlyShape DEF Shape
  <2>8. CASE OnTxNoRoom(e)
    BY <1>1, <2>8, NoRoomShape DEF Shape
  <2>9. CASE OnRxAck(e)
    BY <1>1, <2>9, RxAckShape DEF Shape
  <2>10. CASE HandleRlf(e) \/ Activate(e)
    BY <1>1, <2>10, SetTxShape DEF Shape
  <2>11. QED
    BY <1>3, <2>2, <2>3, <2>4, <2>5, <2>6, <2>7, <2>8, <2>9, <2>10 DEF Step
<1>4. QED
  BY <1>2, <1>3

(* Every step keeps the wires and the rings of both ends in order. *)
LEMMA StepLink ==
  ASSUME WindowFits, TypeInv, TypeInv', NEW e \in End, NEW p \in End, p = Peer(e),
         LinkInv(e), LinkInv(p), HeldInv(e), HeldInv(p), Step(e)
  PROVE  LinkInv(e)' /\ LinkInv(p)'
<1>1. p # e /\ OnceAt(e) /\ next_pdu[e] \in Nat
  BY PeerFacts, TypeOfEnd, NextPduNat DEF HeldInv
<1>2. CASE OnTxProbe(e)
  BY <1>2, ProbeLink
<1>3. CASE OnTxNew(e)
  <2> DEFINE n == next_pdu[e]
             zero == 0
  <2>1. /\ Send(e, n, zero) /\ n \in Pdu(e) /\ zero \in Nat
        /\ to_retx_list'[p] = to_retx_list[p]
    BY <1>3, NewIsSend
  <2>2. next_pdu'[e] = n + 1 /\ next_pdu'[p] = next_pdu[p]
    BY <1>3, NewIsSend, TakeEffect
  <2>3. n <= next_pdu'[e] /\ n < next_pdu'[e]
    BY <1>1, <2>2
  <2>4. next_pdu[e] <= next_pdu'[e]
    BY <2>3
  <2> HIDE DEF n, zero
  <2>5. QED
    BY <2>1, <2>2, <2>3, <2>4, SendLink
<1>4. CASE OnTxRetx(e)
  <2> DEFINE pdu == Head(RetxNow(e)).pdcp_pdu
             old == Head(RetxNow(e)).retry_count
             l == Tail(RetxNow(e))
             rc == RetxCount(e)
  <2>1. Send(e, pdu, rc) /\ RetxNow(e) # <<>>
    BY <1>4, RetxIsSend
  <2>2. to_retx_list'[p] = to_retx_list[p] /\ next_pdu' = next_pdu
    BY <1>1, <1>4, RetxIsSend DEF TypeInv, Domains
  <2>3. pdu \in Pdu(e) /\ rc \in Nat /\ pdu \in HeldOf(e)
    <3>1. /\ pdu \in Pdu(e) /\ old \in Nat /\ RetxCount(e) = old + 1
          /\ HeldOf(e) = HeldIn(RingNow(e), l) \cup {pdu}
      BY <1>1, <2>1, NowHead
    <3> HIDE DEF pdu, old, l
    <3>2. QED
      BY <3>1
  <2> HIDE DEF pdu, rc
  <2>4. pdu < next_pdu'[e] /\ next_pdu[e] <= next_pdu'[e]
    BY <1>1, <2>2, <2>3 DEF HeldInv
  <2>5. QED
    BY <2>1, <2>2, <2>3, <2>4, SendLink
<1>5. CASE OnTxRlf(e)
  <2>1. NoSend(e) /\ to_retx_list'[p] = to_retx_list[p]
    BY <1>1, <1>5, RlfIsNoSend DEF TypeInv, Domains
  <2>2. QED
    BY <2>1, NoSendLink
<1>6. CASE OnTxDrop(e)
  <2> DEFINE n == next_pdu[e]
             rc == RetxCount(e)
  <2>1. RetxNow(e) # <<>> /\ to_retx_list'[p] = to_retx_list[p]
    BY <1>1, <1>6, DropIsSend DEF TypeInv, Domains
  <2>2. CASE NoSend(e)
    BY <2>1, <2>2, NoSendLink
  <2>3. CASE Send(e, n, rc) /\ n \in Pdu(e) /\ next_pdu' = [next_pdu EXCEPT ![e] = @ + 1]
    <3>1. next_pdu'[e] = n + 1 /\ next_pdu'[p] = next_pdu[p]
      BY <2>3, TakeEffect
    <3>2. n < next_pdu'[e] /\ next_pdu[e] <= next_pdu'[e]
      BY <1>1, <3>1
    <3>3. rc \in Nat
      <4> DEFINE pdu == Head(RetxNow(e)).pdcp_pdu
                 old == Head(RetxNow(e)).retry_count
                 l == Tail(RetxNow(e))
      <4>1. old \in Nat /\ RetxCount(e) = old + 1
        BY <1>1, <2>1, NowHead
      <4> HIDE DEF old
      <4>2. QED
        BY <4>1
    <3>4. n \in Pdu(e) /\ Send(e, n, rc)
      BY <2>3
    <3> HIDE DEF n, rc
    <3>5. QED
      BY <2>1, <3>1, <3>2, <3>3, <3>4, SendLink
  <2>4. QED
    BY <1>6, <2>2, <2>3, DropIsSend
<1>7. CASE OnTxAcksOnly(e)
  <2>1. NoSend(e) /\ to_retx_list'[p] = to_retx_list[p]
    BY <1>1, <1>7, AcksOnlyIsNoSend DEF TypeInv, Domains
  <2>2. QED
    BY <2>1, NoSendLink
<1>8. CASE OnTxNoRoom(e)
  BY <1>8, NoRoomLink
<1>9. CASE OnRxData(e)
  BY <1>9, RxDataLink
<1>10. CASE OnRxAck(e)
  BY <1>10, RxAckLink
<1>11. CASE HandleRlf(e) \/ Activate(e)
  BY <1>11, SetTxLink
<1>12. QED
  BY <1>2, <1>3, <1>4, <1>5, <1>6, <1>7, <1>8, <1>9, <1>10, <1>11 DEF Step
-----------------------------------------------------------------------------
(* The PDUs that e took, and that are accounted for. *)
Accounted(e) ==
  \A q \in 1..(next_pdu[e] - 1) : q \in received[e] \cup HeldOf(e) \cup exhausted[e] \cup flushed[e]

(***************************************************************************)
(* The retry count of a PDU that e holds is the number of times it was     *)
(* sent again, or one inherited from a PDU it replaced; a PDU that is      *)
(* exhausted is not held.                                                  *)
(***************************************************************************)
CountOk(e, q, rc) ==
  \/ rc <= MaxRetx /\ sends[e][q] = rc + 1
  \/ rc > MaxRetx /\ InheritedCount(e, q)
EndOk(e, q) == sends[e][q] = MaxRetx + 1 \/ InheritedCount(e, q)
Counted(e) ==
  /\ sends[e] \in [Pdu(e) -> Nat]
  /\ \A x \in Ents(e) : CountOk(e, x[1], x[2])
  /\ \A q \in Pdu(e) : q >= next_pdu[e] => sends[e][q] = 0
  /\ \A q \in Pdu(e) : sends[e][q] <= MaxRetx + 1
  /\ \A q \in exhausted[e] : /\ q \in Pdu(e) /\ q < next_pdu[e] /\ q \notin HeldOf(e)
                             /\ EndOk(e, q)

(* No PDU is held twice, and none before it is taken from PDCP. *)
LEMMA HeldNext ==
  ASSUME TypeInv, NEW e \in End, HeldInv(e), Shape(e)
  PROVE  HeldInv(e)'
<1>1. next_pdu[e] \in Nat
  BY TypeOfEnd, NextPduNat
<1>2. \A q \in HeldOf(e) : q \in Nat /\ q < next_pdu[e]
  BY HeldType DEF HeldInv, Pdu
<1>3. /\ OnceAt(e)'
      /\ \/ next_pdu'[e] = next_pdu[e] /\ HeldOf(e)' \subseteq HeldOf(e)
         \/ next_pdu'[e] = next_pdu[e] + 1 /\ HeldOf(e)' \subseteq HeldOf(e) \cup {next_pdu[e]}
  BY DEF Shape, Kept, Taken, Resent, GivenUp, Replaced, Freed, Flushed
<1>4. \A q \in HeldOf(e)' : q < next_pdu'[e]
  BY <1>1, <1>2, <1>3
<1>5. QED
  BY <1>3, <1>4 DEF HeldInv

(* A PDU that was accounted for stays so. *)
LEMMA AccountedNext ==
  ASSUME TypeInv, NEW e \in End, Shape(e), received[e] \subseteq received'[e], Accounted(e)
  PROVE  Accounted(e)'
<1>1. next_pdu[e] \in Nat
  BY TypeOfEnd, NextPduNat
<1>2. \/ next_pdu'[e] = next_pdu[e]
      \/ next_pdu'[e] = next_pdu[e] + 1 /\ next_pdu[e] \in HeldOf(e)'
  BY DEF Shape, Kept, Taken, Resent, GivenUp, Replaced, Freed, Flushed
<1>3. /\ exhausted[e] \subseteq exhausted'[e] /\ flushed[e] \subseteq flushed'[e]
      /\ \A q \in HeldOf(e) : q \in HeldOf(e)' \cup received[e] \cup exhausted'[e] \cup flushed'[e]
  BY DEF Shape, Kept, Taken, Resent, GivenUp, Replaced, Freed, Flushed
<1>4. ASSUME NEW q \in 1..(next_pdu'[e] - 1)
      PROVE  q \in 1..(next_pdu[e] - 1) \/ q \in HeldOf(e)'
  BY <1>1, <1>2
<1>5. QED
  BY <1>3, <1>4 DEF Accounted

(* An acknowledgement marks only what the peer has. *)
LEMMA AckedNext ==
  ASSUME NEW e \in End, Shape(e), received[e] \subseteq received'[e], acked[e] \subseteq received[e]
  PROVE  acked'[e] \subseteq received'[e]
BY DEF Shape, Kept, Taken, Resent, GivenUp, Replaced, Freed, Flushed

(* Inherited counts stay so while no count of theirs changes. *)
LEMMA InheritedKept ==
  ASSUME NEW e \in End, NEW q \in Pdu(e), exhausted[e] \subseteq exhausted'[e],
         \A x \in exhausted[e] : sends'[e][x] = sends[e][x], sends'[e][q] = sends[e][q]
  PROVE  /\ InheritedCount(e, q) => InheritedCount(e, q)'
         /\ \A rc \in Nat : CountOk(e, q, rc) => CountOk(e, q, rc)'
         /\ EndOk(e, q) => EndOk(e, q)'
BY DEF InheritedCount, CountOk, EndOk

(* The retry counts go on counting the transmissions. *)
LEMMA CountedNext ==
  ASSUME TypeInv, NEW e \in End, HeldInv(e), Shape(e), Counted(e)
  PROVE  Counted(e)'
<1>1. next_pdu[e] \in Nat /\ MaxRetx \in Nat /\ \A q \in Pdu(e) : q \in Nat
  BY TypeOfEnd, NextPduNat, LimitsAssumption DEF Pdu
<1>2. \A x \in Ents(e) : /\ x[1] \in Pdu(e) /\ x[2] \in Nat /\ x[1] \in HeldOf(e)
                         /\ x[1] < next_pdu[e]
  BY HeldType DEF HeldInv
<1>3. /\ sends[e] \in [Pdu(e) -> Nat]
      /\ \A x \in Ents(e) : CountOk(e, x[1], x[2])
      /\ \A q \in Pdu(e) : q >= next_pdu[e] => sends[e][q] = 0
      /\ \A q \in Pdu(e) : sends[e][q] <= MaxRetx + 1
      /\ \A q \in exhausted[e] : /\ q \in Pdu(e) /\ q < next_pdu[e] /\ q \notin HeldOf(e)
                                 /\ EndOk(e, q)
  BY DEF Counted
<1>4. CASE /\ Ents(e)' \subseteq Ents(e) /\ HeldOf(e)' \subseteq HeldOf(e)
           /\ next_pdu'[e] = next_pdu[e] /\ sends'[e] = sends[e] /\ exhausted'[e] = exhausted[e]
  <2>1. \A x \in Ents(e)' : CountOk(e, x[1], x[2])'
    BY <1>2, <1>3, <1>4, InheritedKept
  <2>2. \A q \in exhausted'[e] : EndOk(e, q)'
    BY <1>3, <1>4, InheritedKept
  <2>3. QED
    BY <1>3, <1>4, <2>1, <2>2 DEF Counted
<1>5. CASE Taken(e)
  <2>0. PICK n \in Pdu(e) : n = next_pdu[e]
    BY <1>5 DEF Taken
  <2>1. /\ n \in Pdu(e) /\ next_pdu'[e] = n + 1
        /\ Ents(e)' = Ents(e) \cup {<<n, 0>>}
        /\ HeldOf(e)' = HeldOf(e) \cup {n}
        /\ sends'[e] = [sends[e] EXCEPT ![n] = @ + 1]
        /\ exhausted'[e] = exhausted[e]
    BY <1>5, <2>0 DEF Taken
  <2>2. sends[e][n] = 0 /\ n = next_pdu[e]
    BY <1>1, <1>3, <2>0, <2>1
  <2>3. /\ sends'[e] \in [Pdu(e) -> Nat]
        /\ sends'[e][n] = 1
        /\ \A q \in Pdu(e) : q # n => sends'[e][q] = sends[e][q]
        /\ \A q \in exhausted[e] : q \in Pdu(e) /\ q # n
    BY <1>1, <1>3, <2>1, <2>2
  <2>4. \A x \in Ents(e)' : CountOk(e, x[1], x[2])'
    <3>1. ASSUME NEW x \in Ents(e)
          PROVE  CountOk(e, x[1], x[2])'
      BY <1>1, <1>2, <1>3, <2>1, <2>2, <2>3, InheritedKept
    <3>2. CountOk(e, n, 0)'
      BY <1>1, <2>3 DEF CountOk
    <3>3. QED
      BY <2>1, <3>1, <3>2
  <2>5. \A q \in Pdu(e) : /\ q >= next_pdu'[e] => sends'[e][q] = 0
                          /\ sends'[e][q] <= MaxRetx + 1
    BY <1>1, <1>3, <2>1, <2>2, <2>3
  <2>6. \A q \in exhausted'[e] : /\ q \in Pdu(e) /\ q < next_pdu'[e] /\ q \notin HeldOf(e)'
                                 /\ EndOk(e, q)'
    <3>1. \A q \in exhausted'[e] : EndOk(e, q)'
      BY <1>3, <2>1, <2>3, InheritedKept
    <3>2. QED
      BY <1>1, <1>3, <2>1, <2>2, <2>3, <3>1
  <2>7. QED
    BY <2>3, <2>4, <2>5, <2>6 DEF Counted
<1>6. ASSUME NEW pdu \in Pdu(e), NEW rc \in Nat, Resent(e, pdu, rc)
      PROVE  Counted(e)'
  <2>1. /\ <<pdu, rc>> \in Ents(e) /\ rc + 1 <= MaxRetx
        /\ \A x \in Ents(e)' : (x \in Ents(e) /\ x[1] # pdu) \/ x = <<pdu, rc + 1>>
        /\ HeldOf(e)' = HeldOf(e) /\ next_pdu'[e] = next_pdu[e]
        /\ sends'[e] = [sends[e] EXCEPT ![pdu] = @ + 1]
        /\ exhausted'[e] = exhausted[e]
    BY <1>6 DEF Resent
  <2>2. sends[e][pdu] = rc + 1 /\ pdu \in HeldOf(e) /\ pdu < next_pdu[e]
    <3>1. CountOk(e, pdu, rc) /\ pdu \in HeldOf(e) /\ pdu < next_pdu[e]
      BY <1>2, <1>3, <2>1
    <3>2. QED
      BY <1>1, <2>1, <3>1 DEF CountOk
  <2>3. /\ sends'[e] \in [Pdu(e) -> Nat]
        /\ sends'[e][pdu] = rc + 2
        /\ \A q \in Pdu(e) : q # pdu => sends'[e][q] = sends[e][q]
        /\ \A q \in exhausted[e] : q \in Pdu(e) /\ q # pdu
    BY <1>3, <2>1, <2>2
  <2>4. \A x \in Ents(e)' : CountOk(e, x[1], x[2])'
    <3>1. ASSUME NEW x \in Ents(e), x[1] # pdu
          PROVE  CountOk(e, x[1], x[2])'
      BY <1>2, <1>3, <2>1, <2>3, <3>1, InheritedKept
    <3>2. CountOk(e, pdu, rc + 1)'
      BY <2>1, <2>3 DEF CountOk
    <3>3. QED
      BY <2>1, <3>1, <3>2
  <2>5. \A q \in Pdu(e) : /\ q >= next_pdu'[e] => sends'[e][q] = 0
                          /\ sends'[e][q] <= MaxRetx + 1
    BY <1>1, <1>3, <2>1, <2>2, <2>3
  <2>6. \A q \in exhausted'[e] : /\ q \in Pdu(e) /\ q < next_pdu'[e] /\ q \notin HeldOf(e)'
                                 /\ EndOk(e, q)'
    <3>1. \A q \in exhausted'[e] : EndOk(e, q)'
      BY <1>3, <2>1, <2>3, InheritedKept
    <3>2. QED
      BY <1>3, <2>1, <2>2, <2>3, <3>1
  <2>7. QED
    BY <2>3, <2>4, <2>5, <2>6 DEF Counted
<1>7. ASSUME NEW pdu \in Pdu(e), NEW rc \in Nat, <<pdu, rc>> \in Ents(e), rc + 1 > MaxRetx,
             exhausted'[e] = exhausted[e] \cup {pdu},
             \A q \in exhausted'[e] : sends'[e][q] = sends[e][q]
      PROVE  /\ \A q \in exhausted'[e] : EndOk(e, q)'
             /\ \E q \in exhausted'[e] : q <= pdu /\ sends'[e][q] = MaxRetx + 1
  <2>1. CountOk(e, pdu, rc)
    BY <1>3, <1>7
  <2>2. EndOk(e, pdu)
    BY <1>1, <1>7, <2>1 DEF CountOk, EndOk
  <2>3. \A q \in exhausted'[e] : EndOk(e, q)'
    BY <1>3, <1>7, <2>2, InheritedKept
  <2>4. \E q \in exhausted'[e] : q <= pdu /\ sends[e][q] = MaxRetx + 1
    <3>1. CASE sends[e][pdu] = MaxRetx + 1
      BY <1>1, <1>7, <3>1
    <3>2. CASE InheritedCount(e, pdu)
      BY <1>1, <1>3, <1>7, <3>2 DEF InheritedCount
    <3>3. QED
      BY <2>2, <3>1, <3>2 DEF EndOk
  <2>5. QED
    BY <1>7, <2>3, <2>4
<1>8. ASSUME NEW pdu \in Pdu(e), NEW rc \in Nat, GivenUp(e, pdu, rc)
      PROVE  Counted(e)'
  <2>1. /\ <<pdu, rc>> \in Ents(e) /\ rc + 1 > MaxRetx
        /\ Ents(e)' \subseteq Ents(e) /\ HeldOf(e)' = HeldOf(e) \ {pdu}
        /\ next_pdu'[e] = next_pdu[e] /\ sends'[e] = sends[e]
        /\ exhausted'[e] = exhausted[e] \cup {pdu}
    BY <1>8 DEF GivenUp
  <2>2. pdu < next_pdu[e]
    BY <1>2, <2>1
  <2>3. \A q \in exhausted'[e] : EndOk(e, q)'
    BY <1>7, <2>1
  <2>4. \A x \in Ents(e)' : CountOk(e, x[1], x[2])'
    BY <1>2, <1>3, <2>1, InheritedKept
  <2>5. QED
    BY <1>3, <2>1, <2>2, <2>3, <2>4 DEF Counted
<1>9. ASSUME NEW pdu \in Pdu(e), Replaced(e, pdu)
      PROVE  Counted(e)'
  <2>0. PICK n \in Pdu(e) : n = next_pdu[e]
    BY <1>9 DEF Replaced
  <2>1. PICK rc \in Nat : /\ rc + 1 > MaxRetx /\ <<pdu, rc>> \in Ents(e)
                          /\ Ents(e)' \subseteq Ents(e) \cup {<<n, rc + 1>>}
    BY <1>9, <2>0 DEF Replaced
  <2>2. /\ ~AllowRlf[e] /\ pdu \in HeldOf(e)
        /\ n \in Pdu(e) /\ next_pdu'[e] = n + 1
        /\ HeldOf(e)' = (HeldOf(e) \ {pdu}) \cup {n}
        /\ exhausted'[e] = exhausted[e] \cup {pdu}
        /\ sends'[e] = [sends[e] EXCEPT ![n] = @ + 1]
    BY <1>9, <2>0 DEF Replaced
  <2>3. sends[e][n] = 0 /\ pdu < n /\ n = next_pdu[e]
    BY <1>1, <1>2, <1>3, <2>0, <2>1, <2>2
  <2>4. /\ sends'[e] \in [Pdu(e) -> Nat]
        /\ sends'[e][n] = 1
        /\ \A q \in Pdu(e) : q # n => sends'[e][q] = sends[e][q]
        /\ \A q \in exhausted'[e] : q \in Pdu(e) /\ q # n /\ q < n
    BY <1>1, <1>3, <2>2, <2>3
  <2>5. /\ \A q \in exhausted'[e] : EndOk(e, q)'
        /\ \E q \in exhausted'[e] : q <= pdu /\ sends'[e][q] = MaxRetx + 1
    BY <1>7, <2>1, <2>2, <2>4
  <2>6. InheritedCount(e, n)'
    <3>1. \E q \in exhausted'[e] : q < n /\ sends'[e][q] = MaxRetx + 1
      BY <2>4, <2>5
    <3>2. QED
      BY <2>2, <2>4, <3>1 DEF InheritedCount
  <2>7. \A x \in Ents(e)' : CountOk(e, x[1], x[2])'
    <3>1. ASSUME NEW x \in Ents(e)
          PROVE  CountOk(e, x[1], x[2])'
      BY <1>1, <1>2, <1>3, <2>2, <2>3, <2>4, InheritedKept
    <3>2. CountOk(e, n, rc + 1)'
      BY <2>1, <2>6 DEF CountOk
    <3>3. QED
      BY <2>1, <3>1, <3>2
  <2>8. \A q \in Pdu(e) : /\ q >= next_pdu'[e] => sends'[e][q] = 0
                          /\ sends'[e][q] <= MaxRetx + 1
    BY <1>1, <1>3, <2>2, <2>3, <2>4
  <2>9. \A q \in exhausted'[e] : /\ q \in Pdu(e) /\ q < next_pdu'[e] /\ q \notin HeldOf(e)'
                                 /\ EndOk(e, q)'
    BY <1>1, <1>3, <2>2, <2>3, <2>4, <2>5
  <2>10. QED
    BY <2>4, <2>7, <2>8, <2>9 DEF Counted
<1>10. QED
  <2>1. CASE Kept(e) \/ Freed(e) \/ Flushed(e)
    BY <1>4, <2>1 DEF Kept, Freed, Flushed
  <2>2. QED
    BY <1>5, <1>6, <1>8, <1>9, <2>1 DEF Shape
-----------------------------------------------------------------------------
(***************************************************************************)
(* The inductive invariant: at each end the rings and what is in flight    *)
(* agree (LinkInv), no PDU is held twice (HeldInv), every PDU taken is     *)
(* accounted for, and the retry counts count the transmissions.            *)
(***************************************************************************)
EndInv(e) ==
  /\ LinkInv(e) /\ HeldInv(e) /\ Accounted(e)
  /\ acked[e] \subseteq received[e]
  /\ Counted(e)
IInv == TypeInv /\ \A e \in End : EndInv(e)

(* It holds before anything is sent. *)
LEMMA IInvInit ==
  ASSUME Init
  PROVE  IInv
<1>1. TypeInv
  BY TypeInit
<1>2. ASSUME NEW e \in End
      PROVE  EndInv(e)
  <2>1. /\ tx_ring[e] = [i \in Index |-> IdleSlot]
        /\ to_retx_list[e] = <<>> /\ to_ack_list[Peer(e)] = <<>>
        /\ frame[Peer(e)] = {} /\ air = {} /\ is_tx_enabled[e]
        /\ next_pdu[e] = 1 /\ sends[e] = [q \in Pdu(e) |-> 0]
        /\ acked[e] = {} /\ exhausted[e] = {}
    BY PeerFacts DEF Init
  <2>2. \A i \in Index : tx_ring[e][i].acknowledged
    BY <2>1 DEF IdleSlot
  <2>3. Waiting(tx_ring[e]) = {} /\ 1..Len(to_retx_list[e]) = {}
    BY <2>1, <2>2 DEF Waiting
  <2>4. Ents(e) = {} /\ HeldOf(e) = {} /\ OnceAt(e)
    BY <2>3 DEF Ents, Entries, HeldOf, HeldIn, OnceAt, Once
  <2>5. LinkInv(e)
    <3>1. DOMAIN to_ack_list[Peer(e)] = {}
      BY <2>1
    <3>2. QED
      BY <2>1, <2>2, <3>1 DEF LinkInv, Wires, DataTracked, ListTracked, AcksTracked, Idle, WillBeChecked
  <2>6. HeldInv(e)
    BY <2>4 DEF HeldInv
  <2>7. Accounted(e)
    BY <2>1 DEF Accounted
  <2>8. Counted(e)
    BY <2>1, <2>4, LimitsAssumption DEF Counted
  <2>9. QED
    BY <2>1, <2>5, <2>6, <2>7, <2>8 DEF EndInv
<1>3. QED
  BY <1>1, <1>2 DEF IInv

(* What a step of one end does to the parts of the other. *)
LEMMA DeliversMore ==
  ASSUME TypeInv, NEW p \in End, received' = received \/ Delivers(p), NEW x \in End
  PROVE  received[x] \subseteq received'[x]
BY DEF Delivers, TypeInv, Domains

(* Every step keeps the invariant. *)
LEMMA IInvNext ==
  ASSUME WindowFits, IInv, NEW e \in End, Step(e)
  PROVE  IInv'
<1> DEFINE p == Peer(e)
<1>1. p \in End /\ \A x \in End : x = e \/ x = p
  BY PeerFacts
<1>2. TypeInv /\ EndInv(e) /\ EndInv(p)
  BY <1>1 DEF IInv
<1>3. TypeInv'
  BY <1>2, TypeNext DEF Step
<1>4. LinkInv(e) /\ LinkInv(p) /\ HeldInv(e) /\ HeldInv(p)
  BY <1>2 DEF EndInv
<1>5. /\ Shape(e) /\ Kept(p)
      /\ received' = received \/ Delivers(p)
  BY <1>1, <1>2, <1>4, StepShape
<1>6. LinkInv(e)' /\ LinkInv(p)'
  BY <1>1, <1>2, <1>3, <1>4, StepLink
<1>7. ASSUME NEW x \in End, EndInv(x), Shape(x), LinkInv(x)'
      PROVE  EndInv(x)'
  <2>1. received[x] \subseteq received'[x]
    BY <1>1, <1>2, <1>5, DeliversMore
  <2>2. HeldInv(x)'
    BY <1>2, <1>7, HeldNext DEF EndInv
  <2>3. Accounted(x)'
    BY <1>2, <1>7, <2>1, AccountedNext DEF EndInv
  <2>4. acked'[x] \subseteq received'[x]
    BY <1>7, <2>1, AckedNext DEF EndInv
  <2>5. Counted(x)'
    BY <1>2, <1>7, CountedNext DEF EndInv
  <2>6. QED
    BY <1>7, <2>2, <2>3, <2>4, <2>5 DEF EndInv
<1>8. Shape(p)
  BY <1>5 DEF Shape
<1> HIDE DEF p
<1>9. EndInv(e)' /\ EndInv(p)'
  BY <1>1, <1>2, <1>5, <1>6, <1>7, <1>8
<1>10. \A x \in End : EndInv(x)'
  BY <1>1, <1>9
<1>11. QED
  BY <1>3, <1>10 DEF IInv

(* Stuttering keeps it. *)
LEMMA IInvStutter ==
  ASSUME WindowFits, IInv, UNCHANGED vars
  PROVE  IInv'
<1>1. TypeInv'
  BY TypeStutter DEF IInv
<1>2. UNCHANGED <<slot_number, tick, frame, is_tx_enabled, sn_counter, tx_ring, sn_ring,
                  to_retx_list, quiet, next_pdu, to_ack_list, air,
                  acked, received, exhausted, flushed, sends>>
  BY DEF vars, sender, history
<1>3. ASSUME NEW e \in End
      PROVE  EndInv(e)'
  <2>1. EndInv(e)
    BY DEF IInv
  <2>2. LinkInv(e)'
    <3>1. PICK f \in End : f = Peer(e)
      BY PeerFacts
    <3>2. LinkInv(e) /\ TypeInv
      BY <2>1 DEF EndInv, IInv
    <3>3. Untouched(e)
      BY <1>2 DEF Untouched
    <3>4. QED
      BY <1>1, <1>2, <3>1, <3>2, <3>3, PeerLink
  <2>3. HeldInv(e)' /\ Accounted(e)' /\ Counted(e)'
    BY <1>2, <2>1 DEF EndInv, HeldInv, OnceAt, HeldOf, Accounted, Counted, Ents,
                        CountOk, EndOk, InheritedCount
  <2>4. QED
    BY <1>2, <2>1, <2>2, <2>3 DEF EndInv
<1>4. QED
  BY <1>1, <1>3 DEF IInv

(* The invariant holds throughout. *)
LEMMA IInvAlways ==
  ASSUME WindowFits
  PROVE  Spec => []IInv
<1>1. Init => IInv
  BY IInvInit
<1>2. IInv /\ [Next]_vars => IInv'
  <2> SUFFICES ASSUME IInv, [Next]_vars
               PROVE  IInv'
    OBVIOUS
  <2>1. CASE Next
    <3>1. PICK e \in End : Step(e)
      BY <2>1 DEF Next, Step
    <3>2. QED
      BY <3>1, IInvNext
  <2>2. CASE UNCHANGED vars
    BY <2>2, IInvStutter
  <2>3. QED
    BY <2>1, <2>2
<1>3. QED
  BY <1>1, <1>2, PTL DEF Spec

(***************************************************************************)
(* An LLC_ACK acknowledges the PDU it was sent for: if ACKs are back       *)
(* before the window, or what remains of the sequence numbers after whole  *)
(* windows, has passed (WindowFits), on_rx marks a slot acknowledged only  *)
(* if its PDU has reached the peer's PDCP.                                 *)
(***************************************************************************)
THEOREM AckedWasReceivedHolds ==
  ASSUME WindowFits
  PROVE  Spec => []AckedWasReceived
<1>1. IInv => AckedWasReceived
  BY DEF IInv, EndInv, AckedWasReceived
<1>2. QED
  BY <1>1, IInvAlways, PTL

(***************************************************************************)
(* Acknowledged mode loses no PDU silently: what LLC::on_tx took from PDCP *)
(* is at the peer, in tx_ring, in to_retx_list, or was given up openly.    *)
(***************************************************************************)
THEOREM NoSilentLossHolds ==
  ASSUME WindowFits
  PROVE  Spec => []NoSilentLoss
<1>1. IInv => NoSilentLoss
  <2>1. \A e \in End : HeldOf(e) = Outstanding(e) \cup QueuedForRetx(e)
    BY HeldFacts DEF HeldOf
  <2>2. QED
    BY <2>1 DEF IInv, EndInv, Accounted, NoSilentLoss
<1>2. QED
  BY <1>1, IInvAlways, PTL

(***************************************************************************)
(* max_retx_count is what it says: on_tx sends a PDU at most once plus     *)
(* max_retx_count times, and gives it up only then, or, with RLF           *)
(* inhibited, when it took the place of one that was.                      *)
(***************************************************************************)
THEOREM GiveUpOnlyAfterMaxRetxHolds ==
  ASSUME WindowFits
  PROVE  Spec => []GiveUpOnlyAfterMaxRetx
<1>1. IInv => GiveUpOnlyAfterMaxRetx
  BY DEF IInv, EndInv, Counted, EndOk, GiveUpOnlyAfterMaxRetx
<1>2. QED
  BY <1>1, IInvAlways, PTL
-----------------------------------------------------------------------------
(* What AmLink sees of the link: the refinement mapping of LLC. *)
Offered == [e \in End |-> next_pdu[e] - 1]
Held == [e \in End |-> Outstanding(e) \cup QueuedForRetx(e)]
Abandoned == [e \in End |-> exhausted[e] \cup flushed[e]]

(* The mapping is made of functions on the ends. *)
LEMMA MappingFacts ==
  /\ \A e \in End : /\ Offered[e] = next_pdu[e] - 1
                    /\ Held[e] = HeldOf(e)
                    /\ Abandoned[e] = exhausted[e] \cup flushed[e]
  /\ \A e \in End : /\ Offered'[e] = next_pdu'[e] - 1
                    /\ Held'[e] = HeldOf(e)'
                    /\ Abandoned'[e] = exhausted'[e] \cup flushed'[e]
<1>1. \A e \in End : HeldOf(e) = Outstanding(e) \cup QueuedForRetx(e)
  BY HeldFacts DEF HeldOf
<1>2. \A e \in End : HeldOf(e)' = Outstanding(e)' \cup QueuedForRetx(e)'
  BY <1>1 DEF HeldOf, HeldIn, Waiting, Outstanding, QueuedForRetx
<1>3. QED
  BY <1>1, <1>2 DEF Offered, Held, Abandoned

(* Functions on the ends that differ at e only. *)
LEMMA DiffersAt ==
  /\ \A e \in End : \A v : (\A x \in End : x # e => Offered'[x] = Offered[x]) /\ Offered'[e] = v
                          => Offered' = [Offered EXCEPT ![e] = v]
  /\ \A e \in End : \A v : (\A x \in End : x # e => Held'[x] = Held[x]) /\ Held'[e] = v
                          => Held' = [Held EXCEPT ![e] = v]
  /\ \A e \in End : \A v : (\A x \in End : x # e => Abandoned'[x] = Abandoned[x]) /\ Abandoned'[e] = v
                          => Abandoned' = [Abandoned EXCEPT ![e] = v]
<1>1. /\ Offered = [x \in End |-> Offered[x]] /\ Offered' = [x \in End |-> Offered'[x]]
      /\ Held = [x \in End |-> Held[x]] /\ Held' = [x \in End |-> Held'[x]]
      /\ Abandoned = [x \in End |-> Abandoned[x]] /\ Abandoned' = [x \in End |-> Abandoned'[x]]
  BY DEF Offered, Held, Abandoned
<1>2. QED
  BY <1>1

(***************************************************************************)
(* Each shape is a step of AmLink: a PDU taken is offered, perhaps in the  *)
(* place of one abandoned; a PDU given up or flushed is abandoned; what an *)
(* acknowledgement frees is released, and the peer has it.                 *)
(***************************************************************************)
LEMMA ShapeIsAbstract ==
  ASSUME TypeInv, NEW e \in End, HeldInv(e), Shape(e), received' = received,
         \A x \in End : x # e => Kept(x)
  PROVE  Am!Next \/ UNCHANGED Am!vars
<1>1. \A x \in End : x # e => /\ Offered'[x] = Offered[x]
                              /\ Held'[x] = Held[x]
                              /\ Abandoned'[x] = Abandoned[x]
  BY MappingFacts DEF Kept
<1>2. next_pdu[e] \in Nat
  BY TypeOfEnd, NextPduNat
<1>3. /\ Offered[e] = next_pdu[e] - 1 /\ Offered'[e] = next_pdu'[e] - 1
      /\ Held[e] = HeldOf(e) /\ Held'[e] = HeldOf(e)'
      /\ Abandoned[e] = exhausted[e] \cup flushed[e]
      /\ Abandoned'[e] = exhausted'[e] \cup flushed'[e]
  BY MappingFacts
<1>4. ASSUME NEW S \in SUBSET Held[e], next_pdu[e] \in Pdu(e), next_pdu'[e] = next_pdu[e] + 1,
             HeldOf(e)' = (HeldOf(e) \ S) \cup {next_pdu[e]},
             Abandoned'[e] = Abandoned[e] \cup S
      PROVE  Am!Offer(e)
  <2>1. Offered[e] < MaxPdu[e] /\ Offered'[e] = Offered[e] + 1 /\ next_pdu[e] = Offered[e] + 1
    BY <1>2, <1>3, <1>4, LimitsAssumption DEF Pdu
  <2>2. /\ Offered' = [Offered EXCEPT ![e] = Offered[e] + 1]
        /\ Held' = [Held EXCEPT ![e] = (Held[e] \ S) \cup {Offered[e] + 1}]
        /\ Abandoned' = [Abandoned EXCEPT ![e] = Abandoned[e] \cup S]
    BY <1>1, <1>3, <1>4, <2>1, DiffersAt
  <2>3. QED
    BY <2>1, <2>2 DEF Am!Offer, Offered, Held, Abandoned
<1>5. ASSUME NEW S \in SUBSET Held[e], next_pdu'[e] = next_pdu[e],
             HeldOf(e)' = HeldOf(e) \ S,
             Abandoned'[e] = Abandoned[e] \cup S
      PROVE  Am!Abandon(e)
  <2>1. /\ Offered' = Offered
        /\ Held' = [Held EXCEPT ![e] = Held[e] \ S]
        /\ Abandoned' = [Abandoned EXCEPT ![e] = Abandoned[e] \cup S]
    <3>1. Offered'[e] = Offered[e]
      BY <1>3, <1>5
    <3>2. Offered' = Offered
      BY <1>1, <3>1 DEF Offered
    <3>3. QED
      BY <1>1, <1>3, <1>5, <3>2, DiffersAt
  <2>2. QED
    BY <2>1 DEF Am!Abandon, Offered, Held, Abandoned
<1>6. CASE Kept(e) \/ \E pdu \in Pdu(e), rc \in Nat : Resent(e, pdu, rc)
  <2>1. /\ next_pdu'[e] = next_pdu[e] /\ HeldOf(e)' = HeldOf(e)
        /\ exhausted'[e] = exhausted[e] /\ flushed'[e] = flushed[e]
    BY <1>6 DEF Kept, Resent
  <2>2. \A x \in End : Offered'[x] = Offered[x] /\ Held'[x] = Held[x] /\ Abandoned'[x] = Abandoned[x]
    BY <1>1, <1>3, <2>1
  <2>3. Offered' = Offered /\ Held' = Held /\ Abandoned' = Abandoned
    BY <2>2 DEF Offered, Held, Abandoned
  <2>4. QED
    BY <2>3 DEF Am!vars, Offered, Held, Abandoned
<1>7. CASE Taken(e)
  <2>1. /\ {} \in SUBSET Held[e]
        /\ next_pdu[e] \in Pdu(e) /\ next_pdu'[e] = next_pdu[e] + 1
        /\ HeldOf(e)' = (HeldOf(e) \ {}) \cup {next_pdu[e]}
        /\ Abandoned'[e] = Abandoned[e] \cup {}
    BY <1>3, <1>7 DEF Taken
  <2>2. QED
    BY <1>4, <2>1 DEF Am!Next
<1>8. ASSUME NEW pdu \in Pdu(e), Replaced(e, pdu)
      PROVE  Am!Next
  <2>1. {pdu} \in SUBSET Held[e]
    BY <1>3, <1>8 DEF Replaced
  <2>2. /\ next_pdu[e] \in Pdu(e) /\ next_pdu'[e] = next_pdu[e] + 1
        /\ HeldOf(e)' = (HeldOf(e) \ {pdu}) \cup {next_pdu[e]}
        /\ Abandoned'[e] = Abandoned[e] \cup {pdu}
    BY <1>3, <1>8 DEF Replaced
  <2>3. QED
    BY <1>4, <2>1, <2>2 DEF Am!Next
<1>9. ASSUME NEW pdu \in Pdu(e), NEW rc \in Nat, GivenUp(e, pdu, rc)
      PROVE  Am!Next
  <2>1. pdu \in HeldOf(e)
    BY <1>9, HeldType DEF GivenUp
  <2>2. {pdu} \in SUBSET Held[e]
    BY <1>3, <2>1
  <2>3. /\ next_pdu'[e] = next_pdu[e] /\ HeldOf(e)' = HeldOf(e) \ {pdu}
        /\ Abandoned'[e] = Abandoned[e] \cup {pdu}
    BY <1>3, <1>9 DEF GivenUp
  <2>4. QED
    BY <1>5, <2>2, <2>3 DEF Am!Next
<1>10. CASE Flushed(e)
  <2>1. /\ next_pdu'[e] = next_pdu[e] /\ HeldOf(e)' = HeldOf(e) \ HeldOf(e)
        /\ Abandoned'[e] = Abandoned[e] \cup HeldOf(e)
    BY <1>3, <1>10 DEF Flushed
  <2>2. QED
    BY <1>3, <1>5, <2>1 DEF Am!Next
<1>11. CASE Freed(e)
  <2> DEFINE S == HeldOf(e) \ HeldOf(e)'
  <2>1. /\ S \in SUBSET (Held[e] \cap received[e])
        /\ Held'[e] = Held[e] \ S
        /\ Offered'[e] = Offered[e] /\ Abandoned'[e] = Abandoned[e]
    BY <1>3, <1>11 DEF Freed
  <2> HIDE DEF S
  <2>2. Offered' = Offered /\ Abandoned' = Abandoned
    BY <1>1, <2>1 DEF Offered, Abandoned
  <2>3. Held' = [Held EXCEPT ![e] = Held[e] \ S]
    BY <1>1, <2>1, DiffersAt
  <2>4. Am!Release(e)
    BY <2>1, <2>2, <2>3 DEF Am!Release, Offered, Held, Abandoned
  <2>5. QED
    BY <2>4 DEF Am!Next
<1>12. QED
  BY <1>6, <1>7, <1>8, <1>9, <1>10, <1>11 DEF Shape

(* A PDU passed to the PDCP of the peer is a delivery. *)
LEMMA DeliveryIsAbstract ==
  ASSUME TypeInv, NEW p \in End, \A x \in End : Kept(x), Delivers(p)
  PROVE  Am!Next
<1>1. Offered' = Offered /\ Held' = Held /\ Abandoned' = Abandoned
  <2>1. \A x \in End : /\ Offered'[x] = Offered[x] /\ Held'[x] = Held[x]
                       /\ Abandoned'[x] = Abandoned[x]
    BY MappingFacts DEF Kept
  <2>2. QED
    BY <2>1 DEF Offered, Held, Abandoned
<1>2. PICK q \in 1..Offered[p] : received' = [received EXCEPT ![p] = @ \cup {q}]
  BY MappingFacts DEF Delivers
<1>3. Am!Deliver(p)
  BY <1>1, <1>2 DEF Am!Deliver, Offered, Held, Abandoned
<1>4. QED
  BY <1>3 DEF Am!Next

(***************************************************************************)
(* The two LLCs and the air implement AmLink: every step of on_tx, on_rx   *)
(* and set_tx_enabled offers, delivers, releases or abandons PDUs as       *)
(* AmLink allows, or changes nothing that AmLink sees.                     *)
(***************************************************************************)
THEOREM RefinesAmLink ==
  ASSUME WindowFits
  PROVE  Spec => ImplementsAmLink
<1>1. Init => Am!Init
  <2> SUFFICES ASSUME Init
               PROVE  Am!Init
    OBVIOUS
  <2>1. \A e \in End : HeldOf(e) = {}
    <3>1. ASSUME NEW e \in End
          PROVE  HeldOf(e) = {}
      <4>1. tx_ring[e] = [i \in Index |-> IdleSlot] /\ to_retx_list[e] = <<>>
        BY DEF Init
      <4>2. Waiting(tx_ring[e]) = {} /\ 1..Len(to_retx_list[e]) = {}
        BY <4>1 DEF Waiting, IdleSlot
      <4>3. QED
        BY <4>2 DEF HeldOf, HeldIn
    <3>2. QED
      BY <3>1
  <2>2. \A e \in End : Outstanding(e) \cup QueuedForRetx(e) = {}
    BY <2>1, HeldFacts DEF HeldOf
  <2>3. QED
    BY <2>2 DEF Am!Init, Init
<1>2. IInv /\ [Next]_vars => [Am!Next]_(Am!vars)
  <2> SUFFICES ASSUME IInv, [Next]_vars
               PROVE  Am!Next \/ UNCHANGED Am!vars
    OBVIOUS
  <2>1. CASE UNCHANGED vars
    BY <2>1 DEF vars, sender, history, Am!vars, Outstanding, QueuedForRetx
  <2>2. CASE Next
    <3>1. PICK e \in End : Step(e)
      BY <2>2 DEF Next, Step
    <3>2. PICK p \in End : p = Peer(e) /\ \A x \in End : x = e \/ x = p
      BY PeerFacts
    <3>3. /\ TypeInv /\ LinkInv(e) /\ LinkInv(p) /\ HeldInv(e) /\ HeldInv(p)
      BY DEF IInv, EndInv
    <3>4. /\ Shape(e) /\ Kept(p)
          /\ received' = received \/ (Kept(e) /\ Delivers(p))
      BY <3>1, <3>2, <3>3, StepShape
    <3>5. CASE received' = received
      BY <3>2, <3>3, <3>4, <3>5, ShapeIsAbstract
    <3>6. CASE Kept(e) /\ Delivers(p)
      BY <3>2, <3>3, <3>4, <3>6, DeliveryIsAbstract
    <3>7. QED
      BY <3>4, <3>5, <3>6
  <2>3. QED
    BY <2>1, <2>2
<1>3. QED
  BY <1>1, <1>2, IInvAlways, PTL DEF Spec, ImplementsAmLink, Am!Spec
=============================================================================
