------------------------- MODULE TxSchedulerProofs --------------------------
(***************************************************************************)
(* Safety of TxScheduler::tick for any number of channels, any frame and   *)
(* PDU sizes and any traffic: no unsigned counter is taken below zero, and *)
(* a channel has at most one data PDU in a frame.                          *)
(***************************************************************************)
EXTENDS TxScheduler, FiniteSetTheorems, SequenceTheorems, TLAPS

(* What LLC::on_tx reports, and PDUs of channel l without data. *)
Result == [pdus : Seq(Pdu), alloc : Nat, available : BOOLEAN, loaded : BOOLEAN,
           backlog : Nat, to_ack : Nat, to_retx : Nat]
AcksOnly(pdus, l) == \A k \in 1..Len(pdus) : pdus[k].lcid = l /\ ~pdus[k].data

(* At most one PDU has data, and then data was reported as loaded. *)
Fitting(r, l, size) ==
  /\ r \in Result
  /\ r.alloc <= size
  /\ \A k \in 1..Len(r.pdus) : r.pdus[k].lcid = l /\ (r.pdus[k].data => r.loaded)
  /\ \A j, k \in 1..Len(r.pdus) : r.pdus[j].data /\ r.pdus[k].data => j = k
Empty(r, l, size) == Fitting(r, l, size) /\ ~r.loaded /\ AcksOnly(r.pdus, l)
-----------------------------------------------------------------------------
(* on_tx with nothing to send: the result is within any size. *)
LEMMA NothingFits ==
  ASSUME TypeOK, NEW l \in Lcid, NEW size \in Nat
  PROVE  /\ Empty(Nothing(l), l, size)
         /\ Nothing(l).pdus = <<>> /\ Nothing(l).alloc = 0
         /\ Nothing(l).to_ack = to_ack[l] /\ Nothing(l).to_retx = to_retx[l]
         /\ Empty([Nothing(l) EXCEPT !.available = FALSE], l, size)
<1>1. backlog[l] \in Nat /\ to_ack[l] \in Nat /\ to_retx[l] \in Nat
  BY DEF TypeOK
<1>2. <<>> \in Seq(Pdu) /\ Len(<<>>) = 0
  OBVIOUS
<1>3. HasData(l) \in BOOLEAN
  BY DEF HasData
<1>4. Nothing(l) \in Result /\ Nothing(l).pdus = <<>> /\ Nothing(l).alloc = 0 /\ ~Nothing(l).loaded
  BY <1>1, <1>2, <1>3 DEF Nothing, Result
<1>5. /\ [Nothing(l) EXCEPT !.available = FALSE] \in Result
      /\ [Nothing(l) EXCEPT !.available = FALSE].pdus = <<>>
      /\ [Nothing(l) EXCEPT !.available = FALSE].alloc = 0
      /\ ~[Nothing(l) EXCEPT !.available = FALSE].loaded
  BY <1>4 DEF Result
<1>6. Empty(Nothing(l), l, size)
  BY <1>2, <1>4 DEF Empty, Fitting, AcksOnly
<1>7. Empty([Nothing(l) EXCEPT !.available = FALSE], l, size)
  <2> DEFINE r == [Nothing(l) EXCEPT !.available = FALSE]
  <2>1. r \in Result /\ r.pdus = <<>> /\ r.alloc = 0 /\ ~r.loaded
    BY <1>5
  <2> HIDE DEF r
  <2>2. Empty(r, l, size)
    BY <1>2, <2>1 DEF Empty, Fitting, AcksOnly
  <2>3. QED
    BY <2>2 DEF r
<1>8. QED
  BY <1>4, <1>6, <1>7 DEF Nothing

(* Acknowledgements fit into what is left of the header. *)
LEMMA AcksFit ==
  ASSUME TypeOK, NEW l \in Lcid, NEW size \in Nat, size > HeaderSize
  PROVE  /\ AcksFitting(l, size) \in Nat
         /\ AcksFitting(l, size) * AckSize \in Nat
         /\ AcksFitting(l, size) <= to_ack[l]
         /\ HeaderSize + AcksFitting(l, size) * AckSize <= size
<1> DEFINE x == size - HeaderSize
           d == x \div AckSize
           n == AcksFitting(l, size)
<1>1. x \in Nat /\ AckSize \in Nat \ {0} /\ to_ack[l] \in Nat
  BY SizeAssumption DEF TypeOK
<1>2. d \in Nat /\ AckSize * d <= x
  BY <1>1
<1>3. n \in Nat /\ n <= d /\ n <= to_ack[l]
  BY <1>1, <1>2 DEF AcksFitting, MinOf
<1> HIDE DEF d, n
<1>4. n * AckSize <= d * AckSize /\ n * AckSize \in Nat
  BY <1>1, <1>2, <1>3
<1>5. d * AckSize = AckSize * d
  BY <1>1, <1>2
<1>6. n * AckSize <= x
  BY <1>1, <1>2, <1>4, <1>5
<1>7. QED
  BY <1>1, <1>3, <1>4, <1>6, SizeAssumption DEF n

(* on_tx with the acknowledgements only: taken octets of them. *)
LEMMA WithAcksFits ==
  ASSUME TypeOK, NEW l \in Lcid, NEW size \in Nat, size > HeaderSize,
         NEW taken, taken = IF to_ack[l] = 0 THEN 0 ELSE AcksFitting(l, size) * AckSize
  PROVE  /\ Empty(WithAcks(l, size), l, size)
         /\ Len(WithAcks(l, size).pdus) <= 1
         /\ WithAcks(l, size).alloc <= HeaderSize + taken
         /\ WithAcks(l, size).to_retx = to_retx[l]
         /\ taken \in Nat
<1>1. HeaderSize \in Nat /\ size \in Nat
  BY SizeAssumption
<1>2. CASE to_ack[l] = 0
  <2>1. WithAcks(l, size) = Nothing(l) /\ taken = 0
    BY <1>2 DEF WithAcks
  <2> DEFINE r == Nothing(l)
  <2>2. /\ Empty(r, l, size) /\ r.pdus = <<>> /\ r.alloc = 0
        /\ r.to_retx = to_retx[l]
    BY NothingFits
  <2> HIDE DEF r
  <2>3. Len(r.pdus) <= 1 /\ r.alloc <= HeaderSize + taken /\ taken \in Nat
    BY <1>1, <2>1, <2>2
  <2>4. QED
    BY <2>1, <2>2, <2>3 DEF r
<1>3. CASE to_ack[l] # 0
  <2> DEFINE n == AcksFitting(l, size)
             alloc == HeaderSize + n * AckSize
             pdu == [lcid |-> l, data |-> FALSE, size |-> alloc]
             r == WithAcks(l, size)
  <2>1. /\ n \in Nat /\ n * AckSize \in Nat /\ n <= to_ack[l] /\ alloc <= size
        /\ taken = n * AckSize
    BY <1>3, AcksFit
  <2>2. alloc \in Nat /\ to_ack[l] - n \in Nat
    BY <1>1, <2>1 DEF TypeOK
  <2>3. r = [Nothing(l) EXCEPT !.pdus = <<pdu>>, !.alloc = alloc, !.to_ack = @ - n]
    BY <1>3 DEF WithAcks
  <2>4. Nothing(l) \in Result /\ ~Nothing(l).loaded /\ Nothing(l).to_ack = to_ack[l]
        /\ Nothing(l).to_retx = to_retx[l]
    BY <1>1, NothingFits DEF Empty, Fitting
  <2>5. pdu \in Pdu
    BY <2>2 DEF Pdu
  <2> HIDE DEF n, alloc
  <2>6. <<pdu>> \in Seq(Pdu) /\ Len(<<pdu>>) = 1 /\ <<pdu>>[1] = pdu
    BY <2>5
  <2>7. pdu.lcid = l /\ pdu.data = FALSE
    OBVIOUS
  <2> HIDE DEF pdu, r
  <2>8. /\ r \in Result /\ r.pdus = <<pdu>> /\ r.alloc = alloc /\ ~r.loaded
        /\ r.to_retx = to_retx[l]
    BY <2>2, <2>3, <2>4, <2>6 DEF Result
  <2>9. Empty(r, l, size)
    BY <2>1, <2>6, <2>7, <2>8 DEF Empty, Fitting, AcksOnly
  <2>10. r.alloc <= HeaderSize + taken /\ Len(r.pdus) <= 1
    BY <1>1, <2>1, <2>6, <2>8 DEF alloc
  <2>11. QED
    BY <2>1, <2>8, <2>9, <2>10 DEF r
<1>4. QED
  BY <1>2, <1>3

(* A data PDU is added to them. *)
LEMMA WithDataFits ==
  ASSUME NEW l \in Lcid, NEW size \in Nat, NEW r, Empty(r, l, size),
         NEW payload \in Nat, r.alloc + HeaderSize + payload <= size
  PROVE  Fitting(WithData(r, l, payload), l, size)
<1>1. HeaderSize \in Nat
  BY SizeAssumption
<1>2. /\ r \in Result /\ r.alloc \in Nat /\ r.pdus \in Seq(Pdu)
      /\ \A k \in 1..Len(r.pdus) : r.pdus[k].lcid = l /\ ~r.pdus[k].data
      /\ r.alloc <= size
  BY DEF Empty, Fitting, AcksOnly, Result
<1>3. CASE payload = 0
  <2> DEFINE q == WithData(r, l, payload)
  <2>1. q = [r EXCEPT !.loaded = TRUE]
    BY <1>3 DEF WithData
  <2>2. q \in Result /\ q.pdus = r.pdus /\ q.alloc = r.alloc
    BY <1>2, <2>1 DEF Result
  <2> HIDE DEF q
  <2>3. Fitting(q, l, size)
    BY <1>2, <2>2 DEF Fitting
  <2>4. QED
    BY <2>3 DEF q
<1>4. CASE payload # 0
  <2> DEFINE q == WithData(r, l, payload)
             pdu == [lcid |-> l, data |-> TRUE, size |-> HeaderSize + payload]
             n == Len(r.pdus)
             s == Append(r.pdus, pdu)
  <2>1. q = [r EXCEPT !.loaded = TRUE, !.alloc = r.alloc + HeaderSize + payload, !.pdus = s]
    BY <1>4 DEF WithData
  <2>2. pdu \in Pdu /\ pdu.lcid = l
    BY <1>1 DEF Pdu
  <2> HIDE DEF pdu
  <2>3. /\ s \in Seq(Pdu) /\ Len(s) = n + 1 /\ n \in Nat
        /\ \A k \in 1..n : s[k] = r.pdus[k]
        /\ s[n + 1] = pdu
    BY <1>2, <2>2
  <2>4. r.alloc + HeaderSize + payload \in Nat
    BY <1>1, <1>2
  <2> HIDE DEF s, n
  <2>5. q \in Result /\ q.pdus = s /\ q.alloc = r.alloc + HeaderSize + payload /\ q.loaded
    BY <1>2, <2>1, <2>3, <2>4 DEF Result
  <2> HIDE DEF q
  <2>6. \A k \in 1..Len(s) : k = n + 1 \/ (k \in 1..n /\ ~s[k].data)
    BY <1>2, <2>3 DEF n
  <2>7. \A k \in 1..Len(s) : s[k].lcid = l
    BY <1>2, <2>2, <2>3 DEF n
  <2>8. Fitting(q, l, size)
    BY <2>5, <2>6, <2>7 DEF Fitting
  <2>9. QED
    BY <2>8 DEF q
<1>5. QED
  BY <1>3, <1>4

(* A frame of PDCP fills at most the room it is given. *)
LEMMA FromPdcpFits ==
  ASSUME NEW l \in Lcid, NEW size \in Nat, NEW r, Empty(r, l, size),
         NEW room \in Nat, r.alloc + HeaderSize + room <= size
  PROVE  Fitting(FromPdcp(r, l, room), l, size)
<1> DEFINE d == room \div UnitSize[l]
           n == MinOf(r.backlog, d)
           q == [r EXCEPT !.backlog = @ - n]
           payload == n * UnitSize[l]
<1>1. /\ UnitSize[l] \in Nat \ {0} /\ HeaderSize \in Nat
      /\ r \in Result /\ r.backlog \in Nat /\ r.alloc \in Nat
  BY SizeAssumption DEF Empty, Fitting, Result
<1>2. d \in Nat /\ UnitSize[l] * d <= room
  BY <1>1
<1>3. n \in Nat /\ n <= d /\ n <= r.backlog
  BY <1>1, <1>2 DEF MinOf
<1> HIDE DEF d, n
<1>4. n * UnitSize[l] <= d * UnitSize[l] /\ n * UnitSize[l] \in Nat
  BY <1>1, <1>2, <1>3
<1>5. d * UnitSize[l] = UnitSize[l] * d
  BY <1>1, <1>2
<1>6. payload \in Nat /\ payload <= room
  BY <1>1, <1>2, <1>4, <1>5
<1>7. /\ q \in Result /\ q.pdus = r.pdus /\ q.alloc = r.alloc /\ (q.loaded <=> r.loaded)
  <2>1. r.backlog - n \in Nat
    BY <1>1, <1>3
  <2>2. QED
    BY <1>1, <2>1 DEF Result
<1>8. FromPdcp(r, l, room) = WithData(q, l, payload)
  BY DEF FromPdcp, n, d
<1> HIDE DEF q, payload
<1>9. Empty(q, l, size)
  BY <1>7 DEF Empty, Fitting, AcksOnly
<1>10. q.alloc + HeaderSize + payload <= size
  BY <1>1, <1>6, <1>7
<1>11. QED
  BY <1>6, <1>8, <1>9, <1>10, WithDataFits

(* A PDU to send again that is dropped. *)
LEMMA DroppedFits ==
  ASSUME NEW l \in Lcid, NEW size \in Nat, NEW r, Empty(r, l, size), r.to_retx > 0
  PROVE  LET q == [r EXCEPT !.to_retx = @ - 1] IN
         Empty(q, l, size) /\ q.alloc = r.alloc
<1> DEFINE q == [r EXCEPT !.to_retx = @ - 1]
<1>1. r \in Result /\ r.to_retx - 1 \in Nat
  BY DEF Empty, Fitting, Result
<1>2. q \in Result /\ q.pdus = r.pdus /\ q.alloc = r.alloc /\ (q.loaded <=> r.loaded)
  BY <1>1 DEF Result
<1> HIDE DEF q
<1>3. Empty(q, l, size)
  BY <1>2 DEF Empty, Fitting, AcksOnly
<1>4. QED
  BY <1>2, <1>3 DEF q

(* A PDU that is given up, whether the channel fails or a new PDU is made. *)
LEMMA GivenUpFits ==
  ASSUME NEW l \in Lcid, NEW size \in Nat, NEW r, Empty(r, l, size), r.to_retx > 0,
         NEW room \in Nat, r.alloc + HeaderSize + room <= size
  PROVE  Fitting(GivenUp(r, l, room), l, size)
<1> DEFINE q == [r EXCEPT !.to_retx = @ - 1]
           z == [q EXCEPT !.alloc = 0]
<1>1. Empty(q, l, size) /\ q.alloc = r.alloc
  BY DroppedFits
<1>2. GivenUp(r, l, room) = IF load.allow_rlf THEN z ELSE FromPdcp(q, l, room)
  BY DEF GivenUp
<1> HIDE DEF q
<1>3. q \in Result
  BY <1>1 DEF Empty, Fitting
<1>4. z \in Result /\ z.pdus = q.pdus /\ z.alloc = 0 /\ (z.loaded <=> q.loaded)
  BY <1>3 DEF Result
<1> HIDE DEF z
<1>5. Fitting(z, l, size)
  BY <1>1, <1>4 DEF Empty, Fitting, AcksOnly
<1>6. Fitting(FromPdcp(q, l, room), l, size)
  BY <1>1, FromPdcpFits
<1>7. QED
  BY <1>2, <1>5, <1>6

(***************************************************************************)
(* LLC::on_tx never allocates more than it is offered, and without         *)
(* in_allow_data it loads none.                                            *)
(***************************************************************************)
LEMMA OnTxFits ==
  ASSUME TypeOK, NEW l \in Lcid, NEW size \in Nat, NEW allow \in BOOLEAN,
         NEW r \in on_tx(l, size, allow)
  PROVE  Fitting(r, l, size) /\ (~allow => Empty(r, l, size))
<1> DEFINE a == WithAcks(l, size)
           taken == IF to_ack[l] = 0 THEN 0 ELSE AcksFitting(l, size) * AckSize
           room == size - HeaderSize - taken
           payload == room - HeaderSize
<1>1. HeaderSize \in Nat /\ RetxSize[l] \in Nat
  BY SizeAssumption
<1>2. CASE ~enabled[l] \/ size <= HeaderSize
  <2>1. r = Nothing(l) \/ r = [Nothing(l) EXCEPT !.available = FALSE]
    BY <1>2 DEF on_tx
  <2>2. Empty(r, l, size)
    BY <2>1, NothingFits
  <2>3. QED
    BY <2>2 DEF Empty
<1>3. CASE enabled[l] /\ ~(size <= HeaderSize)
  <2>1. size > HeaderSize
    BY <1>1, <1>3
  <2>2. /\ Empty(a, l, size) /\ a.alloc <= HeaderSize + taken
        /\ a.to_retx = to_retx[l] /\ taken \in Nat
    BY <2>1, WithAcksFits
  <2>3. a.alloc \in Nat
    BY <2>2 DEF Empty, Fitting, Result
  <2>4. CASE room < HeaderSize \/ ~allow
    <3>1. r = a
      BY <1>3, <2>4 DEF on_tx
    <3>2. QED
      BY <2>2, <3>1 DEF Empty
  <2>5. CASE ~(room < HeaderSize) /\ allow
    <3>1. payload \in Nat /\ a.alloc + HeaderSize + payload <= size
      BY <1>1, <2>1, <2>2, <2>3, <2>5
    <3>2. \/ r = FromPdcp(a, l, payload)
          \/ /\ to_retx[l] # 0 /\ RetxSize[l] > payload
             /\ r = a
          \/ /\ to_retx[l] # 0 /\ ~(RetxSize[l] > payload)
             /\ \/ r = WithData([a EXCEPT !.to_retx = @ - 1], l, RetxSize[l])
                \/ r = GivenUp(a, l, payload)
      BY <1>3, <2>5 DEF on_tx
    <3> HIDE DEF a, payload
    <3>3. CASE r = FromPdcp(a, l, payload)
      BY <2>2, <2>5, <3>1, <3>3, FromPdcpFits
    <3>4. CASE r = a
      BY <2>2, <2>5, <3>4 DEF Empty
    <3>5. CASE to_retx[l] # 0 /\ ~(RetxSize[l] > payload)
      <4>1. a.to_retx > 0
        BY <2>2, <3>5 DEF TypeOK
      <4>2. a.alloc + HeaderSize + RetxSize[l] <= size
        BY <1>1, <2>3, <3>1, <3>5
      <4> DEFINE q == [a EXCEPT !.to_retx = @ - 1]
      <4>3. Empty(q, l, size) /\ q.alloc = a.alloc
        BY <2>2, <4>1, DroppedFits
      <4> HIDE DEF q
      <4>4. Fitting(WithData(q, l, RetxSize[l]), l, size)
        BY <1>1, <4>2, <4>3, WithDataFits
      <4>5. Fitting(GivenUp(a, l, payload), l, size)
        BY <2>2, <3>1, <4>1, GivenUpFits
      <4>6. QED
        BY <2>2, <2>5, <3>2, <4>4, <4>5, <3>3, <3>4 DEF q
    <3>6. QED
      BY <3>2, <3>3, <3>4, <3>5
  <2>6. QED
    BY <2>4, <2>5
<1>4. QED
  BY <1>2, <1>3

(***************************************************************************)
(* The inductive invariant.  A data PDU of the frame is one its channel    *)
(* knows of while the frame is served, so that it is not asked again; and  *)
(* what such a channel will be charged is covered by its deficit.          *)
(***************************************************************************)
OneEach ==
  \A j, k \in 1..Len(packed) :
    packed[j].data /\ packed[k].data /\ packed[j].lcid = packed[k].lcid => j = k
DataIsNoted ==
  \A k \in 1..Len(packed) :
    packed[k].data => pc # "probe" /\ (pc = "serve" => has_data_allocated[packed[k].lcid])
ChargeCovered ==
  \A l \in schedules_cache :
    pc # "wait" /\ has_data_allocated[l] => pc = "serve" /\ current_alloc[l] <= deficit[l]
TInv == TypeOK /\ OneEach /\ DataIsNoted /\ ChargeCovered
-----------------------------------------------------------------------------
(* A sequence that SetToSeqs makes of channels. *)
LEMMA OrderIsSeq ==
  ASSUME NEW S \in SUBSET Lcid, NEW s \in SetToSeqs(S)
  PROVE  s \in Seq(Lcid)
<1>1. MaxLcid \in Nat
  BY SizeAssumption
<1>2. IsFiniteSet(0..MaxLcid)
  BY <1>1, FS_Interval
<1>3. IsFiniteSet(S)
  BY <1>2, FS_Subset DEF Lcid
<1>4. Cardinality(S) \in Nat
  BY <1>3, FS_CardinalityType
<1>5. s \in [1..Cardinality(S) -> Lcid]
  BY DEF SetToSeqs
<1>6. QED
  BY <1>4, <1>5

(* The fields of a traffic pattern. *)
LEMMA LoadTypes ==
  ASSUME TypeOK, NEW l \in Lcid
  PROVE  load.quanta[l] \in Nat /\ load.nd_gpdu_max_size[l] \in Nat
<1>1. load \in [quanta : [Lcid -> Nat], nd_gpdu_max_size : [Lcid -> Nat],
                queued : [Lcid -> Nat], allow_rlf : BOOLEAN, known : SUBSET Lcid,
                slots : Nat, arrivals : Nat, acks : Nat, retx : Nat, changes : Nat]
  BY LoadAssumption DEF TypeOK
<1>2. load.quanta \in [Lcid -> Nat] /\ load.nd_gpdu_max_size \in [Lcid -> Nat]
  BY <1>1
<1>3. QED
  BY <1>2

(* What LLC::on_tx wrote stays within the frame. *)
LEMMA LoadedTypes ==
  ASSUME TypeOK, NEW l \in Lcid, NEW size \in Nat, size <= frame_payload_remaining,
         NEW r, Fitting(r, l, size), Loaded(l, r)
  PROVE  /\ frame_payload_remaining' \in 0..FrameData
         /\ buffer' \in [0..(FrameData - 1) -> Pdu]
         /\ backlog' \in [Lcid -> Nat] /\ to_ack' \in [Lcid -> Nat] /\ to_retx' \in [Lcid -> Nat]
         /\ enabled' \in [Lcid -> BOOLEAN]
         /\ packed' \in Seq(Pdu)
<1>1. r \in Result /\ r.alloc \in Nat /\ r.alloc <= size /\ r.pdus \in Seq(Pdu)
      /\ r.backlog \in Nat /\ r.to_ack \in Nat /\ r.to_retx \in Nat
  BY DEF Fitting, Result
<1>2. frame_payload_remaining' \in 0..FrameData
  <2>1. frame_payload_remaining' = frame_payload_remaining - r.alloc
    BY DEF Loaded
  <2>2. frame_payload_remaining \in 0..FrameData /\ FrameData \in Nat
    BY SizeAssumption DEF TypeOK
  <2> DEFINE a == r.alloc
  <2>3. a \in Nat /\ a <= frame_payload_remaining
    BY <1>1, <2>2
  <2> HIDE DEF a
  <2>4. frame_payload_remaining - a \in 0..FrameData
    BY <2>2, <2>3
  <2>5. QED
    BY <2>1, <2>4 DEF a
<1>3. buffer' \in [0..(FrameData - 1) -> Pdu]
  <2>1. buffer' = Written(r.pdus) /\ buffer \in [0..(FrameData - 1) -> Pdu]
    BY DEF Loaded, TypeOK
  <2> DEFINE p == r.pdus
  <2>2. p \in Seq(Pdu) /\ Len(p) \in Nat
    BY <1>1
  <2> HIDE DEF p
  <2>3. (Len(p) >= 1 => p[1] \in Pdu) /\ (Len(p) = 2 => p[2] \in Pdu)
    BY <2>2
  <2>4. Written(p) \in [0..(FrameData - 1) -> Pdu]
    BY <2>1, <2>3 DEF Written
  <2>5. QED
    BY <2>1, <2>4 DEF p
<1>4. backlog' \in [Lcid -> Nat] /\ to_ack' \in [Lcid -> Nat] /\ to_retx' \in [Lcid -> Nat]
  BY <1>1 DEF Loaded, TypeOK
<1>5. enabled' \in [Lcid -> BOOLEAN]
  BY DEF Loaded, TypeOK
<1>6. packed' \in Seq(Pdu)
  BY <1>1 DEF Loaded, TypeOK
<1>7. QED
  BY <1>2, <1>3, <1>4, <1>5, <1>6

(***************************************************************************)
(* A PDU of the frame was in it before, or is one LLC::on_tx has written.  *)
(***************************************************************************)
LEMMA LoadedPdus ==
  ASSUME TypeOK, NEW l \in Lcid, NEW size \in Nat, NEW r, Fitting(r, l, size), Loaded(l, r)
  PROVE  /\ \A k \in 1..Len(packed') :
              \/ k \in 1..Len(packed) /\ packed'[k] = packed[k]
              \/ /\ k - Len(packed) \in 1..Len(r.pdus)
                 /\ packed'[k] = r.pdus[k - Len(packed)]
<1>1. r.pdus \in Seq(Pdu) /\ packed \in Seq(Pdu)
  BY DEF Fitting, Result, TypeOK
<1>2. packed' = packed \/ packed' = packed \o r.pdus
  BY DEF Loaded
<1> DEFINE p == r.pdus
           q == packed
           o == q \o p
<1>3. /\ Len(p) \in Nat /\ Len(q) \in Nat /\ Len(o) = Len(q) + Len(p)
      /\ \A k \in 1..Len(o) : o[k] = IF k <= Len(q) THEN q[k] ELSE p[k - Len(q)]
  <2> HIDE DEF p
  <2>1. p \in Seq(Pdu)
    BY <1>1 DEF p
  <2>2. QED
    BY <1>1, <2>1
<1> HIDE DEF p, o
<1>4. CASE packed' = packed
  BY <1>4
<1>5. CASE packed' = o
  <2> SUFFICES ASSUME NEW k \in 1..Len(o)
               PROVE  \/ k \in 1..Len(q) /\ o[k] = q[k]
                      \/ k - Len(q) \in 1..Len(p) /\ o[k] = p[k - Len(q)]
    BY <1>5 DEF p
  <2>1. QED
    BY <1>3
<1>6. QED
  BY <1>2, <1>4, <1>5 DEF o, p

(* Without data the data PDUs of the frame are the ones it had. *)
LEMMA LoadedAcks ==
  ASSUME TypeOK, NEW l \in Lcid, NEW size \in Nat, NEW r, Empty(r, l, size), Loaded(l, r)
  PROVE  \A k \in 1..Len(packed') :
           packed'[k].data => k \in 1..Len(packed) /\ packed'[k] = packed[k]
<1>1. Fitting(r, l, size) /\ \A k \in 1..Len(r.pdus) : ~r.pdus[k].data
  BY DEF Empty, AcksOnly
<1>2. QED
  BY <1>1, LoadedPdus
-----------------------------------------------------------------------------
(* The scheduler as it is set up. *)
LEMMA InitT == Init => TInv
<1> SUFFICES ASSUME Init PROVE TInv
  OBVIOUS
<1>1. load \in [quanta : [Lcid -> Nat], nd_gpdu_max_size : [Lcid -> Nat],
                queued : [Lcid -> Nat], allow_rlf : BOOLEAN, known : SUBSET Lcid,
                slots : Nat, arrivals : Nat, acks : Nat, retx : Nat, changes : Nat]
  BY LoadAssumption DEF Init
<1>2. backlog \in [Lcid -> Nat]
  BY <1>1 DEF Init
<1>3. Blank \in Pdu
  BY SizeAssumption DEF Blank, Pdu, Lcid
<1>4. TypeOK
  BY <1>2, <1>3, SizeAssumption DEF Init, TypeOK
<1>5. OneEach /\ DataIsNoted /\ ChargeCovered
  BY DEF Init, OneEach, DataIsNoted, ChargeCovered
<1>6. QED
  BY <1>4, <1>5 DEF TInv

(* TickBegin: the frame is empty, and no channel is in the cache. *)
LEMMA TickBeginT ==
  ASSUME TInv, TickBegin
  PROVE  TInv'
<1>1. todo' \in Seq(Lcid)
  <2>1. PICK s \in InOrder(llcs) : todo' = s
    BY DEF TickBegin
  <2>2. s \in SetToSeqs(llcs)
    BY <2>1 DEF InOrder
  <2>3. QED
    BY <2>1, <2>2, OrderIsSeq DEF TInv, TypeOK
<1>2. TypeOK'
  BY <1>1, SizeAssumption DEF TInv, TypeOK, TickBegin, llc
<1>3. packed' = <<>> /\ schedules_cache' = {}
  BY DEF TickBegin
<1>4. OneEach' /\ DataIsNoted' /\ ChargeCovered'
  BY <1>3 DEF OneEach, DataIsNoted, ChargeCovered
<1>5. QED
  BY <1>2, <1>4 DEF TInv

(* TickProbe loads no data, so no channel has any. *)
LEMMA TickProbeT ==
  ASSUME TInv, TickProbe
  PROVE  TInv'
<1> DEFINE l == Head(todo)
           size == MinOf(frame_payload_remaining, load.nd_gpdu_max_size[l])
<1>1. /\ TypeOK /\ OneEach /\ DataIsNoted /\ ChargeCovered
      /\ pc = "probe" /\ pc' = "probe" /\ todo # <<>> /\ todo' = Tail(todo)
  BY DEF TInv, TickProbe
<1>2. l \in Lcid /\ todo' \in Seq(Lcid)
  BY <1>1 DEF TypeOK
<1>3. load.nd_gpdu_max_size[l] \in Nat
  BY <1>1, <1>2, LoadTypes
<1>4. size \in Nat /\ size <= frame_payload_remaining
  <2>1. frame_payload_remaining \in Nat
    BY <1>1, SizeAssumption DEF TypeOK
  <2> DEFINE most == load.nd_gpdu_max_size[l]
  <2> HIDE DEF most
  <2>2. MinOf(frame_payload_remaining, most) \in Nat
    BY <1>3, <2>1 DEF MinOf, most
  <2>3. MinOf(frame_payload_remaining, most) <= frame_payload_remaining
    BY <1>3, <2>1 DEF MinOf, most
  <2>4. QED
    BY <2>2, <2>3 DEF most
<1>5. PICK r \in on_tx(l, size, FALSE) :
        /\ Loaded(l, r)
        /\ has_data_allocated' = [has_data_allocated EXCEPT ![l] = r.loaded]
        /\ schedules_cache' = schedules_cache \cup (IF r.available THEN {l} ELSE {})
        /\ deficit' = [deficit EXCEPT ![l] = IF r.available THEN @ ELSE Decayed(@)]
  BY DEF TickProbe
<1> HIDE DEF l, size
<1>6. Empty(r, l, size)
  BY <1>1, <1>2, <1>4, <1>5, OnTxFits
<1>7. Fitting(r, l, size) /\ r.loaded = FALSE
  BY <1>6 DEF Empty, Fitting, Result
<1>8. /\ frame_payload_remaining' \in 0..FrameData
      /\ buffer' \in [0..(FrameData - 1) -> Pdu]
      /\ backlog' \in [Lcid -> Nat] /\ to_ack' \in [Lcid -> Nat] /\ to_retx' \in [Lcid -> Nat]
      /\ enabled' \in [Lcid -> BOOLEAN]
      /\ packed' \in Seq(Pdu)
  BY <1>1, <1>2, <1>4, <1>5, <1>7, LoadedTypes
<1>9. schedules_cache' \subseteq Lcid /\ has_data_allocated' \in [Lcid -> BOOLEAN]
  BY <1>1, <1>2, <1>5, <1>7 DEF TypeOK
<1>10. deficit' \in [Lcid -> Nat]
  <2>1. \A d \in Nat : Decayed(d) \in Nat
    BY DEF Decayed
  <2>2. QED
    BY <1>1, <1>2, <1>5, <2>1 DEF TypeOK
<1>11. TypeOK'
  BY <1>1, <1>2, <1>8, <1>9, <1>10 DEF TypeOK, TickProbe
<1>12. \A k \in 1..Len(packed') : ~packed'[k].data
  BY <1>1, <1>2, <1>4, <1>5, <1>6, LoadedAcks DEF DataIsNoted
<1>13. OneEach' /\ DataIsNoted'
  BY <1>12 DEF OneEach, DataIsNoted
<1>14. ChargeCovered'
  <2> SUFFICES ASSUME NEW m \in schedules_cache', has_data_allocated'[m]
               PROVE  FALSE
    BY DEF ChargeCovered
  <2>1. m \in Lcid
    BY <1>9
  <2>2. CASE m = l
    BY <1>1, <1>5, <1>7, <2>1, <2>2 DEF TypeOK
  <2>3. CASE m # l
    BY <1>1, <1>5, <2>1, <2>3 DEF ChargeCovered, TypeOK
  <2>4. QED
    BY <2>2, <2>3
<1>15. QED
  BY <1>11, <1>13, <1>14 DEF TInv

(* TickPass: the deficits grow. *)
LEMMA TickPassT ==
  ASSUME TInv, TickPass
  PROVE  TInv'
<1>1. /\ TypeOK /\ OneEach /\ DataIsNoted /\ ChargeCovered
      /\ pc' = "serve" /\ pc # "wait"
      /\ UNCHANGED <<load, llcs, slot_number, schedules_cache, current_alloc,
                     has_data_allocated, frame, llc, left, waited>>
  BY DEF TInv, TickPass
<1>2. todo' \in Seq(Lcid)
  <2>1. PICK s : s \in SetToSeqs(schedules_cache) /\ todo' = s
    BY DEF TickPass, Sorted
  <2>2. QED
    BY <1>1, <2>1, OrderIsSeq DEF TypeOK
<1>3. deficit' = [l \in Lcid |-> Grown(l)]
  BY DEF TickPass
<1>4. \A l \in Lcid : Grown(l) \in Nat /\ deficit[l] <= Grown(l)
  <2> SUFFICES ASSUME NEW l \in Lcid
               PROVE  Grown(l) \in Nat /\ deficit[l] <= Grown(l)
    OBVIOUS
  <2> DEFINE q == load.quanta[l]
             d == deficit[l]
  <2>1. q \in Nat /\ d \in Nat
    BY <1>1, LoadTypes DEF TypeOK
  <2>2. Grown(l) = IF l \in schedules_cache THEN d + q ELSE d
    BY DEF Grown
  <2> HIDE DEF q, d
  <2>3. Grown(l) \in Nat /\ d <= Grown(l)
    BY <2>1, <2>2
  <2>4. QED
    BY <2>3 DEF d
<1>5. deficit' \in [Lcid -> Nat] /\ \A l \in Lcid : deficit[l] <= deficit'[l]
  BY <1>3, <1>4
<1>6. TypeOK'
  BY <1>1, <1>2, <1>5, SizeAssumption DEF TypeOK, TickPass, frame, llc
<1>7. packed' = packed
  BY <1>1 DEF frame
<1>8. OneEach'
  BY <1>1, <1>7 DEF OneEach
<1>9. DataIsNoted'
  <2>1. CASE pc = "probe"
    BY <1>1, <1>7, <2>1 DEF DataIsNoted
  <2>2. CASE pc = "serve"
    BY <1>1, <1>7, <2>2 DEF DataIsNoted
  <2>3. QED
    BY <1>1, <2>1, <2>2 DEF TypeOK
<1>10. ChargeCovered'
  <2> SUFFICES ASSUME NEW l \in schedules_cache, has_data_allocated[l]
               PROVE  current_alloc[l] <= deficit'[l]
    BY <1>1 DEF ChargeCovered
  <2>1. l \in Lcid /\ current_alloc[l] \in Nat /\ deficit[l] \in Nat
    BY <1>1 DEF TypeOK
  <2>2. current_alloc[l] <= deficit[l]
    BY <1>1 DEF ChargeCovered
  <2>3. deficit[l] <= deficit'[l] /\ deficit'[l] \in Nat
    BY <1>5, <2>1
  <2>4. QED
    BY <2>1, <2>2, <2>3
<1>11. QED
  BY <1>6, <1>8, <1>9, <1>10 DEF TInv

(* TickServe asks a channel that has no data in the frame. *)
LEMMA TickServeT ==
  ASSUME TInv, TickServe
  PROVE  TInv'
<1> DEFINE l == Head(todo)
           size == Share(l)
<1>1. /\ TypeOK /\ OneEach /\ DataIsNoted /\ ChargeCovered
      /\ pc = "serve" /\ pc' = "serve" /\ todo # <<>> /\ todo' = Tail(todo)
      /\ ~has_data_allocated[l]
      /\ schedules_cache' = schedules_cache /\ deficit' = deficit
  BY DEF TInv, TickServe, Servable
<1>2. l \in Lcid /\ todo' \in Seq(Lcid)
  BY <1>1 DEF TypeOK
<1>3. frame_payload_remaining \in Nat /\ deficit[l] \in Nat
  BY <1>1, <1>2, SizeAssumption DEF TypeOK
<1>4. size \in Nat /\ size <= frame_payload_remaining /\ size <= deficit[l]
  BY <1>3 DEF Share, MinOf
<1>5. PICK r \in on_tx(l, size, TRUE) :
        /\ Loaded(l, r)
        /\ has_data_allocated' = [has_data_allocated EXCEPT ![l] = r.loaded]
        /\ current_alloc' = [current_alloc EXCEPT ![l] = r.alloc]
  BY DEF TickServe
<1>6. max_quanta_allocated' \in Nat /\ schedulable_count' \in Nat
  BY <1>1, <1>3 DEF TickServe, TypeOK
<1> HIDE DEF l, size
<1>7. Fitting(r, l, size)
  BY <1>1, <1>2, <1>4, <1>5, OnTxFits
<1>8. r.loaded \in BOOLEAN /\ r.alloc \in Nat /\ r.alloc <= deficit[l]
  <2>1. r.loaded \in BOOLEAN /\ r.alloc \in Nat /\ r.alloc <= size
    BY <1>7 DEF Fitting, Result
  <2> DEFINE a == r.alloc
  <2> HIDE DEF a
  <2>2. a <= deficit[l]
    BY <1>3, <1>4, <2>1 DEF a
  <2>3. QED
    BY <2>1, <2>2 DEF a
<1>9. /\ frame_payload_remaining' \in 0..FrameData
      /\ buffer' \in [0..(FrameData - 1) -> Pdu]
      /\ backlog' \in [Lcid -> Nat] /\ to_ack' \in [Lcid -> Nat] /\ to_retx' \in [Lcid -> Nat]
      /\ enabled' \in [Lcid -> BOOLEAN]
      /\ packed' \in Seq(Pdu)
  BY <1>1, <1>2, <1>4, <1>5, <1>7, LoadedTypes
<1>10. current_alloc' \in [Lcid -> Nat] /\ has_data_allocated' \in [Lcid -> BOOLEAN]
  BY <1>1, <1>2, <1>5, <1>8 DEF TypeOK
<1>11. TypeOK'
  BY <1>1, <1>2, <1>6, <1>9, <1>10 DEF TypeOK, TickServe
<1>12. \A k \in 1..Len(packed) : packed[k].data => packed[k].lcid # l
  BY <1>1 DEF DataIsNoted
<1>13. \A k \in 1..Len(packed') :
         \/ k \in 1..Len(packed) /\ packed'[k] = packed[k]
         \/ /\ k - Len(packed) \in 1..Len(r.pdus)
            /\ packed'[k] = r.pdus[k - Len(packed)]
  BY <1>1, <1>2, <1>4, <1>5, <1>7, LoadedPdus
<1>14. /\ \A k \in 1..Len(r.pdus) : r.pdus[k].lcid = l /\ (r.pdus[k].data => r.loaded)
       /\ \A j, k \in 1..Len(r.pdus) : r.pdus[j].data /\ r.pdus[k].data => j = k
  BY <1>7 DEF Fitting
<1>15. OneEach'
  <2> SUFFICES ASSUME NEW j \in 1..Len(packed'), NEW k \in 1..Len(packed'),
                      packed'[j].data, packed'[k].data, packed'[j].lcid = packed'[k].lcid
               PROVE  j = k
    BY DEF OneEach
  <2>1. CASE j \in 1..Len(packed) /\ packed'[j] = packed[j]
    <3>1. packed[j].lcid # l
      BY <1>12, <2>1
    <3>2. k \in 1..Len(packed) /\ packed'[k] = packed[k]
      BY <1>13, <1>14, <2>1, <3>1
    <3>3. QED
      BY <1>1, <2>1, <3>2 DEF OneEach
  <2>2. CASE /\ j - Len(packed) \in 1..Len(r.pdus)
             /\ packed'[j] = r.pdus[j - Len(packed)]
    <3>1. packed'[j].lcid = l
      BY <1>14, <2>2
    <3>2. k - Len(packed) \in 1..Len(r.pdus) /\ packed'[k] = r.pdus[k - Len(packed)]
      BY <1>12, <1>13, <3>1
    <3>3. j - Len(packed) = k - Len(packed)
      BY <1>14, <2>2, <3>2
    <3>4. Len(packed) \in Nat
      BY <1>1 DEF TypeOK
    <3>5. QED
      BY <3>3, <3>4
  <2>3. QED
    BY <1>13, <2>1, <2>2
<1>16. DataIsNoted'
  <2> SUFFICES ASSUME NEW k \in 1..Len(packed'), packed'[k].data
               PROVE  has_data_allocated'[packed'[k].lcid]
    BY <1>1 DEF DataIsNoted
  <2>1. CASE k \in 1..Len(packed) /\ packed'[k] = packed[k]
    <3>1. packed[k].lcid # l /\ has_data_allocated[packed[k].lcid]
      BY <1>1, <1>12, <2>1 DEF DataIsNoted
    <3>2. packed[k] \in Pdu
      BY <1>1, <2>1 DEF TypeOK
    <3>3. packed[k].lcid \in Lcid
      BY <3>2 DEF Pdu
    <3>4. QED
      BY <1>1, <1>5, <2>1, <3>1, <3>3 DEF TypeOK
  <2>2. CASE /\ k - Len(packed) \in 1..Len(r.pdus)
             /\ packed'[k] = r.pdus[k - Len(packed)]
    <3>1. packed'[k].lcid = l /\ r.loaded
      BY <1>14, <2>2
    <3>2. QED
      BY <1>1, <1>2, <1>5, <3>1 DEF TypeOK
  <2>3. QED
    BY <1>13, <2>1, <2>2
<1>17. ChargeCovered'
  <2> SUFFICES ASSUME NEW m \in schedules_cache, has_data_allocated'[m]
               PROVE  current_alloc'[m] <= deficit[m]
    BY <1>1 DEF ChargeCovered
  <2>1. m \in Lcid
    BY <1>1 DEF TypeOK
  <2>2. CASE m = l
    BY <1>1, <1>5, <1>8, <2>1, <2>2 DEF TypeOK
  <2>3. CASE m # l
    BY <1>1, <1>5, <2>1, <2>3 DEF ChargeCovered, TypeOK
  <2>4. QED
    BY <2>2, <2>3
<1>18. QED
  BY <1>11, <1>15, <1>16, <1>17 DEF TInv

(* TickEnd: what is charged is covered. *)
LEMMA TickEndT ==
  ASSUME TInv, TickEnd
  PROVE  TInv'
<1> DEFINE charged == {l \in schedules_cache : has_data_allocated[l]}
<1>1. /\ TypeOK /\ OneEach /\ ChargeCovered /\ pc # "wait" /\ pc' = "wait"
      /\ packed' = packed
  BY DEF TInv, TickEnd
<1>2. deficit' \in [Lcid -> Nat] /\ current_alloc' \in [Lcid -> Nat]
  <2>1. \A l \in charged : l \in Lcid /\ deficit[l] - current_alloc[l] \in Nat
    <3> SUFFICES ASSUME NEW l \in charged
                 PROVE  l \in Lcid /\ deficit[l] - current_alloc[l] \in Nat
      OBVIOUS
    <3>1. l \in Lcid /\ deficit[l] \in Nat /\ current_alloc[l] \in Nat
      BY <1>1 DEF TypeOK
    <3>2. current_alloc[l] <= deficit[l]
      BY <1>1 DEF ChargeCovered
    <3>3. QED
      BY <3>1, <3>2
  <2>2. deficit' = [l \in Lcid |-> IF l \in charged THEN deficit[l] - current_alloc[l]
                                                    ELSE deficit[l]]
    BY DEF TickEnd, Charged
  <2>3. current_alloc' = [l \in Lcid |-> IF l \in charged THEN 0 ELSE current_alloc[l]]
    BY DEF TickEnd
  <2> HIDE DEF charged
  <2>4. QED
    BY <1>1, <2>1, <2>2, <2>3 DEF TypeOK
<1>3. waited' \in [Lcid -> Nat]
  <2>1. waited' = [l \in Lcid |->
                     IF l \in schedules_cache /\ HasData(l) /\ ~SentData(l)
                     THEN waited[l] + 1 ELSE 0]
    BY DEF TickEnd
  <2>2. \A l \in Lcid : waited[l] + 1 \in Nat
    BY <1>1 DEF TypeOK
  <2>3. QED
    BY <2>1, <2>2
<1>4. todo' \in Seq(Lcid) /\ sent' \in Seq(Pdu)
  BY <1>1 DEF TickEnd, TypeOK
<1>5. /\ UNCHANGED <<load, llcs, slot_number, schedules_cache, has_data_allocated,
                     max_quanta_allocated, schedulable_count, frame_payload_remaining, buffer,
                     packed, llc>>
  BY DEF TickEnd
<1>6. TypeOK'
  BY <1>1, <1>2, <1>3, <1>4, <1>5 DEF TypeOK, llc
<1>7. OneEach' /\ DataIsNoted' /\ ChargeCovered'
  <2>1. OneEach'
    BY <1>1 DEF OneEach
  <2>2. DataIsNoted'
    BY <1>1 DEF DataIsNoted
  <2>3. ChargeCovered'
    BY <1>1 DEF ChargeCovered
  <2>4. QED
    BY <2>1, <2>2, <2>3
<1>8. QED
  BY <1>6, <1>7 DEF TInv

(***************************************************************************)
(* remove_llc runs between ticks, and the other threads leave the          *)
(* scheduler's state alone.                                                *)
(***************************************************************************)
LEMMA OthersT ==
  ASSUME TInv, NEW l \in Lcid,
         remove_llc(l) \/ Arrive(l) \/ AckDue(l) \/ RetxDue(l) \/ SetTxEnabled(l)
  PROVE  TInv'
<1>1. TypeOK /\ OneEach /\ DataIsNoted /\ ChargeCovered
  BY DEF TInv
<1>2. CASE remove_llc(l)
  <2>1. pc = "wait" /\ pc' = "wait" /\ packed' = packed
    BY <1>2 DEF remove_llc, pass, frame
  <2>2. TypeOK'
    BY <1>1, <1>2 DEF remove_llc, TypeOK, pass, frame, llc
  <2>3. OneEach' /\ DataIsNoted' /\ ChargeCovered'
    BY <1>1, <2>1 DEF OneEach, DataIsNoted, ChargeCovered
  <2>4. QED
    BY <2>2, <2>3 DEF TInv
<1>3. CASE Arrive(l) \/ AckDue(l) \/ RetxDue(l) \/ SetTxEnabled(l)
  <2>1. UNCHANGED <<load, sched, pass, frame, waited>>
    BY <1>3 DEF Arrive, AckDue, RetxDue, SetTxEnabled
  <2>2. /\ backlog' \in [Lcid -> Nat] /\ to_ack' \in [Lcid -> Nat] /\ to_retx' \in [Lcid -> Nat]
        /\ enabled' \in [Lcid -> BOOLEAN]
    <3>1. CASE Arrive(l)
      BY <1>1, <3>1 DEF Arrive, TypeOK
    <3>2. CASE AckDue(l)
      BY <1>1, <3>2 DEF AckDue, TypeOK
    <3>3. CASE RetxDue(l)
      BY <1>1, <3>3 DEF RetxDue, TypeOK
    <3>4. CASE SetTxEnabled(l)
      BY <1>1, <3>4 DEF SetTxEnabled, TypeOK
    <3>5. QED
      BY <1>3, <3>1, <3>2, <3>3, <3>4
  <2>3. TypeOK'
    BY <1>1, <2>1, <2>2 DEF TypeOK, sched, pass, frame
  <2>4. OneEach' /\ DataIsNoted' /\ ChargeCovered'
    BY <1>1, <2>1 DEF OneEach, DataIsNoted, ChargeCovered, sched, pass, frame
  <2>5. QED
    BY <2>3, <2>4 DEF TInv
<1>4. QED
  BY <1>2, <1>3

(* Every step keeps the invariant. *)
LEMMA NextT == TInv /\ [Next]_vars => TInv'
<1> SUFFICES ASSUME TInv, [Next]_vars PROVE TInv'
  OBVIOUS
<1>1. CASE UNCHANGED vars
  BY <1>1 DEF vars, sched, pass, frame, llc, TInv, TypeOK, OneEach, DataIsNoted, ChargeCovered
<1>2. CASE Next
  BY <1>2, TickBeginT, TickProbeT, TickPassT, TickServeT, TickEndT, OthersT DEF Next, Tick
<1>3. QED
  BY <1>1, <1>2
-----------------------------------------------------------------------------
(***************************************************************************)
(* The fields of TxScheduler keep their types: neither the room left in a  *)
(* frame nor a deficit, both unsigned in TxScheduler.hpp, is ever taken    *)
(* below zero, whatever the quanta, the sizes and the traffic.             *)
(***************************************************************************)
THEOREM TypeCorrect == Spec => []TypeOK
<1>1. Spec => []TInv
  BY InitT, NextT, PTL DEF Spec
<1>2. TInv => TypeOK
  BY DEF TInv
<1>3. QED
  BY <1>1, <1>2, PTL

(***************************************************************************)
(* A channel has at most one data PDU in a frame, which LLC::on_tx relies  *)
(* on: it keeps what it sent for retransmission by slot number.            *)
(***************************************************************************)
THEOREM OneDataPduPerSlotHolds == Spec => []OneDataPduPerSlot
<1>1. Spec => []TInv
  BY InitT, NextT, PTL DEF Spec
<1>2. TInv => OneDataPduPerSlot
  <2> SUFFICES ASSUME TInv, NEW l \in Lcid
               PROVE  Cardinality({k \in DOMAIN packed : packed[k].lcid = l /\ packed[k].data})
                        <= 1
    BY DEF OneDataPduPerSlot
  <2> DEFINE S == {k \in DOMAIN packed : packed[k].lcid = l /\ packed[k].data}
  <2>1. DOMAIN packed = 1..Len(packed)
    BY DEF TInv, TypeOK
  <2>2. \A j, k \in S : j = k
    BY <2>1 DEF TInv, OneEach
  <2> HIDE DEF S
  <2>3. CASE S = {}
    <3>1. Cardinality(S) = 0
      BY <2>3, FS_EmptySet
    <3>2. QED
      BY <3>1 DEF S
  <2>4. CASE S # {}
    <3>1. PICK x : x \in S
      BY <2>4
    <3>2. S = {x}
      BY <2>2, <3>1
    <3>3. Cardinality(S) = 1
      BY <3>2, FS_Singleton
    <3>4. QED
      BY <3>3 DEF S
  <2>5. QED
    BY <2>3, <2>4
<1>3. QED
  BY <1>1, <1>2, PTL
-----------------------------------------------------------------------------
(***************************************************************************)
(* The frame as it is laid out: pos[k] is where the k-th PDU begins and    *)
(* the next one follows it; the buffer holds it there.                     *)
(***************************************************************************)
LaidOut(pos, pdus, end, buf) ==
  /\ pos[1] = 0
  /\ pos[Len(pdus) + 1] = end
  /\ \A k \in 1..Len(pdus) :
       /\ pos[k] \in Nat /\ pos[k] >= k - 1
       /\ pos[k + 1] = pos[k] + pdus[k].size
       /\ pdus[k].size >= HeaderSize
       /\ pos[k + 1] <= end
       /\ buf[pos[k]] = pdus[k]
Layout == \E pos : LaidOut(pos, packed, cursor, buffer)

(* out_allocated is the size of the PDUs written, or zero if they are to   *)
(* be overwritten.                                                         *)
SizeOf(pdus) ==
  IF Len(pdus) = 0 THEN 0
  ELSE IF Len(pdus) = 1 THEN pdus[1].size ELSE pdus[1].size + pdus[2].size
Exact(r) ==
  /\ Len(r.pdus) <= 2
  /\ \A k \in 1..Len(r.pdus) : r.pdus[k].size >= HeaderSize
  /\ r.alloc = 0 \/ r.alloc = SizeOf(r.pdus)

(* Acknowledgements only: at most one PDU, and its size is out_allocated. *)
ExactAcks(r) ==
  /\ Len(r.pdus) <= 1
  /\ \A k \in 1..Len(r.pdus) : r.pdus[k].size >= HeaderSize
  /\ r.alloc = SizeOf(r.pdus)

(* Of two PDUs that fit into a frame, the second begins inside it and after the first. *)
LEMMA RoomForSecond ==
  ASSUME NEW x \in Nat, NEW first \in Nat, NEW second \in Nat, NEW h \in Nat \ {0},
         NEW room \in Nat, first >= h, second >= h, (x + first) + second <= room
  PROVE  x + first \in 0..(room - 1) /\ x + first # x
OBVIOUS

(* Small numbers. *)
LEMMA UpToTwo ==
  ASSUME NEW n \in Nat
  PROVE  /\ n <= 1 => n = 0 \/ n = 1
         /\ n <= 2 => n = 0 \/ n = 1 \/ n = 2
OBVIOUS

(* The PDUs of two sequences put together. *)
LEMMA ConcatIs ==
  ASSUME NEW s \in Seq(Pdu), NEW t \in Seq(Pdu)
  PROVE  /\ s \o t \in Seq(Pdu) /\ Len(s \o t) = Len(s) + Len(t)
         /\ \A k \in 1..Len(s) : (s \o t)[k] = s[k]
         /\ \A k \in 1..Len(t) : (s \o t)[Len(s) + k] = t[k]
OBVIOUS

(* WithAcks writes at most one PDU. *)
LEMMA WithAcksExact ==
  ASSUME TypeOK, NEW l \in Lcid, NEW size \in Nat, size > HeaderSize
  PROVE  ExactAcks(WithAcks(l, size)) /\ ExactAcks(Nothing(l))
         /\ ExactAcks([Nothing(l) EXCEPT !.available = FALSE])
<1> DEFINE n == AcksFitting(l, size)
           alloc == HeaderSize + n * AckSize
           pdu == [lcid |-> l, data |-> FALSE, size |-> alloc]
           one == <<pdu>>
           r == WithAcks(l, size)
           z == [Nothing(l) EXCEPT !.available = FALSE]
<1>1. Nothing(l).pdus = <<>> /\ Nothing(l).alloc = 0 /\ z.pdus = <<>> /\ z.alloc = 0
  BY DEF Nothing
<1>2. Len(<<>>) = 0 /\ 1..0 = {}
  OBVIOUS
<1>3. ExactAcks(Nothing(l))
  BY <1>1, <1>2 DEF ExactAcks, SizeOf
<1>4. ExactAcks(z)
  <2> HIDE DEF z
  <2>1. QED
    BY <1>1, <1>2 DEF ExactAcks, SizeOf
<1>5. CASE to_ack[l] = 0
  BY <1>3, <1>4, <1>5 DEF WithAcks
<1>6. CASE to_ack[l] # 0
  <2>1. n * AckSize \in Nat
    BY AcksFit
  <2>2. alloc \in Nat /\ alloc >= HeaderSize
    BY <2>1, SizeAssumption
  <2>3. r.pdus = one /\ r.alloc = alloc
    BY <1>6 DEF WithAcks, Nothing
  <2>4. pdu.size = alloc
    OBVIOUS
  <2> HIDE DEF pdu, alloc
  <2>5. Len(one) = 1 /\ one[1] = pdu /\ 1..1 = {1}
    OBVIOUS
  <2> HIDE DEF one, r
  <2>6. ExactAcks(r)
    BY <2>2, <2>3, <2>4, <2>5 DEF ExactAcks, SizeOf
  <2>7. QED
    BY <2>6, <1>3, <1>4 DEF r
<1>7. QED
  BY <1>5, <1>6

(* WithData adds one PDU, of the size it adds to out_allocated. *)
LEMMA WithDataExact ==
  ASSUME NEW l \in Lcid, NEW r \in Result, ExactAcks(r), NEW payload \in Nat
  PROVE  Exact(WithData(r, l, payload))
<1> DEFINE q == WithData(r, l, payload)
           p == r.pdus
           pdu == [lcid |-> l, data |-> TRUE, size |-> HeaderSize + payload]
           c == Append(p, pdu)
<1>0. HeaderSize \in Nat
  BY SizeAssumption
<1>1. p \in Seq(Pdu) /\ r.alloc \in Nat
  BY DEF Result
<1>2. Len(p) \in Nat /\ Len(p) <= 1 /\ r.alloc = SizeOf(p)
      /\ \A k \in 1..Len(p) : p[k].size >= HeaderSize
  BY <1>1 DEF ExactAcks
<1>3. CASE payload = 0
  <2>1. q.pdus = p /\ q.alloc = r.alloc
    BY <1>3 DEF WithData, Result
  <2> HIDE DEF q
  <2>2. Exact(q)
    BY <1>2, <2>1 DEF Exact
  <2>3. QED
    BY <2>2 DEF q
<1>4. CASE payload # 0
  <2>1. q.pdus = c /\ q.alloc = r.alloc + HeaderSize + payload
    BY <1>4 DEF WithData, Result
  <2>2. pdu.size = HeaderSize + payload
    OBVIOUS
  <2> HIDE DEF p, pdu
  <2>3. Len(c) = Len(p) + 1 /\ c[Len(p) + 1] = pdu /\ \A k \in 1..Len(p) : c[k] = p[k]
    BY <1>1
  <2> HIDE DEF c, q
  <2>4. \A k \in 1..Len(c) : c[k].size >= HeaderSize
    <3> TAKE k \in 1..Len(c)
    <3>1. k \in 1..Len(p) \/ k = Len(p) + 1
      BY <1>2, <2>3
    <3>2. QED
      BY <3>1, <2>2, <2>3, <1>0, <1>2
  <2>5. SizeOf(c) = SizeOf(p) + pdu.size
    <3>1. CASE Len(p) = 0
      <4>1. Len(c) = 1 /\ c[1] = pdu
        BY <3>1, <2>3
      <4>2. QED
        BY <4>1, <3>1, <2>2, <1>0 DEF SizeOf
    <3>2. CASE Len(p) = 1
      <4>1. Len(c) = 2 /\ c[2] = pdu /\ c[1] = p[1]
        BY <3>2, <2>3
      <4>2. QED
        BY <4>1, <3>2 DEF SizeOf
    <3>3. Len(p) = 0 \/ Len(p) = 1
      BY <1>2, UpToTwo
    <3>4. QED
      BY <3>1, <3>2, <3>3
  <2>6. q.alloc = SizeOf(c)
    BY <2>1, <2>2, <2>5, <1>0, <1>1, <1>2
  <2>7. Exact(q)
    BY <2>1, <2>3, <2>4, <2>6, <1>2 DEF Exact
  <2>8. QED
    BY <2>7 DEF q
<1>5. QED
  BY <1>3, <1>4

(* FromPdcp, which adds a PDU if a frame fits. *)
LEMMA FromPdcpExact ==
  ASSUME NEW l \in Lcid, NEW r \in Result, ExactAcks(r), NEW room \in Nat
  PROVE  Exact(FromPdcp(r, l, room))
<1> DEFINE d == room \div UnitSize[l]
           n == MinOf(r.backlog, d)
           q == [r EXCEPT !.backlog = @ - n]
           payload == n * UnitSize[l]
<1>1. UnitSize[l] \in Nat \ {0} /\ r.backlog \in Nat
  BY SizeAssumption DEF Result
<1>2. d \in Nat
  BY <1>1
<1>3. n \in Nat /\ n <= r.backlog
  BY <1>1, <1>2 DEF MinOf
<1>4. FromPdcp(r, l, room) = WithData(q, l, payload)
  BY DEF FromPdcp
<1> HIDE DEF n
<1>5. payload \in Nat /\ r.backlog - n \in Nat
  BY <1>1, <1>3
<1>6. q \in Result /\ q.pdus = r.pdus /\ q.alloc = r.alloc
  BY <1>5 DEF Result
<1> HIDE DEF q, payload
<1>7. ExactAcks(q)
  BY <1>6 DEF ExactAcks
<1>8. QED
  BY <1>4, <1>5, <1>6, <1>7, WithDataExact

(* LLC::on_tx reports the size of what it wrote, or zero. *)
LEMMA OnTxExact ==
  ASSUME TypeOK, NEW l \in Lcid, NEW size \in Nat, NEW allow \in BOOLEAN,
         NEW r \in on_tx(l, size, allow)
  PROVE  Exact(r)
<1> DEFINE a == WithAcks(l, size)
           taken == IF to_ack[l] = 0 THEN 0 ELSE AcksFitting(l, size) * AckSize
           room == size - HeaderSize - taken
           payload == room - HeaderSize
           q == [a EXCEPT !.to_retx = @ - 1]
           z == [q EXCEPT !.alloc = 0]
<1>1. HeaderSize \in Nat /\ RetxSize[l] \in Nat /\ 1..0 = {} /\ Len(<<>>) = 0
  BY SizeAssumption
<1>2. CASE ~enabled[l] \/ size <= HeaderSize
  <2>1. r = Nothing(l) \/ r = [Nothing(l) EXCEPT !.available = FALSE]
    BY <1>2 DEF on_tx
  <2>2. r.pdus = <<>> /\ r.alloc = 0
    BY <2>1 DEF Nothing
  <2>3. QED
    BY <1>1, <2>2 DEF Exact
<1>3. CASE enabled[l] /\ ~(size <= HeaderSize)
  <2>1. size > HeaderSize
    BY <1>1, <1>3
  <2>2. Empty(a, l, size) /\ a.to_retx = to_retx[l] /\ taken \in Nat
    BY <2>1, WithAcksFits
  <2>3. ExactAcks(a)
    BY <2>1, WithAcksExact
  <2>4. a \in Result
    BY <2>2 DEF Empty, Fitting
  <2>5. Exact(a)
    BY <2>3, <2>4 DEF ExactAcks, Exact, Result
  <2>6. CASE room < HeaderSize \/ ~allow
    <3>1. r = a
      BY <1>3, <2>6 DEF on_tx
    <3>2. QED
      BY <2>5, <3>1
  <2>7. CASE ~(room < HeaderSize) /\ allow
    <3>1. payload \in Nat
      BY <1>1, <2>1, <2>2, <2>7
    <3>2. \/ r = FromPdcp(a, l, payload)
          \/ r = a
          \/ to_retx[l] # 0 /\ r = WithData(q, l, RetxSize[l])
          \/ to_retx[l] # 0 /\ r = GivenUp(a, l, payload)
      BY <1>3, <2>7 DEF on_tx
    <3>3. ASSUME to_retx[l] # 0
          PROVE  /\ q \in Result /\ q.pdus = a.pdus /\ q.alloc = a.alloc
                 /\ z.pdus = a.pdus /\ z.alloc = 0
      <4>1. a.to_retx - 1 \in Nat
        BY <2>2, <2>4, <3>3 DEF Result, TypeOK
      <4>2. QED
        BY <2>4, <4>1 DEF Result
    <3>4. GivenUp(a, l, payload) = IF load.allow_rlf THEN z ELSE FromPdcp(q, l, payload)
      BY DEF GivenUp
    <3> HIDE DEF a, payload, q, z
    <3>5. ASSUME to_retx[l] # 0
          PROVE  ExactAcks(q) /\ Exact(z)
      <4>1. ExactAcks(q)
        BY <2>3, <3>3, <3>5 DEF ExactAcks
      <4>2. Exact(z)
        BY <2>5, <3>3, <3>5 DEF Exact
      <4>3. QED
        BY <4>1, <4>2
    <3>6. Exact(FromPdcp(a, l, payload))
      BY <2>3, <2>4, <3>1, FromPdcpExact
    <3>7. to_retx[l] # 0 => Exact(WithData(q, l, RetxSize[l]))
      BY <1>1, <3>3, <3>5, WithDataExact
    <3>8. to_retx[l] # 0 => Exact(GivenUp(a, l, payload))
      BY <3>1, <3>3, <3>4, <3>5, FromPdcpExact
    <3>9. QED
      BY <2>5, <3>2, <3>6, <3>7, <3>8
  <2>8. QED
    BY <2>6, <2>7
<1>4. QED
  BY <1>2, <1>3

(* The PDUs of a sequence of them. *)
LEMMA PduSizes ==
  ASSUME NEW s \in Seq(Pdu), NEW k \in 1..Len(s)
  PROVE  s[k] \in Pdu /\ s[k].size \in Nat
<1>1. s[k] \in Pdu
  OBVIOUS
<1>2. QED
  BY <1>1 DEF Pdu

(* Nothing written at the end of the frame or after it disturbs a PDU. *)
LEMMA LaidOutKeeps ==
  ASSUME NEW pos, NEW pdus, Len(pdus) \in Nat, NEW end \in Nat, NEW buf, NEW new,
         LaidOut(pos, pdus, end, buf), \A i \in 0..(end - 1) : new[i] = buf[i],
         \A k \in 1..Len(pdus) : pdus[k].size \in Nat
  PROVE  LaidOut(pos, pdus, end, new)
<1>1. ASSUME NEW k \in 1..Len(pdus)
      PROVE  new[pos[k]] = buf[pos[k]]
  <2>1. /\ pos[k] \in Nat /\ pos[k + 1] = pos[k] + pdus[k].size
        /\ pdus[k].size >= HeaderSize /\ pos[k + 1] <= end
    BY DEF LaidOut
  <2>2. HeaderSize \in Nat \ {0} /\ pdus[k].size \in Nat
    BY SizeAssumption
  <2>3. pos[k] \in 0..(end - 1)
    BY <2>1, <2>2
  <2>4. QED
    BY <2>3
<1>2. QED
  BY <1>1 DEF LaidOut

(* A PDU is written at the end of the frame. *)
LEMMA LaidOutAppend ==
  ASSUME NEW pos, NEW pdus \in Seq(Pdu), NEW end \in Nat, NEW buf,
         LaidOut(pos, pdus, end, buf),
         NEW pdu \in Pdu, pdu.size >= HeaderSize, buf[end] = pdu
  PROVE  \E new : LaidOut(new, Append(pdus, pdu), end + pdu.size, buf)
<1> DEFINE n == Len(pdus)
           c == Append(pdus, pdu)
           new == [k \in 1..(n + 2) |-> IF k <= n + 1 THEN pos[k] ELSE end + pdu.size]
<1>0. HeaderSize \in Nat \ {0} /\ pdu.size \in Nat
  BY SizeAssumption DEF Pdu
<1>1. n \in Nat /\ Len(c) = n + 1 /\ c[n + 1] = pdu /\ \A k \in 1..n : c[k] = pdus[k]
  OBVIOUS
<1>2. new[n + 2] = end + pdu.size /\ \A k \in 1..(n + 1) : new[k] = pos[k]
  BY <1>1
<1>3. /\ pos[1] = 0 /\ pos[n + 1] = end
      /\ \A k \in 1..n :
           /\ pos[k] \in Nat /\ pos[k] >= k - 1
           /\ pos[k + 1] = pos[k] + pdus[k].size
           /\ pdus[k].size >= HeaderSize
           /\ pos[k + 1] <= end
           /\ buf[pos[k]] = pdus[k]
  BY DEF LaidOut
<1>4. \A k \in 1..n : pdus[k].size \in Nat
  BY PduSizes
<1>5. end >= n
  <2>1. CASE n = 0
    BY <2>1
  <2>2. CASE n # 0
    <3>1. n \in 1..n
      BY <1>1, <2>2
    <3>2. /\ pos[n] \in Nat /\ pos[n] >= n - 1 /\ pos[n + 1] = pos[n] + pdus[n].size
          /\ pdus[n].size >= HeaderSize /\ pos[n + 1] = end /\ pdus[n].size \in Nat
      BY <3>1, <1>3, <1>4
    <3> DEFINE at == pos[n]
               z == pdus[n].size
    <3>3. at \in Nat /\ at >= n - 1 /\ end = at + z /\ z >= HeaderSize /\ z \in Nat
      BY <3>2
    <3> HIDE DEF at, z, n
    <3>4. QED
      BY <3>3, <1>0, <1>1
  <2>3. QED
    BY <2>1, <2>2
<1> HIDE DEF c, new, n
<1>6. ASSUME NEW k \in 1..Len(c)
      PROVE  /\ new[k] \in Nat /\ new[k] >= k - 1
             /\ new[k + 1] = new[k] + c[k].size
             /\ c[k].size >= HeaderSize
             /\ new[k + 1] <= end + pdu.size
             /\ buf[new[k]] = c[k]
  <2>1. CASE k \in 1..n
    <3>1. k \in 1..(n + 1) /\ k + 1 \in 1..(n + 1)
      BY <1>1, <2>1
    <3>2. new[k] = pos[k] /\ new[k + 1] = pos[k + 1] /\ c[k] = pdus[k]
      BY <3>1, <2>1, <1>1, <1>2
    <3>3. /\ pos[k] \in Nat /\ pos[k] >= k - 1
          /\ pos[k + 1] = pos[k] + pdus[k].size
          /\ pdus[k].size >= HeaderSize
          /\ pos[k + 1] <= end
          /\ buf[pos[k]] = pdus[k]
      BY <2>1, <1>3
    <3>4. pdus[k].size \in Nat
      BY <2>1, <1>4
    <3>5. pos[k + 1] <= end + pdu.size
      BY <3>3, <3>4, <1>0
    <3>6. QED
      BY <3>2, <3>3, <3>5
  <2>2. CASE k = n + 1
    <3>1. k \in 1..(n + 1) /\ k + 1 = n + 2 /\ k - 1 = n
      BY <1>1, <2>2
    <3>2. new[k] = end /\ new[k + 1] = end + pdu.size /\ c[k] = pdu
      BY <3>1, <2>2, <1>1, <1>2, <1>3
    <3>3. QED
      BY <3>1, <3>2, <1>0, <1>5
  <2>3. QED
    BY <2>1, <2>2, <1>1
<1>7. new[1] = 0
  BY <1>1, <1>2, <1>3
<1>8. new[Len(c) + 1] = end + pdu.size
  <2>1. Len(c) + 1 = n + 2
    BY <1>1
  <2>2. QED
    BY <2>1, <1>2
<1>9. LaidOut(new, c, end + pdu.size, buf)
  BY <1>6, <1>7, <1>8 DEF LaidOut
<1>10. QED
  BY <1>9 DEF c

(* What LLC::on_tx writes extends the frame, or is to be overwritten. *)
LEMMA LoadedLayout ==
  ASSUME TypeOK, Layout, NEW l \in Lcid, NEW size \in Nat, size <= frame_payload_remaining,
         NEW r, Fitting(r, l, size), Exact(r), Loaded(l, r)
  PROVE  Layout'
<1> DEFINE p == r.pdus
           end == cursor
           new == Written(p)
<1>1. PICK pos : LaidOut(pos, packed, end, buffer)
  BY DEF Layout
<1>2. /\ p \in Seq(Pdu) /\ Len(p) \in Nat /\ r.alloc \in Nat /\ r.alloc <= size
      /\ Len(p) <= 2 /\ (r.alloc = 0 \/ r.alloc = SizeOf(p))
      /\ \A k \in 1..Len(p) : p[k].size >= HeaderSize
  BY DEF Fitting, Result, Exact
<1>3. /\ packed \in Seq(Pdu) /\ buffer \in [0..(FrameData - 1) -> Pdu]
      /\ frame_payload_remaining \in 0..FrameData /\ FrameData \in Nat
      /\ HeaderSize \in Nat \ {0}
  BY SizeAssumption DEF TypeOK
<1>4. end \in Nat /\ end + r.alloc <= FrameData /\ cursor' = end + r.alloc
  BY <1>2, <1>3 DEF cursor, Loaded
<1>5. buffer' = new /\ packed' = IF r.alloc = 0 THEN packed ELSE packed \o p
  BY DEF Loaded
<1>6. new = [i \in 0..(FrameData - 1) |->
               IF Len(p) >= 1 /\ i = end THEN p[1]
               ELSE IF Len(p) = 2 /\ i = end + p[1].size THEN p[2]
               ELSE buffer[i]]
  BY <1>3 DEF Written
<1>7. \A k \in 1..Len(p) : p[k] \in Pdu /\ p[k].size \in Nat
  BY <1>2, PduSizes
<1> HIDE DEF p, new, end
<1>8. \A i \in 0..(end - 1) : new[i] = buffer[i]
  <2> TAKE i \in 0..(end - 1)
  <2>1. i \in 0..(FrameData - 1) /\ i # end
    BY <1>2, <1>3, <1>4
  <2>2. ASSUME Len(p) = 2 PROVE i # end + p[1].size
    <3>1. 1 \in 1..Len(p)
      BY <2>2
    <3>2. p[1].size \in Nat
      BY <3>1, <1>7
    <3>3. QED
      BY <3>2, <1>4
  <2>3. QED
    BY <2>1, <2>2, <1>6
<1>9. LaidOut(pos, packed, end, new)
  <2>1. \A k \in 1..Len(packed) : packed[k].size \in Nat
    BY <1>3, PduSizes
  <2>2. Len(packed) \in Nat
    BY <1>3
  <2>3. QED
    BY <1>1, <1>4, <1>8, <2>1, <2>2, LaidOutKeeps
<1>10. CASE r.alloc = 0
  <2>1. packed' = packed /\ cursor' = end /\ buffer' = new
    BY <1>4, <1>5, <1>10
  <2>2. \E q : LaidOut(q, packed, end, new)
    BY <1>9
  <2>3. QED
    BY <2>1, <2>2 DEF Layout
<1>11. CASE r.alloc # 0
  <2> DEFINE c == packed \o p
  <2>1. r.alloc = SizeOf(p) /\ packed' = c
    BY <1>2, <1>5, <1>11
  <2>2. Len(p) = 1 \/ Len(p) = 2
    <3>1. Len(p) # 0
      BY <2>1, <1>11 DEF SizeOf
    <3>2. QED
      BY <3>1, <1>2, UpToTwo
  <2>3. 1 \in 1..Len(p)
    BY <2>2
  <2>4. p[1] \in Pdu /\ p[1].size \in Nat /\ p[1].size >= HeaderSize
    BY <2>3, <1>2, <1>7
  <2>5. end + p[1].size <= FrameData
    <3>1. CASE Len(p) = 1
      BY <3>1, <2>1, <1>4 DEF SizeOf
    <3>2. CASE Len(p) = 2
      <4>1. 2 \in 1..Len(p)
        BY <3>2
      <4>2. p[2].size \in Nat
        BY <4>1, <1>7
      <4>3. QED
        BY <3>2, <2>1, <2>4, <4>2, <1>3, <1>4 DEF SizeOf
    <3>3. QED
      BY <2>2, <3>1, <3>2
  <2>6. new[end] = p[1]
    <3>1. end \in 0..(FrameData - 1)
      BY <2>4, <2>5, <1>3, <1>4
    <3>2. QED
      BY <3>1, <2>2, <1>6
  <2> DEFINE c1 == Append(packed, p[1])
  <2>7. PICK pos1 : LaidOut(pos1, c1, end + p[1].size, new)
    BY <1>3, <1>4, <1>9, <2>4, <2>6, LaidOutAppend
  <2>8. CASE Len(p) = 1
    <3>1. c = c1
      <4>1. p \in Seq(Pdu) /\ Len(packed) \in Nat /\ 1..1 = {1}
        BY <1>2, <1>3
      <4>2. /\ c \in Seq(Pdu) /\ Len(c) = Len(packed) + 1
            /\ \A k \in 1..Len(packed) : c[k] = packed[k]
            /\ c[Len(packed) + 1] = p[1]
        <5>1. /\ c \in Seq(Pdu) /\ Len(c) = Len(packed) + Len(p)
              /\ \A k \in 1..Len(packed) : c[k] = packed[k]
              /\ \A k \in 1..Len(p) : c[Len(packed) + k] = p[k]
          BY <4>1, <1>3, ConcatIs
        <5> HIDE DEF c
        <5>2. QED
          BY <5>1, <2>3, <2>8
      <4>3. /\ c1 \in Seq(Pdu) /\ Len(c1) = Len(packed) + 1 /\ c1[Len(packed) + 1] = p[1]
            /\ \A k \in 1..Len(packed) : c1[k] = packed[k]
        BY <1>3, <2>4
      <4> HIDE DEF c, c1
      <4>4. \A k \in 1..Len(c) : k \in 1..Len(packed) \/ k = Len(packed) + 1
        BY <4>1, <4>2
      <4>5. \A k \in 1..Len(c) : c[k] = c1[k]
        BY <4>2, <4>3, <4>4
      <4>6. QED
        BY <4>2, <4>3, <4>5, SeqEqual
    <3>2. SizeOf(p) = p[1].size
      BY <2>8 DEF SizeOf
    <3>21. cursor' = end + p[1].size
      BY <3>2, <2>1, <1>4
    <3>3. \E q : LaidOut(q, c, end + p[1].size, new)
      BY <2>7, <3>1
    <3> HIDE DEF c, c1
    <3>4. QED
      BY <3>21, <3>3, <2>1, <1>5 DEF Layout
  <2>9. CASE Len(p) = 2
    <3>1. 2 \in 1..Len(p)
      BY <2>9
    <3>2. p[2] \in Pdu /\ p[2].size \in Nat /\ p[2].size >= HeaderSize
      BY <3>1, <1>2, <1>7
    <3>21. SizeOf(p) = p[1].size + p[2].size
      BY <2>9 DEF SizeOf
    <3>22. end + SizeOf(p) = (end + p[1].size) + p[2].size
      BY <3>21, <2>4, <3>2, <1>4
    <3>3. cursor' = (end + p[1].size) + p[2].size
      BY <3>22, <2>1, <1>4
    <3>4. (end + p[1].size) + p[2].size <= FrameData
      BY <3>22, <2>1, <1>4
    <3>5. new[end + p[1].size] = p[2]
      <4>1. end + p[1].size \in 0..(FrameData - 1) /\ end + p[1].size # end
        <5>1. /\ end \in Nat /\ p[1].size \in Nat /\ p[2].size \in Nat
              /\ p[1].size >= HeaderSize /\ p[2].size >= HeaderSize
              /\ HeaderSize \in Nat \ {0} /\ FrameData \in Nat
          BY <2>4, <3>2, <1>3, <1>4
        <5>2. QED
          BY <5>1, <3>4, RoomForSecond
      <4>2. QED
        BY <4>1, <2>9, <1>6
    <3>6. c1 \in Seq(Pdu) /\ end + p[1].size \in Nat
      BY <1>3, <1>4, <2>4
    <3> DEFINE c2 == Append(c1, p[2])
    <3>7. c = c2
      <4>1. Len(c1) = Len(packed) + 1 /\ c1[Len(packed) + 1] = p[1]
            /\ \A k \in 1..Len(packed) : c1[k] = packed[k]
        BY <1>3, <2>4
      <4>2. /\ c \in Seq(Pdu) /\ Len(c) = Len(packed) + 2
            /\ \A k \in 1..Len(packed) : c[k] = packed[k]
            /\ c[Len(packed) + 1] = p[1] /\ c[Len(packed) + 2] = p[2]
        <5>1. p \in Seq(Pdu) /\ Len(p) = 2 /\ 1 \in 1..2 /\ 2 \in 1..2
          BY <1>2, <2>9
        <5>2. QED
          <6>1. /\ c \in Seq(Pdu) /\ Len(c) = Len(packed) + Len(p)
                /\ \A k \in 1..Len(packed) : c[k] = packed[k]
                /\ \A k \in 1..Len(p) : c[Len(packed) + k] = p[k]
            BY <5>1, <1>3, ConcatIs
          <6> HIDE DEF c
          <6>2. QED
            BY <6>1, <5>1
      <4> HIDE DEF c, c1
      <4>3. /\ c2 \in Seq(Pdu) /\ Len(c2) = Len(packed) + 2
            /\ \A k \in 1..(Len(packed) + 1) : c2[k] = c1[k]
            /\ c2[Len(packed) + 2] = p[2]
        BY <4>1, <3>2, <3>6, <1>3
      <4> HIDE DEF c2
      <4>4. Len(packed) \in Nat
        BY <1>3
      <4>5. \A k \in 1..Len(c) : c[k] = c2[k]
        <5> TAKE k \in 1..Len(c)
        <5>1. k \in 1..Len(packed) \/ k = Len(packed) + 1 \/ k = Len(packed) + 2
          BY <4>2, <4>4
        <5>2. k \in 1..Len(packed) => k \in 1..(Len(packed) + 1)
          BY <4>4
        <5>3. Len(packed) + 1 \in 1..(Len(packed) + 1)
          BY <4>4
        <5>4. QED
          BY <5>1, <5>2, <5>3, <4>1, <4>2, <4>3
      <4>6. QED
        BY <4>2, <4>3, <4>5, SeqEqual
    <3> HIDE DEF c1
    <3>8. \E q : LaidOut(q, c2, (end + p[1].size) + p[2].size, new)
      BY <2>7, <3>2, <3>5, <3>6, LaidOutAppend
    <3> HIDE DEF c2, c
    <3>9. QED
      BY <3>3, <3>7, <3>8, <2>1, <1>5 DEF Layout
  <2>10. QED
    BY <2>2, <2>8, <2>9
<1>12. QED
  BY <1>10, <1>11
-----------------------------------------------------------------------------
(* The two loops of the property: process_rx_frame, and the PDUs of the    *)
(* channels it knows.                                                      *)
UnpackRound(u, i) == UnpackOne(u)
Unpacking == INSTANCE Loops WITH Step <- UnpackRound
Taking == INSTANCE Loops WITH Step <- TakeKnown

(* The PDUs of known channels among the first k. *)
LEMMA KnownRounds ==
  ASSUME NEW pdus \in Seq(Pdu)
  PROVE  \E f : /\ f[0] = <<>>
                /\ \A k \in 0..(Len(pdus) - 1) : f[k + 1] = TakeKnown(f[k], pdus[k + 1])
                /\ FoldLeft(TakeKnown, <<>>, pdus) = f[Len(pdus)]
<1> DEFINE n == Len(pdus)
<1>1. n \in Nat /\ DOMAIN pdus = 1..n
  OBVIOUS
<1> HIDE DEF n
<1>2. PICK f : /\ Taking!Rounds(f, <<>>, pdus, n)
               /\ Taking!FoldLeft(TakeKnown, <<>>, pdus) = f[n]
  BY <1>1, Taking!FoldRounds
<1>3. FoldLeft(TakeKnown, <<>>, pdus) = Taking!FoldLeft(TakeKnown, <<>>, pdus)
  BY DEF FoldLeft, MapThenFoldSet, Max,
         Taking!FoldLeft, Taking!MapThenFoldSet, Taking!Max
<1>4. QED
  BY <1>2, <1>3 DEF Taking!Rounds, n

(* The PDUs of a frame are no more than its octets. *)
LEMMA LaidOutLength ==
  ASSUME NEW pos, NEW pdus \in Seq(Pdu), NEW end \in Nat, NEW buf,
         LaidOut(pos, pdus, end, buf)
  PROVE  Len(pdus) <= end
<1> DEFINE n == Len(pdus)
           at == pos[n]
           z == pdus[n].size
<1>1. n \in Nat
  OBVIOUS
<1>2. CASE n = 0
  BY <1>2
<1>3. CASE n # 0
  <2>1. n \in 1..n
    BY <1>1, <1>3
  <2>2. z \in Nat
    BY <2>1, PduSizes
  <2>3. at \in Nat /\ at >= n - 1 /\ end = at + z /\ z >= HeaderSize
    BY <2>1 DEF LaidOut
  <2>4. HeaderSize \in Nat \ {0}
    BY SizeAssumption
  <2> HIDE DEF at, z, n
  <2>5. n <= end
    BY <2>2, <2>3, <2>4, <1>1
  <2>6. QED
    BY <2>5 DEF n
<1>4. QED
  BY <1>2, <1>3

(* One round of process_rx_frame on the k-th PDU. *)
LEMMA UnpackOnePdu ==
  ASSUME NEW at \in Nat, NEW room \in Nat, NEW out, NEW pdu, buffer[at] = pdu,
         pdu.size \in Nat, pdu.size >= HeaderSize, pdu.size <= room
  PROVE  UnpackOne([at |-> at, left |-> room, out |-> out]) =
           [at |-> at + pdu.size, left |-> room - pdu.size, out |-> TakeKnown(out, pdu)]
<1> DEFINE u == [at |-> at, left |-> room, out |-> out]
<1>1. u.at = at /\ u.left = room /\ u.out = out
  OBVIOUS
<1>2. HeaderSize \in Nat \ {0}
  BY SizeAssumption
<1>3. ~(u.left <= 0 \/ HeaderSize > u.left \/ pdu.size = 0) /\ ~(pdu.size > u.left)
  BY <1>1, <1>2
<1>4. CASE pdu.lcid \notin load.known
  <2>1. UnpackOne(u) = PassedOver(u, pdu)
    BY <1>1, <1>3, <1>4 DEF UnpackOne
  <2>2. PassedOver(u, pdu) = [at |-> at + pdu.size, left |-> room - pdu.size, out |-> out]
    <3> DEFINE a == at + pdu.size
               b == room - pdu.size
    <3>1. PassedOver(u, pdu) = [u EXCEPT !.at = a, !.left = b]
      BY DEF PassedOver
    <3> HIDE DEF a, b
    <3>2. [u EXCEPT !.at = a, !.left = b] = [at |-> a, left |-> b, out |-> out]
      <4>1. [u EXCEPT !.at = a] = [at |-> a, left |-> room, out |-> out]
        OBVIOUS
      <4>2. \A x : [[at |-> a, left |-> x, out |-> out] EXCEPT !.left = b] =
                   [at |-> a, left |-> b, out |-> out]
        OBVIOUS
      <4>3. QED
        BY <4>1, <4>2
    <3>3. QED
      BY <3>1, <3>2 DEF a, b
  <2>3. TakeKnown(out, pdu) = out
    BY <1>4 DEF TakeKnown
  <2>4. QED
    BY <2>1, <2>2, <2>3
<1>5. CASE pdu.lcid \in load.known
  <2>1. UnpackOne(u) = [at |-> u.at + pdu.size, left |-> u.left - pdu.size,
                        out |-> Append(u.out, pdu)]
    BY <1>1, <1>3, <1>5 DEF UnpackOne
  <2>2. TakeKnown(out, pdu) = Append(out, pdu)
    BY <1>5 DEF TakeKnown
  <2>3. QED
    BY <1>1, <2>1, <2>2
<1>6. QED
  BY <1>4, <1>5

(* process_rx_frame finds the PDUs of a frame that is laid out so. *)
LEMMA UnpackedLayout ==
  ASSUME TypeOK, Layout
  PROVE  process_rx_frame(cursor) = FoldLeft(TakeKnown, <<>>, packed)
<1> DEFINE end == cursor
           n == Len(packed)
<1>1. PICK pos : LaidOut(pos, packed, end, buffer)
  BY DEF Layout
<1>2. /\ packed \in Seq(Pdu) /\ FrameData \in Nat /\ end \in Nat /\ end <= FrameData /\ n \in Nat
  BY SizeAssumption DEF TypeOK, cursor
<1> HIDE DEF end, n
<1>3. n <= end
  BY <1>1, <1>2, LaidOutLength DEF n
<1>4. PICK f : /\ f[0] = <<>>
               /\ \A k \in 0..(n - 1) : f[k + 1] = TakeKnown(f[k], packed[k + 1])
               /\ FoldLeft(TakeKnown, <<>>, packed) = f[n]
  BY <1>2, KnownRounds DEF n
<1> DEFINE U(k) == [at |-> pos[k + 1], left |-> end - pos[k + 1], out |-> f[k]]
           seq == [i \in 1..FrameData |-> i]
           Inv == [k \in 0..FrameData |-> IF k <= n THEN {U(k)} ELSE {U(n)}]
           base == [at |-> 0, left |-> end, out |-> <<>>]
<1>5. base \in Inv[0]
  <2>1. pos[1] = 0
    BY <1>1 DEF LaidOut
  <2>2. U(0) = base
    BY <2>1, <1>2, <1>4
  <2>3. 0 \in 0..FrameData /\ 0 <= n
    BY <1>2
  <2> HIDE DEF U, base
  <2>4. QED
    BY <2>2, <2>3
<1>6. ASSUME NEW k \in 0..(FrameData - 1), NEW u \in Inv[k]
      PROVE  UnpackRound(u, seq[k + 1]) \in Inv[k + 1]
  <2>1. k \in 0..FrameData /\ k + 1 \in 0..FrameData /\ k \in Nat
    BY <1>2
  <2>2. CASE k < n
    <3>1. k <= n /\ k + 1 <= n /\ k + 1 \in 1..n /\ k \in 0..(n - 1)
      BY <2>1, <2>2, <1>2
    <3>2. Inv[k] = {U(k)} /\ Inv[k + 1] = {U(k + 1)}
      BY <2>1, <3>1
    <3> DEFINE p == packed[k + 1]
               at == pos[k + 1]
               room == end - at
    <3>3. /\ at \in Nat /\ pos[(k + 1) + 1] = at + p.size /\ p.size >= HeaderSize
          /\ pos[(k + 1) + 1] <= end /\ buffer[at] = p
      BY <3>1, <1>1 DEF LaidOut, n
    <3>4. p.size \in Nat
      BY <3>1, <1>2, PduSizes DEF n
    <3>5. room \in Nat /\ p.size <= room
      <4> DEFINE z == p.size
      <4>1. z \in Nat /\ at + z <= end
        BY <3>3, <3>4
      <4> HIDE DEF z, at
      <4>2. room \in Nat /\ z <= room
        BY <4>1, <3>3, <1>2
      <4>3. QED
        BY <4>2 DEF z
    <3>6. f[k + 1] = TakeKnown(f[k], p)
      BY <3>1, <1>4
    <3>7. U(k) = [at |-> at, left |-> room, out |-> f[k]]
      OBVIOUS
    <3>8. U(k + 1) = [at |-> at + p.size, left |-> room - p.size, out |-> TakeKnown(f[k], p)]
      <4>1. end - (at + p.size) = (end - at) - p.size
        BY <3>3, <3>4, <1>2
      <4>2. QED
        BY <3>3, <3>6, <4>1
    <3> HIDE DEF p, at, room, U, Inv
    <3>9. UnpackOne([at |-> at, left |-> room, out |-> f[k]]) =
            [at |-> at + p.size, left |-> room - p.size, out |-> TakeKnown(f[k], p)]
      BY <3>3, <3>4, <3>5, UnpackOnePdu
    <3>10. QED
      BY <3>2, <3>7, <3>8, <3>9 DEF UnpackRound
  <2>3. CASE ~(k < n)
    <3>1. Inv[k] = {U(n)}
      BY <2>1, <2>3, <1>2
    <3>2. Inv[k + 1] = {U(n)}
      BY <2>1, <2>3, <1>2
    <3>3. pos[n + 1] = end
      BY <1>1 DEF LaidOut, n
    <3>4. U(n) = [at |-> end, left |-> 0, out |-> f[n]]
      BY <3>3, <1>2
    <3> DEFINE v == [at |-> end, left |-> 0, out |-> f[n]]
    <3>5. [v EXCEPT !.left = 0] = v /\ v.left = 0
      OBVIOUS
    <3> HIDE DEF v
    <3>6. UnpackOne(v) = v
      BY <3>5 DEF UnpackOne
    <3> HIDE DEF U, Inv
    <3>7. QED
      BY <3>1, <3>2, <3>4, <3>6 DEF UnpackRound, v
  <2>4. QED
    BY <2>2, <2>3
<1>7. DOMAIN seq = 1..FrameData
  OBVIOUS
<1>8. Inv[FrameData] = {U(n)}
  BY <1>2, <1>3
<1>9. U(n).out = f[n]
  OBVIOUS
<1> HIDE DEF U, seq, Inv, base
<1>10. Unpacking!FoldLeft(UnpackRound, base, seq) \in Inv[FrameData]
  BY <1>2, <1>5, <1>6, <1>7, Unpacking!LoopInvariant
<1>11. process_rx_frame(end) = Unpacking!FoldLeft(UnpackRound, base, seq).out
  BY DEF process_rx_frame, base, seq, UnpackRound, FoldLeft, MapThenFoldSet, Max,
         Unpacking!FoldLeft, Unpacking!MapThenFoldSet, Unpacking!Max
<1>12. QED
  BY <1>4, <1>8, <1>9, <1>10, <1>11 DEF end

(***************************************************************************)
(* The invariant of UnpackedAsPacked: while the frame is filled its PDUs   *)
(* lie one after the other.                                                *)
(***************************************************************************)
PInv == TInv /\ Layout /\ UnpackedAsPacked

(* An empty frame is laid out, and nothing is found in it. *)
LEMMA EmptyLayout ==
  ASSUME NEW buf
  PROVE  \E pos : LaidOut(pos, <<>>, 0, buf)
<1> DEFINE pos == [k \in 1..1 |-> 0]
<1>1. LaidOut(pos, <<>>, 0, buf)
  BY DEF LaidOut
<1>2. QED
  BY <1>1

(* The scheduler as it is set up: the frame is empty. *)
LEMMA InitP == Init => PInv
<1> SUFFICES ASSUME Init PROVE PInv
  OBVIOUS
<1>1. packed = <<>> /\ sent = <<>> /\ unpacked = <<>> /\ frame_payload_remaining = FrameData
  BY DEF Init
<1>2. cursor = 0
  BY <1>1, SizeAssumption DEF cursor
<1>3. Layout
  BY <1>1, <1>2, EmptyLayout DEF Layout
<1>4. FoldLeft(TakeKnown, <<>>, <<>>) = <<>>
  <2>1. <<>> \in Seq(Pdu) /\ Len(<<>>) = 0
    OBVIOUS
  <2>2. QED
    BY <2>1, KnownRounds
<1>5. UnpackedAsPacked
  BY <1>1, <1>4 DEF UnpackedAsPacked
<1>6. QED
  BY <1>3, <1>5, InitT DEF PInv

(* What was found stays what was sent while neither changes. *)
LEMMA KeepsUnpacked ==
  ASSUME UnpackedAsPacked, UNCHANGED <<load, unpacked, sent>>
  PROVE  UnpackedAsPacked'
BY DEF UnpackedAsPacked, TakeKnown, FoldLeft, MapThenFoldSet, Max

(* TickBegin empties the frame. *)
LEMMA TickBeginP ==
  ASSUME PInv, TickBegin
  PROVE  PInv'
<1>1. TInv'
  BY TickBeginT DEF PInv
<1>2. packed' = <<>> /\ frame_payload_remaining' = FrameData
      /\ UNCHANGED <<load, unpacked, sent>>
  BY DEF TickBegin
<1>3. cursor' = 0
  BY <1>2, SizeAssumption DEF cursor
<1>4. Layout'
  BY <1>2, <1>3, EmptyLayout DEF Layout
<1>5. QED
  BY <1>1, <1>2, <1>4, KeepsUnpacked DEF PInv

(* TickProbe adds acknowledgements to it. *)
LEMMA TickProbeP ==
  ASSUME PInv, TickProbe
  PROVE  PInv'
<1> DEFINE l == Head(todo)
           most == load.nd_gpdu_max_size[l]
           size == MinOf(frame_payload_remaining, most)
<1>1. TypeOK /\ TInv /\ Layout /\ UnpackedAsPacked
  BY DEF PInv, TInv
<1>2. todo # <<>> /\ UNCHANGED <<load, unpacked, sent>>
  BY DEF TickProbe
<1>3. l \in Lcid
  BY <1>1, <1>2 DEF TypeOK
<1>4. most \in Nat /\ frame_payload_remaining \in Nat
  <2>1. most \in Nat
    BY <1>1, <1>3, LoadTypes
  <2>2. QED
    BY <1>1, <2>1, SizeAssumption DEF TypeOK
<1>5. PICK r \in on_tx(l, size, FALSE) : Loaded(l, r)
  BY DEF TickProbe
<1> HIDE DEF l, most
<1>6. size \in Nat /\ size <= frame_payload_remaining
  BY <1>4 DEF MinOf
<1> HIDE DEF size
<1>7. Fitting(r, l, size) /\ Exact(r)
  BY <1>1, <1>3, <1>5, <1>6, OnTxFits, OnTxExact
<1>8. Layout'
  BY <1>1, <1>3, <1>5, <1>6, <1>7, LoadedLayout
<1>9. QED
  BY <1>1, <1>2, <1>8, TickProbeT, KeepsUnpacked DEF PInv

(* TickServe adds what the channel may send. *)
LEMMA TickServeP ==
  ASSUME PInv, TickServe
  PROVE  PInv'
<1> DEFINE l == Head(todo)
           size == Share(l)
<1>1. TypeOK /\ TInv /\ Layout /\ UnpackedAsPacked
  BY DEF PInv, TInv
<1>2. todo # <<>> /\ UNCHANGED <<load, unpacked, sent>>
  BY DEF TickServe, Servable
<1>3. l \in Lcid
  BY <1>1, <1>2 DEF TypeOK
<1>4. deficit[l] \in Nat /\ frame_payload_remaining \in Nat
  BY <1>1, <1>3, SizeAssumption DEF TypeOK
<1>5. PICK r \in on_tx(l, size, TRUE) : Loaded(l, r)
  BY DEF TickServe
<1> HIDE DEF l
<1>6. size \in Nat /\ size <= frame_payload_remaining
  BY <1>4 DEF Share, MinOf
<1> HIDE DEF size
<1>7. Fitting(r, l, size) /\ Exact(r)
  BY <1>1, <1>3, <1>5, <1>6, OnTxFits, OnTxExact
<1>8. Layout'
  BY <1>1, <1>3, <1>5, <1>6, <1>7, LoadedLayout
<1>9. QED
  BY <1>1, <1>2, <1>8, TickServeT, KeepsUnpacked DEF PInv

(* TickEnd sends the frame. *)
LEMMA TickEndP ==
  ASSUME PInv, TickEnd
  PROVE  PInv'
<1>1. TypeOK /\ TInv /\ Layout /\ UnpackedAsPacked
  BY DEF PInv, TInv
<1>2. UNCHANGED <<load, frame_payload_remaining, buffer, packed>>
  BY DEF TickEnd
<1>3. Layout'
  BY <1>1, <1>2 DEF Layout, cursor
<1>4. UnpackedAsPacked'
  <2>1. CASE cursor > 0
    <3>1. unpacked' = process_rx_frame(cursor) /\ sent' = packed
      BY <2>1 DEF TickEnd
    <3>2. unpacked' = FoldLeft(TakeKnown, <<>>, sent')
      BY <1>1, <3>1, UnpackedLayout
    <3>3. QED
      BY <1>2, <3>2 DEF UnpackedAsPacked, TakeKnown, FoldLeft, MapThenFoldSet, Max
  <2>2. CASE ~(cursor > 0)
    BY <1>1, <1>2, <2>2, KeepsUnpacked DEF TickEnd
  <2>3. QED
    BY <2>1, <2>2
<1>5. QED
  BY <1>1, <1>3, <1>4, TickEndT DEF PInv

(* The other steps leave the frame alone. *)
LEMMA RestP ==
  ASSUME PInv, TInv', UNCHANGED <<load, frame>>
  PROVE  PInv'
<1>1. UNCHANGED <<load, frame_payload_remaining, buffer, packed, unpacked, sent>>
  BY DEF frame
<1>2. Layout'
  BY <1>1 DEF PInv, Layout, cursor
<1>3. QED
  BY <1>1, <1>2, KeepsUnpacked DEF PInv

(* Every step keeps the invariant. *)
LEMMA NextP == PInv /\ [Next]_vars => PInv'
<1> SUFFICES ASSUME PInv, [Next]_vars PROVE PInv'
  OBVIOUS
<1>1. TInv'
  BY NextT DEF PInv
<1>2. CASE UNCHANGED vars
  BY <1>1, <1>2, RestP DEF vars
<1>3. CASE TickPass
  BY <1>1, <1>3, RestP DEF TickPass
<1>4. ASSUME NEW l \in Lcid,
             remove_llc(l) \/ Arrive(l) \/ AckDue(l) \/ RetxDue(l) \/ SetTxEnabled(l)
      PROVE  PInv'
  <2>1. UNCHANGED <<load, frame>>
    BY <1>4 DEF remove_llc, Arrive, AckDue, RetxDue, SetTxEnabled
  <2>2. QED
    BY <1>1, <2>1, RestP
<1>5. QED
  BY <1>2, <1>3, <1>4, TickBeginP, TickProbeP, TickServeP, TickEndP DEF Next, Tick

(***************************************************************************)
(* What AppRRC::process_rx_frame finds in a frame, of the channels it      *)
(* knows, is what the LLCs wrote and in that order, for any number of      *)
(* channels, any sizes and any traffic: no PDU is overwritten by the next  *)
(* one, and nothing that an earlier frame or a PDU given up has left in    *)
(* the buffer is taken for one.                                            *)
(***************************************************************************)
THEOREM UnpackedAsPackedHolds == Spec => []UnpackedAsPacked
<1>1. Spec => []PInv
  BY InitP, NextP, PTL DEF Spec
<1>2. PInv => UnpackedAsPacked
  BY DEF PInv
<1>3. QED
  BY <1>1, <1>2, PTL
=============================================================================
