----------------------------- MODULE PdcpProofs -----------------------------
(***************************************************************************)
(* Safety of PDCP for every configuration, frame and allocation size, ring *)
(* and sequence number space.                                              *)
(***************************************************************************)
EXTENDS Pdcp, SequenceTheorems, TLAPS

(* What the loops of on_tx, update_rx_sn and on_rx work on. *)
Octets == Seq(Frame \cup {Junk})
Ring == [0..(RingSize - 1) -> Entry]
TxWork == [frames : Seq(Frame), current : Frame \cup {NoFrame}, offset : Nat, sn : Sn,
           room : Nat, pdu : Seq(Segment)]
RxWork == [ring : Ring, sn : Sn, synced : BOOLEAN, out : Seq(Octets), rlf : BOOLEAN]
UpdateWork == [r : RxWork, go : BOOLEAN, sn : Sn, fast_forward : BOOLEAN]

(* A frame that is being segmented has octets left. *)
InFrame(current, offset) ==
  IF current = NoFrame THEN offset = 0 ELSE offset < FrameSize[current]

TInv ==
  /\ TypeOK
  /\ rx_buffer_ring \in Ring
  /\ InFrame(current_tx_buffer, current_tx_offset)

(* The loops. *)
AllocateRound(w, i) == AllocateSegment(w)
UpdateRound(u, i) == UpdateOne(u)
Allocating == INSTANCE Loops WITH Step <- AllocateRound
Updating == INSTANCE Loops WITH Step <- UpdateRound
Receiving == INSTANCE Loops WITH Step <- OnSegment
-----------------------------------------------------------------------------
(* Sequence numbers, and where in the ring they lead. *)
LEMMA SnTypes ==
  ASSUME NEW sn \in Sn
  PROVE  NextSn(sn) \in Sn /\ rx_buffer_ring_index(sn) \in 0..(RingSize - 1)
<1>1. SnMod \in Nat \ {0} /\ RingSize \in Nat \ {0}
  BY SizeAssumption
<1>2. sn \in Int /\ sn + 1 \in Int
  BY DEF Sn
<1>3. (sn + 1) % SnMod \in 0..(SnMod - 1)
  BY <1>1, <1>2, Receiving!DivMod
<1>4. sn % RingSize \in 0..(RingSize - 1)
  BY <1>1, <1>2, Receiving!DivMod
<1>5. QED
  BY <1>3, <1>4 DEF NextSn, rx_buffer_ring_index, Sn

(* A distance of sequence numbers is one. *)
LEMMA DistanceType ==
  ASSUME NEW from \in Sn, NEW to \in Sn
  PROVE  Distance(from, to) \in Sn
<1>1. SnMod \in Nat \ {0} /\ to - from \in Int
  BY SizeAssumption DEF Sn
<1>2. (to - from) % SnMod \in 0..(SnMod - 1)
  BY <1>1, Receiving!DivMod
<1>3. QED
  BY <1>2 DEF Distance, Sn

(* The fields of a setting. *)
LEMMA ConfigTypes ==
  ASSUME config \in Setting
  PROVE  /\ config.allow_segmentation \in BOOLEAN /\ config.allow_rlf \in BOOLEAN
         /\ config.max_sn_distance \in Nat /\ config.max_frame \in Frame
BY SettingAssumption

(* The sizes of frames. *)
LEMMA FrameSizes ==
  ASSUME NEW f \in Frame
  PROVE  FrameSize[f] \in Nat \ {0} /\ f # NoFrame /\ f \in Nat
BY SizeAssumption DEF Frame, NoFrame

(* What is left of a sequence of frames. *)
LEMMA FramesLeft ==
  ASSUME NEW s \in Seq(Frame), s # <<>>
  PROVE  Head(s) \in Frame /\ Tail(s) \in Seq(Frame)
OBVIOUS

(* A segment is added to a PDU. *)
LEMMA PduGrows ==
  ASSUME NEW pdu \in Seq(Segment), NEW segment \in Segment
  PROVE  Append(pdu, segment) \in Seq(Segment)
OBVIOUS

(* One round of on_tx without segmentation. *)
LEMMA WholeFrameType ==
  ASSUME NEW w \in TxWork, InFrame(w.current, w.offset), NEW room \in Nat
  PROVE  WholeFrame(w, room) \in TxWork
         /\ InFrame(WholeFrame(w, room).current, WholeFrame(w, room).offset)
<1> DEFINE q == WholeFrame(w, room)
           f == Head(w.frames)
           left == room - FrameSize[f]
           segment == [sn |-> w.sn, offset |-> 0, size |-> FrameSize[f],
                       last |-> TRUE, frame |-> f]
           pdu == Append(w.pdu, segment)
           rest == Tail(w.frames)
           next == NextSn(w.sn)
<1>1. w.frames \in Seq(Frame) /\ w.sn \in Sn /\ w.pdu \in Seq(Segment)
  BY DEF TxWork
<1>2. CASE w.frames = <<>> \/ FrameSize[f] > room
  <2>1. q = [w EXCEPT !.room = 0]
    BY <1>2 DEF WholeFrame
  <2>2. q \in TxWork /\ q.current = w.current /\ q.offset = w.offset
    BY <2>1 DEF TxWork
  <2>3. QED
    BY <2>2
<1>3. CASE ~(w.frames = <<>> \/ FrameSize[f] > room)
  <2>1. q = [w EXCEPT !.frames = rest, !.sn = next, !.room = left, !.pdu = pdu]
    BY <1>3 DEF WholeFrame
  <2>2. f \in Frame /\ rest \in Seq(Frame)
    BY <1>1, <1>3, FramesLeft
  <2>3. FrameSize[f] \in Nat \ {0}
    BY <2>2, FrameSizes
  <2>4. left \in Nat
    BY <1>3, <2>3
  <2>5. next \in Sn
    BY <1>1, SnTypes
  <2>6. segment \in Segment
    BY <1>1, <2>2, <2>3 DEF Segment
  <2>7. pdu \in Seq(Segment)
    BY <1>1, <2>6, PduGrows
  <2> HIDE DEF rest, next, left, pdu, q
  <2>8. q \in TxWork /\ q.current = w.current /\ q.offset = w.offset
    BY <2>1, <2>2, <2>4, <2>5, <2>7 DEF TxWork
  <2>9. QED
    BY <2>8 DEF q
<1>4. QED
  BY <1>2, <1>3

(* One round of on_tx with segmentation: a segment has at least one octet. *)
LEMMA PartOfFrameType ==
  ASSUME NEW w \in TxWork, InFrame(w.current, w.offset), NEW room \in Nat \ {0}
  PROVE  PartOfFrame(w, room) \in TxWork
         /\ InFrame(PartOfFrame(w, room).current, PartOfFrame(w, room).offset)
<1> DEFINE q == PartOfFrame(w, room)
           f == IF w.current # NoFrame THEN w.current ELSE Head(w.frames)
           remaining == FrameSize[f] - w.offset
           size == IF remaining > room THEN room ELSE remaining
           last == w.offset + size >= FrameSize[f]
           segment == [sn |-> w.sn, offset |-> w.offset, size |-> size,
                       last |-> last, frame |-> f]
           frames == IF w.current = NoFrame THEN Tail(w.frames) ELSE w.frames
           current == IF last THEN NoFrame ELSE f
           offset == IF last THEN 0 ELSE w.offset + size
           next == IF last THEN NextSn(w.sn) ELSE w.sn
           left == room - size
           pdu == Append(w.pdu, segment)
<1>1. /\ w.frames \in Seq(Frame) /\ w.sn \in Sn /\ w.pdu \in Seq(Segment)
      /\ w.current \in Frame \cup {NoFrame} /\ w.offset \in Nat
  BY DEF TxWork
<1>2. CASE w.current = NoFrame /\ w.frames = <<>>
  <2>1. q = [w EXCEPT !.room = 0]
    BY <1>2 DEF PartOfFrame
  <2>2. q \in TxWork /\ q.current = w.current /\ q.offset = w.offset
    BY <2>1 DEF TxWork
  <2>3. QED
    BY <2>2
<1>3. CASE ~(w.current = NoFrame /\ w.frames = <<>>)
  <2>1. q = [frames |-> frames, current |-> current, offset |-> offset, sn |-> next,
             room |-> left, pdu |-> pdu]
    BY <1>3 DEF PartOfFrame
  <2>2. f \in Frame /\ frames \in Seq(Frame)
    <3>1. CASE w.current = NoFrame
      BY <1>1, <1>3, <3>1, FramesLeft
    <3>2. CASE w.current # NoFrame
      BY <1>1, <3>2
    <3>3. QED
      BY <3>1, <3>2
  <2>3. FrameSize[f] \in Nat \ {0} /\ f # NoFrame
    BY <2>2, FrameSizes
  <2>4. w.offset < FrameSize[f]
    <3>1. CASE w.current = NoFrame
      <4>1. w.offset = 0
        BY <3>1 DEF InFrame
      <4>2. QED
        BY <2>3, <4>1
    <3>2. CASE w.current # NoFrame
      BY <3>2 DEF InFrame
    <3>3. QED
      BY <3>1, <3>2
  <2> DEFINE total == FrameSize[f]
             at == w.offset
  <2>5. total \in Nat \ {0} /\ at \in Nat /\ at < total
    BY <1>1, <2>3, <2>4
  <2>6. remaining = total - at
    OBVIOUS
  <2>7. last <=> at + size >= total
    OBVIOUS
  <2> HIDE DEF f, total, at
  <2>8. remaining \in Nat \ {0}
    BY <2>5, <2>6
  <2> HIDE DEF remaining
  <2>9. size \in Nat \ {0} /\ size <= room /\ left \in Nat
    BY <2>8
  <2> HIDE DEF size
  <2>10. at + size \in Nat /\ (~last => at + size < total) /\ last \in BOOLEAN
    BY <2>5, <2>7, <2>9
  <2>11. offset \in Nat /\ current \in Frame \cup {NoFrame} /\ InFrame(current, offset)
    <3>1. CASE last
      BY <3>1 DEF InFrame
    <3>2. CASE ~last
      <4>1. current = f /\ offset = at + size /\ f # NoFrame
        BY <3>2, <2>3 DEF at
      <4>2. QED
        BY <4>1, <3>2, <2>2, <2>10 DEF InFrame, total
    <3>3. QED
      BY <3>1, <3>2
  <2>12. next \in Sn
    BY <1>1, SnTypes
  <2>13. segment \in Segment
    BY <1>1, <2>2, <2>9, <2>10 DEF Segment
  <2>14. pdu \in Seq(Segment)
    BY <1>1, <2>13, PduGrows
  <2> HIDE DEF frames, current, offset, next, left, pdu, q
  <2>15. q \in TxWork /\ q.current = current /\ q.offset = offset
    BY <2>1, <2>2, <2>9, <2>11, <2>12, <2>14 DEF TxWork
  <2>16. QED
    BY <2>11, <2>15 DEF q
<1>4. QED
  BY <1>2, <1>3

(* One round of on_tx. *)
LEMMA AllocateSegmentType ==
  ASSUME NEW w \in TxWork, InFrame(w.current, w.offset)
  PROVE  AllocateSegment(w) \in TxWork
         /\ InFrame(AllocateSegment(w).current, AllocateSegment(w).offset)
<1> DEFINE q == AllocateSegment(w)
           room == w.room - HeaderSize
<1>1. w.room \in Nat /\ HeaderSize \in Nat \ {0}
  BY SizeAssumption DEF TxWork
<1>2. CASE room <= 0
  <2>1. q = [w EXCEPT !.room = 0]
    BY <1>2 DEF AllocateSegment
  <2>2. q \in TxWork /\ q.current = w.current /\ q.offset = w.offset
    BY <2>1 DEF TxWork
  <2>3. QED
    BY <2>2
<1>3. CASE ~(room <= 0)
  <2>1. room \in Nat \ {0}
    BY <1>1, <1>3
  <2>2. q = IF config.allow_segmentation THEN PartOfFrame(w, room) ELSE WholeFrame(w, room)
    BY <1>3 DEF AllocateSegment
  <2> HIDE DEF room
  <2>3. QED
    BY <2>1, <2>2, PartOfFrameType, WholeFrameType
<1>4. QED
  BY <1>2, <1>3

(* What on_tx leaves, and the PDU it makes. *)
LEMMA AllocatedType ==
  ASSUME TInv, NEW size \in Nat
  PROVE  Allocated(size) \in TxWork
         /\ InFrame(Allocated(size).current, Allocated(size).offset)
<1> DEFINE base == [frames |-> to_tx_queue, current |-> current_tx_buffer,
                    offset |-> current_tx_offset, sn |-> tx_sn, room |-> size, pdu |-> <<>>]
           seq == Append(to_tx_queue, current_tx_buffer)
           n == Len(to_tx_queue) + 1
           Good == {w \in TxWork : InFrame(w.current, w.offset)}
           Inv == [k \in 0..n |-> Good]
<1>1. to_tx_queue \in Seq(Frame) /\ current_tx_buffer \in Frame \cup {NoFrame}
      /\ current_tx_offset \in Nat /\ tx_sn \in Sn
      /\ InFrame(current_tx_buffer, current_tx_offset)
  BY DEF TInv, TypeOK
<1>2. n \in Nat /\ DOMAIN seq = 1..n
  BY <1>1
<1>3. base \in Good
  BY <1>1 DEF TxWork
<1>4. \A w \in Good : AllocateRound(w, 0) \in Good
  BY AllocateSegmentType DEF AllocateRound
<1>5. \A w, x, y : AllocateRound(w, x) = AllocateRound(w, y)
  BY DEF AllocateRound
<1> HIDE DEF Good
<1>6. base \in Inv[0] /\ Inv[n] = Good
  BY <1>2, <1>3
<1>7. \A k \in 0..(n - 1) : \A w \in Inv[k] : AllocateRound(w, seq[k + 1]) \in Inv[k + 1]
  <2> SUFFICES ASSUME NEW k \in 0..(n - 1), NEW w \in Inv[k]
               PROVE  AllocateRound(w, seq[k + 1]) \in Inv[k + 1]
    OBVIOUS
  <2>1. Inv[k] = Good /\ Inv[k + 1] = Good
    BY <1>2
  <2>2. AllocateRound(w, seq[k + 1]) = AllocateRound(w, 0)
    BY <1>5
  <2> HIDE DEF Inv, seq
  <2>3. QED
    BY <2>1, <2>2, <1>4
<1>8. Allocated(size) = Allocating!FoldLeft(AllocateRound, base, seq)
  BY DEF Allocated, AllocateRound, FoldLeft, MapThenFoldSet, Max,
         Allocating!FoldLeft, Allocating!MapThenFoldSet, Allocating!Max
<1> HIDE DEF base, seq, n, Inv
<1>9. Allocating!FoldLeft(AllocateRound, base, seq) \in Inv[n]
  BY <1>2, <1>6, <1>7, Allocating!LoopInvariant
<1>10. Allocated(size) \in Good
  BY <1>6, <1>8, <1>9
<1>11. QED
  BY <1>10 DEF Good
-----------------------------------------------------------------------------
(* Entries of the ring. *)
LEMMA EntryTypes ==
  ASSUME NEW e \in Entry
  PROVE  EmptyEntry \in Entry /\ Reset(e) \in Entry /\ is_complete(e) \in BOOLEAN
<1>1. <<>> \in Seq(Frame \cup {Junk})
  OBVIOUS
<1>2. EmptyEntry \in Entry
  BY <1>1 DEF EmptyEntry, Entry
<1>3. Reset(e) \in Entry
  <2>1. e.buffer \in Seq(Frame \cup {Junk})
    BY DEF Entry
  <2>2. QED
    BY <1>2, <2>1 DEF Reset, Entry
<1>4. QED
  BY <1>2, <1>3 DEF is_complete

(* One round of update_rx_sn that emits a frame or drops one. *)
LEMMA TransportType ==
  ASSUME NEW r \in RxWork
  PROVE  Transport(r) \in RxWork /\ Drop(r) \in RxWork
<1> DEFINE i == rx_buffer_ring_index(r.sn)
           emptied == [r.ring EXCEPT ![i] = EmptyEntry]
           reset == [r.ring EXCEPT ![i] = Reset(r.ring[i])]
           next == NextSn(r.sn)
           out == Append(r.out, r.ring[i].buffer)
<1>1. r.ring \in Ring /\ r.sn \in Sn /\ r.out \in Seq(Octets)
  BY DEF RxWork
<1>2. i \in 0..(RingSize - 1) /\ next \in Sn
  BY <1>1, SnTypes
<1> HIDE DEF i
<1>3. r.ring[i] \in Entry
  BY <1>1, <1>2 DEF Ring
<1>4. r.ring[i].buffer \in Octets
  BY <1>3 DEF Entry, Octets
<1>5. emptied \in Ring /\ reset \in Ring
  BY <1>1, <1>2, <1>3, EntryTypes DEF Ring
<1>6. out \in Seq(Octets)
  BY <1>1, <1>4
<1>7. Transport(r) = [r EXCEPT !.ring = emptied, !.sn = next, !.out = out]
  BY DEF Transport, i
<1>8. Drop(r) = [r EXCEPT !.ring = reset, !.sn = next]
  BY DEF Drop, i
<1> HIDE DEF emptied, reset, next, out
<1>9. Transport(r) \in RxWork
  BY <1>2, <1>5, <1>6, <1>7 DEF RxWork
<1>10. Drop(r) \in RxWork
  BY <1>2, <1>5, <1>8 DEF RxWork
<1>11. QED
  BY <1>9, <1>10

(* One round of update_rx_sn. *)
LEMMA UpdateOneType ==
  ASSUME NEW u \in UpdateWork
  PROVE  UpdateOne(u) \in UpdateWork
<1> DEFINE r == u.r
           t == Transport(r)
           d == Drop(r)
           stop == NextSn(r.sn) = u.sn \/ config.max_sn_distance > Distance(r.sn, u.sn)
<1>1. r \in RxWork
  BY DEF UpdateWork
<1>2. t \in RxWork /\ d \in RxWork
  BY <1>1, TransportType
<1>3. \/ UpdateOne(u) = u
      \/ UpdateOne(u) = [u EXCEPT !.r = t]
      \/ UpdateOne(u) = [u EXCEPT !.r = d, !.go = ~stop]
      \/ UpdateOne(u) = [u EXCEPT !.go = FALSE]
  BY DEF UpdateOne
<1>4. (~stop) \in BOOLEAN
  OBVIOUS
<1> HIDE DEF t, d, stop
<1>5. [u EXCEPT !.r = t] \in UpdateWork /\ [u EXCEPT !.go = FALSE] \in UpdateWork
  BY <1>2 DEF UpdateWork
<1>6. [u EXCEPT !.r = d, !.go = ~stop] \in UpdateWork
  BY <1>2, <1>4 DEF UpdateWork
<1>7. QED
  BY <1>3, <1>5, <1>6

(* update_rx_sn is a loop. *)
LEMMA UpdateLoop ==
  ASSUME NEW r, NEW sn, NEW ff
  PROVE  UpdateRounds(r, sn, ff) =
           Updating!FoldLeft(UpdateRound, [r |-> r, go |-> TRUE, sn |-> sn, fast_forward |-> ff],
                             [i \in 1..(SnMod + RingSize) |-> i])
BY DEF UpdateRounds, UpdateRound, FoldLeft, MapThenFoldSet, Max,
       Updating!FoldLeft, Updating!MapThenFoldSet, Updating!Max

(***************************************************************************)
(* An invariant of that loop: Inv[k] holds of what it works on after k     *)
(* rounds.                                                                 *)
(***************************************************************************)
LEMMA UpdateInvariant ==
  ASSUME NEW r, NEW sn, NEW ff, NEW Inv, NEW n, n = SnMod + RingSize, NEW base,
         base = [r |-> r, go |-> TRUE, sn |-> sn, fast_forward |-> ff], base \in Inv[0],
         \A k \in 0..(n - 1) : \A u \in Inv[k] : UpdateOne(u) \in Inv[k + 1]
  PROVE  UpdateRounds(r, sn, ff) \in Inv[n]
<1> DEFINE seq == [i \in 1..n |-> i]
<1>1. n \in Nat /\ DOMAIN seq = 1..n
  BY SizeAssumption
<1>2. \A k \in 0..(n - 1) : \A u \in Inv[k] : UpdateRound(u, seq[k + 1]) \in Inv[k + 1]
  BY Zenon DEF UpdateRound
<1>3. UpdateRounds(r, sn, ff) = Updating!FoldLeft(UpdateRound, base, seq)
  BY UpdateLoop
<1> HIDE DEF seq
<1>4. Updating!FoldLeft(UpdateRound, base, seq) \in Inv[n]
  BY <1>1, <1>2, Updating!LoopInvariant
<1>5. QED
  BY <1>3, <1>4

(* What update_rx_sn leaves. *)
LEMMA UpdateType ==
  ASSUME NEW r \in RxWork, NEW sn \in Sn, NEW ff \in BOOLEAN
  PROVE  update_rx_sn(r, sn, ff) \in RxWork
<1> DEFINE base == [r |-> r, go |-> TRUE, sn |-> sn, fast_forward |-> ff]
           n == SnMod + RingSize
           Inv == [k \in 0..n |-> UpdateWork]
<1>1. n \in Nat
  BY SizeAssumption
<1>2. base \in UpdateWork
  BY DEF UpdateWork
<1>3. base \in Inv[0] /\ Inv[n] = UpdateWork
  BY <1>1, <1>2
<1>4. \A k \in 0..(n - 1) : \A u \in Inv[k] : UpdateOne(u) \in Inv[k + 1]
  BY <1>1, UpdateOneType
<1>5. n = SnMod + RingSize /\ base = [r |-> r, go |-> TRUE, sn |-> sn, fast_forward |-> ff]
  OBVIOUS
<1> HIDE DEF Inv, n, base
<1>6. UpdateRounds(r, sn, ff) \in Inv[n]
  BY <1>3, <1>4, <1>5, UpdateInvariant
<1>7. QED
  BY <1>3, <1>6 DEF UpdateWork, update_rx_sn

(* A buffer with the octets of a segment. *)
LEMMA GrownType ==
  ASSUME NEW b \in Octets, NEW required \in Nat
  PROVE  Grown(b, required) \in Octets
<1>1. CASE Len(b) < required
  <2>1. Len(b) \in Nat /\ \A i \in 1..Len(b) : b[i] \in Frame \cup {Junk}
    BY DEF Octets
  <2>2. Grown(b, required) = [i \in 1..required |-> IF i <= Len(b) THEN b[i] ELSE Junk]
    BY <1>1 DEF Grown
  <2>3. [i \in 1..required |-> IF i <= Len(b) THEN b[i] ELSE Junk]
          \in [1..required -> Frame \cup {Junk}]
    BY <2>1
  <2>4. QED
    BY <2>2, <2>3 DEF Octets
<1>2. CASE ~(Len(b) < required)
  BY <1>2 DEF Grown
<1>3. QED
  BY <1>1, <1>2

(* An entry that a segment is added to. *)
LEMMA ReassembledType ==
  ASSUME NEW e \in Entry, NEW segment \in Segment
  PROVE  Reassembled(e, segment) \in Entry
<1> DEFINE required == segment.offset + segment.size
           grown == Grown(e.buffer, required)
           isnew == IsNewOffset(e, segment)
           has == segment.last \/ e.has_expected_size
           expected == IF segment.last THEN required ELSE e.expected_size
           sum == e.accumulated_size + IF isnew THEN segment.size ELSE 0
           offsets == e.recvd_offsets \cup {segment.offset}
           buffer == [i \in DOMAIN grown |->
                        IF isnew /\ i \in (segment.offset + 1)..required
                        THEN segment.frame ELSE grown[i]]
<1>1. /\ segment.offset \in Nat /\ segment.size \in Nat /\ segment.last \in BOOLEAN
      /\ segment.frame \in Frame
  BY DEF Segment
<1>2. /\ e.has_expected_size \in BOOLEAN /\ e.accumulated_size \in Nat
      /\ e.expected_size \in Nat /\ e.recvd_offsets \in SUBSET Nat /\ e.buffer \in Octets
  BY DEF Entry, Octets
<1>3. required \in Nat
  BY <1>1
<1>4. Reassembled(e, segment) =
        [has_expected_size |-> has, expected_size |-> expected, accumulated_size |-> sum,
         recvd_offsets |-> offsets, buffer |-> buffer]
  BY DEF Reassembled
<1>5. has \in BOOLEAN /\ offsets \in SUBSET Nat /\ expected \in Nat /\ sum \in Nat
  <2> HIDE DEF required, isnew
  <2>1. has \in BOOLEAN
    BY <1>1, <1>2
  <2>2. offsets \in SUBSET Nat
    BY <1>1, <1>2
  <2>3. expected \in Nat
    BY <1>2, <1>3
  <2>4. sum \in Nat
    BY <1>1, <1>2
  <2>5. QED
    BY <2>1, <2>2, <2>3, <2>4
<1>6. buffer \in Octets
  <2>1. grown \in Octets
    BY <1>2, <1>3, GrownType
  <2> HIDE DEF grown, isnew, required
  <2>2. Len(grown) \in Nat /\ DOMAIN grown = 1..Len(grown)
        /\ \A i \in 1..Len(grown) : grown[i] \in Frame \cup {Junk}
    BY <2>1 DEF Octets
  <2>3. buffer \in [1..Len(grown) -> Frame \cup {Junk}]
    BY <1>1, <2>2
  <2>4. QED
    BY <2>2, <2>3 DEF Octets
<1> HIDE DEF has, expected, sum, offsets, buffer
<1>7. QED
  BY <1>4, <1>5, <1>6 DEF Entry, Octets

(* One round of on_rx. *)
LEMMA OnSegmentType ==
  ASSUME NEW r0 \in RxWork, NEW segment \in Segment
  PROVE  OnSegment(r0, segment) \in RxWork
<1> DEFINE r == IF r0.synced THEN r0 ELSE [r0 EXCEPT !.synced = TRUE, !.sn = segment.sn]
           i == rx_buffer_ring_index(segment.sn)
           entry == Reassembled(r.ring[i], segment)
           ring == [r.ring EXCEPT ![i] = entry]
           stored == [r EXCEPT !.ring = ring]
           dist == Distance(r.sn, segment.sn)
           ff == IsOutOfRange(dist)
<1>1. segment.sn \in Sn
  BY DEF Segment
<1>2. r \in RxWork
  BY <1>1 DEF RxWork
<1>3. \/ OnSegment(r0, segment) = r
      \/ OnSegment(r0, segment) = [r EXCEPT !.rlf = TRUE]
      \/ OnSegment(r0, segment) = update_rx_sn(stored, segment.sn, ff)
      \/ OnSegment(r0, segment) = stored
  BY DEF OnSegment
<1> HIDE DEF r
<1>4. r.ring \in Ring /\ i \in 0..(RingSize - 1)
  BY <1>1, <1>2, SnTypes DEF RxWork
<1> HIDE DEF i
<1>5. r.ring[i] \in Entry
  BY <1>4 DEF Ring
<1>6. entry \in Entry
  BY <1>5, ReassembledType
<1> HIDE DEF entry
<1>7. ring \in Ring
  BY <1>4, <1>6 DEF Ring
<1> HIDE DEF ring
<1>8. stored \in RxWork /\ [r EXCEPT !.rlf = TRUE] \in RxWork
  BY <1>2, <1>7 DEF RxWork
<1>9. ff \in BOOLEAN
  BY DEF IsOutOfRange
<1> HIDE DEF stored, ff
<1>10. update_rx_sn(stored, segment.sn, ff) \in RxWork
  BY <1>1, <1>8, <1>9, UpdateType
<1>11. QED
  BY <1>2, <1>3, <1>8, <1>10

(* What on_rx leaves. *)
LEMMA ReceivedType ==
  ASSUME TInv, NEW m \in Seq(Segment)
  PROVE  Received(m) \in RxWork
<1> DEFINE base == [ring |-> rx_buffer_ring, sn |-> rx_sn, synced |-> rx_sn_synced,
                    out |-> <<>>, rlf |-> FALSE]
           n == Len(m)
           Inv == [k \in 0..n |-> RxWork]
<1>1. n \in Nat /\ DOMAIN m = 1..n
  OBVIOUS
<1>2. base \in RxWork
  <2>1. <<>> \in Seq(Octets)
    OBVIOUS
  <2>2. QED
    BY <2>1 DEF TInv, TypeOK, RxWork
<1>3. base \in Inv[0] /\ Inv[n] = RxWork
  BY <1>1, <1>2
<1>4. \A k \in 0..(n - 1) : \A r \in Inv[k] : OnSegment(r, m[k + 1]) \in Inv[k + 1]
  <2> SUFFICES ASSUME NEW k \in 0..(n - 1), NEW r \in Inv[k]
               PROVE  OnSegment(r, m[k + 1]) \in Inv[k + 1]
    OBVIOUS
  <2>1. Inv[k] = RxWork /\ Inv[k + 1] = RxWork
    BY <1>1
  <2>2. m[k + 1] \in Segment
    BY <1>1
  <2> HIDE DEF Inv
  <2>3. QED
    BY <2>1, <2>2, OnSegmentType
<1>5. Received(m) = Receiving!FoldLeft(OnSegment, base, m)
  BY DEF Received, FoldLeft, MapThenFoldSet, Max,
         Receiving!FoldLeft, Receiving!MapThenFoldSet, Receiving!Max
<1> HIDE DEF base, n, Inv
<1>6. Receiving!FoldLeft(OnSegment, base, m) \in Inv[n]
  BY <1>1, <1>3, <1>4, Receiving!LoopInvariant
<1>7. QED
  BY <1>3, <1>5, <1>6
-----------------------------------------------------------------------------
(* Both halves as they are constructed. *)
LEMMA InitT == Init => TInv
<1> SUFFICES ASSUME Init PROVE TInv
  OBVIOUS
<1>1. SnMod \in Nat \ {0} /\ StartSn \subseteq Sn /\ 0 \in Sn
  BY SizeAssumption DEF Sn
<1>2. EmptyEntry \in Entry
  BY DEF EmptyEntry, Entry
<1>3. rx_buffer_ring \in Ring
  BY <1>2 DEF Init, Ring
<1>4. \A i \in 0..(RingSize - 1) : rx_buffer_ring[i] \in Entry
  BY <1>3 DEF Ring
<1>5. tx_sn \in Sn /\ rx_sn \in Sn
  BY <1>1 DEF Init
<1>6. <<>> \in Seq(Frame)
  OBVIOUS
<1>7. <<>> \in Seq(Seq(Frame \cup {Junk}))
  OBVIOUS
<1>8. <<>> \in Seq({"waiting", "emitted", "dropped", "missed"})
  OBVIOUS
<1>9. \A m \in air : m \in Seq(Segment)
  BY DEF Init
<1>10. /\ to_tx_queue \in Seq(Frame) /\ to_rx_queue \in Seq(Seq(Frame \cup {Junk}))
       /\ fate \in Seq({"waiting", "emitted", "dropped", "missed"})
  BY <1>6, <1>7, <1>8 DEF Init
<1>11. /\ config \in Setting /\ current_tx_buffer \in Frame \cup {NoFrame}
       /\ current_tx_offset \in Nat /\ is_tx_enabled \in BOOLEAN
       /\ copies \in Nat /\ losses \in Nat /\ rlfs \in Nat
       /\ rx_sn_synced \in BOOLEAN /\ is_rx_enabled \in BOOLEAN
  BY DEF Init
<1>12. /\ link \in {"up", "fault"} /\ tx_call \in {<<>>} \cup {<<v>> : v \in BOOLEAN}
       /\ to_activate \subseteq {"tx", "rx"}
       /\ on_rlf_event \in BOOLEAN /\ on_init_event \in BOOLEAN
  BY DEF Init
<1>13. TypeOK
  BY <1>4, <1>5, <1>9, <1>10, <1>11, <1>12 DEF TypeOK
<1>14. QED
  BY <1>3, <1>13 DEF Init, TInv, InFrame

(* PDCP::to_tx numbers the frames up to MaxFrame. *)
LEMMA ToTxT == TInv /\ to_tx => TInv'
<1> SUFFICES ASSUME TInv, to_tx PROVE TInv'
  OBVIOUS
<1>1. /\ to_tx_queue \in Seq(Frame) /\ fate \in Seq({"waiting", "emitted", "dropped", "missed"})
      /\ config \in Setting /\ on_init_event \in BOOLEAN
  BY DEF TInv, TypeOK
<1>2. accepted + 1 \in Frame
  <2>1. config.max_frame \in Frame /\ accepted < config.max_frame /\ accepted \in Nat
    BY <1>1, ConfigTypes DEF to_tx, accepted
  <2>2. QED
    BY <2>1, SizeAssumption DEF Frame
<1>3. to_tx_queue' \in Seq(Frame)
  BY <1>1, <1>2 DEF to_tx
<1>4. fate' \in Seq({"waiting", "emitted", "dropped", "missed"})
  <2>1. Append(fate, "waiting") \in Seq({"waiting", "emitted", "dropped", "missed"})
    BY <1>1
  <2>2. QED
    BY <1>1, <2>1 DEF to_tx
<1>5. on_init_event' \in BOOLEAN
  BY DEF to_tx
<1>6. UNCHANGED <<config, current_tx_buffer, current_tx_offset, tx_sn, is_tx_enabled,
                  llc, rx, link, tx_call, to_activate, on_rlf_event, rlfs>>
  BY DEF to_tx
<1>7. QED
  BY <1>3, <1>4, <1>5, <1>6 DEF TInv, TypeOK, InFrame, llc, rx

(* PDCP::on_tx *)
LEMMA OnTxT ==
  ASSUME TInv, NEW size \in AllocSize, on_tx(size)
  PROVE  TInv'
<1> DEFINE w == Allocated(size)
<1>1. size \in Nat
  BY SizeAssumption
<1>2. w \in TxWork /\ InFrame(w.current, w.offset)
  BY <1>1, AllocatedType
<1>3. /\ to_tx_queue' = w.frames /\ current_tx_buffer' = w.current
      /\ current_tx_offset' = w.offset /\ tx_sn' = w.sn /\ air' = air \cup {w.pdu}
      /\ UNCHANGED <<config, is_tx_enabled, copies, losses, rx, rrc, fate>>
  BY DEF on_tx
<1> HIDE DEF w
<1>4. /\ w.frames \in Seq(Frame) /\ w.current \in Frame \cup {NoFrame} /\ w.offset \in Nat
      /\ w.sn \in Sn /\ w.pdu \in Seq(Segment)
  BY <1>2 DEF TxWork
<1>5. \A m \in air' : m \in Seq(Segment)
  BY <1>3, <1>4 DEF TInv, TypeOK
<1>6. InFrame(current_tx_buffer', current_tx_offset')
  BY <1>2, <1>3
<1>7. TypeOK'
  BY <1>3, <1>4, <1>5 DEF TInv, TypeOK, rx, rrc
<1>8. QED
  BY <1>3, <1>6, <1>7 DEF TInv, InFrame, rx

(* What on_rx makes of the segments it takes. *)
LEMMA TakeSegmentsT ==
  ASSUME TInv, NEW m \in Seq(Segment), TakeSegments(m), air' \subseteq air,
         copies' \in Nat, losses' \in Nat
  PROVE  TInv'
<1> DEFINE r == Received(m)
           values == {"waiting", "emitted", "dropped", "missed"}
<1>1. r \in RxWork
  BY ReceivedType
<1>3. /\ rx_buffer_ring' = r.ring /\ rx_sn' = r.sn /\ rx_sn_synced' = r.synced
      /\ to_rx_queue' = to_rx_queue \o r.out
      /\ on_rlf_event' = (on_rlf_event \/ r.rlf)
      /\ fate' = FatesAfter(m, r.out)
      /\ UNCHANGED <<config, tx, is_rx_enabled, link, tx_call, to_activate,
                     on_init_event, rlfs>>
  BY DEF TakeSegments
<1> HIDE DEF r
<1>5. /\ r.ring \in Ring /\ r.sn \in Sn /\ r.synced \in BOOLEAN /\ r.out \in Seq(Octets)
      /\ r.rlf \in BOOLEAN
  BY <1>1 DEF RxWork
<1>6. \A n \in air' : n \in Seq(Segment)
  BY DEF TInv, TypeOK
<1>7. to_rx_queue' \in Seq(Seq(Frame \cup {Junk}))
  <2>1. to_rx_queue \in Seq(Octets)
    BY DEF TInv, TypeOK, Octets
  <2> DEFINE o == r.out
  <2>2. o \in Seq(Octets)
    BY <1>5
  <2> HIDE DEF o
  <2>3. to_rx_queue \o o \in Seq(Octets)
    BY <2>1, <2>2
  <2>4. QED
    BY <1>3, <2>3 DEF o, Octets
<1>8. fate' \in Seq(values)
  <2>1. fate \in Seq(values)
    BY DEF TInv, TypeOK
  <2>2. Len(fate) \in Nat /\ DOMAIN fate = 1..Len(fate)
        /\ \A f \in 1..Len(fate) : fate[f] \in values
    BY <2>1
  <2> DEFINE Out(f) == \E k \in DOMAIN r.out : FrameOf(r.out[k]) = f
             Over(f) == Missed(m, f)
  <2>3. fate' = [f \in 1..Len(fate) |-> IF Out(f) THEN "emitted"
                                        ELSE IF Over(f) THEN "missed" ELSE fate[f]]
    BY <1>3, <2>2 DEF FatesAfter
  <2> HIDE DEF Out, Over
  <2>4. fate' \in [1..Len(fate) -> values]
    BY <2>2, <2>3
  <2>5. QED
    BY <2>2, <2>4
<1>9. \A i \in 0..(RingSize - 1) : rx_buffer_ring'[i] \in Entry
  BY <1>3, <1>5 DEF Ring
<1>10. on_rlf_event' \in BOOLEAN
  BY <1>3
<1>11. TypeOK'
  BY <1>3, <1>5, <1>6, <1>7, <1>8, <1>9, <1>10 DEF TInv, TypeOK, tx
<1>12. QED
  BY <1>3, <1>5, <1>11 DEF TInv, InFrame, tx

(* PDCP::on_rx, of a PDU that is whole and of one that is not. *)
LEMMA OnRxT ==
  ASSUME TInv, NEW m \in air, on_rx(m) \/ on_rx_malformed(m)
  PROVE  TInv'
<1>1. m \in Seq(Segment) /\ copies \in Nat /\ losses \in Nat
  BY DEF TInv, TypeOK
<1>2. air' \subseteq air /\ copies' \in Nat /\ losses' \in Nat
  BY <1>1 DEF on_rx, on_rx_malformed
<1>3. \E n \in Seq(Segment) : TakeSegments(n)
  <2>1. CASE on_rx(m)
    BY <1>1, <2>1 DEF on_rx
  <2>2. CASE on_rx_malformed(m)
    <3>1. PICK k \in 0..(Len(m) - 1) : TakeSegments(SubSeq(m, 1, k))
      BY <2>2 DEF on_rx_malformed
    <3>2. SubSeq(m, 1, k) \in Seq(Segment)
      BY <1>1
    <3>3. QED
      BY <3>1, <3>2, Zenon
  <2>3. QED
    BY <2>1, <2>2
<1>4. QED
  BY <1>2, <1>3, TakeSegmentsT

(* set_rx_enabled resets every entry. *)
LEMMA SetRxEnabledT ==
  ASSUME TInv, NEW value \in BOOLEAN, set_rx_enabled(value)
  PROVE  /\ rx_buffer_ring' \in Ring
         /\ \A i \in 0..(RingSize - 1) : rx_buffer_ring'[i] \in Entry
         /\ rx_sn_synced' \in BOOLEAN /\ is_rx_enabled' \in BOOLEAN
         /\ rx_sn' = rx_sn /\ to_rx_queue' = to_rx_queue
<1>1. rx_buffer_ring \in Ring
  BY DEF TInv
<1>2. rx_buffer_ring' = [i \in 0..(RingSize - 1) |-> Reset(rx_buffer_ring[i])]
  BY <1>1 DEF set_rx_enabled, Ring
<1>3. \A i \in 0..(RingSize - 1) : Reset(rx_buffer_ring[i]) \in Entry
  BY <1>1, EntryTypes DEF Ring
<1>4. rx_buffer_ring' \in Ring
  BY <1>2, <1>3 DEF Ring
<1>5. QED
  BY <1>4 DEF set_rx_enabled, Ring

(* set_tx_enabled marks frames dropped, and both parts of it keep the rest. *)
LEMMA DroppedType ==
  ASSUME TInv, NEW S
  PROVE  Dropped(S) \in Seq({"waiting", "emitted", "dropped", "missed"})
<1> DEFINE values == {"waiting", "emitted", "dropped", "missed"}
<1>1. fate \in Seq(values)
  BY DEF TInv, TypeOK
<1>2. Len(fate) \in Nat /\ DOMAIN fate = 1..Len(fate)
      /\ \A f \in 1..Len(fate) : fate[f] \in values
  BY <1>1
<1>3. Dropped(S) = [f \in 1..Len(fate) |-> IF f \in S THEN "dropped" ELSE fate[f]]
  BY <1>2 DEF Dropped
<1>4. Dropped(S) \in [1..Len(fate) -> values]
  BY <1>2, <1>3
<1>5. QED
  BY <1>2, <1>4

(* The steps of RRC. *)
LEMMA RrcT == TInv /\ (Rrc \/ Exchange \/ LlcRlf) => TInv'
<1> SUFFICES ASSUME TInv, Rrc \/ Exchange \/ LlcRlf PROVE TInv'
  OBVIOUS
<1>1. CASE set_tx_enabled_flag
  <2> DEFINE S == {f \in DOMAIN fate : fate[f] = "waiting" /\ f \notin ToSet(to_tx_queue)}
  <2>1. fate' = Dropped(S)
    BY <1>1 DEF set_tx_enabled_flag
  <2> HIDE DEF S
  <2>2. fate' \in Seq({"waiting", "emitted", "dropped", "missed"})
    BY <2>1, DroppedType
  <2>3. is_tx_enabled' \in BOOLEAN
    BY <1>1 DEF set_tx_enabled_flag, TInv, TypeOK
  <2>4. TypeOK'
    BY <1>1, <2>2, <2>3 DEF set_tx_enabled_flag, TInv, TypeOK, rx
  <2>5. QED
    BY <1>1, <2>4 DEF set_tx_enabled_flag, TInv, InFrame, rx
<1>2. CASE LlcRlf \/ ActivateTx
  <2> DEFINE S == ToSet(to_tx_queue)
  <2>1. PICK v \in BOOLEAN : set_tx_enabled(v)
    BY <1>2 DEF LlcRlf, ActivateTx
  <2>2. fate' = Dropped(S) /\ to_tx_queue' = <<>> /\ tx_call' = <<v>>
        /\ UNCHANGED <<current_tx_buffer, current_tx_offset, tx_sn, is_tx_enabled>>
    BY <2>1 DEF set_tx_enabled
  <2> HIDE DEF S
  <2>3. fate' \in Seq({"waiting", "emitted", "dropped", "missed"})
    BY <2>2, DroppedType
  <2>4. to_tx_queue' \in Seq(Frame) /\ tx_call' \in {<<>>} \cup {<<x>> : x \in BOOLEAN}
    BY <2>2
  <2>5. /\ UNCHANGED <<config, llc, rx, on_rlf_event, on_init_event>>
        /\ link' \in {"up", "fault"} /\ rlfs' \in Nat /\ to_activate' \subseteq {"tx", "rx"}
    <3>1. CASE LlcRlf
      BY <3>1 DEF LlcRlf, TInv, TypeOK
    <3>2. CASE ActivateTx
      BY <3>2 DEF ActivateTx, TInv, TypeOK
    <3>3. QED
      BY <1>2, <3>1, <3>2
  <2>6. TypeOK'
    BY <2>2, <2>3, <2>4, <2>5 DEF TInv, TypeOK, llc, rx
  <2>7. QED
    BY <2>2, <2>5, <2>6 DEF TInv, InFrame, rx
<1>3. CASE PdcpRlf \/ Exchange \/ ActivateRx
  <2>1. PICK v \in BOOLEAN : set_rx_enabled(v)
    BY <1>3 DEF PdcpRlf, Exchange, ActivateRx
  <2>2. /\ rx_buffer_ring' \in Ring
        /\ \A i \in 0..(RingSize - 1) : rx_buffer_ring'[i] \in Entry
        /\ rx_sn_synced' \in BOOLEAN /\ is_rx_enabled' \in BOOLEAN
        /\ rx_sn' = rx_sn /\ to_rx_queue' = to_rx_queue
    BY <2>1, SetRxEnabledT
  <2>3. /\ UNCHANGED <<config, tx, llc, tx_call, rlfs, fate>>
        /\ link' \in {"up", "fault"} /\ to_activate' \subseteq {"tx", "rx"}
        /\ on_rlf_event' \in BOOLEAN /\ on_init_event' \in BOOLEAN
    <3>1. CASE PdcpRlf
      BY <3>1 DEF PdcpRlf, TInv, TypeOK
    <3>2. CASE Exchange
      BY <3>2 DEF Exchange, TInv, TypeOK
    <3>3. CASE ActivateRx
      BY <3>3 DEF ActivateRx, TInv, TypeOK
    <3>4. QED
      BY <1>3, <3>1, <3>2, <3>3
  <2>4. TypeOK'
    BY <2>2, <2>3 DEF TInv, TypeOK, tx, llc
  <2>5. QED
    BY <2>2, <2>3, <2>4 DEF TInv, InFrame, tx
<1>4. QED
  BY <1>1, <1>2, <1>3 DEF Rrc

(* The LLC drops a PDU, and the end point takes a frame. *)
LEMMA RestT ==
  ASSUME TInv, to_rx \/ \E m \in air : on_rx_disabled(m) \/ Lose(m)
  PROVE  TInv'
<1>1. CASE to_rx
  <2>1. to_rx_queue' \in Seq(Octets)
    <3>1. to_rx_queue \in Seq(Octets)
      BY DEF TInv, TypeOK, Octets
    <3>2. QED
      BY <1>1, <3>1 DEF to_rx
  <2>2. TypeOK'
    BY <1>1, <2>1 DEF to_rx, TInv, TypeOK, tx, llc, rrc, Octets
  <2>3. QED
    BY <1>1, <2>2 DEF to_rx, TInv, InFrame, tx
<1>2. ASSUME NEW m \in air, on_rx_disabled(m) \/ Lose(m) PROVE TInv'
  <2>1. air' = air \ {m} /\ losses' \in Nat /\ UNCHANGED <<config, tx, copies, rx, rrc, fate>>
    BY <1>2 DEF on_rx_disabled, Lose, TInv, TypeOK
  <2>2. TypeOK'
    BY <2>1 DEF TInv, TypeOK, tx, rx, rrc
  <2>3. QED
    BY <2>1, <2>2 DEF TInv, InFrame, tx, rx
<1>3. QED
  BY <1>1, <1>2

(* Every step keeps the types. *)
LEMMA NextT == TInv /\ [Next]_vars => TInv'
<1> SUFFICES ASSUME TInv, [Next]_vars PROVE TInv'
  OBVIOUS
<1>1. CASE UNCHANGED vars
  BY <1>1 DEF vars, tx, llc, rx, rrc, TInv, TypeOK, InFrame
<1>2. CASE Next
  BY <1>2, ToTxT, OnTxT, OnRxT, RrcT, RestT DEF Next, Transmit, Receive
<1>3. QED
  BY <1>1, <1>2

(***************************************************************************)
(* The fields of PDCP keep their types, for every configuration: no        *)
(* segment is empty, however on_tx cuts the frames, and no sequence number *)
(* or ring index leaves its range.                                         *)
(***************************************************************************)
THEOREM TypeCorrect == Spec => []TypeOK
<1>1. Spec => []TInv
  BY InitT, NextT, PTL DEF Spec
<1>2. TInv => TypeOK
  BY DEF TInv
<1>3. QED
  BY <1>1, <1>2, PTL
-----------------------------------------------------------------------------
(***************************************************************************)
(* The window: how far entries and sequence numbers are ahead of rx_sn.    *)
(***************************************************************************)
Ahead(i, sn) == (i - rx_buffer_ring_index(sn)) % RingSize
Pending(entry) == entry.recvd_offsets # {}

(* The distance to a sequence number shrinks as rx_sn is incremented. *)
LEMMA DistanceIs ==
  ASSUME NEW from \in Sn, NEW to \in Sn
  PROVE  /\ from = to => Distance(from, to) = 0 /\ Distance(NextSn(from), to) = SnMod - 1
         /\ from # to => /\ Distance(from, to) \in 1..(SnMod - 1)
                         /\ Distance(NextSn(from), to) = Distance(from, to) - 1
<1>1. SnMod \in Nat \ {0}
  BY SizeAssumption
<1>2. from \in 0..(SnMod - 1) /\ to \in 0..(SnMod - 1)
  BY DEF Sn
<1>3. /\ to = from => (to - from) % SnMod = 0 /\ (to - ((from + 1) % SnMod)) % SnMod = SnMod - 1
      /\ to # from => /\ (to - from) % SnMod \in 1..(SnMod - 1)
                      /\ (to - ((from + 1) % SnMod)) % SnMod = ((to - from) % SnMod) - 1
  BY <1>1, <1>2, Receiving!ModBack
<1>4. QED
  BY <1>3 DEF Distance, NextSn

(* The next sequence number uses the next entry, across the wrap, too. *)
LEMMA IndexOfNext ==
  ASSUME NEW sn \in Sn
  PROVE  rx_buffer_ring_index(NextSn(sn)) = (rx_buffer_ring_index(sn) + 1) % RingSize
<1>1. SnMod \in Nat \ {0} /\ RingSize \in Nat \ {0} /\ SnMod % RingSize = 0
  BY SizeAssumption
<1>2. sn \in Int /\ sn + 1 \in Int /\ 1 \in Int
  BY DEF Sn
<1>3. ((sn + 1) % SnMod) % RingSize = (sn + 1) % RingSize
  BY <1>1, <1>2, Receiving!ModMultiple
<1>4. ((sn % RingSize) + 1) % RingSize = (sn + 1) % RingSize
  BY <1>1, <1>2, Receiving!ModAdd
<1>5. QED
  BY <1>3, <1>4 DEF rx_buffer_ring_index, NextSn

(* An entry other than the first is one place nearer after an increment. *)
LEMMA AheadIs ==
  ASSUME NEW i \in 0..(RingSize - 1), NEW sn \in Sn
  PROVE  /\ Ahead(i, sn) \in 0..(RingSize - 1)
         /\ i # rx_buffer_ring_index(sn) => Ahead(i, NextSn(sn)) = Ahead(i, sn) - 1
<1> DEFINE a == rx_buffer_ring_index(sn)
<1>1. RingSize \in Nat \ {0} /\ a \in 0..(RingSize - 1)
  BY SizeAssumption, SnTypes
<1>2. Ahead(i, NextSn(sn)) = (i - ((a + 1) % RingSize)) % RingSize
  BY IndexOfNext DEF Ahead
<1>3. Ahead(i, sn) = (i - a) % RingSize
  BY DEF Ahead
<1> HIDE DEF a
<1>4. i # a => (i - ((a + 1) % RingSize)) % RingSize = ((i - a) % RingSize) - 1
  BY <1>1, Receiving!ModBack
<1>5. i - a \in Int
  BY <1>1
<1>6. (i - a) % RingSize \in 0..(RingSize - 1)
  BY <1>1, <1>5, Receiving!DivMod
<1>7. QED
  BY <1>2, <1>3, <1>4, <1>6 DEF a

(* The entry of a sequence number is not farther ahead than the number. *)
LEMMA AheadOfSn ==
  ASSUME NEW sn \in Sn, NEW to \in Sn
  PROVE  Ahead(rx_buffer_ring_index(to), sn) <= Distance(sn, to)
<1>1. SnMod \in Nat \ {0} /\ RingSize \in Nat \ {0} /\ SnMod % RingSize = 0
  BY SizeAssumption
<1>2. sn \in Int /\ to \in Int /\ to - sn \in Int /\ -sn \in Int
  BY DEF Sn
<1>3. to % RingSize \in Int
  BY <1>1, <1>2, Receiving!DivMod
<1>4. ((to % RingSize) - (sn % RingSize)) % RingSize = ((to % RingSize) - sn) % RingSize
  BY <1>1, <1>2, <1>3, Receiving!ModSub
<1>5. ((to % RingSize) + (-sn)) % RingSize = (to + (-sn)) % RingSize
  BY <1>1, <1>2, Receiving!ModAdd
<1>6. (to % RingSize) + (-sn) = (to % RingSize) - sn /\ to + (-sn) = to - sn
  BY <1>2, <1>3
<1>7. ((to - sn) % SnMod) % RingSize = (to - sn) % RingSize
  BY <1>1, <1>2, Receiving!ModMultiple
<1>8. Distance(sn, to) \in Nat
  BY DistanceType DEF Sn
<1>9. Distance(sn, to) % RingSize <= Distance(sn, to)
  BY <1>1, <1>8, Receiving!ModLeq
<1>10. Ahead(rx_buffer_ring_index(to), sn) = Distance(sn, to) % RingSize
  BY <1>4, <1>5, <1>6, <1>7 DEF Ahead, Distance, rx_buffer_ring_index
<1>11. QED
  BY <1>9, <1>10

(* An entry of which nothing waits for more segments. *)
Unused(entry) ==
  /\ ~entry.has_expected_size /\ entry.accumulated_size = 0
  /\ entry.expected_size = 0 /\ ~Pending(entry)
WholeEntry(entry) == is_complete(entry) \/ Unused(entry)

(* Emitting a frame and dropping one both move the window by one. *)
Moved(r, q) ==
  /\ q.sn = NextSn(r.sn) /\ q.synced = r.synced
  /\ Unused(q.ring[rx_buffer_ring_index(r.sn)])
  /\ \A i \in 0..(RingSize - 1) : i # rx_buffer_ring_index(r.sn) => q.ring[i] = r.ring[i]

(* That is what transport and drop do, the two steps of update_rx_sn. *)
LEMMA MovedIs ==
  ASSUME NEW r \in RxWork
  PROVE  Moved(r, Transport(r)) /\ Moved(r, Drop(r))
<1> DEFINE i == rx_buffer_ring_index(r.sn)
           emptied == [r.ring EXCEPT ![i] = EmptyEntry]
           reset == [r.ring EXCEPT ![i] = Reset(r.ring[i])]
           next == NextSn(r.sn)
           out == Append(r.out, r.ring[i].buffer)
<1>1. r.ring \in Ring /\ i \in 0..(RingSize - 1)
  BY SnTypes DEF RxWork
<1>2. Unused(EmptyEntry) /\ Unused(Reset(r.ring[i]))
  BY DEF Unused, Pending, EmptyEntry, Reset
<1>3. /\ emptied[i] = EmptyEntry /\ reset[i] = Reset(r.ring[i])
      /\ \A j \in 0..(RingSize - 1) : j # i => emptied[j] = r.ring[j] /\ reset[j] = r.ring[j]
  BY <1>1 DEF Ring
<1>4. Transport(r) = [r EXCEPT !.ring = emptied, !.sn = next, !.out = out]
  BY DEF Transport
<1>5. Drop(r) = [r EXCEPT !.ring = reset, !.sn = next]
  BY DEF Drop
<1> HIDE DEF emptied, reset, next, out
<1>6. /\ Transport(r).ring = emptied /\ Transport(r).sn = next
      /\ Transport(r).synced = r.synced
  BY <1>4 DEF RxWork
<1>7. /\ Drop(r).ring = reset /\ Drop(r).sn = next /\ Drop(r).synced = r.synced
  BY <1>5 DEF RxWork
<1>8. QED
  BY <1>2, <1>3, <1>6, <1>7 DEF Moved, next

(* One round of update_rx_sn: over, a frame emitted, one dropped, or the end. *)
StopsAt(u) == NextSn(u.r.sn) = u.sn \/ config.max_sn_distance > Distance(u.r.sn, u.sn)
FirstComplete(u) == is_complete(u.r.ring[rx_buffer_ring_index(u.r.sn)])

(* What a round does to the window, and when it is the last one. *)
LEMMA UpdateOneIs ==
  ASSUME NEW u \in UpdateWork
  PROVE  LET v == UpdateOne(u) IN
         /\ v \in UpdateWork /\ v.sn = u.sn /\ v.fast_forward = u.fast_forward
         /\ \/ ~u.go /\ v = u
            \/ u.go /\ FirstComplete(u) /\ v.go /\ Moved(u.r, v.r)
            \/ /\ u.go /\ ~FirstComplete(u) /\ u.fast_forward
               /\ v.go = ~StopsAt(u) /\ Moved(u.r, v.r)
            \/ u.go /\ ~FirstComplete(u) /\ ~u.fast_forward /\ ~v.go /\ v.r = u.r
<1> DEFINE v == UpdateOne(u)
           t == Transport(u.r)
           d == Drop(u.r)
           go == ~StopsAt(u)
<1>1. u.r \in RxWork /\ u.go \in BOOLEAN
  BY DEF UpdateWork
<1>2. Moved(u.r, t) /\ Moved(u.r, d)
  BY <1>1, MovedIs
<1>3. v \in UpdateWork
  BY UpdateOneType
<1>4. CASE ~u.go
  <2>1. v = u
    BY <1>4 DEF UpdateOne
  <2>2. QED
    BY <1>3, <1>4, <2>1
<1>5. CASE u.go /\ FirstComplete(u)
  <2>1. v = [u EXCEPT !.r = t]
    BY <1>5 DEF UpdateOne, FirstComplete
  <2> HIDE DEF t, v
  <2>2. v.r = t /\ v.go = u.go /\ v.sn = u.sn /\ v.fast_forward = u.fast_forward
    BY <2>1 DEF UpdateWork
  <2>3. QED
    BY <1>2, <1>3, <1>5, <2>2 DEF v
<1>6. CASE u.go /\ ~FirstComplete(u) /\ u.fast_forward
  <2>1. v = [u EXCEPT !.r = d, !.go = go]
    BY <1>6 DEF UpdateOne, FirstComplete, StopsAt
  <2> HIDE DEF d, v, go
  <2>2. v.r = d /\ v.go = go /\ v.sn = u.sn /\ v.fast_forward = u.fast_forward
    BY <2>1 DEF UpdateWork
  <2>3. QED
    BY <1>2, <1>3, <1>6, <2>2 DEF v, go
<1>7. CASE u.go /\ ~FirstComplete(u) /\ ~u.fast_forward
  <2>1. v = [u EXCEPT !.go = FALSE]
    BY <1>7 DEF UpdateOne, FirstComplete
  <2> HIDE DEF v
  <2>2. v.r = u.r /\ v.go = FALSE /\ v.sn = u.sn /\ v.fast_forward = u.fast_forward
    BY <2>1 DEF UpdateWork
  <2>3. QED
    BY <1>3, <1>7, <2>2 DEF v
<1>8. QED
  BY <1>4, <1>5, <1>6, <1>7
-----------------------------------------------------------------------------
(* Not yet around the ring: complete entries are among those not visited. *)
UnvisitedAfter(k, r) ==
  \A i \in 0..(RingSize - 1) : is_complete(r.ring[i]) => Ahead(i, r.sn) + k <= RingSize - 1

(* Around the ring: a fast forward approaches sn. *)
ApproachesAfter(k, r, sn) ==
  k > RingSize =>
    /\ Distance(r.sn, sn) >= 1
    /\ Distance(r.sn, sn) + (k - RingSize - 1) <= SnMod - 1

(* A round that does not end the loop. *)
LEMMA EndsRound ==
  ASSUME NEW u \in UpdateWork, NEW k \in Nat, UpdateOne(u).go,
         u.go => UnvisitedAfter(k, u.r) /\ ApproachesAfter(k, u.r, u.sn)
  PROVE  UnvisitedAfter(k + 1, UpdateOne(u).r) /\ ApproachesAfter(k + 1, UpdateOne(u).r, u.sn)
<1> DEFINE v == UpdateOne(u)
           a == rx_buffer_ring_index(u.r.sn)
           d == Distance(u.r.sn, u.sn)
<1>1. u.r \in RxWork /\ u.sn \in Sn /\ v \in UpdateWork
  BY UpdateOneType DEF UpdateWork
<1>2. u.r.sn \in Sn /\ SnMod \in Nat \ {0} /\ RingSize \in Nat \ {0}
  BY <1>1, SizeAssumption DEF RxWork
<1>3. u.go /\ Moved(u.r, v.r) /\ (FirstComplete(u) \/ (u.fast_forward /\ ~StopsAt(u)))
  BY UpdateOneIs
<1> HIDE DEF v
<1>4. a \in 0..(RingSize - 1)
  BY <1>2, SnTypes
<1>5. UnvisitedAfter(k + 1, v.r)
  <2> SUFFICES ASSUME NEW i \in 0..(RingSize - 1), is_complete(v.r.ring[i])
               PROVE  Ahead(i, v.r.sn) + (k + 1) <= RingSize - 1
    BY DEF UnvisitedAfter
  <2>1. i # a
    BY <1>3 DEF Moved, Unused, is_complete
  <2>2. is_complete(u.r.ring[i]) /\ v.r.sn = NextSn(u.r.sn)
    BY <1>3, <2>1 DEF Moved
  <2>3. Ahead(i, u.r.sn) + k <= RingSize - 1
    BY <1>3, <2>2 DEF UnvisitedAfter
  <2>4. Ahead(i, v.r.sn) = Ahead(i, u.r.sn) - 1 /\ Ahead(i, u.r.sn) \in 0..(RingSize - 1)
    BY <1>2, <2>1, <2>2, AheadIs
  <2>5. QED
    BY <1>2, <2>3, <2>4
<1>6. ApproachesAfter(k + 1, v.r, u.sn)
  <2> DEFINE j == k + 1
  <2> HIDE DEF j
  <2> SUFFICES ASSUME j > RingSize
               PROVE  /\ Distance(v.r.sn, u.sn) >= 1
                      /\ Distance(v.r.sn, u.sn) + (j - RingSize - 1) <= SnMod - 1
    BY DEF ApproachesAfter, j
  <2>1. ~FirstComplete(u)
    <3> SUFFICES ASSUME FirstComplete(u) PROVE FALSE
      OBVIOUS
    <3>1. Ahead(a, u.r.sn) + k <= RingSize - 1
      BY <1>3, <1>4 DEF UnvisitedAfter, FirstComplete
    <3>2. Ahead(a, u.r.sn) \in 0..(RingSize - 1)
      BY <1>2, <1>4, AheadIs
    <3>3. QED
      BY <1>2, <3>1, <3>2 DEF j
  <2>2. NextSn(u.r.sn) # u.sn /\ v.r.sn = NextSn(u.r.sn)
    BY <1>3, <2>1 DEF StopsAt, Moved
  <2>3. NextSn(u.r.sn) \in Sn
    BY <1>2, SnTypes
  <2>4. Distance(v.r.sn, u.sn) \in 1..(SnMod - 1)
    BY <1>1, <2>2, <2>3, DistanceIs
  <2>5. u.r.sn # u.sn => Distance(v.r.sn, u.sn) = d - 1 /\ d \in 1..(SnMod - 1)
    BY <1>1, <1>2, <2>2, DistanceIs
  <2>6. u.r.sn = u.sn => d = 0
    BY <1>1, <1>2, DistanceIs
  <2>7. k > RingSize => d >= 1 /\ d + (k - RingSize - 1) <= SnMod - 1
    BY <1>3 DEF ApproachesAfter
  <2> DEFINE e == Distance(v.r.sn, u.sn)
  <2>8. CASE u.r.sn = u.sn
    <3>1. k = RingSize
      BY <1>2, <2>6, <2>7, <2>8 DEF j
    <3>2. QED
      BY <1>2, <2>4, <3>1 DEF j
  <2>9. CASE u.r.sn # u.sn
    <3>1. e = d - 1 /\ d \in 1..(SnMod - 1) /\ e \in 1..(SnMod - 1)
      BY <2>4, <2>5, <2>9
    <3> HIDE DEF e, d
    <3>2. e + (j - RingSize - 1) <= SnMod - 1
      BY <1>2, <2>7, <3>1 DEF j
    <3>3. QED
      BY <3>1, <3>2 DEF e
  <2>10. QED
    BY <2>8, <2>9
<1>7. QED
  BY <1>5, <1>6 DEF v

(***************************************************************************)
(* The loop of update_rx_sn, a while (true), ends, whatever the ring       *)
(* holds and however far the sequence number is: after SnMod + RingSize    *)
(* rounds at the latest.                                                   *)
(***************************************************************************)
THEOREM UpdateEnds ==
  ASSUME NEW r \in RxWork, NEW sn \in Sn, NEW ff \in BOOLEAN
  PROVE  ~UpdateRounds(r, sn, ff).go
<1> DEFINE base == [r |-> r, go |-> TRUE, sn |-> sn, fast_forward |-> ff]
           n == SnMod + RingSize
           Good(k) == {u \in UpdateWork :
                         u.sn = sn /\ (u.go => /\ UnvisitedAfter(k, u.r)
                                               /\ ApproachesAfter(k, u.r, sn))}
           Inv == [k \in 0..n |-> Good(k)]
<1>1. SnMod \in Nat \ {0} /\ RingSize \in Nat \ {0} /\ n \in Nat /\ r.sn \in Sn
  BY SizeAssumption DEF RxWork
<1>2. base \in Inv[0]
  <2>1. base \in UpdateWork /\ base.sn = sn /\ base.r = r
    BY DEF UpdateWork
  <2>2. UnvisitedAfter(0, r)
    <3>1. \A i \in 0..(RingSize - 1) : Ahead(i, r.sn) \in 0..(RingSize - 1)
      BY <1>1, AheadIs
    <3>2. QED
      BY <1>1, <3>1 DEF UnvisitedAfter
  <2>3. ApproachesAfter(0, r, sn)
    BY <1>1 DEF ApproachesAfter
  <2> HIDE DEF base
  <2>4. base \in Good(0)
    BY <2>1, <2>2, <2>3
  <2>5. QED
    BY <1>1, <2>4
<1>3. ASSUME NEW k \in 0..(n - 1), NEW u \in Inv[k] PROVE UpdateOne(u) \in Inv[k + 1]
  <2>1. k \in Nat /\ k + 1 \in 0..n /\ k \in 0..n
    BY <1>1
  <2> HIDE DEF n
  <2>2. u \in Good(k)
    BY <2>1, <1>3
  <2>3. UpdateOne(u) \in UpdateWork /\ UpdateOne(u).sn = sn
    BY <2>2, UpdateOneIs
  <2>4. UpdateOne(u).go => /\ UnvisitedAfter(k + 1, UpdateOne(u).r)
                           /\ ApproachesAfter(k + 1, UpdateOne(u).r, sn)
    BY <2>1, <2>2, EndsRound
  <2>5. UpdateOne(u) \in Good(k + 1)
    BY <2>3, <2>4
  <2> HIDE DEF Good
  <2>6. Inv[k + 1] = Good(k + 1)
    BY <2>1
  <2>7. QED
    BY <2>5, <2>6
<1>4. n = SnMod + RingSize /\ base = [r |-> r, go |-> TRUE, sn |-> sn, fast_forward |-> ff]
  OBVIOUS
<1>5. Inv[n] = Good(n)
  BY <1>1
<1>6. UpdateRounds(r, sn, ff) \in Inv[n]
  <2> HIDE DEF Inv, n, base
  <2>1. QED
    BY <1>2, <1>3, <1>4, UpdateInvariant
<1> DEFINE u == UpdateRounds(r, sn, ff)
<1>7. u \in UpdateWork /\ (u.go => ApproachesAfter(n, u.r, sn))
  BY <1>5, <1>6
<1> HIDE DEF u, Good, Inv
<1>8. Distance(u.r.sn, sn) \in Sn
  <2>1. u.r.sn \in Sn
    BY <1>7 DEF UpdateWork, RxWork
  <2>2. QED
    BY <2>1, DistanceType
<1>9. ~u.go
  BY <1>1, <1>7, <1>8 DEF ApproachesAfter, Sn
<1>10. QED
  BY <1>9 DEF u
-----------------------------------------------------------------------------
(***************************************************************************)
(* Without segmentation: PDUs carry whole frames, entries hold whole       *)
(* frames, and what waits is within max_sn_distance.                       *)
(***************************************************************************)
WholeSegment == {s \in Segment : s.offset = 0 /\ s.last /\ s.size = FrameSize[s.frame]}
Within(r) ==
  /\ \A i \in 0..(RingSize - 1) : WholeEntry(r.ring[i])
  /\ \A i \in 0..(RingSize - 1) :
       Pending(r.ring[i]) => r.synced /\ Ahead(i, r.sn) <= config.max_sn_distance

PInv ==
  ~config.allow_segmentation =>
    /\ \A m \in air : m \in Seq(WholeSegment)
    /\ Within([ring |-> rx_buffer_ring, sn |-> rx_sn, synced |-> rx_sn_synced])

(* During update_rx_sn only the entry of sn may be farther ahead. *)
WithinAfter(k, u) ==
  /\ u.r.synced
  /\ \A i \in 0..(RingSize - 1) : WholeEntry(u.r.ring[i])
  /\ \A i \in 0..(RingSize - 1) :
       (Pending(u.r.ring[i]) /\ i # rx_buffer_ring_index(u.sn))
         => Ahead(i, u.r.sn) <= config.max_sn_distance
  /\ Pending(u.r.ring[rx_buffer_ring_index(u.sn)]) =>
       \/ Distance(u.r.sn, u.sn) <= config.max_sn_distance
       \/ u.fast_forward /\ u.go /\ Distance(u.r.sn, u.sn) + k <= SnMod - 1

(* One round keeps that. *)
LEMMA WithinRound ==
  ASSUME config \in Setting, NEW u \in UpdateWork, NEW k \in Nat, WithinAfter(k, u)
  PROVE  WithinAfter(k + 1, UpdateOne(u))
<1> DEFINE v == UpdateOne(u)
           a == rx_buffer_ring_index(u.r.sn)
           t == rx_buffer_ring_index(u.sn)
           d == Distance(u.r.sn, u.sn)
           max == config.max_sn_distance
<1>1. u.r \in RxWork /\ u.sn \in Sn
  BY DEF UpdateWork
<1>2. u.r.sn \in Sn /\ SnMod \in Nat \ {0} /\ max \in Nat
  BY <1>1, SizeAssumption, ConfigTypes DEF RxWork
<1>3. t \in 0..(RingSize - 1) /\ a \in 0..(RingSize - 1)
  BY <1>1, <1>2, SnTypes
<1>4. v.sn = u.sn /\ v.fast_forward = u.fast_forward
  BY UpdateOneIs
<1>5. CASE v = u /\ ~u.go
  BY <1>5 DEF WithinAfter
<1>6. CASE ~u.fast_forward /\ v.r = u.r
  BY <1>4, <1>6 DEF WithinAfter
<1>7. CASE u.go /\ Moved(u.r, v.r) /\ (v.go \/ StopsAt(u))
  <2> HIDE DEF v
  <2>1. v.r.sn = NextSn(u.r.sn) /\ v.r.synced /\ Unused(v.r.ring[a])
        /\ \A i \in 0..(RingSize - 1) : i # a => v.r.ring[i] = u.r.ring[i]
    BY <1>7 DEF Moved, WithinAfter
  <2>2. \A i \in 0..(RingSize - 1) : WholeEntry(v.r.ring[i])
    <3>1. \A i \in 0..(RingSize - 1) : WholeEntry(u.r.ring[i])
      BY DEF WithinAfter
    <3>2. WholeEntry(v.r.ring[a])
      BY <2>1 DEF WholeEntry
    <3>3. QED
      BY <2>1, <3>1, <3>2
  <2>3. ASSUME NEW i \in 0..(RingSize - 1), Pending(v.r.ring[i]), i # t
        PROVE  Ahead(i, v.r.sn) <= max
    <3>1. i # a
      BY <2>1, <2>3 DEF Unused
    <3>2. Pending(u.r.ring[i])
      BY <2>1, <2>3, <3>1
    <3>3. Ahead(i, u.r.sn) <= max
      BY <2>3, <3>2 DEF WithinAfter
    <3>4. Ahead(i, v.r.sn) = Ahead(i, u.r.sn) - 1 /\ Ahead(i, u.r.sn) \in 0..(RingSize - 1)
      BY <1>2, <2>1, <3>1, AheadIs
    <3>5. QED
      BY <1>2, <3>3, <3>4, SizeAssumption
  <2>4. ASSUME Pending(v.r.ring[t])
        PROVE  \/ Distance(v.r.sn, u.sn) <= max
               \/ u.fast_forward /\ v.go /\ Distance(v.r.sn, u.sn) + (k + 1) <= SnMod - 1
    <3>1. t # a
      BY <2>1, <2>4 DEF Unused
    <3>2. Pending(u.r.ring[t])
      BY <1>3, <2>1, <2>4, <3>1
    <3>3. d <= max \/ (u.fast_forward /\ u.go /\ d + k <= SnMod - 1)
      BY <3>2 DEF WithinAfter
    <3>4. u.r.sn # u.sn
      BY <3>1
    <3>5. d \in 1..(SnMod - 1) /\ Distance(v.r.sn, u.sn) = d - 1
      BY <1>1, <1>2, <2>1, <3>4, DistanceIs
    <3>6. StopsAt(u) => d - 1 = 0 \/ max > d
      <4>1. NextSn(u.r.sn) = u.sn => Distance(v.r.sn, u.sn) = 0
        BY <1>1, <2>1, DistanceIs
      <4>2. QED
        BY <3>5, <4>1 DEF StopsAt
    <3> DEFINE e == Distance(v.r.sn, u.sn)
    <3>7. e = d - 1
      BY <3>5
    <3> HIDE DEF d, e, max
    <3>8. e <= max \/ (u.fast_forward /\ v.go /\ e + (k + 1) <= SnMod - 1)
      <4>1. CASE d <= max
        BY <1>2, <3>5, <3>7, <4>1
      <4>2. CASE ~(d <= max)
        <5>1. u.fast_forward /\ d + k <= SnMod - 1
          BY <3>3, <4>2
        <5>2. CASE v.go
          BY <1>2, <3>5, <3>7, <4>2, <5>1, <5>2
        <5>3. CASE ~v.go
          BY <1>2, <1>7, <3>5, <3>6, <3>7, <4>2, <5>3
        <5>4. QED
          BY <5>2, <5>3
      <4>3. QED
        BY <4>1, <4>2
    <3>9. QED
      BY <3>8 DEF e, max
  <2>5. QED
    BY <1>4, <2>1, <2>2, <2>3, <2>4 DEF WithinAfter, v
<1>8. QED
  BY <1>5, <1>6, <1>7, UpdateOneIs

(* update_rx_sn brings the window back within the distance. *)
LEMMA UpdateWithin ==
  ASSUME config \in Setting, NEW r \in RxWork, NEW sn \in Sn, NEW ff \in BOOLEAN,
         r.synced, \A i \in 0..(RingSize - 1) : WholeEntry(r.ring[i]),
         \A i \in 0..(RingSize - 1) :
           (Pending(r.ring[i]) /\ i # rx_buffer_ring_index(sn))
             => Ahead(i, r.sn) <= config.max_sn_distance,
         ff \/ Distance(r.sn, sn) <= config.max_sn_distance
  PROVE  Within(update_rx_sn(r, sn, ff))
<1> DEFINE base == [r |-> r, go |-> TRUE, sn |-> sn, fast_forward |-> ff]
           n == SnMod + RingSize
           Good(k) == {u \in UpdateWork : u.sn = sn /\ WithinAfter(k, u)}
           Inv == [k \in 0..n |-> Good(k)]
<1>1. /\ SnMod \in Nat \ {0} /\ RingSize \in Nat \ {0} /\ n \in Nat /\ r.sn \in Sn
      /\ config.max_sn_distance \in Nat
  BY SizeAssumption, ConfigTypes DEF RxWork
<1>2. base \in Inv[0]
  <2>1. base \in UpdateWork /\ base.sn = sn /\ base.r = r /\ base.go /\ base.fast_forward = ff
    BY DEF UpdateWork
  <2>2. Distance(r.sn, sn) + 0 <= SnMod - 1
    <3>1. Distance(r.sn, sn) \in 0..(SnMod - 1)
      BY <1>1, DistanceType DEF Sn
    <3>2. QED
      BY <1>1, <3>1
  <2> HIDE DEF base
  <2>3. WithinAfter(0, base)
    BY <2>1, <2>2 DEF WithinAfter
  <2>4. base \in Good(0)
    BY <2>1, <2>3
  <2>5. QED
    BY <1>1, <2>4
<1>3. ASSUME NEW k \in 0..(n - 1), NEW u \in Inv[k] PROVE UpdateOne(u) \in Inv[k + 1]
  <2>1. k \in Nat /\ k + 1 \in 0..n /\ k \in 0..n
    BY <1>1
  <2> HIDE DEF n
  <2>2. u \in Good(k)
    BY <2>1, <1>3
  <2>3. UpdateOne(u) \in UpdateWork /\ UpdateOne(u).sn = sn
    BY <2>2, UpdateOneIs
  <2>4. WithinAfter(k + 1, UpdateOne(u))
    BY <2>1, <2>2, WithinRound
  <2>5. UpdateOne(u) \in Good(k + 1)
    BY <2>3, <2>4
  <2> HIDE DEF Good
  <2>6. Inv[k + 1] = Good(k + 1)
    BY <2>1
  <2>7. QED
    BY <2>5, <2>6
<1>4. n = SnMod + RingSize /\ base = [r |-> r, go |-> TRUE, sn |-> sn, fast_forward |-> ff]
  OBVIOUS
<1>5. Inv[n] = Good(n)
  BY <1>1
<1>6. UpdateRounds(r, sn, ff) \in Inv[n]
  <2> HIDE DEF Inv, n, base
  <2>1. QED
    BY <1>2, <1>3, <1>4, UpdateInvariant
<1> DEFINE u == UpdateRounds(r, sn, ff)
           q == update_rx_sn(r, sn, ff)
           t == rx_buffer_ring_index(sn)
<1>7. u \in UpdateWork /\ u.sn = sn /\ WithinAfter(n, u) /\ q = u.r
  BY <1>5, <1>6 DEF update_rx_sn
<1> HIDE DEF u, Good, Inv, q
<1>8. u.r.sn \in Sn
  BY <1>7 DEF UpdateWork, RxWork
<1>9. Pending(u.r.ring[t]) => Ahead(t, u.r.sn) <= config.max_sn_distance
  <2> SUFFICES ASSUME Pending(u.r.ring[t]) PROVE Ahead(t, u.r.sn) <= config.max_sn_distance
    OBVIOUS
  <2>1. Distance(u.r.sn, sn) \in Nat /\ Ahead(t, u.r.sn) <= Distance(u.r.sn, sn)
    BY <1>8, DistanceType, AheadOfSn DEF Sn
  <2>2. Distance(u.r.sn, sn) <= config.max_sn_distance \/ Distance(u.r.sn, sn) + n <= SnMod - 1
    BY <1>7 DEF WithinAfter
  <2>3. t \in 0..(RingSize - 1)
    BY SnTypes
  <2>4. Ahead(t, u.r.sn) \in 0..(RingSize - 1)
    BY <1>8, <2>3, AheadIs
  <2>5. QED
    BY <1>1, <2>1, <2>2, <2>4
<1>10. Within(q)
  BY <1>7, <1>9 DEF Within, WithinAfter
<1>11. QED
  BY <1>10 DEF q

(* A whole frame makes an entry complete at once. *)
LEMMA WholeReassembled ==
  ASSUME NEW e \in Entry, Unused(e), NEW segment \in WholeSegment
  PROVE  is_complete(Reassembled(e, segment))
<1>1. /\ segment.offset = 0 /\ segment.last /\ segment.size \in Nat
  BY DEF WholeSegment, Segment
<1>2. e.accumulated_size = 0 /\ e.recvd_offsets = {}
  BY DEF Unused, Pending
<1>3. IsNewOffset(e, segment)
  BY <1>2 DEF IsNewOffset
<1>4. /\ Reassembled(e, segment).has_expected_size = (segment.last \/ e.has_expected_size)
      /\ Reassembled(e, segment).expected_size =
           IF segment.last THEN segment.offset + segment.size ELSE e.expected_size
      /\ Reassembled(e, segment).accumulated_size =
           e.accumulated_size + IF IsNewOffset(e, segment) THEN segment.size ELSE 0
  BY DEF Reassembled
<1>5. QED
  BY <1>1, <1>2, <1>3, <1>4 DEF is_complete

(* One round of on_rx keeps the window. *)
LEMMA OnSegmentWithin ==
  ASSUME config \in Setting, NEW r0 \in RxWork, Within(r0), NEW segment \in WholeSegment
  PROVE  Within(OnSegment(r0, segment))
<1> DEFINE r == IF r0.synced THEN r0 ELSE [r0 EXCEPT !.synced = TRUE, !.sn = segment.sn]
           i == rx_buffer_ring_index(segment.sn)
           entry == Reassembled(r.ring[i], segment)
           ring == [r.ring EXCEPT ![i] = entry]
           stored == [r EXCEPT !.ring = ring]
           dist == Distance(r.sn, segment.sn)
           ff == IsOutOfRange(dist)
           q == OnSegment(r0, segment)
<1>1. segment \in Segment /\ segment.sn \in Sn
  BY DEF WholeSegment, Segment
<1>2. r \in RxWork
  BY <1>1 DEF RxWork
<1>3. Within(r) /\ r.synced
  <2>1. CASE r0.synced
    BY <2>1
  <2>2. CASE ~r0.synced
    <3>1. r.ring = r0.ring /\ r.synced
      BY <2>2 DEF RxWork
    <3>2. \A j \in 0..(RingSize - 1) : ~Pending(r0.ring[j])
      BY <2>2 DEF Within
    <3> HIDE DEF r
    <3>3. QED
      BY <3>1, <3>2 DEF Within
  <2>3. QED
    BY <2>1, <2>2
<1>4. \/ q = r
      \/ q = [r EXCEPT !.rlf = TRUE]
      \/ ~is_complete(r.ring[i]) /\ is_complete(entry) /\ q = update_rx_sn(stored, segment.sn, ff)
      \/ ~is_complete(r.ring[i]) /\ ~is_complete(entry) /\ q = stored
  BY DEF OnSegment
<1> HIDE DEF r, q
<1>5. r.ring \in Ring /\ i \in 0..(RingSize - 1) /\ r.sn \in Sn
  BY <1>1, <1>2, SnTypes DEF RxWork
<1>6. r.ring[i] \in Entry
  BY <1>5 DEF Ring
<1>7. CASE q = r \/ q = [r EXCEPT !.rlf = TRUE]
  <2>1. q.ring = r.ring /\ q.sn = r.sn /\ q.synced = r.synced
    BY <1>2, <1>7 DEF RxWork
  <2>2. Within(q)
    BY <1>3, <2>1 DEF Within
  <2>3. QED
    BY <2>2 DEF q
<1>8. CASE ~is_complete(r.ring[i])
  <2>1. Unused(r.ring[i])
    BY <1>3, <1>5, <1>8 DEF Within, WholeEntry
  <2>2. is_complete(entry) /\ entry \in Entry
    BY <1>1, <1>6, <2>1, WholeReassembled, ReassembledType
  <2> HIDE DEF entry
  <2>3. ring \in Ring /\ ring[i] = entry /\ \A j \in 0..(RingSize - 1) : j # i => ring[j] = r.ring[j]
    BY <1>5, <2>2 DEF Ring
  <2> HIDE DEF ring
  <2>4. stored \in RxWork /\ stored.ring = ring /\ stored.sn = r.sn /\ stored.synced = r.synced
    BY <1>2, <2>3 DEF RxWork
  <2> HIDE DEF stored
  <2>5. \A j \in 0..(RingSize - 1) : WholeEntry(stored.ring[j])
    <3>1. \A j \in 0..(RingSize - 1) : WholeEntry(r.ring[j])
      BY <1>3 DEF Within
    <3>2. WholeEntry(ring[i])
      BY <2>2, <2>3 DEF WholeEntry
    <3>3. QED
      BY <2>3, <2>4, <3>1, <3>2
  <2>6. \A j \in 0..(RingSize - 1) : (Pending(stored.ring[j]) /\ j # i)
          => Ahead(j, stored.sn) <= config.max_sn_distance
    BY <1>3, <2>3, <2>4 DEF Within
  <2>7. dist \in Nat /\ config.max_sn_distance \in Nat
    BY <1>1, <1>5, DistanceType, ConfigTypes DEF Sn
  <2>8. ff \in BOOLEAN /\ (ff \/ Distance(stored.sn, segment.sn) <= config.max_sn_distance)
    BY <2>4, <2>7 DEF IsOutOfRange
  <2> HIDE DEF ff, dist, i
  <2>9. q = update_rx_sn(stored, segment.sn, ff) \/ q = r \/ q = [r EXCEPT !.rlf = TRUE]
    BY <1>4, <2>2
  <2>10. Within(update_rx_sn(stored, segment.sn, ff))
    BY <1>1, <1>3, <2>4, <2>5, <2>6, <2>8, UpdateWithin DEF i
  <2>11. QED
    BY <1>7, <2>9, <2>10 DEF q
<1>9. QED
  BY <1>4, <1>7, <1>8

(* on_rx keeps the window. *)
LEMMA ReceivedWithin ==
  ASSUME TInv, NEW m \in Seq(WholeSegment),
         Within([ring |-> rx_buffer_ring, sn |-> rx_sn, synced |-> rx_sn_synced])
  PROVE  Within(Received(m))
<1> DEFINE base == [ring |-> rx_buffer_ring, sn |-> rx_sn, synced |-> rx_sn_synced,
                    out |-> <<>>, rlf |-> FALSE]
           n == Len(m)
           Good == {r \in RxWork : Within(r)}
           Inv == [k \in 0..n |-> Good]
<1>1. n \in Nat /\ DOMAIN m = 1..n /\ config \in Setting
  BY DEF TInv, TypeOK
<1>2. base \in Good
  <2>1. <<>> \in Seq(Octets)
    OBVIOUS
  <2>2. base \in RxWork
    BY <2>1 DEF TInv, TypeOK, RxWork
  <2>3. Within(base)
    BY DEF Within
  <2>4. QED
    BY <2>2, <2>3
<1>3. base \in Inv[0] /\ Inv[n] = Good
  BY <1>1, <1>2
<1>4. \A k \in 0..(n - 1) : \A r \in Inv[k] : OnSegment(r, m[k + 1]) \in Inv[k + 1]
  <2> SUFFICES ASSUME NEW k \in 0..(n - 1), NEW r \in Inv[k]
               PROVE  OnSegment(r, m[k + 1]) \in Inv[k + 1]
    OBVIOUS
  <2>1. Inv[k] = Good /\ Inv[k + 1] = Good
    BY <1>1
  <2>2. m[k + 1] \in WholeSegment
    BY <1>1
  <2>3. m[k + 1] \in Segment
    BY <2>2 DEF WholeSegment
  <2>4. r \in RxWork /\ Within(r)
    BY <2>1
  <2>5. OnSegment(r, m[k + 1]) \in RxWork
    BY <2>3, <2>4, OnSegmentType
  <2>6. Within(OnSegment(r, m[k + 1]))
    BY <1>1, <2>2, <2>4, OnSegmentWithin
  <2>7. OnSegment(r, m[k + 1]) \in Good
    BY <2>5, <2>6
  <2> HIDE DEF Inv, Good
  <2>8. QED
    BY <2>1, <2>7
<1>5. Received(m) = Receiving!FoldLeft(OnSegment, base, m)
  BY DEF Received, FoldLeft, MapThenFoldSet, Max,
         Receiving!FoldLeft, Receiving!MapThenFoldSet, Receiving!Max
<1> HIDE DEF base, n, Inv, Good
<1>6. Receiving!FoldLeft(OnSegment, base, m) \in Inv[n]
  BY <1>1, <1>3, <1>4, Receiving!LoopInvariant
<1>7. Received(m) \in Good
  BY <1>3, <1>5, <1>6
<1>8. QED
  BY <1>7 DEF Good

(* Without segmentation on_tx adds whole frames to the PDU. *)
LEMMA AllocateWhole ==
  ASSUME ~config.allow_segmentation, NEW w \in TxWork, w.pdu \in Seq(WholeSegment)
  PROVE  AllocateSegment(w).pdu \in Seq(WholeSegment)
<1> DEFINE room == w.room - HeaderSize
           f == Head(w.frames)
           left == room - FrameSize[f]
           segment == [sn |-> w.sn, offset |-> 0, size |-> FrameSize[f],
                       last |-> TRUE, frame |-> f]
           pdu == Append(w.pdu, segment)
           q == AllocateSegment(w)
<1>1. w.room \in Nat /\ HeaderSize \in Nat \ {0} /\ w.frames \in Seq(Frame) /\ w.sn \in Sn
  BY SizeAssumption DEF TxWork
<1>2. CASE room <= 0 \/ w.frames = <<>> \/ FrameSize[f] > room
  <2>1. q = [w EXCEPT !.room = 0]
    BY <1>2 DEF AllocateSegment, WholeFrame
  <2>2. q.pdu = w.pdu
    BY <2>1 DEF TxWork
  <2>3. QED
    BY <2>2
<1>3. CASE ~(room <= 0 \/ w.frames = <<>> \/ FrameSize[f] > room)
  <2>1. q = [w EXCEPT !.frames = Tail(w.frames), !.sn = NextSn(w.sn), !.room = left, !.pdu = pdu]
    BY <1>3 DEF AllocateSegment, WholeFrame
  <2>2. f \in Frame
    BY <1>1, <1>3, FramesLeft
  <2>3. FrameSize[f] \in Nat \ {0}
    BY <2>2, FrameSizes
  <2>4. segment \in WholeSegment
    BY <1>1, <2>2, <2>3 DEF WholeSegment, Segment
  <2>5. pdu \in Seq(WholeSegment)
    <3> HIDE DEF segment
    <3>1. QED
      BY <2>4
  <2> HIDE DEF left, pdu
  <2>6. q.pdu = pdu
    BY <2>1 DEF TxWork
  <2>7. QED
    BY <2>5, <2>6
<1>4. QED
  BY <1>2, <1>3

(* The PDU that on_tx makes without segmentation. *)
LEMMA AllocatedWhole ==
  ASSUME TInv, ~config.allow_segmentation, NEW size \in Nat
  PROVE  Allocated(size).pdu \in Seq(WholeSegment)
<1> DEFINE base == [frames |-> to_tx_queue, current |-> current_tx_buffer,
                    offset |-> current_tx_offset, sn |-> tx_sn, room |-> size, pdu |-> <<>>]
           seq == Append(to_tx_queue, current_tx_buffer)
           n == Len(to_tx_queue) + 1
           Good == {w \in TxWork : InFrame(w.current, w.offset) /\ w.pdu \in Seq(WholeSegment)}
           Inv == [k \in 0..n |-> Good]
<1>1. to_tx_queue \in Seq(Frame) /\ current_tx_buffer \in Frame \cup {NoFrame}
      /\ current_tx_offset \in Nat /\ tx_sn \in Sn
      /\ InFrame(current_tx_buffer, current_tx_offset)
  BY DEF TInv, TypeOK
<1>2. n \in Nat /\ DOMAIN seq = 1..n
  BY <1>1
<1>3. base \in Good
  <2>1. <<>> \in Seq(WholeSegment) /\ <<>> \in Seq(Segment)
    OBVIOUS
  <2>2. QED
    BY <1>1, <2>1 DEF TxWork
<1>4. \A w \in Good : AllocateRound(w, 0) \in Good
  BY AllocateSegmentType, AllocateWhole DEF AllocateRound
<1>5. \A w, x, y : AllocateRound(w, x) = AllocateRound(w, y)
  BY DEF AllocateRound
<1> HIDE DEF Good
<1>6. base \in Inv[0] /\ Inv[n] = Good
  BY <1>2, <1>3
<1>7. \A k \in 0..(n - 1) : \A w \in Inv[k] : AllocateRound(w, seq[k + 1]) \in Inv[k + 1]
  <2> SUFFICES ASSUME NEW k \in 0..(n - 1), NEW w \in Inv[k]
               PROVE  AllocateRound(w, seq[k + 1]) \in Inv[k + 1]
    OBVIOUS
  <2>1. Inv[k] = Good /\ Inv[k + 1] = Good
    BY <1>2
  <2>2. AllocateRound(w, seq[k + 1]) = AllocateRound(w, 0)
    BY <1>5
  <2> HIDE DEF Inv, seq
  <2>3. QED
    BY <2>1, <2>2, <1>4
<1>8. Allocated(size) = Allocating!FoldLeft(AllocateRound, base, seq)
  BY DEF Allocated, AllocateRound, FoldLeft, MapThenFoldSet, Max,
         Allocating!FoldLeft, Allocating!MapThenFoldSet, Allocating!Max
<1> HIDE DEF base, seq, n, Inv
<1>9. Allocating!FoldLeft(AllocateRound, base, seq) \in Inv[n]
  BY <1>2, <1>6, <1>7, Allocating!LoopInvariant
<1>10. Allocated(size) \in Good
  BY <1>6, <1>8, <1>9
<1>11. QED
  BY <1>10 DEF Good

(* The window as the state has it. *)
LEMMA WithinState ==
  PInv = (~config.allow_segmentation =>
            /\ \A m \in air : m \in Seq(WholeSegment)
            /\ \A i \in 0..(RingSize - 1) :
                 /\ WholeEntry(rx_buffer_ring[i])
                 /\ Pending(rx_buffer_ring[i]) =>
                      rx_sn_synced /\ Ahead(i, rx_sn) <= config.max_sn_distance)
BY DEF PInv, Within

(* Nothing waits in entries that were reset. *)
LEMMA ResetUnused ==
  ASSUME NEW e PROVE Unused(EmptyEntry) /\ Unused(Reset(e))
BY DEF Unused, Pending, EmptyEntry, Reset

(* Initially nothing waits. *)
LEMMA InitP == Init => PInv
<1> SUFFICES ASSUME Init PROVE PInv
  OBVIOUS
<1>1. air = {} /\ \A i \in 0..(RingSize - 1) : rx_buffer_ring[i] = EmptyEntry
  BY DEF Init
<1>2. Unused(EmptyEntry)
  BY ResetUnused
<1>3. QED
  BY <1>1, <1>2, WithinState DEF WholeEntry, Unused

(* Every step keeps the window. *)
LEMMA NextP == TInv /\ PInv /\ [Next]_vars => PInv'
<1> SUFFICES ASSUME TInv, PInv, [Next]_vars, ~config'.allow_segmentation PROVE PInv'
  BY DEF PInv
<1>1. config' = config
  BY DEF Next, vars, to_tx, Transmit, on_tx, Receive, on_rx, on_rx_malformed, TakeSegments,
         on_rx_disabled, Lose, to_rx, Rrc,
         set_tx_enabled_flag, PdcpRlf, Exchange, ActivateTx, ActivateRx, LlcRlf
<1>2. ~config.allow_segmentation
  BY <1>1
<1>3. /\ \A m \in air : m \in Seq(WholeSegment)
      /\ Within([ring |-> rx_buffer_ring, sn |-> rx_sn, synced |-> rx_sn_synced])
  BY <1>2 DEF PInv
<1>4. ASSUME air' \subseteq air, UNCHANGED rx PROVE PInv'
  BY <1>1, <1>3, <1>4 DEF PInv, Within, rx
<1>5. CASE UNCHANGED vars
  BY <1>4, <1>5 DEF vars, llc
<1>6. CASE to_tx
  BY <1>4, <1>6 DEF to_tx, llc
<1>7. CASE Transmit
  <2>1. PICK size \in AllocSize : on_tx(size)
    BY <1>7 DEF Transmit
  <2>2. Allocated(size).pdu \in Seq(WholeSegment)
    BY <1>2, AllocatedWhole, SizeAssumption
  <2>3. air' = air \cup {Allocated(size).pdu} /\ UNCHANGED rx
    BY <2>1 DEF on_tx
  <2>4. \A m \in air' : m \in Seq(WholeSegment)
    BY <1>3, <2>2, <2>3
  <2>5. QED
    BY <1>1, <1>3, <2>3, <2>4 DEF PInv, Within, rx
<1>8. CASE \E m \in air : on_rx(m) \/ on_rx_malformed(m)
  <2>0. PICK m \in air : on_rx(m) \/ on_rx_malformed(m)
    BY <1>8
  <2>1. PICK n \in Seq(WholeSegment) : TakeSegments(n)
    <3>1. m \in Seq(WholeSegment)
      BY <1>3
    <3>2. CASE on_rx(m)
      BY <3>1, <3>2 DEF on_rx
    <3>3. CASE on_rx_malformed(m)
      <4>1. PICK k \in 0..(Len(m) - 1) : TakeSegments(SubSeq(m, 1, k))
        BY <3>3 DEF on_rx_malformed
      <4>2. SubSeq(m, 1, k) \in Seq(WholeSegment)
        BY <3>1
      <4>3. \E n \in Seq(WholeSegment) : TakeSegments(n)
        BY <4>1, <4>2, Zenon
      <4>4. QED
        BY <4>3
    <3>4. QED
      BY <2>0, <3>2, <3>3
  <2> DEFINE r == Received(n)
  <2>2. Within(r)
    BY <1>3, ReceivedWithin
  <2>3. /\ rx_buffer_ring' = r.ring /\ rx_sn' = r.sn /\ rx_sn_synced' = r.synced
        /\ air' \subseteq air
    BY <2>1, <2>0 DEF on_rx, on_rx_malformed, TakeSegments
  <2> HIDE DEF r
  <2>4. \A x \in air' : x \in Seq(WholeSegment)
    BY <1>3, <2>3
  <2>5. QED
    BY <1>1, <2>2, <2>3, <2>4 DEF PInv, Within
<1>9. CASE \E m \in air : on_rx_disabled(m) \/ Lose(m)
  BY <1>4, <1>9 DEF on_rx_disabled, Lose
<1>10. CASE to_rx
  BY <1>1, <1>3, <1>10 DEF to_rx, PInv, Within, llc
<1>11. CASE set_tx_enabled_flag
  BY <1>4, <1>11 DEF set_tx_enabled_flag
<1>12. CASE ActivateTx \/ LlcRlf
  BY <1>4, <1>12 DEF ActivateTx, LlcRlf, llc
<1>13. CASE PdcpRlf \/ Exchange \/ ActivateRx
  <2>1. air' = air /\ \E v \in BOOLEAN : set_rx_enabled(v)
    BY <1>13 DEF PdcpRlf, Exchange, ActivateRx, llc
  <2>2. rx_buffer_ring \in Ring
    BY DEF TInv
  <2>3. \A i \in 0..(RingSize - 1) : rx_buffer_ring'[i] = Reset(rx_buffer_ring[i])
    BY <2>1, <2>2 DEF set_rx_enabled, Ring
  <2>4. \A i \in 0..(RingSize - 1) : Unused(rx_buffer_ring'[i])
    BY <2>3, ResetUnused
  <2>5. \A n \in air' : n \in Seq(WholeSegment)
    BY <1>3, <2>1
  <2>6. QED
    BY <2>4, <2>5 DEF PInv, Within, WholeEntry, Unused
<1>14. QED
  BY <1>5, <1>6, <1>7, <1>8, <1>9, <1>10, <1>11, <1>12, <1>13
     DEF Next, Receive, Rrc

(***************************************************************************)
(* Without segmentation, what waits in the ring is within max_sn_distance  *)
(* of rx_sn: on_rx and update_rx_sn keep the window through losses, late   *)
(* and repeated PDUs, the wrap of the sequence number, fast forwards and   *)
(* faults, for every distance, frame size and traffic.                     *)
(***************************************************************************)
THEOREM PendingWithinDistanceHolds == Spec => []PendingWithinDistance
<1>1. Spec => [](TInv /\ PInv)
  BY InitT, NextT, InitP, NextP, PTL DEF Spec
<1>2. PInv => PendingWithinDistance
  BY DEF PInv, Within, PendingWithinDistance, Pending, Ahead
<1>3. QED
  BY <1>1, <1>2, PTL
=============================================================================
