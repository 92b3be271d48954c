--------------------------- MODULE PdcpUlDlProofs ---------------------------
(***************************************************************************)
(* Safety of pdcp_ul and pdcp_dl for every frame size, buffer size and     *)
(* sequence number space: the types under every configuration, and under   *)
(* those in which the ring is large enough for the segments the rest, up   *)
(* to the channel of module FrameChannel.                                  *)
(***************************************************************************)
EXTENDS PdcpUlDl, FiniteSetTheorems, SequenceTheorems, TLAPS

(* What the loops of write_pdcp and on_pdcp_data work on. *)
Buffer == Seq(Frame \cup {Junk})
Entry == [sn : Sn, state : State]
Ring(c) == [0..(c.reorder_size - 1) -> Slot]
TxWork == [frames : Seq(Frame), offset : Nat, sn : Sn, room : Nat, pdu : Seq(Segment)]
RxWork(c) == [ring : Ring(c), overflow : Seq(Entry), next : Sn, done : Seq(Buffer), bytes : Nat]

(* The loops. *)
WriteRound(w, i) == WriteSegment(w)
FlushRound(r, i) == FlushOne(r)
Plus(sum, n) == sum + n
PlusSize(sum, segment) == sum + segment.size
Writing == INSTANCE Loops WITH Step <- WriteRound
Receiving == INSTANCE Loops WITH Step <- OnSegment
Flushing == INSTANCE Loops WITH Step <- FlushRound
Summing == INSTANCE Loops WITH Step <- Plus
Paying == INSTANCE Loops WITH Step <- PlusSize
-----------------------------------------------------------------------------
(* A sum is a loop. *)
LEMMA SumLoop ==
  ASSUME NEW seq
  PROVE  SumOf(seq) = Summing!FoldLeft(Plus, 0, seq)
BY DEF SumOf, Plus, FoldLeft, MapThenFoldSet, Max,
       Summing!FoldLeft, Summing!MapThenFoldSet, Summing!Max

(* The octets of a PDU, as a loop. *)
LEMMA PayloadLoop ==
  ASSUME NEW pdu
  PROVE  PayloadSize(pdu) = Paying!FoldLeft(PlusSize, 0, pdu)
BY DEF PayloadSize, PlusSize, FoldLeft, MapThenFoldSet, Max,
       Paying!FoldLeft, Paying!MapThenFoldSet, Paying!Max

(* What the loop leads through. *)
LEMMA SumRounds ==
  ASSUME NEW n \in Nat, NEW seq, DOMAIN seq = 1..n
  PROVE  \E g : Summing!Rounds(g, 0, seq, n) /\ Summing!FoldLeft(Plus, 0, seq) = g[n]
BY Zenon, Summing!FoldRounds

(* The rounds of that loop. *)
LEMMA PayloadRounds ==
  ASSUME NEW n \in Nat, NEW seq, DOMAIN seq = 1..n
  PROVE  \E g : Paying!Rounds(g, 0, seq, n) /\ Paying!FoldLeft(PlusSize, 0, seq) = g[n]
BY Zenon, Paying!FoldRounds

(* The sum of a sequence of naturals that grows at its end. *)
LEMMA SumMore ==
  ASSUME NEW n \in Nat, NEW seq, DOMAIN seq = 1..n,
         NEW more, DOMAIN more = 1..(n + 1), \A k \in 1..n : more[k] = seq[k]
  PROVE  SumOf(more) = SumOf(seq) + more[n + 1]
<1>1. n + 1 \in Nat /\ n \in 0..((n + 1) - 1)
  OBVIOUS
<1>2. PICK f : Summing!Rounds(f, 0, more, n + 1) /\ Summing!FoldLeft(Plus, 0, more) = f[n + 1]
  BY <1>1, SumRounds
<1>3. Summing!Rounds(f, 0, seq, n)
  <2>1. ASSUME NEW k \in 0..(n - 1) PROVE f[k + 1] = Plus(f[k], seq[k + 1])
    <3>1. k \in 0..((n + 1) - 1) /\ k + 1 \in 1..n
      OBVIOUS
    <3>2. QED
      BY <1>2, <3>1 DEF Summing!Rounds
  <2>2. QED
    BY <1>2, <2>1 DEF Summing!Rounds
<1>4. Summing!FoldLeft(Plus, 0, seq) = f[n]
  BY <1>3, Summing!FoldIs
<1>5. f[n + 1] = f[n] + more[n + 1]
  BY <1>1, <1>2 DEF Summing!Rounds, Plus
<1>6. QED
  BY <1>2, <1>4, <1>5, SumLoop

(* Nothing adds up to nothing. *)
LEMMA SumEmpty ==
  ASSUME NEW seq, DOMAIN seq = 1..0 PROVE SumOf(seq) = 0
<1>1. Summing!FoldLeft(Plus, 0, seq) = 0
  BY Summing!FoldEmpty
<1>2. QED
  BY <1>1, SumLoop

(* A sum of numbers is a number. *)
LEMMA SumType ==
  ASSUME NEW n \in Nat, NEW seq, DOMAIN seq = 1..n, \A k \in 1..n : seq[k] \in Nat
  PROVE  SumOf(seq) \in Nat
<1> DEFINE I == [k \in 0..n |-> Nat]
<1>1. 0 \in I[0] /\ I[n] = Nat
  OBVIOUS
<1>2. \A k \in 0..(n - 1) : \A w \in I[k] : Plus(w, seq[k + 1]) \in I[k + 1]
  <2> SUFFICES ASSUME NEW k \in 0..(n - 1), NEW w \in I[k]
               PROVE  Plus(w, seq[k + 1]) \in I[k + 1]
    OBVIOUS
  <2>1. w \in Nat /\ seq[k + 1] \in Nat /\ I[k + 1] = Nat
    OBVIOUS
  <2>2. QED
    BY <2>1 DEF Plus
<1> HIDE DEF I
<1>3. Summing!FoldLeft(Plus, 0, seq) \in I[n]
  BY <1>1, <1>2, Summing!LoopInvariant
<1>4. QED
  BY <1>1, <1>3, SumLoop

(* The sum of a sequence that loses its first element. *)
LEMMA SumLess ==
  ASSUME NEW n \in Nat, NEW seq, DOMAIN seq = 1..(n + 1), \A k \in 1..(n + 1) : seq[k] \in Nat,
         NEW less, DOMAIN less = 1..n, \A k \in 1..n : less[k] = seq[k + 1]
  PROVE  SumOf(less) \in Nat /\ SumOf(seq) = seq[1] + SumOf(less)
<1>1. PICK g : Summing!Rounds(g, 0, less, n) /\ Summing!FoldLeft(Plus, 0, less) = g[n]
  BY SumRounds
<1>2. g[0] = 0 /\ \A k \in 0..(n - 1) : g[k + 1] = g[k] + less[k + 1]
  BY <1>1 DEF Summing!Rounds, Plus
<1>3. \A k \in 0..n : g[k] \in Nat
  <2> DEFINE S == {k \in Nat : g[k] \in Nat}
  <2>1. 0 \in S
    BY <1>2
  <2>2. \A k \in 0..(n - 1) : k \in S => k + 1 \in S
    <3> SUFFICES ASSUME NEW k \in 0..(n - 1), k \in S PROVE k + 1 \in S
      OBVIOUS
    <3>1. less[k + 1] \in Nat
      <4>1. k + 1 \in 1..n /\ (k + 1) + 1 \in 1..(n + 1)
        OBVIOUS
      <4>2. QED
        BY <4>1
    <3>2. g[k + 1] = g[k] + less[k + 1]
      BY <1>2
    <3>3. QED
      BY <3>1, <3>2
  <2> HIDE DEF S
  <2>3. 0..n \subseteq S
    BY <2>1, <2>2, Summing!RangeInduction
  <2>4. QED
    BY <2>3 DEF S
<1> DEFINE f == [k \in 0..(n + 1) |-> IF k = 0 THEN 0 ELSE seq[1] + g[k - 1]]
<1>4. Summing!Rounds(f, 0, seq, n + 1)
  <2>1. f[0] = 0
    OBVIOUS
  <2>2. ASSUME NEW k \in 0..((n + 1) - 1) PROVE f[k + 1] = Plus(f[k], seq[k + 1])
    <3>1. f[k + 1] = seq[1] + g[k] /\ seq[1] \in Nat /\ g[k] \in Nat
      BY <1>3
    <3>2. CASE k = 0
      <4>1. f[k] = 0 /\ g[k] = 0
        BY <1>2, <3>2
      <4>2. QED
        BY <3>1, <3>2, <4>1 DEF Plus
    <3>3. CASE k # 0
      <4>1. k - 1 \in 0..(n - 1) /\ k \in 1..n /\ (k - 1) + 1 = k /\ k - 1 \in 0..n
        BY <3>3
      <4>2. f[k] = seq[1] + g[k - 1]
        BY <3>3
      <4>3. g[k] = g[k - 1] + less[k]
        BY <1>2, <4>1
      <4>4. less[k] = seq[k + 1] /\ g[k - 1] \in Nat /\ seq[k + 1] \in Nat
        BY <1>3, <4>1
      <4> HIDE DEF f
      <4>5. QED
        BY <3>1, <4>2, <4>3, <4>4, SMTT(30) DEF Plus
    <3>4. QED
      BY <3>2, <3>3
  <2> HIDE DEF f
  <2>3. QED
    BY <2>1, <2>2 DEF Summing!Rounds
<1>5. f[n + 1] = seq[1] + g[n]
  OBVIOUS
<1> HIDE DEF f
<1>6. n + 1 \in Nat
  OBVIOUS
<1>7. Summing!FoldLeft(Plus, 0, seq) = f[n + 1]
  BY <1>4, <1>6, Summing!FoldIs
<1>8. QED
  BY <1>1, <1>3, <1>5, <1>7, SumLoop

(* The payload of a PDU that gets one more segment. *)
LEMMA PayloadMore ==
  ASSUME NEW pdu \in Seq(Segment), NEW segment \in Segment
  PROVE  PayloadSize(Append(pdu, segment)) = PayloadSize(pdu) + segment.size
<1> DEFINE n == Len(pdu)
           more == Append(pdu, segment)
<1>1. n \in Nat /\ DOMAIN pdu = 1..n /\ DOMAIN more = 1..(n + 1) /\ more[n + 1] = segment
      /\ \A k \in 1..n : more[k] = pdu[k]
  OBVIOUS
<1> HIDE DEF n, more
<1>2. n + 1 \in Nat /\ n \in 0..((n + 1) - 1)
  BY <1>1
<1>3. PICK f : Paying!Rounds(f, 0, more, n + 1) /\ Paying!FoldLeft(PlusSize, 0, more) = f[n + 1]
  BY <1>1, <1>2, PayloadRounds
<1>4. Paying!Rounds(f, 0, pdu, n)
  <2>1. ASSUME NEW k \in 0..(n - 1) PROVE f[k + 1] = PlusSize(f[k], pdu[k + 1])
    <3>1. k \in 0..((n + 1) - 1) /\ k + 1 \in 1..n
      BY <1>1
    <3>2. QED
      BY <1>1, <1>3, <3>1 DEF Paying!Rounds
  <2>2. QED
    BY <1>3, <2>1 DEF Paying!Rounds
<1>5. Paying!FoldLeft(PlusSize, 0, pdu) = f[n]
  BY <1>1, <1>4, Paying!FoldIs
<1>6. f[n + 1] = f[n] + more[n + 1].size
  BY <1>2, <1>3 DEF Paying!Rounds, PlusSize
<1>7. QED
  BY <1>1, <1>3, <1>5, <1>6, PayloadLoop DEF more

(* An empty PDU has no octets. *)
LEMMA PayloadEmpty == PayloadSize(<<>>) = 0
<1>1. DOMAIN <<>> = 1..0
  OBVIOUS
<1>2. Paying!FoldLeft(PlusSize, 0, <<>>) = 0
  BY <1>1, Paying!FoldEmpty
<1>3. QED
  BY <1>2, PayloadLoop
-----------------------------------------------------------------------------
(***************************************************************************)
(* pdcp_ul.  t = [w, sn, off] is what it has written: the frames 1..w and  *)
(* off octets of the next one, whose sequence number is sn.                *)
(***************************************************************************)
Sender == [w : Nat, sn : Sn, off : Nat]
Sent == [w |-> accepted - Len(outstanding_buffers), sn |-> sequence_number, off |-> data_offset]

(* The sequence number of a frame. *)
SnOf(t, f) == (t.sn + (f - (t.w + 1))) % SnMod

(* The frames that are not written completely, of a that were accepted. *)
TxShape(c, a, frames, offset) ==
  /\ a \in 0..MaxFrame
  /\ frames \in Seq(Frame)
  /\ Len(frames) <= a
  /\ \A k \in 1..Len(frames) : frames[k] = (a - Len(frames)) + k
  /\ offset \in Nat
  /\ frames = <<>> => offset = 0
  /\ frames # <<>> => offset < FrameSize[(a - Len(frames)) + 1]
  /\ ~c.allow_segmentation => offset = 0

(* Octets of these that are not written. *)
Sizes(frames) == [k \in DOMAIN frames |-> FrameSize[frames[k]]]
Left(frames, offset) == SumOf(Sizes(frames)) - offset

(* A PDU continues where the PDUs before it ended, with one segment of each frame. *)
PduShape(c, t, pdu) ==
  \A k \in 1..Len(pdu) :
    /\ pdu[k].frame = t.w + k
    /\ pdu[k].sn = SnOf(t, t.w + k)
    /\ pdu[k].offset = IF k = 1 THEN t.off ELSE 0
    /\ pdu[k].offset + pdu[k].size <= FrameSize[pdu[k].frame]
    /\ pdu[k].last <=> pdu[k].offset + pdu[k].size = FrameSize[pdu[k].frame]
    /\ ~c.allow_segmentation => pdu[k].last
    /\ k < Len(pdu) => pdu[k].last

(* The next segment is one of the next frame, or the buffer is full. *)
AtFrame(a, t, w) ==
  /\ a - Len(w.frames) = t.w + Len(w.pdu)
  /\ w.offset = IF w.pdu = <<>> THEN t.off ELSE 0
  /\ \A k \in 1..Len(w.pdu) : w.pdu[k].last
InFrame(a, t, w) ==
  /\ w.pdu # <<>>
  /\ (a - Len(w.frames)) + 1 = t.w + Len(w.pdu)
  /\ w.room = 0
  /\ w.offset > 0
  /\ w.offset = w.pdu[Len(w.pdu)].offset + w.pdu[Len(w.pdu)].size
  /\ ~w.pdu[Len(w.pdu)].last

(* The invariant of the loop in write_pdcp. *)
WriteInv(c, a, t, size, left) ==
  {w \in TxWork :
     /\ TxShape(c, a, w.frames, w.offset)
     /\ PduShape(c, t, w.pdu)
     /\ w.sn = SnOf(t, (a - Len(w.frames)) + 1)
     /\ Len(w.pdu) * (HeaderSize + 1) + w.room <= size
     /\ Left(w.frames, w.offset) + PayloadSize(w.pdu) = left
     /\ AtFrame(a, t, w) \/ InFrame(a, t, w)}

(* A sequence number is one. *)
LEMMA SnOfType ==
  ASSUME NEW t \in Sender, NEW f \in Int PROVE SnOf(t, f) \in Sn
<1>1. t.sn \in Int /\ t.w \in Int
  BY SizeAssumption DEF Sender, Sn
<1>2. t.sn + (f - (t.w + 1)) \in Int
  BY <1>1
<1>3. QED
  BY <1>2, SizeAssumption, Summing!DivMod DEF SnOf, Sn

(* Counting goes on from frame to frame. *)
LEMMA SnOfNext ==
  ASSUME NEW t \in Sender, NEW f \in Int PROVE NextSn(SnOf(t, f)) = SnOf(t, f + 1)
<1> DEFINE x == t.sn + (f - (t.w + 1))
           y == t.sn + ((f + 1) - (t.w + 1))
<1>1. t.sn \in Int /\ t.w \in Int
  BY SizeAssumption DEF Sender, Sn
<1>2. x \in Int /\ x + 1 = y /\ 1 \in Int
  BY <1>1
<1>3. SnOf(t, f) = x % SnMod /\ SnOf(t, f + 1) = y % SnMod
  BY DEF SnOf
<1> HIDE DEF x, y
<1>4. ((x % SnMod) + 1) % SnMod = (x + 1) % SnMod
  BY <1>2, SizeAssumption, Summing!ModAdd
<1>5. QED
  BY <1>2, <1>3, <1>4 DEF NextSn

(* The frame that the sender is at has its counter as sequence number. *)
LEMMA SnOfFirst ==
  ASSUME NEW t \in Sender PROVE SnOf(t, t.w + 1) = t.sn
<1>1. t.sn \in 0..(SnMod - 1) /\ t.w \in Int
  BY SizeAssumption DEF Sender, Sn
<1>2. t.sn + ((t.w + 1) - (t.w + 1)) = t.sn
  BY <1>1, SizeAssumption
<1>3. QED
  BY <1>1, <1>2, SizeAssumption, Summing!ModSmall DEF SnOf

(* The sender may have gone on meanwhile: a frame keeps its sequence number. *)
LEMMA SnOfLater ==
  ASSUME NEW t \in Sender, NEW u \in Sender, u.sn = SnOf(t, u.w + 1), NEW f \in Int
  PROVE  SnOf(u, f) = SnOf(t, f)
<1> DEFINE x == t.sn + ((u.w + 1) - (t.w + 1))
           d == f - (u.w + 1)
           y == t.sn + (f - (t.w + 1))
<1>1. t.sn \in Int /\ t.w \in Int /\ u.w \in Int /\ u.sn \in Int
  BY SizeAssumption DEF Sender, Sn
<1>2. x \in Int /\ d \in Int /\ x + d = y
  BY <1>1
<1>3. u.sn = x % SnMod /\ SnOf(u, f) = (u.sn + d) % SnMod /\ SnOf(t, f) = y % SnMod
  BY DEF SnOf
<1> HIDE DEF x, d, y
<1>4. ((x % SnMod) + d) % SnMod = (x + d) % SnMod
  BY <1>2, SizeAssumption, Summing!ModAdd
<1>5. QED
  BY <1>2, <1>3, <1>4

(* Frames that are less than a sequence number space apart have different numbers. *)
LEMMA ModDistinct ==
  ASSUME NEW m \in Nat \ {0}, NEW x \in Int, NEW y \in Int, x % m = y % m,
         x - y < m, y - x < m
  PROVE  x = y
<1> DEFINE d == x \div m
           e == y \div m
           r == x % m
<1>1. d \in Int /\ e \in Int /\ r \in 0..(m - 1) /\ x = m * d + r /\ y = m * e + r
  BY Summing!DivMod
<1> HIDE DEF d, e, r
<1>2. m * (d - e) = x - y
  BY <1>1
<1>3. ~(d - e >= 1)
  <2>1. ASSUME d - e >= 1 PROVE m * (d - e) >= m
    BY <1>1, <2>1
  <2>2. QED
    BY <1>1, <1>2, <2>1
<1>4. ~(d - e <= -1)
  <2>1. ASSUME d - e <= -1 PROVE m * (d - e) <= -m
    BY <1>1, <2>1
  <2>2. QED
    BY <1>1, <1>2, <2>1
<1>5. d - e = 0
  BY <1>1, <1>3, <1>4
<1>6. m * (d - e) = 0
  BY <1>5
<1>7. QED
  BY <1>1, <1>2, <1>6

(* The same for the frames themselves. *)
LEMMA SnOfDistinct ==
  ASSUME NEW t \in Sender, NEW f \in Int, NEW g \in Int, SnOf(t, f) = SnOf(t, g),
         f - g < SnMod, g - f < SnMod
  PROVE  f = g
<1> DEFINE x == t.sn + (f - (t.w + 1))
           y == t.sn + (g - (t.w + 1))
<1>1. t.sn \in Int /\ t.w \in Int /\ SnMod \in Int
  BY SizeAssumption DEF Sender, Sn
<1>2. x \in Int /\ y \in Int /\ x - y = f - g /\ y - x = g - f
  BY <1>1
<1>3. x % SnMod = y % SnMod
  BY DEF SnOf
<1>4. x - y < SnMod /\ y - x < SnMod
  BY <1>2
<1> HIDE DEF x, y
<1>5. x = y
  BY <1>2, <1>3, <1>4, SizeAssumption, ModDistinct
<1>6. QED
  BY <1>2, <1>5

(* What is left when a frame is finished, or a part of it is written. *)
LEMMA SizesShape ==
  ASSUME NEW frames \in Seq(Frame)
  PROVE  /\ DOMAIN Sizes(frames) = 1..Len(frames)
         /\ \A k \in 1..Len(frames) :
              /\ Sizes(frames)[k] = FrameSize[frames[k]]
              /\ Sizes(frames)[k] \in Nat \ {0}
BY SizeAssumption DEF Sizes

(* The octets of a frame that is done with are taken off. *)
LEMMA LeftTail ==
  ASSUME NEW frames \in Seq(Frame), frames # <<>>
  PROVE  /\ SumOf(Sizes(Tail(frames))) \in Nat
         /\ SumOf(Sizes(frames)) = FrameSize[Head(frames)] + SumOf(Sizes(Tail(frames)))
<1> DEFINE n == Len(frames) - 1
           seq == Sizes(frames)
           less == Sizes(Tail(frames))
<1>1. n \in Nat /\ n + 1 = Len(frames) /\ Tail(frames) \in Seq(Frame) /\ Len(Tail(frames)) = n
  OBVIOUS
<1>2. \A k \in 1..n : Tail(frames)[k] = frames[k + 1]
  OBVIOUS
<1>3. DOMAIN seq = 1..(n + 1) /\ \A k \in 1..(n + 1) : seq[k] \in Nat
  BY <1>1, SizesShape
<1>4. DOMAIN less = 1..n /\ \A k \in 1..n : less[k] = seq[k + 1]
  <2>1. DOMAIN less = 1..n
    BY <1>1, SizesShape
  <2>2. ASSUME NEW k \in 1..n PROVE less[k] = seq[k + 1]
    <3>1. k + 1 \in 1..Len(frames) /\ k \in 1..Len(Tail(frames))
      BY <1>1
    <3>2. less[k] = FrameSize[Tail(frames)[k]] /\ seq[k + 1] = FrameSize[frames[k + 1]]
      BY <1>1, <3>1, SizesShape
    <3>3. QED
      BY <1>2, <3>2
  <2>3. QED
    BY <2>1, <2>2
<1>5. seq[1] = FrameSize[Head(frames)]
  <2>1. 1 \in 1..Len(frames) /\ Head(frames) = frames[1]
    BY <1>1
  <2>2. QED
    BY <2>1, SizesShape
<1> HIDE DEF seq, less, n
<1>6. SumOf(less) \in Nat /\ SumOf(seq) = seq[1] + SumOf(less)
  BY <1>1, <1>3, <1>4, SumLess
<1>7. QED
  BY <1>5, <1>6 DEF seq, less

(* No more was written than there was. *)
LEMMA LeftType ==
  ASSUME NEW c, NEW a, NEW frames, NEW offset, TxShape(c, a, frames, offset)
  PROVE  Left(frames, offset) \in Nat
<1>1. frames \in Seq(Frame) /\ offset \in Nat
  BY DEF TxShape
<1>2. CASE frames = <<>>
  <2>1. DOMAIN Sizes(frames) = 1..0
    BY <1>2 DEF Sizes
  <2>2. SumOf(Sizes(frames)) = 0
    BY <2>1, SumEmpty
  <2>3. offset = 0
    BY <1>2 DEF TxShape
  <2>4. QED
    BY <2>2, <2>3 DEF Left
<1>3. CASE frames # <<>>
  <2>1. SumOf(Sizes(Tail(frames))) \in Nat
        /\ SumOf(Sizes(frames)) = FrameSize[Head(frames)] + SumOf(Sizes(Tail(frames)))
    BY <1>1, <1>3, LeftTail
  <2>2. 1 \in 1..Len(frames) /\ Head(frames) = frames[1] /\ frames[1] \in Frame
    BY <1>1, <1>3
  <2>3. frames[1] = (a - Len(frames)) + 1
    BY <2>2 DEF TxShape
  <2>4. offset < FrameSize[Head(frames)] /\ FrameSize[Head(frames)] \in Nat
    BY <1>3, <2>2, <2>3, SizeAssumption DEF TxShape
  <2>5. QED
    BY <1>1, <2>1, <2>4 DEF Left
<1>4. QED
  BY <1>2, <1>3

(* The octets of a PDU are a number. *)
LEMMA PayloadType ==
  ASSUME NEW pdu \in Seq(Segment) PROVE PayloadSize(pdu) \in Nat
<1> DEFINE n == Len(pdu)
           I == [k \in 0..n |-> Nat]
<1>0. n \in Nat /\ DOMAIN pdu = 1..n
  OBVIOUS
<1>1. 0 \in I[0] /\ I[n] = Nat
  BY <1>0
<1>2. \A k \in 0..(n - 1) : \A w \in I[k] : PlusSize(w, pdu[k + 1]) \in I[k + 1]
  <2> SUFFICES ASSUME NEW k \in 0..(n - 1), NEW w \in I[k]
               PROVE  PlusSize(w, pdu[k + 1]) \in I[k + 1]
    OBVIOUS
  <2>1. w \in Nat /\ k + 1 \in 1..n /\ I[k + 1] = Nat
    BY <1>0
  <2>2. pdu[k + 1] \in Segment
    BY <2>1
  <2>3. pdu[k + 1].size \in Nat
    BY <2>2 DEF Segment
  <2>4. QED
    BY <2>1, <2>3 DEF PlusSize
<1> HIDE DEF I, n
<1>3. Paying!FoldLeft(PlusSize, 0, pdu) \in I[n]
  BY <1>0, <1>1, <1>2, Paying!LoopInvariant
<1>4. QED
  BY <1>1, <1>3, PayloadLoop

(* Room given up leaves the buffer within its size. *)
LEMMA RoomGivenUp ==
  ASSUME NEW n \in Nat, NEW h \in Nat, NEW r \in Nat, NEW size \in Nat,
         n * (h + 1) + r <= size
  PROVE  n * (h + 1) + 0 <= size
<1> DEFINE z == n * (h + 1)
<1>1. z \in Int /\ z + r <= size
  OBVIOUS
<1> HIDE DEF z
<1>2. z + 0 <= size
  BY <1>1
<1>3. QED
  BY <1>2 DEF z

(* A segment uses room for its header and at least one octet. *)
LEMMA RoomUsed ==
  ASSUME NEW n \in Nat, NEW h \in Nat, NEW r \in Nat, NEW size \in Nat, NEW len \in Nat,
         len > 0, n * (h + 1) + r <= size
  PROVE  (n + 1) * (h + 1) + ((r - h) - len) <= size
<1> DEFINE z == n * (h + 1)
<1>1. z \in Int /\ z + r <= size /\ (n + 1) * (h + 1) = z + (h + 1)
  OBVIOUS
<1> HIDE DEF z
<1>2. (z + (h + 1)) + ((r - h) - len) <= size
  BY <1>1
<1>3. QED
  BY <1>1, <1>2

(* The octets that a last segment takes are those that its frame had left. *)
LEMMA LeftUsed ==
  ASSUME NEW sr \in Int, NEW fs \in Int, NEW off \in Int, NEW p \in Int, NEW len \in Int,
         NEW sw, NEW left, sw = fs + sr, (sw - off) + p = left, off + len = fs
  PROVE  (sr - 0) + (p + len) = left
OBVIOUS

(* One round of the loop in write_pdcp. *)
LEMMA WriteRoundKeeps ==
  ASSUME config \in Setting, NEW a, NEW t \in Sender, NEW size \in Nat, NEW left,
         NEW w \in WriteInv(config, a, t, size, left)
  PROVE  WriteSegment(w) \in WriteInv(config, a, t, size, left)
<1> DEFINE frame == Head(w.frames)
           remaining == FrameSize[frame] - w.offset
           room == w.room - HeaderSize
           len == IF remaining > room THEN room ELSE remaining
           last == w.offset + len >= FrameSize[frame]
           segment == [sn |-> w.sn, offset |-> w.offset, size |-> len, last |-> last,
                       frame |-> frame]
           pdu == Append(w.pdu, segment)
           v == [frames |-> IF last THEN Tail(w.frames) ELSE w.frames,
                 offset |-> IF last THEN 0 ELSE w.offset + len,
                 sn     |-> IF last THEN NextSn(w.sn) ELSE w.sn,
                 room   |-> room - len,
                 pdu    |-> pdu]
<1>1. WriteSegment(w) =
        IF w.frames = <<>> THEN w
        ELSE IF room <= 0 \/ (remaining > room /\ ~config.allow_segmentation)
        THEN [w EXCEPT !.room = 0] ELSE v
  BY DEF WriteSegment
<1>2. /\ w \in TxWork
      /\ TxShape(config, a, w.frames, w.offset)
      /\ PduShape(config, t, w.pdu)
      /\ w.sn = SnOf(t, (a - Len(w.frames)) + 1)
      /\ Len(w.pdu) * (HeaderSize + 1) + w.room <= size
      /\ Left(w.frames, w.offset) + PayloadSize(w.pdu) = left
      /\ AtFrame(a, t, w) \/ InFrame(a, t, w)
  BY DEF WriteInv
<1>3. /\ w.frames \in Seq(Frame) /\ w.offset \in Nat /\ w.sn \in Sn /\ w.room \in Nat
      /\ w.pdu \in Seq(Segment) /\ a \in 0..MaxFrame /\ MaxFrame \in Nat
      /\ HeaderSize \in Nat /\ HeaderSize > 0 /\ Len(w.pdu) \in Nat /\ Len(w.frames) \in Nat
      /\ t.w \in Nat /\ t.off \in Nat /\ t.sn \in Sn
  BY <1>2, SizeAssumption DEF TxWork, TxShape, Sender
<1>n. /\ a \in Int /\ Len(w.pdu) \in Int /\ Len(w.frames) \in Int /\ t.w \in Int
      /\ w.room \in Int /\ HeaderSize \in Int /\ HeaderSize > 0 /\ w.offset \in Int
      /\ w.offset >= 0
  BY <1>3
<1>r. Len(w.pdu) * (HeaderSize + 1) + w.room <= size
  BY <1>2, Zenon
<1>s. Len(w.pdu) \in Nat /\ HeaderSize \in Nat /\ w.room \in Nat /\ size \in Nat
  BY <1>3, Zenon
<1>4. ASSUME room <= 0 \/ (remaining > room /\ ~config.allow_segmentation)
      PROVE  [w EXCEPT !.room = 0] \in WriteInv(config, a, t, size, left)
  <2> DEFINE u == [w EXCEPT !.room = 0]
  <2>1. /\ u.frames = w.frames /\ u.offset = w.offset /\ u.sn = w.sn /\ u.pdu = w.pdu
        /\ u.room = 0 /\ u \in TxWork
    BY <1>2 DEF TxWork
  <2> HIDE DEF u
  <2>2. Len(u.pdu) * (HeaderSize + 1) + u.room <= size
    <3>1. Len(w.pdu) * (HeaderSize + 1) + 0 <= size
      BY <1>r, <1>s, RoomGivenUp, Zenon
    <3>2. QED
      BY <2>1, <3>1, Zenon
  <2>3. AtFrame(a, t, u) \/ InFrame(a, t, u)
    BY <1>2, <2>1 DEF AtFrame, InFrame
  <2>4. u \in WriteInv(config, a, t, size, left)
    BY <1>2, <2>1, <2>2, <2>3 DEF WriteInv
  <2>5. QED
    BY <2>4 DEF u
<1>5. ASSUME w.frames # <<>>,
             ~(room <= 0 \/ (remaining > room /\ ~config.allow_segmentation))
      PROVE  v \in WriteInv(config, a, t, size, left)
  <2>1. AtFrame(a, t, w)
    <3>1. ASSUME w.room = 0 PROVE FALSE
      <4>1. room <= 0
        BY <1>n, <3>1
      <4>2. QED
        BY <1>5, <4>1
    <3>2. QED
      BY <1>2, <3>1 DEF InFrame
  <2>2. /\ frame = w.frames[1] /\ frame = (a - Len(w.frames)) + 1 /\ frame \in Frame
        /\ frame = t.w + (Len(w.pdu) + 1) /\ Len(w.frames) <= a /\ Len(w.frames) >= 1
    <3>1. 1 \in 1..Len(w.frames) /\ frame = w.frames[1] /\ frame \in Frame
      BY <1>3, <1>5
    <3>2. frame = (a - Len(w.frames)) + 1 /\ Len(w.frames) <= a
      BY <1>2, <3>1 DEF TxShape
    <3>3. a - Len(w.frames) = t.w + Len(w.pdu)
      BY <2>1 DEF AtFrame
    <3>4. Len(w.frames) >= 1
      BY <1>3, <3>1
    <3> HIDE DEF frame
    <3>5. frame = t.w + (Len(w.pdu) + 1)
      <4> DEFINE nf == Len(w.frames)
                 np == Len(w.pdu)
      <4>1. a \in Int /\ nf \in Int /\ t.w \in Int /\ np \in Int
        BY <1>n
      <4>2. a - nf = t.w + np /\ frame = (a - nf) + 1
        BY <3>2, <3>3
      <4> HIDE DEF nf, np
      <4>3. frame = t.w + (np + 1)
        BY <4>1, <4>2
      <4>4. QED
        BY <4>3 DEF np
    <3>6. QED
      BY <3>1, <3>2, <3>4, <3>5
  <2>3. FrameSize[frame] \in Nat /\ w.offset < FrameSize[frame]
    BY <1>2, <1>5, <2>2, SizeAssumption DEF TxShape
  <2> DEFINE fs == FrameSize[frame]
  <2>4. /\ room \in Nat /\ room > 0 /\ remaining \in Nat /\ remaining > 0
        /\ len \in Nat \ {0} /\ len <= remaining /\ len <= room
        /\ w.offset + len <= fs
        /\ last <=> w.offset + len = fs
        /\ ~last => len = room /\ config.allow_segmentation
    <3> HIDE DEF frame
    <3>1. fs \in Int /\ w.offset < fs /\ remaining = fs - w.offset
      BY <2>3
    <3> HIDE DEF fs
    <3>2. room \in Int /\ ~(room <= 0) /\ ~(remaining > room /\ ~config.allow_segmentation)
      BY <1>n, <1>5
    <3>3. remaining \in Int /\ remaining > 0 /\ w.offset + remaining = fs
      BY <1>n, <3>1
    <3>4. last <=> w.offset + len >= fs
      BY DEF fs
    <3> HIDE DEF room, remaining, last
    <3>5. CASE remaining > room
      <4>1. len = room
        BY <3>5
      <4> HIDE DEF len
      <4>2. w.offset + len < fs /\ ~last
        BY <1>n, <3>1, <3>2, <3>3, <3>4, <3>5, <4>1
      <4>3. QED
        BY <1>n, <3>1, <3>2, <3>3, <3>5, <4>1, <4>2
    <3>6. CASE ~(remaining > room)
      <4>1. len = remaining
        BY <3>6
      <4> HIDE DEF len
      <4>2. w.offset + len = fs /\ last
        BY <1>n, <3>1, <3>3, <3>4, <4>1
      <4>3. QED
        BY <1>n, <3>1, <3>2, <3>3, <3>6, <4>1, <4>2
    <3>7. QED
      BY <3>5, <3>6
  <2>5. last \in BOOLEAN
    OBVIOUS
  <2> HIDE DEF frame, remaining, room, len, last, fs
  <2>6. /\ segment \in Segment /\ segment.sn = w.sn /\ segment.offset = w.offset
        /\ segment.size = len /\ segment.last = last /\ segment.frame = frame
    BY <1>3, <2>2, <2>4, <2>5 DEF Segment
  <2> HIDE DEF segment
  <2>7. /\ pdu \in Seq(Segment) /\ Len(pdu) = Len(w.pdu) + 1 /\ pdu[Len(w.pdu) + 1] = segment
        /\ \A k \in 1..Len(w.pdu) : pdu[k] = w.pdu[k]
    BY <1>3, <2>6
  <2> HIDE DEF pdu
  <2>8. PduShape(config, t, pdu)
    <3> SUFFICES ASSUME NEW k \in 1..Len(pdu)
                 PROVE /\ pdu[k].frame = t.w + k
                       /\ pdu[k].sn = SnOf(t, t.w + k)
                       /\ pdu[k].offset = IF k = 1 THEN t.off ELSE 0
                       /\ pdu[k].offset + pdu[k].size <= FrameSize[pdu[k].frame]
                       /\ pdu[k].last <=> pdu[k].offset + pdu[k].size = FrameSize[pdu[k].frame]
                       /\ ~config.allow_segmentation => pdu[k].last
                       /\ k < Len(pdu) => pdu[k].last
      BY DEF PduShape
    <3>1. CASE k \in 1..Len(w.pdu)
      <4>1. pdu[k] = w.pdu[k] /\ w.pdu[k].last
        BY <2>1, <2>7, <3>1 DEF AtFrame
      <4>2. QED
        BY <1>2, <3>1, <4>1 DEF PduShape
    <3>2. CASE k = Len(w.pdu) + 1
      <4>1. pdu[k] = segment /\ ~(k < Len(pdu))
        BY <1>3, <2>7, <3>2
      <4>2. t.w + k = frame
        BY <2>2, <3>2
      <4>3. w.offset = IF k = 1 THEN t.off ELSE 0
        <5>1. (k = 1) <=> w.pdu = <<>>
          BY <1>3, <3>2
        <5>2. QED
          BY <2>1, <5>1 DEF AtFrame
      <4>4. w.sn = SnOf(t, frame)
        BY <1>2, <2>2
      <4>5. QED
        BY <2>4, <2>6, <4>1, <4>2, <4>3, <4>4 DEF fs
    <3>3. k \in 1..Len(w.pdu) \/ k = Len(w.pdu) + 1
      BY <1>s, <2>7
    <3>4. QED
      BY <3>1, <3>2, <3>3, Zenon
  <2>9. Len(pdu) * (HeaderSize + 1) + (room - len) <= size
    <3>1. len \in Nat /\ len > 0
      BY <2>4
    <3>2. (Len(w.pdu) + 1) * (HeaderSize + 1) + ((w.room - HeaderSize) - len) <= size
      BY <1>r, <1>s, <3>1, RoomUsed, Zenon
    <3>3. room = w.room - HeaderSize /\ Len(pdu) = Len(w.pdu) + 1
      BY <2>7 DEF room
    <3>4. QED
      BY <3>2, <3>3, Zenon
  <2>10. PayloadSize(pdu) = PayloadSize(w.pdu) + len
    BY <1>3, <2>6, PayloadMore DEF pdu
  <2>11. CASE last
    <3> DEFINE rest == Tail(w.frames)
    <3>1. rest \in Seq(Frame) /\ Len(rest) = Len(w.frames) - 1
          /\ \A k \in 1..Len(rest) : rest[k] = w.frames[k + 1]
      BY <1>3, <1>5
    <3>2. Left(rest, 0) + PayloadSize(pdu) = left
      <4> DEFINE sr == SumOf(Sizes(rest))
                 sw == SumOf(Sizes(w.frames))
                 p == PayloadSize(w.pdu)
      <4>0. sr \in Nat /\ sw = fs + sr
        BY <1>3, <1>5, LeftTail DEF fs, frame
      <4>1. sr \in Int /\ sw = fs + sr
        <5> HIDE DEF sr, sw
        <5>1. QED
          BY <4>0
      <4>2. Left(rest, 0) = sr - 0 /\ Left(w.frames, w.offset) = sw - w.offset
        BY DEF Left
      <4>3. p \in Int
        <5>1. p \in Nat
          BY <1>3, PayloadType
        <5>2. QED
          BY <5>1
      <4> HIDE DEF sr, sw, p
      <4>4. (sw - w.offset) + p = left
        BY <1>2, <4>2 DEF p
      <4>5. fs \in Int
        BY <2>3 DEF fs
      <4>o. w.offset \in Int
        BY <1>n
      <4>6. (sr - 0) + (p + len) = left
        <5>1. w.offset + len = fs /\ len \in Int
          BY <2>4, <2>11
        <5>2. QED
          BY <4>1, <4>3, <4>4, <4>5, <4>o, <5>1, LeftUsed, SMT
      <4>7. QED
        BY <2>10, <4>2, <4>6 DEF p
    <3> HIDE DEF rest
    <3>3. v.frames = rest /\ v.offset = 0 /\ v.sn = NextSn(w.sn) /\ v.room = room - len
          /\ v.pdu = pdu
      BY <2>11 DEF rest
    <3>4. NextSn(w.sn) = SnOf(t, (a - Len(rest)) + 1)
      <4>1. (a - Len(w.frames)) + 1 \in Int
            /\ ((a - Len(w.frames)) + 1) + 1 = (a - Len(rest)) + 1
        BY <1>3, <3>1
      <4>2. NextSn(SnOf(t, (a - Len(w.frames)) + 1)) = SnOf(t, ((a - Len(w.frames)) + 1) + 1)
        BY <4>1, SnOfNext
      <4>3. QED
        BY <1>2, <4>1, <4>2
    <3>5. TxShape(config, a, rest, 0)
      <4>1. \A k \in 1..Len(rest) : rest[k] = (a - Len(rest)) + k
        <5> TAKE k \in 1..Len(rest)
        <5>1. k + 1 \in 1..Len(w.frames) /\ rest[k] = w.frames[k + 1]
          BY <1>3, <3>1
        <5>2. w.frames[k + 1] = (a - Len(w.frames)) + (k + 1)
          BY <1>2, <5>1 DEF TxShape
        <5>3. k \in Int /\ Len(rest) = Len(w.frames) - 1
          BY <3>1
        <5>4. QED
          BY <1>n, <5>1, <5>2, <5>3
      <4>2. Len(rest) <= a
        BY <1>3, <2>2, <3>1
      <4>3. rest # <<>> => 0 < FrameSize[(a - Len(rest)) + 1]
        <5> HAVE rest # <<>>
        <5>1. 1 \in 1..Len(rest) /\ rest[1] \in Frame
          BY <3>1
        <5>2. rest[1] = (a - Len(rest)) + 1
          BY <4>1, <5>1
        <5>3. QED
          BY <5>1, <5>2, SizeAssumption
      <4>4. QED
        BY <1>3, <3>1, <4>1, <4>2, <4>3 DEF TxShape
    <3>6. AtFrame(a, t, v)
      <4>1. a - Len(rest) = t.w + Len(pdu)
        <5>1. Len(rest) = Len(w.frames) - 1 /\ Len(pdu) = Len(w.pdu) + 1
          BY <2>7, <3>1
        <5>2. (a - Len(w.frames)) + 1 = t.w + (Len(w.pdu) + 1)
          BY <2>2
        <5> DEFINE nf == Len(w.frames)
                   np == Len(w.pdu)
        <5>3. a \in Int /\ nf \in Int /\ t.w \in Int /\ np \in Int
          BY <1>n
        <5>4. (a - nf) + 1 = t.w + (np + 1)
          BY <5>2
        <5> HIDE DEF nf, np
        <5>5. a - (nf - 1) = t.w + (np + 1)
          BY <5>3, <5>4
        <5>6. QED
          BY <5>1, <5>5 DEF nf, np
      <4>2. pdu # <<>>
        BY <1>3, <2>7
      <4>3. \A k \in 1..Len(pdu) : pdu[k].last
        <5> TAKE k \in 1..Len(pdu)
        <5>1. CASE k \in 1..Len(w.pdu)
          BY <2>1, <2>7, <5>1 DEF AtFrame
        <5>2. CASE k = Len(w.pdu) + 1
          BY <2>6, <2>7, <2>11, <5>2
        <5>3. QED
          BY <1>3, <2>7, <5>1, <5>2
      <4> HIDE DEF v
      <4>4. QED
        BY <3>3, <4>1, <4>2, <4>3 DEF AtFrame
    <3>7. NextSn(w.sn) \in Sn
      <4>1. (a - Len(rest)) + 1 \in Int
        BY <1>n, <3>1
      <4>2. QED
        BY <3>4, <4>1, SnOfType
    <3>8. v \in TxWork
      <4>1. room - len \in Nat
        BY <2>4
      <4> HIDE DEF v
      <4>2. v = [frames |-> rest, offset |-> 0, sn |-> NextSn(w.sn), room |-> room - len,
                 pdu |-> pdu]
        BY <2>11 DEF v, rest
      <4>3. QED
        BY <2>7, <3>1, <3>7, <4>1, <4>2 DEF TxWork
    <3> HIDE DEF v
    <3>9. QED
      BY <2>8, <2>9, <3>2, <3>3, <3>4, <3>5, <3>6, <3>8 DEF WriteInv
  <2>12. CASE ~last
    <3> DEFINE off == w.offset + len
    <3>1. off \in Nat /\ off > 0 /\ off < fs
      <4>1. len \in Int /\ len > 0 /\ w.offset + len <= fs /\ w.offset + len # fs
        BY <2>4, <2>12
      <4>2. fs \in Int
        BY <2>3 DEF fs
      <4>3. QED
        BY <1>n, <4>1, <4>2
    <3>2. Left(w.frames, off) + PayloadSize(pdu) = left
      <4> DEFINE sw == SumOf(Sizes(w.frames))
                 p == PayloadSize(w.pdu)
      <4>1. sw \in Int
        BY <1>3, <1>5, <2>3, LeftTail DEF frame
      <4>2. Left(w.frames, off) = sw - off /\ Left(w.frames, w.offset) = sw - w.offset
        BY DEF Left
      <4>3. p \in Int
        <5>1. p \in Nat
          BY <1>3, PayloadType
        <5>2. QED
          BY <5>1
      <4> HIDE DEF sw, p
      <4>4. (sw - w.offset) + p = left
        BY <1>2, <4>2 DEF p
      <4>5. (sw - off) + (p + len) = left
        BY <1>3, <2>4, <4>1, <4>3, <4>4
      <4>6. QED
        BY <2>10, <4>2, <4>5 DEF p
    <3>3. v.frames = w.frames /\ v.offset = off /\ v.sn = w.sn /\ v.room = room - len
          /\ v.pdu = pdu
      BY <2>12
    <3>4. config.allow_segmentation /\ room - len = 0
      BY <2>4, <2>12
    <3>5. TxShape(config, a, w.frames, off)
      <4>1. off < FrameSize[(a - Len(w.frames)) + 1]
        BY <2>2, <3>1 DEF fs
      <4>2. QED
        BY <1>2, <1>5, <3>1, <3>4, <4>1 DEF TxShape
    <3>6. InFrame(a, t, v)
      <4>1. pdu # <<>> /\ pdu[Len(pdu)] = segment
        BY <1>3, <2>7
      <4>2. (a - Len(w.frames)) + 1 = t.w + Len(pdu)
        BY <2>2, <2>7
      <4> HIDE DEF v
      <4>3. QED
        BY <2>6, <2>12, <3>1, <3>3, <3>4, <4>1, <4>2 DEF InFrame
    <3>7. v \in TxWork
      <4>1. room - len \in Nat
        BY <2>4
      <4> HIDE DEF v, off
      <4>2. v = [frames |-> w.frames, offset |-> off, sn |-> w.sn, room |-> room - len,
                 pdu |-> pdu]
        BY <2>12 DEF v, off
      <4>3. QED
        BY <1>3, <2>7, <3>1, <4>1, <4>2 DEF TxWork
    <3> HIDE DEF v, off
    <3>8. QED
      BY <1>2, <2>8, <2>9, <3>2, <3>3, <3>5, <3>6, <3>7 DEF WriteInv
  <2>13. QED
    BY <2>11, <2>12
<1>6. QED
  BY <1>1, <1>4, <1>5

(* What the sender has written has its type. *)
LEMMA SentType ==
  ASSUME TxShape(config, accepted, outstanding_buffers, data_offset), sequence_number \in Sn
  PROVE  Sent \in Sender
<1> DEFINE n == Len(outstanding_buffers)
<1>1. /\ accepted \in 0..MaxFrame /\ n \in Nat /\ n <= accepted /\ data_offset \in Nat
      /\ MaxFrame \in Nat
  BY SizeAssumption DEF TxShape
<1> HIDE DEF n
<1>2. accepted - n \in Nat
  BY <1>1
<1>3. QED
  BY <1>1, <1>2 DEF Sent, Sender, n

(* The loop in write_pdcp. *)
LEMMA WrittenKeeps ==
  ASSUME config \in Setting, TxShape(config, accepted, outstanding_buffers, data_offset),
         sequence_number \in Sn, NEW size \in Nat
  PROVE  Written(size) \in
           WriteInv(config, accepted, Sent, size, Left(outstanding_buffers, data_offset))
<1> DEFINE base == [frames |-> outstanding_buffers, offset |-> data_offset,
                    sn |-> sequence_number, room |-> size, pdu |-> <<>>]
           left == Left(outstanding_buffers, data_offset)
           n == Len(outstanding_buffers)
           I == [k \in 0..n |-> WriteInv(config, accepted, Sent, size, left)]
<1>1. Written(size) = Writing!FoldLeft(WriteRound, base, outstanding_buffers)
  BY DEF Written, WriteRound, FoldLeft, MapThenFoldSet, Max,
         Writing!FoldLeft, Writing!MapThenFoldSet, Writing!Max
<1>2. n \in Nat /\ DOMAIN outstanding_buffers = 1..n /\ outstanding_buffers \in Seq(Frame)
      /\ data_offset \in Nat
  BY DEF TxShape
<1>3. Sent \in Sender
  BY SentType
<1>4. base \in WriteInv(config, accepted, Sent, size, left)
  <2>1. base \in TxWork
    BY <1>2 DEF TxWork
  <2>2. /\ base.frames = outstanding_buffers /\ base.offset = data_offset
        /\ base.sn = sequence_number /\ base.room = size /\ base.pdu = <<>>
    OBVIOUS
  <2> HIDE DEF base
  <2>3. PduShape(config, Sent, <<>>)
    BY DEF PduShape
  <2>4. /\ Sent.w = accepted - Len(outstanding_buffers) /\ Sent.sn = sequence_number
        /\ Sent.off = data_offset
    BY DEF Sent
  <2>5. sequence_number = SnOf(Sent, (accepted - Len(outstanding_buffers)) + 1)
    BY <1>3, <2>4, SnOfFirst
  <2>6. Len(<<>>) * (HeaderSize + 1) + size <= size
    <3>1. Len(<<>>) = 0 /\ 0 * (HeaderSize + 1) = 0
      BY SizeAssumption
    <3>2. QED
      BY <3>1
  <2>7. left + PayloadSize(<<>>) = left
    <3>1. left \in Nat
      BY LeftType
    <3> HIDE DEF left
    <3>2. QED
      BY <3>1, PayloadEmpty
  <2>8. AtFrame(accepted, Sent, base)
    <3>1. Sent.w + 0 = Sent.w
      BY <1>3 DEF Sender
    <3>2. QED
      BY <2>2, <2>4, <3>1 DEF AtFrame
  <2>9. QED
    BY <2>1, <2>2, <2>3, <2>5, <2>6, <2>7, <2>8 DEF WriteInv
<1> HIDE DEF base, left
<1>5. base \in I[0] /\ I[n] = WriteInv(config, accepted, Sent, size, left)
  BY <1>2, <1>4
<1>6. \A k \in 0..(n - 1) : \A w \in I[k] : WriteRound(w, outstanding_buffers[k + 1]) \in I[k + 1]
  <2> SUFFICES ASSUME NEW k \in 0..(n - 1), NEW w \in I[k]
               PROVE  WriteRound(w, outstanding_buffers[k + 1]) \in I[k + 1]
    OBVIOUS
  <2>1. w \in WriteInv(config, accepted, Sent, size, left)
        /\ I[k + 1] = WriteInv(config, accepted, Sent, size, left)
    BY <1>2
  <2> HIDE DEF I
  <2>2. WriteSegment(w) \in WriteInv(config, accepted, Sent, size, left)
    BY <1>3, <2>1, WriteRoundKeeps
  <2>3. QED
    BY <2>1, <2>2 DEF WriteRound
<1> HIDE DEF I, n
<1>7. Writing!FoldLeft(WriteRound, base, outstanding_buffers) \in I[n]
  BY <1>2, <1>5, <1>6, Writing!LoopInvariant
<1>8. QED
  BY <1>1, <1>5, <1>7 DEF left
-----------------------------------------------------------------------------
(***************************************************************************)
(* pdcp_dl: the entries of the ring and of overflow_deque.                 *)
(***************************************************************************)
LEMMA OverflowIndexIs ==
  ASSUME NEW rx, rx.overflow \in Seq(Entry), NEW sn
  PROVE  /\ OverflowIndex(rx, sn) \in 0..Len(rx.overflow)
         /\ OverflowIndex(rx, sn) # 0 => rx.overflow[OverflowIndex(rx, sn)].sn = sn
         /\ OverflowIndex(rx, sn) = 0 => \A j \in 1..Len(rx.overflow) : rx.overflow[j].sn # sn
<1> DEFINE B == {i \in 1..Len(rx.overflow) : rx.overflow[i].sn = sn}
<1>1. OverflowIndex(rx, sn) = IF B # {} THEN Min(B) ELSE 0
  BY DEF OverflowIndex, SelectInSeq
<1>2. B \subseteq Nat /\ B \subseteq 1..Len(rx.overflow)
  OBVIOUS
<1>3. CASE B # {}
  <2> HIDE DEF B
  <2>1. \E n \in B : \A m \in B : n <= m
    BY <1>2, <1>3, Summing!Least
  <2>2. Min(B) \in B
    BY <2>1 DEF Min
  <2>3. Min(B) \in 1..Len(rx.overflow) /\ rx.overflow[Min(B)].sn = sn
    BY <2>2 DEF B
  <2> DEFINE n == Min(B)
  <2>4. OverflowIndex(rx, sn) = n
    BY <1>1, <1>3
  <2>5. n \in 1..Len(rx.overflow) /\ rx.overflow[n].sn = sn
    BY <2>3
  <2> HIDE DEF n
  <2>6. n \in 0..Len(rx.overflow) /\ n # 0
    BY <2>5
  <2>7. QED
    BY <2>4, <2>5, <2>6
<1>4. CASE B = {}
  <2>1. \A j \in 1..Len(rx.overflow) : rx.overflow[j].sn # sn
    BY <1>4
  <2>2. OverflowIndex(rx, sn) = 0
    BY <1>1, <1>4
  <2>3. 0 \in 0..Len(rx.overflow)
    OBVIOUS
  <2>4. QED
    BY <2>1, <2>2, <2>3
<1>5. QED
  BY <1>3, <1>4

(* The entry that flush_completed_in_order takes from overflow_deque. *)
LEMMA OverflowReadyIs ==
  ASSUME NEW rx, rx.overflow \in Seq(Entry)
  PROVE  /\ OverflowReady(rx) \in 0..Len(rx.overflow)
         /\ OverflowReady(rx) # 0 => /\ rx.overflow[OverflowReady(rx)].sn = rx.next
                                     /\ rx.overflow[OverflowReady(rx)].state.is_complete
         /\ OverflowReady(rx) = 0 => \A j \in 1..Len(rx.overflow) :
              ~(rx.overflow[j].sn = rx.next /\ rx.overflow[j].state.is_complete)
<1> DEFINE B == {i \in 1..Len(rx.overflow) :
                   rx.overflow[i].sn = rx.next /\ rx.overflow[i].state.is_complete}
<1>1. OverflowReady(rx) = IF B # {} THEN Min(B) ELSE 0
  BY DEF OverflowReady, SelectInSeq
<1>2. B \subseteq Nat /\ B \subseteq 1..Len(rx.overflow)
  OBVIOUS
<1>3. CASE B # {}
  <2> DEFINE n == Min(B)
  <2> HIDE DEF B
  <2>1. \E i \in B : \A m \in B : i <= m
    BY <1>2, <1>3, Summing!Least
  <2>2. n \in B
    BY <2>1 DEF Min
  <2>3. OverflowReady(rx) = n
    BY <1>1, <1>3
  <2> HIDE DEF n
  <2>4. n \in 1..Len(rx.overflow) /\ rx.overflow[n].sn = rx.next
        /\ rx.overflow[n].state.is_complete
    BY <2>2 DEF B
  <2>5. n \in 0..Len(rx.overflow) /\ n # 0
    BY <2>4
  <2>6. QED
    BY <2>3, <2>4, <2>5
<1>4. CASE B = {}
  <2>1. \A j \in 1..Len(rx.overflow) :
          ~(rx.overflow[j].sn = rx.next /\ rx.overflow[j].state.is_complete)
    BY <1>4
  <2>2. OverflowReady(rx) = 0
    BY <1>1, <1>4
  <2>3. 0 \in 0..Len(rx.overflow)
    OBVIOUS
  <2>4. QED
    BY <2>1, <2>2, <2>3
<1>5. QED
  BY <1>3, <1>4

(* A sequence without its k-th element. *)
LEMMA RemoveAtShape ==
  ASSUME NEW S, NEW seq \in Seq(S), NEW k \in 1..Len(seq)
  PROVE  /\ RemoveAt(seq, k) \in Seq(S)
         /\ Len(RemoveAt(seq, k)) = Len(seq) - 1
         /\ \A j \in 1..(Len(seq) - 1) :
              RemoveAt(seq, k)[j] = IF j < k THEN seq[j] ELSE seq[j + 1]
<1> DEFINE n == Len(seq)
           a == SubSeq(seq, 1, k - 1)
           b == SubSeq(seq, k + 1, n)
<1>1. n \in Nat /\ k \in 1..n /\ seq \in Seq(S) /\ RemoveAt(seq, k) = a \o b
  BY DEF RemoveAt
<1>2. a \in Seq(S) /\ Len(a) = k - 1 /\ \A j \in 1..(k - 1) : a[j] = seq[j]
  <2>1. k - 1 \in 0..n
    BY <1>1
  <2>2. \A i \in 1..(k - 1) : seq[i] \in S
    BY <1>1
  <2>3. QED
    BY <1>1, <2>1, <2>2
<1>3. b \in Seq(S) /\ Len(b) = n - k /\ \A j \in 1..(n - k) : b[j] = seq[k + j]
  <2>1. \A i \in (k + 1)..n : seq[i] \in S
    BY <1>1
  <2>2. \A j \in 1..(n - k) : j + (k + 1) - 1 = k + j
    BY <1>1
  <2>3. QED
    BY <1>1, <2>1, <2>2
<1> HIDE DEF a, b, n
<1>4. a \o b \in Seq(S) /\ Len(a \o b) = n - 1
  <2>1. a \o b \in Seq(S) /\ Len(a \o b) = Len(a) + Len(b)
    <3>1. a \in Seq(S)
      BY <1>2
    <3>2. b \in Seq(S)
      BY <1>3
    <3>3. a \o b \in Seq(S)
      BY <3>1, <3>2
    <3>4. Len(a \o b) = Len(a) + Len(b)
      BY <3>1, <3>2
    <3>5. QED
      BY <3>3, <3>4
  <2>2. (k - 1) + (n - k) = n - 1
    BY <1>1
  <2>3. QED
    BY <1>2, <1>3, <2>1, <2>2
<1>5. ASSUME NEW j \in 1..(n - 1)
      PROVE  (a \o b)[j] = IF j < k THEN seq[j] ELSE seq[j + 1]
  <2>1. CASE j < k
    <3>1. j \in 1..(k - 1) /\ j \in 1..Len(a)
      BY <1>1, <1>2, <2>1
    <3>2. (a \o b)[j] = a[j]
      BY <1>2, <1>3, <3>1
    <3>3. QED
      BY <1>2, <2>1, <3>1, <3>2
  <2>2. CASE ~(j < k)
    <3> DEFINE i == j - (k - 1)
    <3>1. i \in 1..(n - k) /\ k + i = j + 1 /\ j = Len(a) + i /\ i \in 1..Len(b)
      BY <1>1, <1>2, <1>3, <2>2
    <3>2. (a \o b)[j] = b[i]
      <4>1. (a \o b)[j] = b[j - Len(a)]
        BY <1>1, <1>2, <1>3, <1>5, <2>2
      <4>2. QED
        BY <1>2, <4>1
    <3> HIDE DEF i
    <3>3. b[i] = seq[j + 1]
      BY <1>3, <3>1
    <3>4. QED
      BY <2>2, <3>2, <3>3
  <2>3. QED
    BY <2>1, <2>2
<1>6. QED
  BY <1>1, <1>4, <1>5 DEF n

(* The fields of a configuration. *)
LEMMA SettingType ==
  ASSUME NEW c \in Setting
  PROVE  /\ c.allow_segmentation \in BOOLEAN /\ c.allow_reordering \in BOOLEAN
         /\ c.reorder_size \in Nat /\ c.max_frame \in Frame /\ c.max_lag \in Nat
         /\ c.max_copies \in Nat
BY SettingAssumption

(* slot_index stays within the ring. *)
LEMMA IndexType ==
  ASSUME config \in Setting, NEW sn \in Sn, config.reorder_size > 0
  PROVE  slot_index(sn) \in 0..(config.reorder_size - 1)
<1>1. config.reorder_size \in Nat \ {0} /\ sn \in Int
  BY SettingType, SizeAssumption DEF Sn
<1>2. sn % config.reorder_size \in 0..(config.reorder_size - 1)
  BY <1>1, Summing!DivMod
<1>3. QED
  BY <1>1, <1>2 DEF slot_index

(* An entry that was just made. *)
LEMMA FreshType == Fresh \in State /\ EmptySlot \in Slot
<1>1. 0 \in Sn
  BY SizeAssumption DEF Sn
<1>2. <<>> \in Seq(Frame \cup {Junk})
  OBVIOUS
<1>3. Fresh \in State
  BY <1>2 DEF Fresh, State
<1>4. QED
  BY <1>1, <1>3 DEF EmptySlot, Slot

(* The buffer grows to what is required and keeps its octets. *)
LEMMA GrownShape ==
  ASSUME NEW buffer \in Buffer, NEW required \in Nat
  PROVE  /\ Grown(buffer, required) \in Buffer
         /\ Len(Grown(buffer, required)) = IF Len(buffer) < required THEN required ELSE Len(buffer)
         /\ \A i \in 1..Len(Grown(buffer, required)) :
              Grown(buffer, required)[i] = IF i <= Len(buffer) THEN buffer[i] ELSE Junk
<1> DEFINE g == [i \in 1..required |-> IF i <= Len(buffer) THEN buffer[i] ELSE Junk]
<1>1. buffer \in Seq(Frame \cup {Junk}) /\ Len(buffer) \in Nat
  BY DEF Buffer
<1>2. CASE Len(buffer) < required
  <2>1. \A i \in 1..required : (IF i <= Len(buffer) THEN buffer[i] ELSE Junk) \in Frame \cup {Junk}
    <3> TAKE i \in 1..required
    <3>1. CASE i <= Len(buffer)
      <4>1. i \in 1..Len(buffer)
        BY <1>1, <3>1
      <4>2. QED
        BY <1>1, <3>1, <4>1
    <3>2. CASE ~(i <= Len(buffer))
      BY <3>2
    <3>3. QED
      BY <3>1, <3>2
  <2>2. g \in Seq(Frame \cup {Junk})
    BY <2>1
  <2>3. Len(g) = required
    BY <2>2
  <2>4. \A i \in 1..required : g[i] = IF i <= Len(buffer) THEN buffer[i] ELSE Junk
    OBVIOUS
  <2>5. Grown(buffer, required) = g
    BY <1>2 DEF Grown
  <2> HIDE DEF g
  <2>6. QED
    BY <1>2, <2>2, <2>3, <2>4, <2>5 DEF Buffer
<1>3. CASE ~(Len(buffer) < required)
  <2>1. Grown(buffer, required) = buffer
    BY <1>3 DEF Grown
  <2>2. QED
    BY <1>1, <1>3, <2>1 DEF Buffer
<1>4. QED
  BY <1>2, <1>3

(* What Reassembled makes of a state, field by field. *)
LEMMA ReassembledShape ==
  ASSUME NEW st \in State, NEW seg \in Segment, NEW v, v = Reassembled(st, seg),
         NEW required, required = seg.offset + seg.size,
         NEW dup \in BOOLEAN, dup <=> seg.offset \in st.recvd_offsets
  PROVE  /\ v \in State
         /\ Len(v.buffer) = IF Len(st.buffer) < required THEN required ELSE Len(st.buffer)
         /\ \A i \in 1..Len(v.buffer) :
              v.buffer[i] = IF ~dup /\ i \in (seg.offset + 1)..required THEN seg.frame
                            ELSE IF i <= Len(st.buffer) THEN st.buffer[i] ELSE Junk
         /\ v.accumulated_size = IF dup THEN st.accumulated_size
                                        ELSE st.accumulated_size + seg.size
         /\ v.expected_size = IF seg.last THEN required ELSE st.expected_size
         /\ v.recvd_offsets = st.recvd_offsets \cup {seg.offset}
         /\ v.has_expected_size = (seg.last \/ st.has_expected_size)
         /\ v.is_complete = (st.is_complete \/ ((seg.last \/ st.has_expected_size)
                               /\ v.accumulated_size = v.expected_size))
<1>1. /\ seg.offset \in Nat /\ seg.size \in Nat /\ seg.last \in BOOLEAN /\ seg.frame \in Frame
      /\ st.buffer \in Buffer /\ st.accumulated_size \in Nat /\ st.expected_size \in Nat
      /\ st.recvd_offsets \in SUBSET Nat /\ st.has_expected_size \in BOOLEAN
      /\ st.is_complete \in BOOLEAN
  BY DEF Segment, State, Buffer
<1>2. required \in Nat
  BY <1>1
<1> DEFINE grown == Grown(st.buffer, required)
           buffer == [i \in DOMAIN grown |->
                        IF ~dup /\ i \in (seg.offset + 1)..required THEN seg.frame ELSE grown[i]]
           accumulated == IF dup THEN st.accumulated_size ELSE st.accumulated_size + seg.size
           expected == IF seg.last THEN required ELSE st.expected_size
           known == seg.last \/ st.has_expected_size
           offsets == st.recvd_offsets \cup {seg.offset}
           complete == st.is_complete \/ (known /\ accumulated = expected)
<1>3. IsDuplicate(st, seg) = dup
  BY DEF IsDuplicate
<1>4. v = [buffer |-> buffer, accumulated_size |-> accumulated, expected_size |-> expected,
           recvd_offsets |-> offsets, has_expected_size |-> known, is_complete |-> complete]
  BY <1>3 DEF Reassembled
<1>5. /\ grown \in Buffer
      /\ Len(grown) = IF Len(st.buffer) < required THEN required ELSE Len(st.buffer)
      /\ \A i \in 1..Len(grown) : grown[i] = IF i <= Len(st.buffer) THEN st.buffer[i] ELSE Junk
  BY <1>1, <1>2, GrownShape
<1> HIDE DEF grown
<1>6. /\ buffer \in Seq(Frame \cup {Junk}) /\ Len(buffer) = Len(grown)
      /\ \A i \in 1..Len(grown) :
           buffer[i] = IF ~dup /\ i \in (seg.offset + 1)..required THEN seg.frame ELSE grown[i]
  <2>1. grown \in Seq(Frame \cup {Junk}) /\ DOMAIN grown = 1..Len(grown) /\ Len(grown) \in Nat
    BY <1>5 DEF Buffer
  <2>2. \A i \in 1..Len(grown) :
          (IF ~dup /\ i \in (seg.offset + 1)..required THEN seg.frame ELSE grown[i])
            \in Frame \cup {Junk}
    BY <1>1, <2>1
  <2>3. buffer = [i \in 1..Len(grown) |->
                    IF ~dup /\ i \in (seg.offset + 1)..required THEN seg.frame ELSE grown[i]]
    BY <2>1
  <2>4. buffer \in Seq(Frame \cup {Junk})
    BY <2>1, <2>2, <2>3
  <2>5. Len(buffer) = Len(grown)
    BY <2>1, <2>3, <2>4
  <2>6. QED
    BY <2>3, <2>4, <2>5
<1>7. accumulated \in Nat /\ expected \in Nat /\ offsets \in SUBSET Nat /\ known \in BOOLEAN
      /\ complete \in BOOLEAN
  BY <1>1, <1>2
<1>8. complete = (st.is_complete \/ ((seg.last \/ st.has_expected_size) /\ accumulated = expected))
      /\ known = (seg.last \/ st.has_expected_size)
      /\ offsets = st.recvd_offsets \cup {seg.offset}
      /\ accumulated = (IF dup THEN st.accumulated_size ELSE st.accumulated_size + seg.size)
      /\ expected = (IF seg.last THEN required ELSE st.expected_size)
  OBVIOUS
<1> HIDE DEF buffer, accumulated, expected, known, offsets, complete
<1>9. v \in State
  BY <1>4, <1>6, <1>7 DEF State
<1>10. /\ v.buffer = buffer /\ v.accumulated_size = accumulated /\ v.expected_size = expected
       /\ v.recvd_offsets = offsets /\ v.has_expected_size = known /\ v.is_complete = complete
  BY <1>4
<1>11. \A i \in 1..Len(v.buffer) :
         v.buffer[i] = IF ~dup /\ i \in (seg.offset + 1)..required THEN seg.frame
                       ELSE IF i <= Len(st.buffer) THEN st.buffer[i] ELSE Junk
  BY <1>5, <1>6, <1>10
<1>12. QED
  BY <1>5, <1>6, <1>8, <1>9, <1>10, <1>11

(* The fields of pdcp_dl. *)
LEMMA RxFields ==
  ASSUME NEW c, NEW rx \in RxWork(c)
  PROVE  /\ rx.ring \in Ring(c) /\ rx.overflow \in Seq(Entry) /\ rx.next \in Sn
         /\ rx.done \in Seq(Buffer) /\ rx.bytes \in Nat
         /\ rx = [ring |-> rx.ring, overflow |-> rx.overflow, next |-> rx.next,
                  done |-> rx.done, bytes |-> rx.bytes]
BY DEF RxWork

(* An entry of overflow_deque. *)
LEMMA EntryAt ==
  ASSUME NEW seq \in Seq(Entry), NEW k \in 1..Len(seq)
  PROVE  seq[k] \in Entry /\ seq[k].sn \in Sn /\ seq[k].state \in State
<1>1. seq[k] \in Entry
  OBVIOUS
<1>2. QED
  BY <1>1 DEF Entry

(* A slot of the ring. *)
LEMMA SlotAt ==
  ASSUME NEW c, NEW ring \in Ring(c), NEW i \in 0..(c.reorder_size - 1)
  PROVE  /\ ring[i] \in Slot /\ ring[i].valid \in BOOLEAN /\ ring[i].sn \in Sn
         /\ ring[i].state \in State
<1>1. ring[i] \in Slot
  BY DEF Ring
<1>2. QED
  BY <1>1 DEF Slot

(* What is collected of a sequence number has its type. *)
LEMMA StateOfType ==
  ASSUME config \in Setting, NEW rx \in RxWork(config), NEW sn \in Sn
  PROVE  StateOf(rx, sn) \in State
<1>1. CASE HasSlot(rx, sn)
  <2>1. config.reorder_size > 0
    BY <1>1 DEF HasSlot
  <2>2. rx.ring[slot_index(sn)].state \in State
    BY <2>1, IndexType, RxFields, SlotAt
  <2>3. QED
    BY <1>1, <2>2, FreshType DEF StateOf
<1>2. CASE ~HasSlot(rx, sn)
  <2> DEFINE k == OverflowIndex(rx, sn)
  <2>1. rx.overflow \in Seq(Entry) /\ Len(rx.overflow) \in Nat
    BY RxFields
  <2>2. k \in 0..Len(rx.overflow)
    BY <2>1, OverflowIndexIs
  <2>3. StateOf(rx, sn) = IF k = 0 THEN Fresh ELSE rx.overflow[k].state
    BY <1>2 DEF StateOf
  <2> HIDE DEF k
  <2>4. k # 0 => rx.overflow[k].state \in State
    <3> HAVE k # 0
    <3>1. k \in 1..Len(rx.overflow)
      BY <2>1, <2>2
    <3>2. QED
      BY <2>1, <3>1, EntryAt
  <2>5. QED
    BY <2>3, <2>4, FreshType
<1>3. QED
  BY <1>1, <1>2

(* Where Stored puts the state. *)
LEMMA StoredShape ==
  ASSUME config \in Setting, NEW rx \in RxWork(config), NEW sn \in Sn, NEW st \in State,
         NEW v, v = Stored(rx, sn, st)
  PROVE  /\ v \in RxWork(config) /\ v.next = rx.next /\ v.done = rx.done /\ v.bytes = rx.bytes
         /\ HasSlot(rx, sn) =>
              /\ v.overflow = rx.overflow
              /\ \A i \in 0..(config.reorder_size - 1) :
                   v.ring[i] = IF i = slot_index(sn) THEN [valid |-> TRUE, sn |-> sn, state |-> st]
                                                     ELSE rx.ring[i]
         /\ ~HasSlot(rx, sn) => v.ring = rx.ring
         /\ ~HasSlot(rx, sn) /\ OverflowIndex(rx, sn) = 0 =>
              v.overflow = Append(rx.overflow, [sn |-> sn, state |-> st])
<1>1. /\ rx.ring \in Ring(config) /\ rx.overflow \in Seq(Entry) /\ rx.next \in Sn
      /\ rx.done \in Seq(Buffer) /\ rx.bytes \in Nat
      /\ rx = [ring |-> rx.ring, overflow |-> rx.overflow, next |-> rx.next,
               done |-> rx.done, bytes |-> rx.bytes]
  BY RxFields
<1>2. CASE HasSlot(rx, sn)
  <2> DEFINE slot == [valid |-> TRUE, sn |-> sn, state |-> st]
             ring == [rx.ring EXCEPT ![slot_index(sn)] = slot]
  <2>1. slot_index(sn) \in 0..(config.reorder_size - 1)
    BY <1>2, IndexType DEF HasSlot
  <2>2. slot \in Slot
    BY DEF Slot
  <2> HIDE DEF slot
  <2>3. /\ ring \in Ring(config)
        /\ \A i \in 0..(config.reorder_size - 1) :
             ring[i] = IF i = slot_index(sn) THEN slot ELSE rx.ring[i]
    BY <1>1, <2>1, <2>2 DEF Ring
  <2>4. v = [rx EXCEPT !.ring = ring]
    BY <1>1, <1>2 DEF Stored, slot
  <2> HIDE DEF ring
  <2>5. v.ring = ring /\ v.overflow = rx.overflow /\ v.next = rx.next /\ v.done = rx.done
        /\ v.bytes = rx.bytes /\ v \in RxWork(config)
    BY <1>1, <2>3, <2>4 DEF RxWork
  <2>6. QED
    BY <1>2, <2>3, <2>5 DEF slot
<1>3. CASE ~HasSlot(rx, sn) /\ OverflowIndex(rx, sn) = 0
  <2> DEFINE entry == [sn |-> sn, state |-> st]
             over == Append(rx.overflow, entry)
  <2>1. entry \in Entry
    BY DEF Entry
  <2> HIDE DEF entry
  <2>2. over \in Seq(Entry)
    BY <1>1, <2>1
  <2>3. v = [rx EXCEPT !.overflow = over]
    BY <1>1, <1>3 DEF Stored, entry
  <2> HIDE DEF over
  <2>4. v.ring = rx.ring /\ v.overflow = over /\ v.next = rx.next /\ v.done = rx.done
        /\ v.bytes = rx.bytes /\ v \in RxWork(config)
    BY <1>1, <2>2, <2>3 DEF RxWork
  <2>5. QED
    BY <1>3, <2>4 DEF over, entry
<1>4. CASE ~HasSlot(rx, sn) /\ OverflowIndex(rx, sn) # 0
  <2> DEFINE k == OverflowIndex(rx, sn)
             over == [rx.overflow EXCEPT ![k].state = st]
  <2>1. k \in 1..Len(rx.overflow)
    <3>1. k \in 0..Len(rx.overflow) /\ k # 0
      BY <1>1, <1>4, OverflowIndexIs
    <3> HIDE DEF k
    <3>2. Len(rx.overflow) \in Nat
      BY <1>1
    <3>3. QED
      BY <3>1, <3>2
  <2>2. v = [rx EXCEPT !.overflow = over]
    BY <1>1, <1>4 DEF Stored
  <2> HIDE DEF k
  <2>3. over \in Seq(Entry)
    <3> DEFINE e == [rx.overflow[k] EXCEPT !.state = st]
    <3>1. e \in Entry
      <4>1. rx.overflow[k] \in Entry
        BY <1>1, <2>1, EntryAt
      <4>2. QED
        BY <4>1 DEF Entry
    <3>2. over = [rx.overflow EXCEPT ![k] = e]
      OBVIOUS
    <3> HIDE DEF e
    <3>3. [rx.overflow EXCEPT ![k] = e] \in Seq(Entry)
      BY <1>1, <2>1, <3>1
    <3>4. QED
      BY <3>2, <3>3
  <2> HIDE DEF over
  <2>4. v.ring = rx.ring /\ v.overflow = over /\ v.next = rx.next /\ v.done = rx.done
        /\ v.bytes = rx.bytes /\ v \in RxWork(config)
    BY <1>1, <2>2, <2>3 DEF RxWork
  <2>5. QED
    BY <1>4, <2>4
<1>5. QED
  BY <1>2, <1>3, <1>4

(* Removing an entry keeps the types. *)
LEMMA RemovedType ==
  ASSUME config \in Setting, NEW rx \in RxWork(config), NEW sn \in Sn
  PROVE  Removed(rx, sn) \in RxWork(config)
<1>1. /\ rx.ring \in Ring(config) /\ rx.overflow \in Seq(Entry) /\ rx.next \in Sn
      /\ rx.done \in Seq(Buffer) /\ rx.bytes \in Nat
      /\ rx = [ring |-> rx.ring, overflow |-> rx.overflow, next |-> rx.next,
               done |-> rx.done, bytes |-> rx.bytes]
  BY RxFields
<1>2. CASE HasSlot(rx, sn)
  <2> DEFINE ring == [rx.ring EXCEPT ![slot_index(sn)] = EmptySlot]
  <2>1. slot_index(sn) \in 0..(config.reorder_size - 1)
    BY <1>2, IndexType DEF HasSlot
  <2>2. ring \in Ring(config)
    BY <1>1, <2>1, FreshType DEF Ring
  <2>3. Removed(rx, sn) = [rx EXCEPT !.ring = ring]
    BY <1>1, <1>2 DEF Removed
  <2> HIDE DEF ring
  <2>4. QED
    BY <1>1, <2>2, <2>3 DEF RxWork
<1>3. CASE ~HasSlot(rx, sn) /\ OverflowIndex(rx, sn) = 0
  BY <1>3 DEF Removed
<1>4. CASE ~HasSlot(rx, sn) /\ OverflowIndex(rx, sn) # 0
  <2> DEFINE k == OverflowIndex(rx, sn)
             over == RemoveAt(rx.overflow, k)
  <2>1. k \in 1..Len(rx.overflow)
    <3>1. k \in 0..Len(rx.overflow) /\ k # 0
      BY <1>1, <1>4, OverflowIndexIs
    <3> HIDE DEF k
    <3>2. Len(rx.overflow) \in Nat
      BY <1>1
    <3>3. QED
      BY <3>1, <3>2
  <2>2. Removed(rx, sn) = [rx EXCEPT !.overflow = over]
    BY <1>1, <1>4 DEF Removed
  <2>3. over \in Seq(Entry)
    BY <1>1, <2>1, RemoveAtShape
  <2> HIDE DEF over
  <2>4. QED
    BY <1>1, <2>2, <2>3 DEF RxWork
<1>5. QED
  BY <1>2, <1>3, <1>4

(* One segment. *)
LEMMA OnSegmentType ==
  ASSUME config \in Setting, NEW rx \in RxWork(config), NEW segment \in Segment
  PROVE  OnSegment(rx, segment) \in RxWork(config)
<1> DEFINE sn == IF config.allow_reordering THEN segment.sn ELSE 0
           seg == IF config.allow_segmentation THEN segment ELSE [segment EXCEPT !.offset = 0]
           state == Reassembled(StateOf(rx, sn), seg)
           stored == Stored(rx, sn, state)
           removed == Removed(stored, sn)
           v == [removed EXCEPT !.done = Append(@, state.buffer), !.bytes = @ + state.expected_size]
<1>1. sn \in Sn
  <2>1. segment.sn \in Sn /\ 0 \in Sn
    BY SizeAssumption DEF Segment, Sn
  <2>2. QED
    BY <2>1
<1>2. seg \in Segment
  BY DEF Segment
<1>3. OnSegment(rx, segment) = IF state.is_complete /\ ~config.allow_reordering THEN v ELSE stored
  BY DEF OnSegment
<1> HIDE DEF sn, seg
<1>4. state \in State
  <2> DEFINE old == StateOf(rx, sn)
             dup == seg.offset \in old.recvd_offsets
             required == seg.offset + seg.size
  <2>1. old \in State
    BY <1>1, StateOfType
  <2>2. dup \in BOOLEAN
    OBVIOUS
  <2> HIDE DEF old
  <2>3. dup <=> seg.offset \in old.recvd_offsets
    OBVIOUS
  <2> HIDE DEF dup
  <2>4. required = seg.offset + seg.size
    OBVIOUS
  <2> HIDE DEF required
  <2>5. Reassembled(old, seg) \in State
    BY <1>2, <2>1, <2>2, <2>3, <2>4, ReassembledShape
  <2>6. QED
    BY <2>5 DEF old
<1> HIDE DEF state
<1>5. stored \in RxWork(config)
  BY <1>1, <1>4, StoredShape
<1> HIDE DEF stored
<1>6. removed \in RxWork(config)
  BY <1>1, <1>5, RemovedType
<1> HIDE DEF removed
<1>7. v \in RxWork(config)
  <2> DEFINE done == Append(removed.done, state.buffer)
             bytes == removed.bytes + state.expected_size
  <2>1. removed.done \in Seq(Buffer) /\ removed.bytes \in Nat
    BY <1>6, RxFields
  <2>2. state.buffer \in Buffer /\ state.expected_size \in Nat
    BY <1>4 DEF State, Buffer
  <2>3. done \in Seq(Buffer) /\ bytes \in Nat
    BY <2>1, <2>2
  <2>4. v = [removed EXCEPT !.done = done, !.bytes = bytes]
    OBVIOUS
  <2> HIDE DEF done, bytes
  <2>5. QED
    BY <1>6, <2>3, <2>4 DEF RxWork
<1> HIDE DEF v
<1>8. QED
  BY <1>3, <1>5, <1>7

(* The sequence number after one is one. *)
LEMMA NextSnType ==
  ASSUME NEW sn \in Sn PROVE NextSn(sn) \in Sn
<1>1. sn + 1 \in Int
  BY SizeAssumption DEF Sn
<1>2. QED
  BY <1>1, SizeAssumption, Summing!DivMod DEF NextSn, Sn

(* What one round of flush_completed_in_order does. *)
LEMMA FlushOneShape ==
  ASSUME config \in Setting, NEW rx \in RxWork(config), NEW v, v = FlushOne(rx)
  PROVE  /\ v \in RxWork(config)
         /\ RingReady(rx) =>
              /\ v.overflow = rx.overflow /\ v.next = NextSn(rx.next)
              /\ \A i \in 0..(config.reorder_size - 1) :
                   v.ring[i] = IF i = slot_index(rx.next) THEN EmptySlot ELSE rx.ring[i]
              /\ v.done = Append(rx.done, rx.ring[slot_index(rx.next)].state.buffer)
              /\ v.bytes = rx.bytes + rx.ring[slot_index(rx.next)].state.expected_size
         /\ ~RingReady(rx) /\ OverflowReady(rx) # 0 =>
              /\ v.ring = rx.ring /\ v.next = NextSn(rx.next)
              /\ v.overflow = RemoveAt(rx.overflow, OverflowReady(rx))
              /\ v.done = Append(rx.done, rx.overflow[OverflowReady(rx)].state.buffer)
              /\ v.bytes = rx.bytes + rx.overflow[OverflowReady(rx)].state.expected_size
         /\ ~RingReady(rx) /\ OverflowReady(rx) = 0 => v = rx
<1>1. /\ rx.ring \in Ring(config) /\ rx.overflow \in Seq(Entry) /\ rx.next \in Sn
      /\ rx.done \in Seq(Buffer) /\ rx.bytes \in Nat
      /\ rx = [ring |-> rx.ring, overflow |-> rx.overflow, next |-> rx.next,
               done |-> rx.done, bytes |-> rx.bytes]
  BY RxFields
<1>2. NextSn(rx.next) \in Sn
  BY <1>1, NextSnType
<1>3. CASE RingReady(rx)
  <2> DEFINE s == slot_index(rx.next)
             st == rx.ring[s].state
             ring == [rx.ring EXCEPT ![s] = EmptySlot]
             done == Append(rx.done, st.buffer)
             bytes == rx.bytes + st.expected_size
             next == NextSn(rx.next)
  <2>1. s \in 0..(config.reorder_size - 1)
    BY <1>1, <1>3, IndexType DEF RingReady
  <2>2. st \in State
    BY <1>1, <2>1, SlotAt
  <2>3. v = [rx EXCEPT !.done = done, !.bytes = bytes, !.next = next, !.ring = ring]
    BY <1>1, <1>3 DEF FlushOne, Emitted
  <2> HIDE DEF s
  <2>4. /\ ring \in Ring(config)
        /\ \A i \in 0..(config.reorder_size - 1) : ring[i] = IF i = s THEN EmptySlot ELSE rx.ring[i]
    BY <1>1, <2>1, FreshType DEF Ring
  <2> HIDE DEF st
  <2>5. st.buffer \in Buffer /\ st.expected_size \in Nat
    BY <2>2 DEF State, Buffer
  <2>6. done \in Seq(Buffer) /\ bytes \in Nat
    BY <1>1, <2>5
  <2> HIDE DEF ring, done, bytes, next
  <2>7. /\ v.ring = ring /\ v.overflow = rx.overflow /\ v.next = next /\ v.done = done
        /\ v.bytes = bytes
    BY <1>1, <2>3
  <2>8. next \in Sn
    BY <1>2 DEF next
  <2>9. v \in RxWork(config)
    BY <1>1, <2>3, <2>4, <2>6, <2>8 DEF RxWork
  <2>10. QED
    BY <1>3, <2>4, <2>7, <2>9 DEF s, st, done, bytes, next
<1>4. CASE ~RingReady(rx) /\ OverflowReady(rx) # 0
  <2> DEFINE k == OverflowReady(rx)
             st == rx.overflow[k].state
             over == RemoveAt(rx.overflow, k)
             done == Append(rx.done, st.buffer)
             bytes == rx.bytes + st.expected_size
             next == NextSn(rx.next)
  <2>1. k \in 1..Len(rx.overflow)
    <3>1. k \in 0..Len(rx.overflow) /\ k # 0
      BY <1>1, <1>4, OverflowReadyIs
    <3> HIDE DEF k
    <3>2. Len(rx.overflow) \in Nat
      BY <1>1
    <3>3. QED
      BY <3>1, <3>2
  <2>2. v = [rx EXCEPT !.done = done, !.bytes = bytes, !.next = next, !.overflow = over]
    BY <1>1, <1>4 DEF FlushOne, Emitted
  <2>3. st \in State
    BY <1>1, <2>1, EntryAt
  <2>4. over \in Seq(Entry)
    BY <1>1, <2>1, RemoveAtShape
  <2> HIDE DEF st
  <2>5. st.buffer \in Buffer /\ st.expected_size \in Nat
    BY <2>3 DEF State, Buffer
  <2>6. done \in Seq(Buffer) /\ bytes \in Nat
    BY <1>1, <2>5
  <2> HIDE DEF over, done, bytes, next, k
  <2>7. /\ v.ring = rx.ring /\ v.overflow = over /\ v.next = next /\ v.done = done
        /\ v.bytes = bytes
    BY <1>1, <2>2
  <2>8. next \in Sn
    BY <1>2 DEF next
  <2>9. v \in RxWork(config)
    BY <1>1, <2>2, <2>4, <2>6, <2>8 DEF RxWork
  <2>10. QED
    BY <1>4, <2>7, <2>9 DEF k, st, over, done, bytes, next
<1>5. CASE ~RingReady(rx) /\ OverflowReady(rx) = 0
  BY <1>5 DEF FlushOne
<1>6. QED
  BY <1>3, <1>4, <1>5

(* The loop of on_pdcp_data. *)
Taken(rx, m) == FoldLeft(OnSegment, rx, m)

(* The loop of on_pdcp_data. *)
LEMMA TakenLoop ==
  ASSUME NEW rx, NEW m PROVE Taken(rx, m) = Receiving!FoldLeft(OnSegment, rx, m)
BY DEF Taken, FoldLeft, MapThenFoldSet, Max,
       Receiving!FoldLeft, Receiving!MapThenFoldSet, Receiving!Max

(* It keeps the types. *)
LEMMA TakenType ==
  ASSUME config \in Setting, NEW rx \in RxWork(config), NEW m \in Seq(Segment)
  PROVE  Taken(rx, m) \in RxWork(config)
<1> DEFINE n == Len(m)
           I == [k \in 0..n |-> RxWork(config)]
<1>1. n \in Nat /\ DOMAIN m = 1..n
  OBVIOUS
<1>2. rx \in I[0] /\ I[n] = RxWork(config)
  BY <1>1
<1>3. \A k \in 0..(n - 1) : \A w \in I[k] : OnSegment(w, m[k + 1]) \in I[k + 1]
  <2> SUFFICES ASSUME NEW k \in 0..(n - 1), NEW w \in I[k]
               PROVE  OnSegment(w, m[k + 1]) \in I[k + 1]
    OBVIOUS
  <2>1. w \in RxWork(config) /\ I[k + 1] = RxWork(config) /\ k + 1 \in 1..n
    BY <1>1
  <2> HIDE DEF I
  <2>2. m[k + 1] \in Segment
    BY <2>1
  <2>3. QED
    BY <2>1, <2>2, OnSegmentType
<1> HIDE DEF I, n
<1>4. Receiving!FoldLeft(OnSegment, rx, m) \in I[n]
  BY <1>1, <1>2, <1>3, Receiving!LoopInvariant
<1>5. QED
  BY <1>2, <1>4, TakenLoop

(* The loop of flush_completed_in_order. *)
FlushBound(rx) == config.reorder_size + Len(rx.overflow)
FlushSteps(rx) == [i \in 1..FlushBound(rx) |-> i]

(* flush_completed_in_order as a loop. *)
LEMMA FlushLoop ==
  ASSUME NEW rx
  PROVE  flush_completed_in_order(rx) = Flushing!FoldLeft(FlushRound, rx, FlushSteps(rx))
BY DEF flush_completed_in_order, FlushRound, FlushSteps, FlushBound, FoldLeft, MapThenFoldSet,
       Max, Flushing!FoldLeft, Flushing!MapThenFoldSet, Flushing!Max

(* Its rounds are counted by a number. *)
LEMMA FlushDomain ==
  ASSUME config \in Setting, NEW rx \in RxWork(config)
  PROVE  FlushBound(rx) \in Nat /\ DOMAIN FlushSteps(rx) = 1..FlushBound(rx)
<1>1. config.reorder_size \in Nat /\ Len(rx.overflow) \in Nat
  BY SettingType, RxFields
<1>2. QED
  BY <1>1 DEF FlushBound, FlushSteps

(* It keeps the types. *)
LEMMA FlushedType ==
  ASSUME config \in Setting, NEW rx \in RxWork(config)
  PROVE  Flushed(rx) \in RxWork(config)
<1> DEFINE n == FlushBound(rx)
           seq == FlushSteps(rx)
           I == [k \in 0..n |-> RxWork(config)]
<1>1. n \in Nat /\ DOMAIN seq = 1..n
  BY FlushDomain
<1>2. rx \in I[0] /\ I[n] = RxWork(config)
  BY <1>1
<1>3. \A k \in 0..(n - 1) : \A w \in I[k] : FlushRound(w, seq[k + 1]) \in I[k + 1]
  <2> SUFFICES ASSUME NEW k \in 0..(n - 1), NEW w \in I[k]
               PROVE  FlushRound(w, seq[k + 1]) \in I[k + 1]
    OBVIOUS
  <2>1. w \in RxWork(config) /\ I[k + 1] = RxWork(config) /\ k + 1 \in 1..n
    BY <1>1
  <2> HIDE DEF I
  <2>2. QED
    BY <2>1, FlushOneShape DEF FlushRound
<1> HIDE DEF I, n, seq
<1>4. Flushing!FoldLeft(FlushRound, rx, seq) \in I[n]
  BY <1>1, <1>2, <1>3, Flushing!LoopInvariant
<1>5. flush_completed_in_order(rx) \in RxWork(config)
  BY <1>2, <1>4, FlushLoop DEF seq
<1>6. QED
  BY <1>5 DEF Flushed
-----------------------------------------------------------------------------
(* The types, with what the sender's counters say of its frames. *)
TInv ==
  /\ config \in Setting
  /\ min_commit_size \in config.min_commit_size
  /\ TxShape(config, accepted, outstanding_buffers, data_offset)
  /\ sequence_number \in Sn
  /\ unwritten = Left(outstanding_buffers, data_offset)
  /\ \A m \in air : m \in Seq(Segment)
  /\ copies \in Nat
  /\ Received \in RxWork(config)

(* A sender that was just reset. *)
LEMMA TxEmpty ==
  ASSUME NEW c, NEW a \in 0..MaxFrame
  PROVE  TxShape(c, a, <<>>, 0) /\ Left(<<>>, 0) = 0
<1>1. <<>> \in Seq(Frame) /\ Len(<<>>) = 0
  OBVIOUS
<1>2. 0 <= a /\ a \in Int
  BY SizeAssumption
<1>3. TxShape(c, a, <<>>, 0)
  BY <1>1, <1>2 DEF TxShape
<1>4. DOMAIN Sizes(<<>>) = 1..0
  BY DEF Sizes
<1>5. QED
  BY <1>3, <1>4, SumEmpty DEF Left

(* A receiver that was just reset. *)
LEMMA RxEmpty ==
  ASSUME NEW c \in Setting
  PROVE  [ring |-> EmptyRing(c), overflow |-> <<>>, next |-> 0, done |-> <<>>, bytes |-> 0]
           \in RxWork(c)
<1>1. EmptyRing(c) \in Ring(c)
  BY FreshType DEF EmptyRing, Ring
<1>2. 0 \in Sn /\ <<>> \in Seq(Entry) /\ <<>> \in Seq(Buffer)
  BY SizeAssumption DEF Sn
<1>3. QED
  BY <1>1, <1>2 DEF RxWork

(* The types hold in the beginning. *)
LEMMA TInit == Init => TInv
<1> SUFFICES ASSUME Init PROVE TInv
  OBVIOUS
<1>1. config \in Setting /\ accepted = 0 /\ 0 \in 0..MaxFrame
  BY SizeAssumption DEF Init
<1>2. TxShape(config, accepted, outstanding_buffers, data_offset)
      /\ unwritten = Left(outstanding_buffers, data_offset)
  BY <1>1, TxEmpty DEF Init
<1>3. sequence_number \in Sn
  BY SizeAssumption DEF Init, Sn
<1>4. Received \in RxWork(config)
  BY <1>1, RxEmpty DEF Init, Received
<1>5. QED
  BY <1>1, <1>2, <1>3, <1>4 DEF TInv, Init

(* on_frame_data *)
LEMMA AcceptShape ==
  ASSUME TInv, on_frame_data
  PROVE  /\ TxShape(config, accepted', outstanding_buffers', data_offset)
         /\ unwritten' = Left(outstanding_buffers', data_offset)
         /\ accepted' = accepted + 1
         /\ Len(outstanding_buffers') = Len(outstanding_buffers) + 1
         /\ accepted' \in Frame
<1> DEFINE n == Len(outstanding_buffers)
           f == accepted + 1
           more == Append(outstanding_buffers, f)
           a == Sizes(outstanding_buffers)
           b == Sizes(more)
<1>1. /\ config \in Setting /\ TxShape(config, accepted, outstanding_buffers, data_offset)
      /\ unwritten = Left(outstanding_buffers, data_offset)
  BY DEF TInv
<1>2. /\ accepted < config.max_frame /\ accepted' = f /\ outstanding_buffers' = more
      /\ unwritten' = unwritten + FrameSize[f]
  BY DEF on_frame_data
<1>3. /\ accepted \in 0..MaxFrame /\ outstanding_buffers \in Seq(Frame) /\ n <= accepted
      /\ data_offset \in Nat /\ n \in Nat /\ MaxFrame \in Nat
      /\ \A k \in 1..n : outstanding_buffers[k] = (accepted - n) + k
  BY <1>1, SizeAssumption DEF TxShape
<1>4. f \in Frame /\ f \in 0..MaxFrame
  <2>1. config.max_frame \in 1..MaxFrame
    BY <1>1, SettingType DEF Frame
  <2>2. QED
    BY <1>2, <1>3, <2>1 DEF Frame
<1> HIDE DEF f
<1>5. /\ more \in Seq(Frame) /\ Len(more) = n + 1 /\ more[n + 1] = f
      /\ \A k \in 1..n : more[k] = outstanding_buffers[k]
  BY <1>3, <1>4
<1> HIDE DEF more, n
<1>6. f - (n + 1) = accepted - n /\ f = accepted + 1
  BY <1>3 DEF f
<1>7. \A k \in 1..(n + 1) : more[k] = (f - (n + 1)) + k
  <2> TAKE k \in 1..(n + 1)
  <2>1. CASE k = n + 1
    BY <1>3, <1>5, <1>6, <2>1
  <2>2. CASE k # n + 1
    <3>1. k \in 1..n
      BY <1>3, <2>2
    <3>2. QED
      BY <1>3, <1>5, <1>6, <3>1
  <2>3. QED
    BY <2>1, <2>2
<1>8. data_offset < FrameSize[(f - (n + 1)) + 1]
  <2>1. CASE outstanding_buffers = <<>>
    <3>1. data_offset = 0 /\ n = 0
      BY <1>1, <2>1 DEF TxShape, n
    <3>2. (f - (n + 1)) + 1 = f
      BY <1>3, <1>6, <3>1
    <3>3. QED
      BY <1>4, <3>1, <3>2, SizeAssumption
  <2>2. CASE outstanding_buffers # <<>>
    BY <1>1, <1>6, <2>2 DEF TxShape, n
  <2>3. QED
    BY <2>1, <2>2
<1>9. TxShape(config, f, more, data_offset)
  <2>1. n + 1 <= f /\ more # <<>>
    BY <1>3, <1>5, <1>6
  <2>2. ~config.allow_segmentation => data_offset = 0
    BY <1>1 DEF TxShape
  <2>3. QED
    BY <1>3, <1>4, <1>5, <1>7, <1>8, <2>1, <2>2 DEF TxShape
<1>10. SumOf(b) = SumOf(a) + FrameSize[f] /\ SumOf(a) \in Nat
  <2>1. DOMAIN a = 1..n /\ \A k \in 1..n : a[k] = FrameSize[outstanding_buffers[k]] /\ a[k] \in Nat
    BY <1>3, SizesShape DEF n
  <2>2. DOMAIN b = 1..(n + 1) /\ \A k \in 1..(n + 1) : b[k] = FrameSize[more[k]]
    BY <1>5, SizesShape
  <2>3. \A k \in 1..n : b[k] = a[k]
    <3> TAKE k \in 1..n
    <3>1. k \in 1..(n + 1)
      BY <1>3
    <3>2. QED
      BY <1>5, <2>1, <2>2, <3>1
  <2>4. b[n + 1] = FrameSize[f]
    <3>1. n + 1 \in 1..(n + 1)
      BY <1>3
    <3>2. QED
      BY <1>5, <2>2, <3>1
  <2> HIDE DEF a, b
  <2>5. SumOf(b) = SumOf(a) + b[n + 1]
    <3>1. n \in Nat
      BY <1>3
    <3>2. DOMAIN a = 1..n
      BY <2>1
    <3>3. DOMAIN b = 1..(n + 1)
      BY <2>2
    <3>4. QED
      BY <3>1, <3>2, <3>3, <2>3, SumMore
  <2>6. SumOf(a) \in Nat
    BY <1>3, <2>1, SumType
  <2>7. QED
    BY <2>4, <2>5, <2>6
<1>11. unwritten' = Left(more, data_offset)
  <2> DEFINE sa == SumOf(a)
             sb == SumOf(b)
  <2>1. unwritten = sa - data_offset /\ Left(more, data_offset) = sb - data_offset
    BY <1>1 DEF Left
  <2>2. FrameSize[f] \in Nat /\ data_offset \in Nat /\ sa \in Nat /\ sb = sa + FrameSize[f]
    BY <1>3, <1>4, <1>10, SizeAssumption
  <2> HIDE DEF sa, sb
  <2>3. QED
    BY <1>2, <2>1, <2>2
<1>12. QED
  BY <1>2, <1>4, <1>5, <1>6, <1>9, <1>11 DEF n

(* write_pdcp *)
LEMMA WriteShape ==
  ASSUME TInv, NEW size \in BufferSize, write_pdcp(size), NEW w, w = Written(size)
  PROVE  /\ w \in WriteInv(config, accepted, Sent, size, Left(outstanding_buffers, data_offset))
         /\ size \in Nat
         /\ outstanding_buffers' = w.frames /\ data_offset' = w.offset
         /\ sequence_number' = w.sn /\ air' = air \cup {w.pdu}
         /\ unwritten' = Left(outstanding_buffers', data_offset')
         /\ w.pdu # <<>> /\ WithinLag(w.pdu)
         /\ UNCHANGED <<config, copies, dl, accepted, settled>>
<1> DEFINE left == Left(outstanding_buffers, data_offset)
<1>1. /\ config \in Setting /\ TxShape(config, accepted, outstanding_buffers, data_offset)
      /\ sequence_number \in Sn /\ unwritten = left /\ size \in Nat
  BY SizeAssumption DEF TInv
<1>2. w \in WriteInv(config, accepted, Sent, size, left)
  BY <1>1, WrittenKeeps
<1>3. /\ outstanding_buffers' = w.frames /\ data_offset' = w.offset
      /\ sequence_number' = w.sn /\ air' = air \cup {w.pdu}
      /\ unwritten' = unwritten - PayloadSize(w.pdu)
      /\ w.pdu # <<>> /\ WithinLag(w.pdu)
      /\ UNCHANGED <<config, copies, dl, accepted, settled>>
  BY DEF write_pdcp
<1>4. unwritten' = Left(w.frames, w.offset)
  <2> DEFINE p == PayloadSize(w.pdu)
             l == Left(w.frames, w.offset)
  <2>1. w.pdu \in Seq(Segment) /\ TxShape(config, accepted, w.frames, w.offset) /\ l + p = left
    BY <1>2 DEF WriteInv, TxWork
  <2>2. p \in Nat
    BY <2>1, PayloadType
  <2>3. l \in Nat
    BY <2>1, LeftType
  <2>4. unwritten' = left - p
    BY <1>1, <1>3
  <2> HIDE DEF p, l, left
  <2>5. unwritten' = l
    BY <2>1, <2>2, <2>3, <2>4
  <2>6. QED
    BY <2>5 DEF l
<1>5. QED
  BY <1>1, <1>2, <1>3, <1>4

(* reset *)
LEMMA ResetShape ==
  ASSUME TInv, reset
  PROVE  TInv' /\ Sent' = [w |-> accepted, sn |-> 0, off |-> 0] /\ settled' = accepted
         /\ Received' = [ring |-> EmptyRing(config'), overflow |-> <<>>, next |-> 0,
                         done |-> <<>>, bytes |-> 0]
<1>1. accepted \in 0..MaxFrame /\ accepted \in Int
  BY SizeAssumption DEF TInv, TxShape
<1>2. /\ config' \in Setting /\ min_commit_size' \in config'.min_commit_size
      /\ outstanding_buffers' = <<>> /\ data_offset' = 0
      /\ sequence_number' = 0 /\ unwritten' = 0 /\ air' = {} /\ copies' = copies
      /\ accepted' = accepted /\ settled' = accepted
  BY DEF reset
<1>3. Received' = [ring |-> EmptyRing(config'), overflow |-> <<>>, next |-> 0,
                   done |-> <<>>, bytes |-> 0]
  BY DEF reset, Received
<1>4. TxShape(config', accepted, <<>>, 0) /\ Left(<<>>, 0) = 0
  BY <1>1, TxEmpty
<1>5. Received' \in RxWork(config')
  BY <1>2, <1>3, RxEmpty
<1>6. 0 \in Sn /\ copies \in Nat
  BY SizeAssumption DEF Sn, TInv
<1>7. TInv'
  BY <1>2, <1>4, <1>5, <1>6 DEF TInv
<1>8. Sent' = [w |-> accepted, sn |-> 0, off |-> 0]
  BY <1>1, <1>2 DEF Sent
<1>9. QED
  BY <1>2, <1>3, <1>7, <1>8

(* Every action keeps the types. *)
LEMMA TNext ==
  ASSUME TInv, [Next]_vars PROVE TInv'
<1>1. /\ config \in Setting /\ min_commit_size \in config.min_commit_size
      /\ TxShape(config, accepted, outstanding_buffers, data_offset)
      /\ sequence_number \in Sn /\ unwritten = Left(outstanding_buffers, data_offset)
      /\ (\A m \in air : m \in Seq(Segment)) /\ copies \in Nat /\ Received \in RxWork(config)
  BY DEF TInv
<1>2. CASE on_frame_data
  <2>1. /\ TxShape(config, accepted', outstanding_buffers', data_offset)
        /\ unwritten' = Left(outstanding_buffers', data_offset)
    BY <1>2, AcceptShape
  <2>2. UNCHANGED <<config, min_commit_size, data_offset, sequence_number, air, copies, Received>>
    BY <1>2 DEF on_frame_data, dl, Received
  <2>3. QED
    BY <1>1, <2>1, <2>2 DEF TInv
<1>3. ASSUME NEW size \in BufferSize, write_pdcp(size) PROVE TInv'
  <2> DEFINE w == Written(size)
             left == Left(outstanding_buffers, data_offset)
  <2>1. w = Written(size)
    OBVIOUS
  <2> HIDE DEF w
  <2>2. /\ w \in WriteInv(config, accepted, Sent, size, left)
        /\ outstanding_buffers' = w.frames /\ data_offset' = w.offset
        /\ sequence_number' = w.sn /\ air' = air \cup {w.pdu}
        /\ unwritten' = Left(outstanding_buffers', data_offset')
        /\ UNCHANGED <<config, min_commit_size, copies, dl, accepted, settled>>
    BY <1>3, <2>1, WriteShape DEF write_pdcp
  <2>3. TxShape(config, accepted, w.frames, w.offset) /\ w.sn \in Sn /\ w.pdu \in Seq(Segment)
    BY <2>2 DEF WriteInv, TxWork
  <2>4. UNCHANGED <<config, min_commit_size, copies, Received, accepted>>
    BY <2>2 DEF dl, Received
  <2>5. QED
    BY <1>1, <2>2, <2>3, <2>4 DEF TInv
<1>4. ASSUME NEW rx, Becomes(rx) PROVE Received' = [ring |-> rx.ring, overflow |-> rx.overflow,
                                       next |-> rx.next, done |-> rx.done, bytes |-> rx.bytes]
  BY <1>4 DEF Becomes, Received
<1>5. ASSUME NEW m \in air, on_pdcp_data(m) PROVE TInv'
  <2> DEFINE rx == Flushed(Taken(Received, m))
  <2>1. rx \in RxWork(config)
    BY <1>1, TakenType, FlushedType
  <2>2. Becomes(rx)
    BY <1>5 DEF on_pdcp_data, Taken
  <2> HIDE DEF rx
  <2>3. Received' = rx
    BY <1>4, <2>1, <2>2, RxFields
  <2>4. /\ UNCHANGED <<config, min_commit_size, ul, accepted>>
        /\ air' \subseteq air /\ copies' \in Nat
    BY <1>1, <1>5 DEF on_pdcp_data
  <2>5. QED
    BY <1>1, <2>1, <2>3, <2>4 DEF TInv, ul
<1>6. ASSUME NEW m \in air, on_pdcp_data_damaged(m) PROVE TInv'
  <2>1. PICK n \in 0..(Len(m) - 1) : Becomes(FoldLeft(OnSegment, Received, SubSeq(m, 1, n)))
    BY <1>6 DEF on_pdcp_data_damaged
  <2> DEFINE s == SubSeq(m, 1, n)
             rx == Taken(Received, s)
  <2>2. s \in Seq(Segment)
    <3>1. m \in Seq(Segment)
      BY <1>1
    <3>2. \A i \in 1..n : m[i] \in Segment
      BY <3>1
    <3>3. QED
      BY <3>1, <3>2
  <2>3. rx \in RxWork(config)
    BY <1>1, <2>2, TakenType
  <2>4. Becomes(rx)
    BY <2>1 DEF Taken
  <2> HIDE DEF rx
  <2>5. Received' = rx
    BY <1>4, <2>3, <2>4, RxFields
  <2>6. /\ UNCHANGED <<config, min_commit_size, ul, accepted>>
        /\ air' = air /\ copies' \in Nat
    BY <1>1, <1>6 DEF on_pdcp_data_damaged
  <2>7. QED
    BY <1>1, <2>3, <2>5, <2>6 DEF TInv, ul
<1>7. CASE pop
  <2> DEFINE size == Len(Head(completed_frames))
  <2>1. /\ completed_frames # <<>> /\ completed_frames' = Tail(completed_frames)
        /\ outstanding_bytes' = IF outstanding_bytes >= size THEN outstanding_bytes - size ELSE 0
        /\ UNCHANGED <<config, min_commit_size, ul, air, copies, reorder_ring, overflow_deque,
                       next_expected_sn, accepted, settled>>
    BY <1>7 DEF pop
  <2>2. completed_frames \in Seq(Buffer) /\ outstanding_bytes \in Nat
    BY <1>1, RxFields DEF Received
  <2>3. size \in Nat
    <3>1. Head(completed_frames) \in Buffer
      BY <2>1, <2>2
    <3>2. QED
      BY <3>1 DEF Buffer
  <2> HIDE DEF size
  <2>4. completed_frames' \in Seq(Buffer) /\ outstanding_bytes' \in Nat
    BY <2>1, <2>2, <2>3
  <2>5. Received' \in RxWork(config)
    BY <1>1, <2>1, <2>4 DEF Received, RxWork
  <2>6. QED
    BY <1>1, <2>1, <2>5 DEF TInv, ul
<1>8. CASE reset
  BY <1>8, ResetShape
<1>9. CASE UNCHANGED vars
  <2>1. UNCHANGED <<config, min_commit_size, outstanding_buffers, data_offset, sequence_number, unwritten,
                    air, copies, accepted, Received>>
    BY <1>9 DEF vars, ul, dl, Received
  <2>2. QED
    BY <1>1, <2>1 DEF TInv
<1>10. CASE reconfigure
  <2>1. UNCHANGED <<config, outstanding_buffers, data_offset, sequence_number, unwritten, air,
                    copies, accepted, Received>>
    BY <1>10 DEF reconfigure, ul, dl, Received
  <2>2. min_commit_size' \in config.min_commit_size
    BY <1>10 DEF reconfigure
  <2>3. QED
    BY <1>1, <2>1, <2>2 DEF TInv
<1>11. QED
  BY <1>2, <1>3, <1>5, <1>6, <1>7, <1>8, <1>9, <1>10 DEF Next, Write, Receive

(* The fields keep their types under every configuration: a segment is never empty, the      *)
(* sender never writes more than it was given and the slots and entries stay what they are.  *)
THEOREM TypeCorrect == Spec => []TypeOK
<1>1. TInv => TypeOK
  <2> SUFFICES ASSUME TInv PROVE TypeOK
    OBVIOUS
  <2>1. /\ config \in Setting /\ min_commit_size \in config.min_commit_size
        /\ TxShape(config, accepted, outstanding_buffers, data_offset)
        /\ sequence_number \in Sn /\ unwritten = Left(outstanding_buffers, data_offset)
        /\ (\A m \in air : m \in Seq(Segment)) /\ copies \in Nat /\ Received \in RxWork(config)
    BY DEF TInv
  <2>2. unwritten \in Nat
    BY <2>1, LeftType
  <2>3. outstanding_buffers \in Seq(Frame) /\ data_offset \in Nat
    BY <2>1 DEF TxShape
  <2>4. /\ reorder_ring \in Ring(config) /\ overflow_deque \in Seq(Entry)
        /\ next_expected_sn \in Sn /\ completed_frames \in Seq(Buffer) /\ outstanding_bytes \in Nat
    BY <2>1, RxFields DEF Received
  <2>5. \A i \in 0..(config.reorder_size - 1) : reorder_ring[i] \in Slot
    BY <2>4 DEF Ring
  <2>6. QED
    BY <2>1, <2>2, <2>3, <2>4, <2>5 DEF TypeOK, Entry, Buffer
<1>2. TInv /\ [Next]_vars => TInv'
  BY TNext
<1>3. QED
  BY <1>1, <1>2, TInit, PTL DEF Spec
-----------------------------------------------------------------------------
(***************************************************************************)
(* The configurations in which pdcp_dl keeps its promise: it reorders, the *)
(* LLC delivers nothing twice, and what is under way fits into the         *)
(* sequence numbers and, if frames are cut, into the ring, whose size then *)
(* divides the sequence number space.                                      *)
(***************************************************************************)
Orderly(c) ==
  /\ c.allow_reordering
  /\ c.max_copies = 0
  /\ c.max_lag <= SnMod
  /\ c.allow_segmentation => c.max_lag <= c.reorder_size /\ SnMod % c.reorder_size = 0
  /\ \A size \in BufferSize : size <= c.max_lag * (HeaderSize + 1)

(* The last frame of which something is written. *)
Top(t) == IF t.off = 0 THEN t.w ELSE t.w + 1

Index(c, sn) == IF c.reorder_size = 0 THEN 0 ELSE sn % c.reorder_size
InRing(c, rx, sn) ==
  /\ c.reorder_size > 0
  /\ rx.ring[Index(c, sn)].valid
  /\ rx.ring[Index(c, sn)].sn = sn

(* What pdcp_dl has of a sequence number. *)
GetState(c, rx, sn) ==
  IF InRing(c, rx, sn) THEN rx.ring[Index(c, sn)].state
  ELSE IF OverflowIndex(rx, sn) # 0 THEN rx.overflow[OverflowIndex(rx, sn)].state
  ELSE Fresh

(* The entries: each of a frame after s that is under way, and no frame has two. *)
OfWindow(t, s, sn) == \E f \in (s + 1)..Top(t) : sn = SnOf(t, f)
RingPlaced(c, t, rx, s) ==
  \A i \in 0..(c.reorder_size - 1) :
    rx.ring[i].valid => /\ OfWindow(t, s, rx.ring[i].sn)
                        /\ Index(c, rx.ring[i].sn) = i
                        /\ rx.ring[i].state.recvd_offsets # {}
OverflowPlaced(c, t, rx, s) ==
  \A k \in 1..Len(rx.overflow) :
    /\ OfWindow(t, s, rx.overflow[k].sn)
    /\ rx.overflow[k].state.recvd_offsets # {}
    /\ ~InRing(c, rx, rx.overflow[k].sn)
    /\ \A j \in 1..Len(rx.overflow) : rx.overflow[j].sn = rx.overflow[k].sn => j = k
Placed(c, t, rx, s) ==
  /\ RingPlaced(c, t, rx, s)
  /\ OverflowPlaced(c, t, rx, s)
  /\ c.allow_segmentation => rx.overflow = <<>>

(* Top is the last frame that is written, or the one after it. *)
LEMMA TopType == ASSUME NEW t \in Sender PROVE Top(t) \in Nat /\ t.w <= Top(t) /\ Top(t) <= t.w + 1
BY DEF Top, Sender

(* In the window a sequence number stands for one frame. *)
LEMMA WindowDistinct ==
  ASSUME NEW c \in Setting, Orderly(c), NEW t \in Sender, NEW s \in Nat, Top(t) <= s + c.max_lag,
         NEW f \in (s + 1)..Top(t), NEW g \in (s + 1)..Top(t), SnOf(t, f) = SnOf(t, g)
  PROVE  f = g
<1>1. c.max_lag \in Nat /\ SnMod \in Nat /\ c.max_lag <= SnMod /\ Top(t) \in Nat
  BY SettingType, SizeAssumption, TopType DEF Orderly
<1>2. f \in Int /\ g \in Int /\ f - g < SnMod /\ g - f < SnMod
  BY <1>1
<1>3. QED
  BY <1>2, SnOfDistinct

(* So does a slot, if frames are cut. *)
LEMMA SlotDistinct ==
  ASSUME NEW c \in Setting, Orderly(c), c.allow_segmentation, NEW t \in Sender, NEW s \in Nat,
         Top(t) <= s + c.max_lag, NEW f \in (s + 1)..Top(t), NEW g \in (s + 1)..Top(t),
         Index(c, SnOf(t, f)) = Index(c, SnOf(t, g))
  PROVE  f = g /\ c.reorder_size > 0
<1> DEFINE x == t.sn + (f - (t.w + 1))
           y == t.sn + (g - (t.w + 1))
           r == c.reorder_size
<1>1. c.max_lag \in Nat /\ r \in Nat /\ c.max_lag <= r /\ SnMod % r = 0 /\ Top(t) \in Nat
  BY SettingType, TopType DEF Orderly
<1> HIDE DEF r
<1>2. f \in Int /\ g \in Int /\ f - g < r /\ g - f < r /\ r > 0
  BY <1>1
<1>3. t.sn \in Int /\ t.w \in Int
  BY SizeAssumption DEF Sender, Sn
<1>4. x \in Int /\ y \in Int /\ x - y = f - g /\ y - x = g - f
  BY <1>2, <1>3
<1>5. SnOf(t, f) = x % SnMod /\ SnOf(t, g) = y % SnMod
  BY DEF SnOf
<1> HIDE DEF x, y
<1>6. r \in Nat \ {0} /\ SnMod \in Nat \ {0}
  BY <1>1, <1>2, SizeAssumption
<1>7. (x % SnMod) % r = x % r
  BY <1>1, <1>4, <1>6, Summing!ModMultiple
<1>8. (y % SnMod) % r = y % r
  BY <1>1, <1>4, <1>6, Summing!ModMultiple
<1>9. (x % SnMod) % r = (y % SnMod) % r
  BY <1>2, <1>5 DEF Index, r
<1>10. x - y < r /\ y - x < r
  BY <1>2, <1>4
<1>11. x % r = y % r
  BY <1>7, <1>8, <1>9
<1>12. x = y
  BY <1>4, <1>6, <1>10, <1>11, ModDistinct
<1>13. f = g
  BY <1>2, <1>4, <1>12
<1>14. QED
  BY <1>2, <1>13 DEF r

(* Where a sequence number is found. *)
LEMMA GetStateIs ==
  ASSUME NEW c, NEW t, NEW s, NEW rx \in RxWork(c), OverflowPlaced(c, t, rx, s), NEW sn
  PROVE  /\ InRing(c, rx, sn) => GetState(c, rx, sn) = rx.ring[Index(c, sn)].state
         /\ \A k \in 1..Len(rx.overflow) :
              rx.overflow[k].sn = sn =>
                /\ GetState(c, rx, sn) = rx.overflow[k].state
                /\ OverflowIndex(rx, sn) = k
         /\ ~InRing(c, rx, sn) /\ (\A k \in 1..Len(rx.overflow) : rx.overflow[k].sn # sn) =>
              GetState(c, rx, sn) = Fresh
         /\ (\A k \in 1..Len(rx.overflow) : rx.overflow[k].sn # sn) <=> OverflowIndex(rx, sn) = 0
<1> DEFINE i == OverflowIndex(rx, sn)
           n == Len(rx.overflow)
<1>1. rx.overflow \in Seq(Entry) /\ n \in Nat
  BY RxFields
<1>2. /\ i \in 0..n
      /\ i # 0 => rx.overflow[i].sn = sn
      /\ i = 0 => \A j \in 1..n : rx.overflow[j].sn # sn
  BY <1>1, OverflowIndexIs
<1>3. GetState(c, rx, sn) = IF InRing(c, rx, sn) THEN rx.ring[Index(c, sn)].state
                            ELSE IF i # 0 THEN rx.overflow[i].state ELSE Fresh
  BY DEF GetState
<1>4. \A k \in 1..n : /\ ~InRing(c, rx, rx.overflow[k].sn)
                      /\ \A j \in 1..n : rx.overflow[j].sn = rx.overflow[k].sn => j = k
  BY DEF OverflowPlaced
<1> HIDE DEF i, n
<1>5. i # 0 => i \in 1..n
  BY <1>1, <1>2
<1>6. ASSUME NEW k \in 1..n, rx.overflow[k].sn = sn
      PROVE  i = k /\ GetState(c, rx, sn) = rx.overflow[k].state
  <2>1. i # 0
    BY <1>2, <1>6
  <2>2. i = k
    BY <1>2, <1>4, <1>5, <1>6, <2>1
  <2>3. QED
    BY <1>3, <1>4, <1>6, <2>1, <2>2
<1>7. (\A k \in 1..n : rx.overflow[k].sn # sn) => i = 0
  BY <1>2, <1>5
<1>8. QED
  BY <1>2, <1>3, <1>6, <1>7 DEF i, n

(* What pdcp_dl has of a sequence number has its type. *)
LEMMA GetStateType ==
  ASSUME NEW c \in Setting, NEW rx \in RxWork(c), NEW sn \in Sn
  PROVE  GetState(c, rx, sn) \in State
<1> DEFINE i == OverflowIndex(rx, sn)
           n == Len(rx.overflow)
<1>1. rx.overflow \in Seq(Entry) /\ n \in Nat /\ rx.ring \in Ring(c)
  BY RxFields
<1>2. i \in 0..n
  BY <1>1, OverflowIndexIs
<1>3. i # 0 => rx.overflow[i].state \in State
  <2> HAVE i # 0
  <2> HIDE DEF i, n
  <2>1. i \in 1..n
    BY <1>1, <1>2
  <2>2. QED
    BY <1>1, <2>1, EntryAt DEF n
<1>4. InRing(c, rx, sn) => rx.ring[Index(c, sn)].state \in State
  <2> HAVE InRing(c, rx, sn)
  <2>1. c.reorder_size \in Nat \ {0} /\ sn \in Int
    BY SettingType, SizeAssumption DEF InRing, Sn
  <2>2. Index(c, sn) \in 0..(c.reorder_size - 1)
    BY <2>1, Summing!DivMod DEF Index
  <2>3. QED
    BY <1>1, <2>2, SlotAt
<1>5. QED
  BY <1>3, <1>4, FreshType DEF GetState

(* slot_index, without the variable. *)
LEMMA IndexIs == \A sn : slot_index(sn) = Index(config, sn)
BY DEF slot_index, Index

(* What OnSegment finds of a frame in the window, and where it puts it. *)
LEMMA SegmentSlot ==
  ASSUME config \in Setting, Orderly(config), NEW t \in Sender, NEW s \in Nat,
         Top(t) <= s + config.max_lag, NEW rx \in RxWork(config), Placed(config, t, rx, s),
         NEW f \in (s + 1)..Top(t), NEW sn, sn = SnOf(t, f),
         ~config.allow_segmentation => GetState(config, rx, sn).recvd_offsets = {}
  PROVE  /\ StateOf(rx, sn) = GetState(config, rx, sn)
         /\ OverflowIndex(rx, sn) = 0
         /\ \A k \in 1..Len(rx.overflow) : rx.overflow[k].sn # sn
         /\ config.allow_segmentation => HasSlot(rx, sn)
<1> DEFINE i == Index(config, sn)
           n == Len(rx.overflow)
<1>1. /\ RingPlaced(config, t, rx, s) /\ OverflowPlaced(config, t, rx, s)
      /\ config.allow_segmentation => rx.overflow = <<>>
  BY DEF Placed
<1>2. f \in Int /\ Top(t) \in Nat
  BY TopType
<1>3. sn \in Sn
  BY <1>2, SnOfType
<1>4. /\ InRing(config, rx, sn) => GetState(config, rx, sn) = rx.ring[i].state
      /\ \A k \in 1..n : rx.overflow[k].sn = sn => GetState(config, rx, sn) = rx.overflow[k].state
      /\ ~InRing(config, rx, sn) /\ (\A k \in 1..n : rx.overflow[k].sn # sn) =>
           GetState(config, rx, sn) = Fresh
      /\ (\A k \in 1..n : rx.overflow[k].sn # sn) <=> OverflowIndex(rx, sn) = 0
  BY <1>1, GetStateIs
<1>5. config.reorder_size > 0 => i \in 0..(config.reorder_size - 1)
  BY <1>3, IndexType, IndexIs
<1>6. /\ HasSlot(rx, sn) <=> config.reorder_size > 0 /\ (rx.ring[i].valid => rx.ring[i].sn = sn)
      /\ StateOf(rx, sn) =
           IF HasSlot(rx, sn) THEN IF rx.ring[i].valid THEN rx.ring[i].state ELSE Fresh
           ELSE IF OverflowIndex(rx, sn) = 0 THEN Fresh
           ELSE rx.overflow[OverflowIndex(rx, sn)].state
  BY IndexIs DEF HasSlot, StateOf
<1>7. InRing(config, rx, sn) <=> config.reorder_size > 0 /\ rx.ring[i].valid /\ rx.ring[i].sn = sn
  BY DEF InRing
<1> HIDE DEF i, n
<1>8. CASE config.allow_segmentation
  <2>1. n = 0
    BY <1>1, <1>8 DEF n
  <2>2. \A k \in 1..n : rx.overflow[k].sn # sn
    BY <2>1
  <2>3. config.reorder_size > 0
    BY <1>8, SlotDistinct
  <2>4. ASSUME rx.ring[i].valid PROVE rx.ring[i].sn = sn
    <3>1. OfWindow(t, s, rx.ring[i].sn) /\ Index(config, rx.ring[i].sn) = i
      BY <1>1, <1>5, <2>3, <2>4 DEF RingPlaced
    <3>2. PICK g \in (s + 1)..Top(t) : rx.ring[i].sn = SnOf(t, g)
      BY <3>1 DEF OfWindow
    <3>3. g = f
      BY <1>8, <3>1, <3>2, SlotDistinct DEF i
    <3>4. QED
      BY <3>2, <3>3
  <2>5. QED
    BY <1>4, <1>6, <1>7, <2>2, <2>3, <2>4 DEF n
<1>9. CASE ~config.allow_segmentation
  <2>1. GetState(config, rx, sn).recvd_offsets = {}
    BY <1>9
  <2>2. ~InRing(config, rx, sn)
    BY <1>1, <1>4, <1>5, <1>7, <2>1 DEF RingPlaced
  <2>3. \A k \in 1..n : rx.overflow[k].sn # sn
    BY <1>1, <1>4, <2>1 DEF OverflowPlaced, n
  <2>4. QED
    BY <1>4, <1>6, <1>7, <1>9, <2>2, <2>3 DEF n
<1>10. QED
  BY <1>8, <1>9

(* OnSegment changes what pdcp_dl has of the segment's frame, and of no other. *)
LEMMA SegmentPlaced ==
  ASSUME config \in Setting, Orderly(config), NEW t \in Sender, NEW s \in Nat,
         Top(t) <= s + config.max_lag, NEW rx \in RxWork(config), Placed(config, t, rx, s),
         NEW f \in (s + 1)..Top(t), NEW sn, sn = SnOf(t, f),
         ~config.allow_segmentation => GetState(config, rx, sn).recvd_offsets = {},
         NEW st \in State, st.recvd_offsets # {}, NEW v, v = Stored(rx, sn, st)
  PROVE  /\ v \in RxWork(config) /\ v.next = rx.next /\ v.done = rx.done /\ v.bytes = rx.bytes
         /\ Placed(config, t, v, s)
         /\ GetState(config, v, sn) = st
         /\ \A g \in (s + 1)..Top(t) :
              g # f => GetState(config, v, SnOf(t, g)) = GetState(config, rx, SnOf(t, g))
<1> DEFINE i == Index(config, sn)
           n == Len(rx.overflow)
           R == config.reorder_size
<1>1. /\ RingPlaced(config, t, rx, s) /\ OverflowPlaced(config, t, rx, s)
      /\ config.allow_segmentation => rx.overflow = <<>>
  BY DEF Placed
<1>2. f \in Int /\ Top(t) \in Nat
  BY TopType
<1>3. sn \in Sn
  BY <1>2, SnOfType
<1>4. /\ OverflowIndex(rx, sn) = 0
      /\ \A k \in 1..n : rx.overflow[k].sn # sn
      /\ config.allow_segmentation => HasSlot(rx, sn)
  BY SegmentSlot
<1>5. R > 0 => i \in 0..(R - 1)
  BY <1>3, IndexType, IndexIs
<1>6. HasSlot(rx, sn) <=> R > 0 /\ (rx.ring[i].valid => rx.ring[i].sn = sn)
  BY IndexIs DEF HasSlot
<1>7. /\ v \in RxWork(config) /\ v.next = rx.next /\ v.done = rx.done /\ v.bytes = rx.bytes
      /\ HasSlot(rx, sn) =>
           /\ v.overflow = rx.overflow
           /\ \A j \in 0..(R - 1) :
                v.ring[j] = IF j = i THEN [valid |-> TRUE, sn |-> sn, state |-> st] ELSE rx.ring[j]
      /\ ~HasSlot(rx, sn) =>
           v.ring = rx.ring /\ v.overflow = Append(rx.overflow, [sn |-> sn, state |-> st])
  <2>1. slot_index(sn) = i
    BY IndexIs
  <2>2. QED
    BY <1>3, <1>4, <2>1, StoredShape
<1>8. OfWindow(t, s, sn)
  BY DEF OfWindow
<1>9. ASSUME NEW g \in (s + 1)..Top(t), g # f PROVE SnOf(t, g) # sn /\ SnOf(t, g) \in Sn
  <2>1. g \in Int
    BY <1>2
  <2>2. QED
    BY <1>9, <2>1, SnOfType, WindowDistinct
<1>10. CASE HasSlot(rx, sn)
  <2>1. /\ i \in 0..(R - 1) /\ v.overflow = rx.overflow
        /\ v.ring[i] = [valid |-> TRUE, sn |-> sn, state |-> st]
        /\ \A j \in 0..(R - 1) : j # i => v.ring[j] = rx.ring[j]
        /\ rx.ring[i].valid => rx.ring[i].sn = sn
    BY <1>5, <1>6, <1>7, <1>10
  <2>2. v.ring[i].valid /\ v.ring[i].sn = sn /\ v.ring[i].state = st
    BY <2>1
  <2>3. ASSUME NEW x \in Sn, x # sn
        PROVE  /\ InRing(config, v, x) <=> InRing(config, rx, x)
               /\ InRing(config, rx, x) =>
                    v.ring[Index(config, x)] = rx.ring[Index(config, x)]
    <3>1. R > 0 => Index(config, x) \in 0..(R - 1)
      BY IndexType, IndexIs
    <3>2. CASE Index(config, x) = i
      BY <2>1, <2>2, <2>3, <3>2 DEF InRing
    <3>3. CASE Index(config, x) # i
      BY <2>1, <3>1, <3>3 DEF InRing
    <3>4. QED
      BY <3>2, <3>3
  <2>4. RingPlaced(config, t, v, s)
    <3> SUFFICES ASSUME NEW j \in 0..(R - 1), v.ring[j].valid
                 PROVE  /\ OfWindow(t, s, v.ring[j].sn) /\ Index(config, v.ring[j].sn) = j
                        /\ v.ring[j].state.recvd_offsets # {}
      BY DEF RingPlaced
    <3>1. CASE j = i
      BY <1>8, <2>2, <3>1
    <3>2. CASE j # i
      BY <1>1, <2>1, <3>2 DEF RingPlaced
    <3>3. QED
      BY <3>1, <3>2
  <2>5. OverflowPlaced(config, t, v, s)
    <3>1. \A k \in 1..n : ~InRing(config, v, rx.overflow[k].sn)
      <4> TAKE k \in 1..n
      <4>1. rx.overflow[k].sn \in Sn
        BY RxFields, EntryAt
      <4>2. rx.overflow[k].sn # sn /\ ~InRing(config, rx, rx.overflow[k].sn)
        BY <1>1, <1>4 DEF OverflowPlaced
      <4>3. QED
        BY <2>3, <4>1, <4>2
    <3>2. QED
      BY <1>1, <2>1, <3>1 DEF OverflowPlaced
  <2>6. Placed(config, t, v, s)
    BY <1>1, <2>1, <2>4, <2>5 DEF Placed
  <2>7. GetState(config, v, sn) = st
    <3>1. InRing(config, v, sn)
      BY <1>6, <1>10, <2>2 DEF InRing
    <3>2. GetState(config, v, sn) = v.ring[i].state
      BY <3>1 DEF GetState
    <3>3. QED
      BY <2>2, <3>2
  <2>8. ASSUME NEW g \in (s + 1)..Top(t), g # f
        PROVE  GetState(config, v, SnOf(t, g)) = GetState(config, rx, SnOf(t, g))
    <3> DEFINE x == SnOf(t, g)
    <3>1. x \in Sn /\ x # sn
      BY <1>9, <2>8
    <3> HIDE DEF x
    <3>2. OverflowIndex(v, x) = OverflowIndex(rx, x)
      BY <2>1 DEF OverflowIndex
    <3>3. QED
      BY <2>1, <2>3, <3>1, <3>2 DEF GetState, x
  <2>9. QED
    BY <1>7, <2>6, <2>7, <2>8
<1>11. CASE ~HasSlot(rx, sn)
  <2> DEFINE e == [sn |-> sn, state |-> st]
  <2>1. v.ring = rx.ring /\ v.overflow = Append(rx.overflow, e) /\ ~config.allow_segmentation
    BY <1>4, <1>7, <1>11
  <2>2. e.sn = sn /\ e.state = st /\ e \in Entry
    BY <1>3 DEF Entry
  <2> HIDE DEF e
  <2>3. rx.overflow \in Seq(Entry) /\ n \in Nat
    BY RxFields
  <2>4. Len(v.overflow) = n + 1 /\ v.overflow[n + 1] = e
        /\ \A k \in 1..n : v.overflow[k] = rx.overflow[k]
    BY <2>1, <2>2, <2>3
  <2> HIDE DEF n
  <2>5. \A x : InRing(config, v, x) <=> InRing(config, rx, x)
    BY <2>1 DEF InRing
  <2>6. ~InRing(config, v, sn)
    BY <1>6, <1>11, <2>5 DEF InRing
  <2>7. \A k \in 1..(n + 1) : k = n + 1 \/ k \in 1..n
    BY <2>3
  <2>8. OverflowPlaced(config, t, v, s)
    <3>1. ASSUME NEW k \in 1..n
          PROVE  /\ OfWindow(t, s, rx.overflow[k].sn) /\ rx.overflow[k].state.recvd_offsets # {}
                 /\ ~InRing(config, v, rx.overflow[k].sn)
                 /\ rx.overflow[k].sn # sn
                 /\ \A j \in 1..n : rx.overflow[j].sn = rx.overflow[k].sn => j = k
      BY <1>1, <1>4, <2>5 DEF OverflowPlaced, n
    <3> SUFFICES ASSUME NEW k \in 1..(n + 1)
                 PROVE  /\ OfWindow(t, s, v.overflow[k].sn)
                        /\ v.overflow[k].state.recvd_offsets # {}
                        /\ ~InRing(config, v, v.overflow[k].sn)
                        /\ \A j \in 1..(n + 1) : v.overflow[j].sn = v.overflow[k].sn => j = k
      BY <2>4 DEF OverflowPlaced
    <3>2. CASE k \in 1..n
      <4>1. \A j \in 1..(n + 1) : v.overflow[j].sn = v.overflow[k].sn => j = k
        BY <2>2, <2>4, <2>7, <3>1, <3>2, SMTT(30)
      <4>2. QED
        BY <2>4, <3>1, <3>2, <4>1
    <3>3. CASE k = n + 1
      <4>1. \A j \in 1..(n + 1) : v.overflow[j].sn = v.overflow[k].sn => j = k
        BY <2>2, <2>4, <2>7, <3>1, <3>3
      <4>2. QED
        BY <1>8, <2>2, <2>4, <2>6, <3>3, <4>1
    <3>4. QED
      BY <2>7, <3>2, <3>3
  <2>9. Placed(config, t, v, s)
    <3>1. RingPlaced(config, t, v, s)
      BY <1>1, <2>1 DEF RingPlaced
    <3>2. QED
      BY <2>1, <2>8, <3>1 DEF Placed
  <2>10. GetState(config, v, sn) = st
    <3>1. n + 1 \in 1..Len(v.overflow) /\ v.overflow[n + 1].sn = sn
      BY <2>2, <2>3, <2>4
    <3>2. GetState(config, v, sn) = v.overflow[n + 1].state
      BY <1>7, <2>8, <3>1, GetStateIs
    <3>3. QED
      BY <2>2, <2>4, <3>2
  <2>11. ASSUME NEW g \in (s + 1)..Top(t), g # f
         PROVE  GetState(config, v, SnOf(t, g)) = GetState(config, rx, SnOf(t, g))
    <3> DEFINE x == SnOf(t, g)
    <3>1. x \in Sn /\ x # sn
      BY <1>9, <2>11
    <3> HIDE DEF x
    <3>2. CASE InRing(config, rx, x)
      BY <2>1, <2>5, <3>2 DEF GetState, x
    <3>3. CASE ~InRing(config, rx, x) /\ \E k \in 1..n : rx.overflow[k].sn = x
      <4>1. PICK k \in 1..n : rx.overflow[k].sn = x
        BY <3>3
      <4>2. k \in 1..Len(v.overflow) /\ v.overflow[k] = rx.overflow[k] /\ k \in 1..Len(rx.overflow)
        BY <2>3, <2>4 DEF n
      <4>3. GetState(config, v, x) = v.overflow[k].state
        BY <1>7, <2>8, <4>1, <4>2, GetStateIs
      <4>4. GetState(config, rx, x) = rx.overflow[k].state
        BY <1>1, <4>1, <4>2, GetStateIs
      <4>5. QED
        BY <4>2, <4>3, <4>4 DEF x
    <3>4. CASE ~InRing(config, rx, x) /\ \A k \in 1..n : rx.overflow[k].sn # x
      <4>1. \A k \in 1..Len(v.overflow) : v.overflow[k].sn # x
        BY <2>2, <2>4, <2>7, <3>1, <3>4
      <4>2. GetState(config, v, x) = Fresh
        BY <1>7, <2>5, <2>8, <3>4, <4>1, GetStateIs
      <4>3. GetState(config, rx, x) = Fresh
        BY <1>1, <3>4, GetStateIs DEF n
      <4>4. QED
        BY <4>2, <4>3 DEF x
    <3>5. QED
      BY <3>2, <3>3, <3>4
  <2>12. QED
    BY <1>7, <2>9, <2>10, <2>11
<1>12. QED
  BY <1>10, <1>11

(* Entries in use; flush_completed_in_order empties one in every round that does something. *)
Used(c, rx) == {i \in 0..(c.reorder_size - 1) : rx.ring[i].valid}
Entries(c, rx) == Cardinality(Used(c, rx)) + Len(rx.overflow)

(* No more slots are in use than there are. *)
LEMMA UsedFinite ==
  ASSUME NEW c \in Setting, NEW rx
  PROVE  /\ IsFiniteSet(Used(c, rx)) /\ Cardinality(Used(c, rx)) \in Nat
         /\ Cardinality(Used(c, rx)) <= c.reorder_size
<1> DEFINE r == c.reorder_size
           I == 0..(r - 1)
<1>1. r \in Nat
  BY SettingType
<1>2. IsFiniteSet(I) /\ Cardinality(I) = r
  <2>1. 0 \in Int /\ r - 1 \in Int
    BY <1>1
  <2>2. IsFiniteSet(I) /\ Cardinality(I) = IF 0 > r - 1 THEN 0 ELSE (r - 1) - 0 + 1
    BY <2>1, FS_Interval
  <2>3. (IF 0 > r - 1 THEN 0 ELSE (r - 1) - 0 + 1) = r
    BY <1>1
  <2>4. QED
    BY <2>2, <2>3
<1>3. Used(c, rx) \in SUBSET I
  BY DEF Used
<1>4. IsFiniteSet(Used(c, rx)) /\ Cardinality(Used(c, rx)) <= Cardinality(I)
  BY <1>2, <1>3, FS_Subset
<1>5. QED
  BY <1>2, <1>4, FS_CardinalityType

(* If the ring's entry of the next frame is complete, it is emitted. *)
LEMMA FlushFromRing ==
  ASSUME config \in Setting, Orderly(config), NEW t \in Sender, NEW s \in Nat,
         Top(t) <= s + config.max_lag, NEW rx \in RxWork(config), Placed(config, t, rx, s),
         rx.next = SnOf(t, s + 1), RingReady(rx), NEW v, v = FlushOne(rx)
  PROVE  /\ v \in RxWork(config) /\ s + 1 <= Top(t)
         /\ GetState(config, rx, rx.next).is_complete
         /\ v.done = Append(rx.done, GetState(config, rx, rx.next).buffer)
         /\ v.bytes = rx.bytes + GetState(config, rx, rx.next).expected_size
         /\ v.next = NextSn(rx.next)
         /\ Placed(config, t, v, s + 1)
         /\ \A g \in (s + 2)..Top(t) :
              GetState(config, v, SnOf(t, g)) = GetState(config, rx, SnOf(t, g))
         /\ Entries(config, v) = Entries(config, rx) - 1
<1> DEFINE sn == rx.next
           i == Index(config, sn)
           n == Len(rx.overflow)
           R == config.reorder_size
<1>1. /\ RingPlaced(config, t, rx, s) /\ OverflowPlaced(config, t, rx, s)
      /\ config.allow_segmentation => rx.overflow = <<>>
  BY DEF Placed
<1>2. sn \in Sn /\ Top(t) \in Nat
  BY RxFields, TopType
<1>3. R > 0 /\ rx.ring[i].valid /\ rx.ring[i].sn = sn /\ rx.ring[i].state.is_complete
  BY IndexIs DEF RingReady
<1>4. i \in 0..(R - 1)
  BY <1>2, <1>3, IndexType, IndexIs
<1>5. InRing(config, rx, sn)
  BY <1>3 DEF InRing
<1>6. GetState(config, rx, sn) = rx.ring[i].state
  BY <1>5 DEF GetState
<1>7. /\ v \in RxWork(config) /\ v.overflow = rx.overflow /\ v.next = NextSn(sn)
      /\ \A j \in 0..(R - 1) : v.ring[j] = IF j = i THEN EmptySlot ELSE rx.ring[j]
      /\ v.done = Append(rx.done, rx.ring[i].state.buffer)
      /\ v.bytes = rx.bytes + rx.ring[i].state.expected_size
  <2>1. slot_index(sn) = i
    BY IndexIs
  <2>2. QED
    BY <2>1, FlushOneShape
<1>8. ~v.ring[i].valid /\ \A j \in 0..(R - 1) : j # i => v.ring[j] = rx.ring[j]
  BY <1>4, <1>7 DEF EmptySlot
<1>9. s + 1 <= Top(t)
  <2>1. OfWindow(t, s, sn)
    BY <1>1, <1>3, <1>4 DEF RingPlaced
  <2>2. PICK g \in (s + 1)..Top(t) : TRUE
    BY <2>1 DEF OfWindow
  <2>3. QED
    BY <1>2, <2>2
<1> HIDE DEF sn, i, n
<1>10. ASSUME NEW x \in Sn, x # sn
       PROVE  /\ InRing(config, v, x) <=> InRing(config, rx, x)
              /\ InRing(config, rx, x) => v.ring[Index(config, x)] = rx.ring[Index(config, x)]
  <2>1. R > 0 => Index(config, x) \in 0..(R - 1)
    BY IndexType, IndexIs
  <2>2. CASE Index(config, x) = i
    BY <1>3, <1>8, <1>10, <2>2 DEF InRing
  <2>3. CASE Index(config, x) # i
    BY <1>8, <2>1, <2>3 DEF InRing
  <2>4. QED
    BY <2>2, <2>3
<1>11. ASSUME NEW x, OfWindow(t, s, x), x # sn PROVE OfWindow(t, s + 1, x)
  <2>1. PICK g \in (s + 1)..Top(t) : x = SnOf(t, g)
    BY <1>11 DEF OfWindow
  <2>2. g # s + 1
    BY <1>11, <2>1 DEF sn
  <2>3. g \in ((s + 1) + 1)..Top(t)
    BY <1>2, <2>2
  <2>4. QED
    BY <2>1, <2>3 DEF OfWindow
<1>12. RingPlaced(config, t, v, s + 1)
  <2> SUFFICES ASSUME NEW j \in 0..(R - 1), v.ring[j].valid
               PROVE  /\ OfWindow(t, s + 1, v.ring[j].sn) /\ Index(config, v.ring[j].sn) = j
                      /\ v.ring[j].state.recvd_offsets # {}
    BY DEF RingPlaced
  <2>1. j # i /\ v.ring[j] = rx.ring[j]
    BY <1>8
  <2>2. /\ OfWindow(t, s, rx.ring[j].sn) /\ Index(config, rx.ring[j].sn) = j
        /\ rx.ring[j].state.recvd_offsets # {}
    BY <1>1, <2>1 DEF RingPlaced
  <2>3. rx.ring[j].sn # sn
    BY <2>1, <2>2 DEF i
  <2>4. QED
    BY <1>11, <2>1, <2>2, <2>3
<1>13. OverflowPlaced(config, t, v, s + 1)
  <2>1. ASSUME NEW k \in 1..Len(rx.overflow)
        PROVE  /\ OfWindow(t, s + 1, rx.overflow[k].sn) /\ ~InRing(config, v, rx.overflow[k].sn)
    <3>1. rx.overflow[k].sn \in Sn
      BY RxFields, EntryAt
    <3>2. OfWindow(t, s, rx.overflow[k].sn) /\ ~InRing(config, rx, rx.overflow[k].sn)
      BY <1>1 DEF OverflowPlaced
    <3>3. rx.overflow[k].sn # sn
      BY <1>5, <3>2
    <3>4. QED
      BY <1>10, <1>11, <3>1, <3>2, <3>3
  <2>2. QED
    BY <1>1, <1>7, <2>1 DEF OverflowPlaced
<1>14. ASSUME NEW g \in (s + 2)..Top(t)
       PROVE  GetState(config, v, SnOf(t, g)) = GetState(config, rx, SnOf(t, g))
  <2> DEFINE x == SnOf(t, g)
  <2>1. x \in Sn /\ x # sn
    <3>1. g \in Int /\ g \in (s + 1)..Top(t) /\ s + 1 \in (s + 1)..Top(t) /\ g # s + 1
      BY <1>2, <1>9
    <3>2. QED
      BY <3>1, SnOfType, WindowDistinct DEF sn
  <2> HIDE DEF x
  <2>2. OverflowIndex(v, x) = OverflowIndex(rx, x)
    BY <1>7 DEF OverflowIndex
  <2>3. QED
    BY <1>7, <1>10, <2>1, <2>2 DEF GetState, x
<1>15. Entries(config, v) = Entries(config, rx) - 1
  <2> DEFINE a == Used(config, rx)
             b == Used(config, v)
  <2>1. b = a \ {i} /\ i \in a
    BY <1>3, <1>4, <1>8 DEF Used
  <2>2. IsFiniteSet(a) /\ Cardinality(a) \in Nat
    BY UsedFinite
  <2> HIDE DEF a, b
  <2>3. Cardinality(b) = Cardinality(a) - 1
    BY <2>1, <2>2, FS_RemoveElement
  <2>4. n \in Nat
    BY RxFields DEF n
  <2>5. (Cardinality(a) - 1) + n = (Cardinality(a) + n) - 1
    BY <2>2, <2>4
  <2>6. QED
    BY <1>7, <2>3, <2>5 DEF Entries, a, b, n
<1>16. QED
  BY <1>1, <1>3, <1>6, <1>7, <1>9, <1>12, <1>13, <1>14, <1>15 DEF Placed, sn, i

(* If it is the one in overflow_deque. *)
LEMMA FlushFromOverflow ==
  ASSUME config \in Setting, Orderly(config), NEW t \in Sender, NEW s \in Nat,
         Top(t) <= s + config.max_lag, NEW rx \in RxWork(config), Placed(config, t, rx, s),
         rx.next = SnOf(t, s + 1), ~RingReady(rx), OverflowReady(rx) # 0, NEW v, v = FlushOne(rx)
  PROVE  /\ v \in RxWork(config) /\ s + 1 <= Top(t)
         /\ GetState(config, rx, rx.next).is_complete
         /\ v.done = Append(rx.done, GetState(config, rx, rx.next).buffer)
         /\ v.bytes = rx.bytes + GetState(config, rx, rx.next).expected_size
         /\ v.next = NextSn(rx.next)
         /\ Placed(config, t, v, s + 1)
         /\ \A g \in (s + 2)..Top(t) :
              GetState(config, v, SnOf(t, g)) = GetState(config, rx, SnOf(t, g))
         /\ Entries(config, v) = Entries(config, rx) - 1
<1> DEFINE sn == rx.next
           k == OverflowReady(rx)
           n == Len(rx.overflow)
           R == config.reorder_size
<1>1. /\ RingPlaced(config, t, rx, s) /\ OverflowPlaced(config, t, rx, s)
      /\ config.allow_segmentation => rx.overflow = <<>>
  BY DEF Placed
<1>2. sn \in Sn /\ Top(t) \in Nat /\ rx.overflow \in Seq(Entry) /\ n \in Nat
  BY RxFields, TopType
<1>3. k \in 1..n /\ rx.overflow[k].sn = sn /\ rx.overflow[k].state.is_complete
  <2>1. k \in 0..n /\ k # 0 /\ rx.overflow[k].sn = sn /\ rx.overflow[k].state.is_complete
    BY <1>2, OverflowReadyIs
  <2> HIDE DEF k, n
  <2>2. QED
    BY <1>2, <2>1
<1>4. GetState(config, rx, sn) = rx.overflow[k].state
  BY <1>1, <1>3, GetStateIs
<1>5. ~InRing(config, rx, sn) /\ OfWindow(t, s, sn)
  BY <1>1, <1>3 DEF OverflowPlaced
<1>6. /\ v \in RxWork(config) /\ v.overflow = RemoveAt(rx.overflow, k) /\ v.next = NextSn(sn)
      /\ v.ring = rx.ring
      /\ v.done = Append(rx.done, rx.overflow[k].state.buffer)
      /\ v.bytes = rx.bytes + rx.overflow[k].state.expected_size
  BY FlushOneShape
<1> HIDE DEF sn, k, n
<1>7. /\ Len(v.overflow) = n - 1
      /\ \A j \in 1..(n - 1) :
           v.overflow[j] = IF j < k THEN rx.overflow[j] ELSE rx.overflow[j + 1]
  <2> DEFINE o == rx.overflow
  <2>1. o \in Seq(Entry) /\ k \in 1..Len(o)
    BY <1>2, <1>3 DEF n
  <2> HIDE DEF o
  <2>2. /\ Len(RemoveAt(o, k)) = Len(o) - 1
        /\ \A j \in 1..(Len(o) - 1) : RemoveAt(o, k)[j] = IF j < k THEN o[j] ELSE o[j + 1]
    BY <2>1, RemoveAtShape
  <2>3. QED
    BY <1>6, <2>2 DEF n, o
<1>8. s + 1 <= Top(t)
  <2>1. PICK g \in (s + 1)..Top(t) : TRUE
    BY <1>5 DEF OfWindow
  <2>2. QED
    BY <1>2, <2>1
<1>9. \A x : InRing(config, v, x) <=> InRing(config, rx, x)
  BY <1>6 DEF InRing
(* Where the entries were before. *)
<1> DEFINE Old(j) == IF j < k THEN j ELSE j + 1
<1>10. ASSUME NEW j \in 1..(n - 1)
       PROVE  Old(j) \in 1..n /\ Old(j) # k /\ v.overflow[j] = rx.overflow[Old(j)]
  BY <1>2, <1>3, <1>7, SMTT(30)
<1>11. ASSUME NEW j \in 1..(n - 1), NEW h \in 1..(n - 1), Old(j) = Old(h) PROVE j = h
  BY <1>2, <1>3, <1>11
<1>12. ASSUME NEW h \in 1..n, h # k PROVE \E j \in 1..(n - 1) : Old(j) = h
  <2>1. CASE h < k
    <3>1. h \in 1..(n - 1) /\ Old(h) = h
      BY <1>2, <1>3, <2>1
    <3>2. QED
      BY <3>1
  <2>2. CASE ~(h < k)
    <3>1. h - 1 \in 1..(n - 1) /\ Old(h - 1) = h
      BY <1>2, <1>3, <1>12, <2>2
    <3>2. QED
      BY <3>1
  <2>3. QED
    BY <2>1, <2>2
<1> HIDE DEF Old
<1>13. ASSUME NEW x, OfWindow(t, s, x), x # sn PROVE OfWindow(t, s + 1, x)
  <2>1. PICK g \in (s + 1)..Top(t) : x = SnOf(t, g)
    BY <1>13 DEF OfWindow
  <2>2. g # s + 1
    BY <1>13, <2>1 DEF sn
  <2>3. g \in ((s + 1) + 1)..Top(t)
    BY <1>2, <2>2
  <2>4. QED
    BY <2>1, <2>3 DEF OfWindow
<1>14. RingPlaced(config, t, v, s + 1)
  <2> SUFFICES ASSUME NEW j \in 0..(R - 1), rx.ring[j].valid
               PROVE  /\ OfWindow(t, s + 1, rx.ring[j].sn) /\ Index(config, rx.ring[j].sn) = j
                      /\ rx.ring[j].state.recvd_offsets # {}
    BY <1>6 DEF RingPlaced
  <2>1. /\ OfWindow(t, s, rx.ring[j].sn) /\ Index(config, rx.ring[j].sn) = j
        /\ rx.ring[j].state.recvd_offsets # {}
    BY <1>1 DEF RingPlaced
  <2>2. rx.ring[j].sn # sn
    <3> SUFFICES ASSUME rx.ring[j].sn = sn PROVE FALSE
      OBVIOUS
    <3>1. R \in Nat /\ j \in 0..(R - 1)
      BY SettingType
    <3>2. R > 0
      BY <3>1
    <3>3. InRing(config, rx, sn)
      BY <2>1, <3>2 DEF InRing
    <3>4. QED
      BY <1>5, <3>3
  <2>3. QED
    BY <1>13, <2>1, <2>2
<1>15. OverflowPlaced(config, t, v, s + 1)
  <2> SUFFICES ASSUME NEW j \in 1..(n - 1)
               PROVE  /\ OfWindow(t, s + 1, v.overflow[j].sn)
                      /\ v.overflow[j].state.recvd_offsets # {}
                      /\ ~InRing(config, v, v.overflow[j].sn)
                      /\ \A h \in 1..(n - 1) : v.overflow[h].sn = v.overflow[j].sn => h = j
    BY <1>7 DEF OverflowPlaced
  <2>1. Old(j) \in 1..n /\ Old(j) # k /\ v.overflow[j] = rx.overflow[Old(j)]
    BY <1>10
  <2>2. /\ OfWindow(t, s, rx.overflow[Old(j)].sn) /\ rx.overflow[Old(j)].state.recvd_offsets # {}
        /\ ~InRing(config, rx, rx.overflow[Old(j)].sn)
        /\ \A h \in 1..n : rx.overflow[h].sn = rx.overflow[Old(j)].sn => h = Old(j)
    BY <1>1, <2>1 DEF OverflowPlaced, n
  <2>3. rx.overflow[Old(j)].sn # sn
    BY <1>3, <2>1, <2>2
  <2>4. \A h \in 1..(n - 1) : v.overflow[h].sn = v.overflow[j].sn => h = j
    BY <1>10, <1>11, <2>1, <2>2
  <2>5. QED
    BY <1>9, <1>13, <2>1, <2>2, <2>3, <2>4
<1>16. ASSUME NEW g \in (s + 2)..Top(t)
       PROVE  GetState(config, v, SnOf(t, g)) = GetState(config, rx, SnOf(t, g))
  <2> DEFINE x == SnOf(t, g)
  <2>1. x \in Sn /\ x # sn
    <3>1. g \in Int /\ g \in (s + 1)..Top(t) /\ s + 1 \in (s + 1)..Top(t) /\ g # s + 1
      BY <1>2, <1>8
    <3>2. QED
      BY <3>1, SnOfType, WindowDistinct DEF sn
  <2> HIDE DEF x
  <2>2. CASE InRing(config, rx, x)
    BY <1>6, <1>9, <2>2 DEF GetState, x
  <2>3. CASE ~InRing(config, rx, x) /\ \E h \in 1..n : rx.overflow[h].sn = x
    <3>1. PICK h \in 1..n : rx.overflow[h].sn = x
      BY <2>3
    <3>2. h # k
      BY <1>3, <2>1, <3>1
    <3>3. PICK j \in 1..(n - 1) : Old(j) = h
      BY <1>12, <3>2
    <3>4. v.overflow[j] = rx.overflow[h] /\ j \in 1..Len(v.overflow) /\ h \in 1..Len(rx.overflow)
      BY <1>7, <1>10, <3>3 DEF n
    <3>5. GetState(config, v, x) = v.overflow[j].state
      BY <1>6, <1>15, <3>1, <3>4, GetStateIs, SMTT(30)
    <3>6. GetState(config, rx, x) = rx.overflow[h].state
      BY <1>1, <3>1, <3>4, GetStateIs
    <3>7. QED
      BY <3>4, <3>5, <3>6 DEF x
  <2>4. CASE ~InRing(config, rx, x) /\ \A h \in 1..n : rx.overflow[h].sn # x
    <3>1. \A j \in 1..Len(v.overflow) : v.overflow[j].sn # x
      BY <1>7, <1>10, <2>4
    <3>2. GetState(config, v, x) = Fresh
      BY <1>6, <1>9, <1>15, <2>4, <3>1, GetStateIs, SMTT(30)
    <3>3. GetState(config, rx, x) = Fresh
      BY <1>1, <2>4, GetStateIs DEF n
    <3>4. QED
      BY <3>2, <3>3 DEF x
  <2>5. QED
    BY <2>2, <2>3, <2>4
<1>17. Entries(config, v) = Entries(config, rx) - 1
  <2> DEFINE a == Cardinality(Used(config, rx))
  <2>1. Used(config, v) = Used(config, rx)
    BY <1>6 DEF Used
  <2>2. a \in Nat
    BY UsedFinite
  <2>3. Entries(config, v) = a + (n - 1) /\ Entries(config, rx) = a + n
    BY <1>7, <2>1 DEF Entries, n
  <2> HIDE DEF a
  <2>4. QED
    BY <1>2, <2>2, <2>3
<1>18. config.allow_segmentation => v.overflow = <<>>
  <2> SUFFICES ASSUME config.allow_segmentation PROVE FALSE
    OBVIOUS
  <2>1. n = 0
    BY <1>1 DEF n
  <2>2. QED
    BY <1>3, <2>1
<1>19. QED
  BY <1>3, <1>4, <1>6, <1>8, <1>14, <1>15, <1>16, <1>17, <1>18 DEF Placed, sn

(* If neither is ready, the next frame is not complete, and the round does nothing. *)
LEMMA FlushNothing ==
  ASSUME config \in Setting, NEW t, NEW s, NEW rx \in RxWork(config), Placed(config, t, rx, s),
         ~RingReady(rx), OverflowReady(rx) = 0
  PROVE  FlushOne(rx) = rx /\ ~GetState(config, rx, rx.next).is_complete
<1> DEFINE sn == rx.next
           n == Len(rx.overflow)
<1>1. OverflowPlaced(config, t, rx, s) /\ rx.overflow \in Seq(Entry)
  BY RxFields DEF Placed
<1>2. FlushOne(rx) = rx
  BY FlushOneShape
<1>3. \A j \in 1..n : ~(rx.overflow[j].sn = sn /\ rx.overflow[j].state.is_complete)
  BY <1>1, OverflowReadyIs
<1>4. InRing(config, rx, sn) => ~rx.ring[Index(config, sn)].state.is_complete
  BY IndexIs DEF InRing, RingReady
<1>5. CASE InRing(config, rx, sn)
  BY <1>2, <1>4, <1>5 DEF GetState
<1>6. CASE \E k \in 1..n : rx.overflow[k].sn = sn
  BY <1>1, <1>2, <1>3, <1>6, GetStateIs
<1>7. CASE ~InRing(config, rx, sn) /\ \A k \in 1..n : rx.overflow[k].sn # sn
  <2>1. GetState(config, rx, sn) = Fresh
    BY <1>1, <1>7, GetStateIs
  <2>2. QED
    BY <1>2, <2>1 DEF Fresh
<1>8. QED
  BY <1>5, <1>6, <1>7

(* Without entries nothing is complete. *)
LEMMA NoEntries ==
  ASSUME NEW c \in Setting, NEW t, NEW s, NEW rx \in RxWork(c), Placed(c, t, rx, s),
         Entries(c, rx) <= 0, NEW sn \in Sn
  PROVE  GetState(c, rx, sn) = Fresh
<1>1. OverflowPlaced(c, t, rx, s) /\ rx.overflow \in Seq(Entry)
  BY RxFields DEF Placed
<1> DEFINE a == Cardinality(Used(c, rx))
           n == Len(rx.overflow)
<1>2. a \in Nat /\ n \in Nat /\ a + n <= 0 /\ IsFiniteSet(Used(c, rx))
  BY <1>1, UsedFinite DEF Entries
<1> HIDE DEF a, n
<1>3. a = 0 /\ n = 0
  BY <1>2
<1>4. Used(c, rx) = {}
  BY <1>2, <1>3, FS_EmptySet DEF a
<1>5. ~InRing(c, rx, sn)
  <2> SUFFICES ASSUME InRing(c, rx, sn) PROVE FALSE
    OBVIOUS
  <2>1. c.reorder_size \in Nat \ {0} /\ sn \in Int
    BY SettingType, SizeAssumption DEF InRing, Sn
  <2>2. Index(c, sn) \in 0..(c.reorder_size - 1)
    BY <2>1, Summing!DivMod DEF Index
  <2>3. Index(c, sn) \in Used(c, rx)
    BY <2>2 DEF Used, InRing
  <2>4. QED
    BY <1>4, <2>3
<1>6. \A k \in 1..Len(rx.overflow) : rx.overflow[k].sn # sn
  BY <1>3 DEF n
<1>7. QED
  BY <1>1, <1>5, <1>6, GetStateIs
-----------------------------------------------------------------------------
(* Reassembly: the octets of frame f that the buffer has. *)
Octets(seg) == (seg.offset + 1)..(seg.offset + seg.size)
Got(st, f) == {i \in 1..Len(st.buffer) : st.buffer[i] = f}

(* The counters tell what is there. *)
GoodState(st, f) ==
  /\ st \in State
  /\ Len(st.buffer) <= FrameSize[f]
  /\ st.accumulated_size = Cardinality(Got(st, f))
  /\ \A o \in st.recvd_offsets : o + 1 \in Got(st, f)
  /\ st.has_expected_size <=> FrameSize[f] \in Got(st, f)
  /\ st.has_expected_size => st.expected_size = FrameSize[f]
  /\ st.is_complete <=> Got(st, f) = 1..FrameSize[f]

(* Nothing was received for an entry that was just made. *)
LEMMA FreshGood ==
  ASSUME NEW f \in Frame PROVE GoodState(Fresh, f) /\ Got(Fresh, f) = {}
<1>1. FrameSize[f] \in Nat \ {0}
  BY SizeAssumption
<1>2. /\ Fresh.buffer = <<>> /\ Fresh.accumulated_size = 0 /\ Fresh.recvd_offsets = {}
      /\ Fresh.has_expected_size = FALSE /\ Fresh.is_complete = FALSE
  BY DEF Fresh
<1>3. Got(Fresh, f) = {}
  BY <1>2 DEF Got
<1>4. 1 \in 1..FrameSize[f]
  BY <1>1
<1>5. Cardinality({}) = 0
  BY FS_EmptySet
<1>6. Len(<<>>) <= FrameSize[f]
  BY <1>1
<1>7. QED
  BY <1>2, <1>3, <1>4, <1>5, <1>6, FreshType DEF GoodState

(* The octets received are octets of the frame. *)
LEMMA GotFinite ==
  ASSUME NEW f \in Frame, NEW st, GoodState(st, f)
  PROVE  /\ Got(st, f) \subseteq 1..FrameSize[f] /\ IsFiniteSet(Got(st, f))
         /\ Cardinality(Got(st, f)) \in Nat
<1>1. FrameSize[f] \in Nat
  BY SizeAssumption
<1>2. st.buffer \in Seq(Frame \cup {Junk}) /\ Len(st.buffer) <= FrameSize[f]
  BY DEF GoodState, State
<1>3. Len(st.buffer) \in Nat
  BY <1>2
<1>4. Got(st, f) \subseteq 1..FrameSize[f]
  BY <1>1, <1>2, <1>3 DEF Got
<1>5. IsFiniteSet(1..FrameSize[f])
  BY <1>1, FS_Interval
<1>6. IsFiniteSet(Got(st, f))
  BY <1>4, <1>5, FS_Subset
<1>7. QED
  BY <1>4, <1>6, FS_CardinalityType

(* A complete buffer is the frame. *)
LEMMA CompleteIs ==
  ASSUME NEW f \in Frame, NEW st, GoodState(st, f), st.is_complete
  PROVE  IsFrame(st.buffer, f) /\ st.expected_size = FrameSize[f] /\ Len(st.buffer) = FrameSize[f]
<1> DEFINE n == FrameSize[f]
           b == st.buffer
<1>1. n \in Nat \ {0}
  BY SizeAssumption
<1>2. b \in Seq(Frame \cup {Junk}) /\ Len(b) <= n /\ Got(st, f) = 1..n
  BY DEF GoodState, State
<1>3. \A i \in 1..n : i \in 1..Len(b) /\ b[i] = f
  BY <1>2 DEF Got
<1> HIDE DEF b, n
<1>4. Len(b) \in Nat
  BY <1>2
<1>5. n \in 1..n
  BY <1>1
<1>6. n \in 1..Len(b)
  BY <1>3, <1>5
<1>7. Len(b) = n
  BY <1>1, <1>2, <1>4, <1>6
<1>8. b = [i \in 1..n |-> f]
  <2>1. DOMAIN b = 1..n
    BY <1>2, <1>7
  <2>2. b = [i \in DOMAIN b |-> b[i]]
    BY <1>2
  <2>3. QED
    BY <1>3, <2>1, <2>2
<1>9. st.expected_size = n
  BY <1>2, <1>5 DEF GoodState, n
<1>10. QED
  BY <1>7, <1>8, <1>9 DEF IsFrame, b, n

(* A segment whose octets are new. *)
LEMMA ReassembledGood ==
  ASSUME NEW f \in Frame, NEW st, GoodState(st, f), NEW seg \in Segment, seg.frame = f,
         Octets(seg) \subseteq 1..FrameSize[f], Octets(seg) \cap Got(st, f) = {},
         seg.last <=> seg.offset + seg.size = FrameSize[f],
         NEW v, v = Reassembled(st, seg)
  PROVE  /\ GoodState(v, f) /\ Got(v, f) = Got(st, f) \cup Octets(seg)
         /\ v.recvd_offsets # {}
<1> DEFINE n == FrameSize[f]
           o == seg.offset
           r == seg.offset + seg.size
           l == Len(st.buffer)
           G == Got(st, f)
           O == Octets(seg)
<1>1. n \in Nat \ {0} /\ f # Junk
  BY SizeAssumption DEF Frame, Junk
<1>2. o \in Nat /\ seg.size \in Nat \ {0} /\ seg.last \in BOOLEAN
  BY DEF Segment
<1>3. /\ st \in State /\ l <= n /\ st.accumulated_size = Cardinality(G)
      /\ \A x \in st.recvd_offsets : x + 1 \in G
      /\ st.has_expected_size <=> n \in G
      /\ st.has_expected_size => st.expected_size = n
      /\ st.is_complete <=> G = 1..n
  BY DEF GoodState
<1>4. l \in Nat /\ st.has_expected_size \in BOOLEAN /\ st.is_complete \in BOOLEAN
  <2>1. st.buffer \in Seq(Frame \cup {Junk}) /\ st.has_expected_size \in BOOLEAN
        /\ st.is_complete \in BOOLEAN
    BY <1>3 DEF State
  <2>2. QED
    BY <2>1
<1>5. O = (o + 1)..r /\ r \in Nat /\ r >= o + 1
  BY <1>2 DEF Octets
<1>6. o + 1 \in O /\ r \in O /\ O \subseteq 1..n
  BY <1>2, <1>5
<1>7. r <= n
  BY <1>1, <1>5, <1>6
<1>8. o \notin st.recvd_offsets
  BY <1>3, <1>6
<1>9. G \subseteq 1..n /\ IsFiniteSet(G) /\ Cardinality(G) \in Nat
  BY GotFinite
<1> HIDE DEF G, O, l
<1> DEFINE dup == FALSE
<1>10. dup \in BOOLEAN /\ (dup <=> seg.offset \in st.recvd_offsets) /\ ~dup
  BY <1>8
<1>11. r = seg.offset + seg.size
  OBVIOUS
<1> HIDE DEF dup, r
<1>12. /\ v \in State
       /\ Len(v.buffer) = IF Len(st.buffer) < r THEN r ELSE Len(st.buffer)
       /\ \A i \in 1..Len(v.buffer) :
            v.buffer[i] = IF ~dup /\ i \in (seg.offset + 1)..r THEN seg.frame
                          ELSE IF i <= Len(st.buffer) THEN st.buffer[i] ELSE Junk
       /\ v.accumulated_size = IF dup THEN st.accumulated_size ELSE st.accumulated_size + seg.size
       /\ v.expected_size = IF seg.last THEN r ELSE st.expected_size
       /\ v.recvd_offsets = st.recvd_offsets \cup {seg.offset}
       /\ v.has_expected_size = (seg.last \/ st.has_expected_size)
       /\ v.is_complete = (st.is_complete \/ ((seg.last \/ st.has_expected_size)
                             /\ v.accumulated_size = v.expected_size))
  BY <1>3, <1>10, <1>11, ReassembledShape
<1>13. /\ Len(v.buffer) = IF l < r THEN r ELSE l
       /\ \A i \in 1..Len(v.buffer) :
            v.buffer[i] = IF i \in O THEN f ELSE IF i <= l THEN st.buffer[i] ELSE Junk
       /\ v.accumulated_size = Cardinality(G) + seg.size
       /\ v.recvd_offsets = st.recvd_offsets \cup {o}
  BY <1>3, <1>5, <1>10, <1>12 DEF l
<1>14. Len(v.buffer) <= n
  BY <1>1, <1>3, <1>4, <1>5, <1>7, <1>13
<1>15. Got(v, f) = G \cup O
  <2> DEFINE lv == Len(v.buffer)
  <2>1. lv \in Nat /\ l <= lv /\ r <= lv
    BY <1>4, <1>5, <1>13
  <2>2. \A i : i \in G <=> i \in 1..l /\ st.buffer[i] = f
    BY DEF G, Got, l
  <2>3. \A i : i \in Got(v, f) <=> i \in 1..lv /\ v.buffer[i] = f
    BY DEF Got
  <2>4. O \subseteq 1..lv
    <3> HIDE DEF lv
    <3>1. \A i \in (o + 1)..r : i \in 1..lv
      BY <1>2, <1>5, <2>1
    <3>2. QED
      BY <1>5, <3>1
  <2>5. \A i \in 1..lv : v.buffer[i] = IF i \in O THEN f ELSE IF i <= l THEN st.buffer[i] ELSE Junk
    BY <1>13
  <2> HIDE DEF lv
  <2>6. ASSUME NEW i, i \in Got(v, f) PROVE i \in G \cup O
    <3>1. i \in 1..lv /\ v.buffer[i] = f
      BY <2>3, <2>6
    <3>2. CASE i \in O
      BY <3>2
    <3>3. CASE i \notin O
      <4>1. i <= l /\ st.buffer[i] = f
        BY <1>1, <2>5, <3>1, <3>3
      <4>2. i \in 1..l
        BY <1>4, <2>1, <3>1, <4>1
      <4>3. QED
        BY <2>2, <4>1, <4>2
    <3>4. QED
      BY <3>2, <3>3
  <2>7. ASSUME NEW i, i \in G \cup O PROVE i \in Got(v, f)
    <3>1. i \in 1..lv
      <4>1. i \in G => i \in 1..l
        BY <2>2
      <4>2. 1..l \subseteq 1..lv
        BY <1>4, <2>1
      <4>3. QED
        BY <2>4, <2>7, <4>1, <4>2
    <3>2. i \notin O => i \in 1..l /\ st.buffer[i] = f /\ i <= l
      <4> HAVE i \notin O
      <4>1. i \in G
        BY <2>7
      <4>2. i \in 1..l /\ st.buffer[i] = f
        BY <2>2, <4>1
      <4>3. QED
        BY <1>4, <4>2
    <3>3. v.buffer[i] = f
      BY <2>5, <3>1, <3>2
    <3>4. QED
      BY <2>3, <3>1, <3>3
  <2>8. QED
    BY <2>6, <2>7
<1>16. Cardinality(G \cup O) = Cardinality(G) + seg.size
  <2>1. IsFiniteSet(O) /\ Cardinality(O) = seg.size
    <3>1. o + 1 \in Int /\ r \in Int
      BY <1>2, <1>5
    <3>2. IsFiniteSet((o + 1)..r)
          /\ Cardinality((o + 1)..r) = IF o + 1 > r THEN 0 ELSE r - (o + 1) + 1
      BY <3>1, FS_Interval
    <3>3. (IF o + 1 > r THEN 0 ELSE r - (o + 1) + 1) = seg.size
      BY <1>2, <1>5 DEF r
    <3>4. QED
      BY <1>5, <3>2, <3>3
  <2>2. G \cap O = {}
    BY DEF G, O
  <2>3. Cardinality(G \cup O) = Cardinality(G) + Cardinality(O) - Cardinality(G \cap O)
    BY <1>9, <2>1, FS_Union
  <2>4. Cardinality(G \cap O) = 0
    BY <2>2, FS_EmptySet
  <2>5. QED
    BY <1>2, <1>9, <2>1, <2>3, <2>4
<1>17. \A x \in v.recvd_offsets : x + 1 \in G \cup O
  BY <1>3, <1>6, <1>13
<1>18. seg.last <=> n \in O
  <2>1. seg.last <=> r = n
    BY DEF r
  <2>2. QED
    BY <1>1, <1>2, <1>5, <1>7, <2>1
<1>19. /\ v.has_expected_size <=> n \in G \cup O
       /\ v.has_expected_size => v.expected_size = n
  BY <1>3, <1>12, <1>18 DEF r
<1>20. v.is_complete <=> G \cup O = 1..n
  <2> DEFINE U == G \cup O
  <2>1. U \in SUBSET (1..n)
    BY <1>6, <1>9
  <2>2. IsFiniteSet(1..n) /\ Cardinality(1..n) = n
    <3>1. 1 \in Int /\ n \in Int
      BY <1>1
    <3>2. IsFiniteSet(1..n) /\ Cardinality(1..n) = IF 1 > n THEN 0 ELSE n - 1 + 1
      BY <3>1, FS_Interval
    <3>3. (IF 1 > n THEN 0 ELSE n - 1 + 1) = n
      BY <1>1
    <3>4. QED
      BY <3>2, <3>3
  <2>3. n \in 1..n
    BY <1>1
  <2>4. ~st.is_complete
    BY <1>3, <1>6, <1>9 DEF G, O
  <2>5. v.is_complete <=> v.has_expected_size /\ v.accumulated_size = v.expected_size
    BY <1>12, <2>4
  <2>6. v.accumulated_size = Cardinality(U)
    BY <1>13, <1>16
  <2>7. v.has_expected_size <=> n \in U
    BY <1>19
  <2> HIDE DEF U
  <2>8. ASSUME v.is_complete PROVE U = 1..n
    <3>1. Cardinality(U) = n
      BY <1>19, <2>5, <2>6, <2>8
    <3>2. QED
      BY <2>1, <2>2, <3>1, FS_Subset
  <2>9. ASSUME U = 1..n PROVE v.is_complete
    BY <1>19, <2>2, <2>3, <2>5, <2>6, <2>7, <2>9
  <2>10. QED
    BY <2>8, <2>9 DEF U
<1>21. GoodState(v, f)
  BY <1>12, <1>13, <1>14, <1>15, <1>16, <1>17, <1>19, <1>20 DEF GoodState
<1>22. QED
  BY <1>13, <1>15, <1>21 DEF G, O
-----------------------------------------------------------------------------
(***************************************************************************)
(* The channel.  The LLC has the segments of T under way, each a pair of   *)
(* a PDU and a position in it, and pdcp_dl has rx; b frames were popped or *)
(* dropped, and s is the last frame that was emitted.                      *)
(***************************************************************************)
Limit(t, f) == IF f <= t.w THEN FrameSize[f] ELSE IF f = t.w + 1 THEN t.off ELSE 0
SenderOk(t) ==
  /\ t \in Sender
  /\ Top(t) <= MaxFrame
  /\ t.off # 0 => t.off < FrameSize[t.w + 1]

At(x) == x[1][x[2]]
UnderWay(A) == UNION {{<<m, k>> : k \in 1..Len(m)} : m \in A}

Had(c, t, rx, f) == GetState(c, rx, SnOf(t, f))

(* A segment under way. *)
SegOk(c, t, rx, s, g) ==
  /\ g \in Segment
  /\ g.frame \in (s + 1)..Top(t)
  /\ g.sn = SnOf(t, g.frame)
  /\ Octets(g) \subseteq 1..Limit(t, g.frame)
  /\ Octets(g) \cap Got(Had(c, t, rx, g.frame), g.frame) = {}
  /\ g.last <=> g.offset + g.size = FrameSize[g.frame]
  /\ ~c.allow_segmentation => g.offset = 0 /\ g.last

(* What was emitted. *)
Lens(done) == [k \in DOMAIN done |-> Len(done[k])]
DoneOk(b, rx) ==
  /\ \A k \in 1..Len(rx.done) : IsFrame(rx.done[k], b + k)
  /\ rx.bytes = SumOf(Lens(rx.done))

(* What was received of the frames that were not emitted. *)
StatesOk(c, t, rx, s) ==
  \A f \in (s + 1)..Top(t) : /\ GoodState(Had(c, t, rx, f), f)
                             /\ Got(Had(c, t, rx, f), f) \subseteq 1..Limit(t, f)

(* No octet is under way twice, and every octet is under way or received. *)
Apart(T) ==
  \A x \in T, y \in T :
    x # y /\ At(x).frame = At(y).frame => Octets(At(x)) \cap Octets(At(y)) = {}
Covered(c, t, rx, s, T) ==
  \A f \in (s + 1)..Top(t) : \A i \in 1..Limit(t, f) :
    \/ i \in Got(Had(c, t, rx, f), f)
    \/ \E x \in T : At(x).frame = f /\ i \in Octets(At(x))

Window(c, t, rx, s) ==
  /\ rx \in RxWork(c)
  /\ s \in Nat /\ s <= t.w /\ Top(t) <= s + c.max_lag
  /\ rx.next = SnOf(t, s + 1)
  /\ Placed(c, t, rx, s)

(* The invariant of the loops in on_pdcp_data. *)
RInv(c, t, b, rx, T) ==
  LET s == b + Len(rx.done) IN
  /\ Window(c, t, rx, s)
  /\ DoneOk(b, rx)
  /\ StatesOk(c, t, rx, s)
  /\ \A x \in T : SegOk(c, t, rx, s, At(x))
  /\ Apart(T)
  /\ Covered(c, t, rx, s, T)

(* A segment is taken. *)
LEMMA SegmentKeeps ==
  ASSUME config \in Setting, Orderly(config), NEW t, SenderOk(t), NEW b \in Nat, NEW rx, NEW T,
         RInv(config, t, b, rx, T), NEW x \in T, NEW v, v = OnSegment(rx, At(x))
  PROVE  RInv(config, t, b, v, T \ {x}) /\ v.done = rx.done
<1> DEFINE s == b + Len(rx.done)
           g == At(x)
           f == g.frame
           sn == SnOf(t, f)
           st == Had(config, t, rx, f)
           new == Reassembled(st, g)
           c == config
<1>1. t \in Sender /\ Top(t) \in Nat /\ Top(t) <= MaxFrame /\ MaxFrame \in Nat
  BY TopType, SizeAssumption DEF SenderOk
<1>2. /\ Window(c, t, rx, s) /\ DoneOk(b, rx) /\ StatesOk(c, t, rx, s)
      /\ (\A y \in T : SegOk(c, t, rx, s, At(y))) /\ Apart(T) /\ Covered(c, t, rx, s, T)
  BY DEF RInv
<1>3. /\ rx \in RxWork(c) /\ s \in Nat /\ s <= t.w /\ Top(t) <= s + c.max_lag
      /\ rx.next = SnOf(t, s + 1) /\ Placed(c, t, rx, s)
  BY <1>2 DEF Window
<1> HIDE DEF s, g
<1>4. /\ g \in Segment /\ f \in (s + 1)..Top(t) /\ g.sn = sn
      /\ Octets(g) \subseteq 1..Limit(t, f) /\ Octets(g) \cap Got(st, f) = {}
      /\ g.last <=> g.offset + g.size = FrameSize[f]
      /\ ~c.allow_segmentation => g.offset = 0 /\ g.last
  BY <1>2 DEF SegOk, g
<1> HIDE DEF f
<1>5. f \in Frame /\ FrameSize[f] \in Nat \ {0}
  BY <1>1, <1>3, <1>4, SizeAssumption DEF Frame
<1>6. GoodState(st, f) /\ Got(st, f) \subseteq 1..Limit(t, f) /\ st = GetState(c, rx, sn)
  BY <1>2, <1>4 DEF StatesOk, Had
<1> HIDE DEF sn, st
<1>7. ~c.allow_segmentation => st.recvd_offsets = {}
  <2> HAVE ~c.allow_segmentation
  <2>1. g.offset = 0 /\ g.last /\ g.size \in Nat
    BY <1>4 DEF Segment
  <2>2. Octets(g) = 1..FrameSize[f]
    BY <1>4, <1>5, <2>1 DEF Octets
  <2>3. Got(st, f) \subseteq 1..FrameSize[f]
    BY <1>5, <1>6, GotFinite
  <2>4. Got(st, f) = {}
    BY <1>4, <2>2, <2>3
  <2>5. QED
    BY <1>6, <2>4 DEF GoodState
<1>8. Octets(g) \subseteq 1..FrameSize[f]
  <2>1. Limit(t, f) \in Int /\ Limit(t, f) <= FrameSize[f]
    <3>1. t.off \in Nat /\ t.w \in Nat
      BY <1>1 DEF Sender
    <3>2. CASE f <= t.w
      BY <1>5, <3>2 DEF Limit
    <3>3. CASE ~(f <= t.w)
      <4>1. f \in Int /\ f = t.w + 1 /\ t.off # 0
        BY <1>1, <1>3, <1>4, <3>1, <3>3, TopType DEF Top
      <4>2. Limit(t, f) = t.off /\ t.off < FrameSize[f]
        BY <3>3, <4>1 DEF Limit, SenderOk
      <4>3. QED
        BY <1>5, <3>1, <4>2
    <3>4. QED
      BY <3>2, <3>3
  <2>2. 1..Limit(t, f) \subseteq 1..FrameSize[f]
    BY <1>5, <2>1
  <2>3. QED
    BY <1>4, <2>2
<1>9. GoodState(new, f) /\ Got(new, f) = Got(st, f) \cup Octets(g) /\ new.recvd_offsets # {}
  <2>1. g.frame = f
    BY DEF f
  <2>2. QED
    BY <1>4, <1>5, <1>6, <1>8, <2>1, ReassembledGood
<1>10. sn = SnOf(t, f)
  BY DEF sn
<1>11. v = Stored(rx, sn, new)
  <2>1. StateOf(rx, sn) = st
    BY <1>1, <1>3, <1>4, <1>6, <1>7, <1>10, SegmentSlot
  <2>2. c.allow_reordering
    BY DEF Orderly
  <2>3. (IF c.allow_segmentation THEN g ELSE [g EXCEPT !.offset = 0]) = g
    BY <1>4 DEF Segment
  <2>4. v = OnSegment(rx, g)
    BY DEF g
  <2>5. QED
    BY <1>4, <2>1, <2>2, <2>3, <2>4 DEF OnSegment
<1>12. new \in State
  BY <1>9 DEF GoodState
<1> HIDE DEF new
<1>13. /\ v \in RxWork(c) /\ v.next = rx.next /\ v.done = rx.done /\ v.bytes = rx.bytes
       /\ Placed(c, t, v, s) /\ GetState(c, v, sn) = new
       /\ \A h \in (s + 1)..Top(t) :
            h # f => GetState(c, v, SnOf(t, h)) = GetState(c, rx, SnOf(t, h))
  BY <1>1, <1>3, <1>4, <1>6, <1>7, <1>9, <1>10, <1>11, <1>12, SegmentPlaced
<1>14. /\ Had(c, t, v, f) = new /\ Had(c, t, rx, f) = st
       /\ \A h \in (s + 1)..Top(t) : h # f => Had(c, t, v, h) = Had(c, t, rx, h)
  BY <1>6, <1>10, <1>13 DEF Had
<1>15. Window(c, t, v, s) /\ DoneOk(b, v) /\ b + Len(v.done) = s
  BY <1>2, <1>3, <1>13 DEF Window, DoneOk, s
<1>16. StatesOk(c, t, v, s)
  <2> SUFFICES ASSUME NEW h \in (s + 1)..Top(t)
               PROVE  /\ GoodState(Had(c, t, v, h), h)
                      /\ Got(Had(c, t, v, h), h) \subseteq 1..Limit(t, h)
    BY DEF StatesOk
  <2>1. CASE h = f
    BY <1>4, <1>6, <1>9, <1>14, <2>1
  <2>2. CASE h # f
    BY <1>2, <1>14, <2>2 DEF StatesOk
  <2>3. QED
    BY <2>1, <2>2
<1>17. ASSUME NEW y \in T \ {x} PROVE SegOk(c, t, v, s, At(y))
  <2>1. SegOk(c, t, rx, s, At(y))
    BY <1>2
  <2>2. CASE At(y).frame = f
    <3>1. Octets(At(y)) \cap Octets(g) = {}
      BY <1>2, <2>2 DEF Apart, f, g
    <3>2. Octets(At(y)) \cap Got(st, f) = {}
      BY <1>14, <2>1, <2>2 DEF SegOk
    <3>3. Octets(At(y)) \cap Got(Had(c, t, v, At(y).frame), At(y).frame) = {}
      BY <1>9, <1>14, <2>2, <3>1, <3>2
    <3>4. QED
      BY <2>1, <3>3 DEF SegOk
  <2>3. CASE At(y).frame # f
    <3>1. Had(c, t, v, At(y).frame) = Had(c, t, rx, At(y).frame)
      BY <1>14, <2>1, <2>3 DEF SegOk
    <3>2. QED
      BY <2>1, <3>1 DEF SegOk
  <2>4. QED
    BY <2>2, <2>3
<1>18. Apart(T \ {x})
  BY <1>2 DEF Apart
<1>19. Covered(c, t, v, s, T \ {x})
  <2> SUFFICES ASSUME NEW h \in (s + 1)..Top(t), NEW i \in 1..Limit(t, h)
               PROVE  \/ i \in Got(Had(c, t, v, h), h)
                      \/ \E y \in T \ {x} : At(y).frame = h /\ i \in Octets(At(y))
    BY DEF Covered
  <2>1. CASE i \in Got(Had(c, t, rx, h), h)
    <3>1. i \in Got(Had(c, t, v, h), h)
      BY <1>9, <1>14, <2>1
    <3>2. QED
      BY <3>1
  <2>2. CASE \E y \in T : At(y).frame = h /\ i \in Octets(At(y))
    <3>1. PICK y \in T : At(y).frame = h /\ i \in Octets(At(y))
      BY <2>2
    <3>2. CASE y = x
      <4>1. h = f /\ i \in Octets(g)
        BY <3>1, <3>2 DEF f, g
      <4>2. QED
        BY <1>9, <1>14, <4>1
    <3>3. CASE y # x
      BY <3>1, <3>3
    <3>4. QED
      BY <3>2, <3>3
  <2>3. QED
    BY <1>2, <2>1, <2>2 DEF Covered
<1>20. QED
  BY <1>13, <1>15, <1>16, <1>17, <1>18, <1>19 DEF RInv

(* The sizes of the frames to be popped. *)
LEMMA LensShape ==
  ASSUME NEW done \in Seq(Buffer)
  PROVE  /\ Len(done) \in Nat /\ DOMAIN Lens(done) = 1..Len(done)
         /\ \A k \in 1..Len(done) : Lens(done)[k] = Len(done[k]) /\ Lens(done)[k] \in Nat
<1>1. DOMAIN done = 1..Len(done) /\ Len(done) \in Nat
  OBVIOUS
<1>2. \A k \in 1..Len(done) : Len(done[k]) \in Nat
  <2> TAKE k \in 1..Len(done)
  <2>1. done[k] \in Buffer
    OBVIOUS
  <2>2. QED
    BY <2>1 DEF Buffer
<1>3. QED
  BY <1>1, <1>2 DEF Lens

(* A frame is emitted. *)
LEMMA EmitKeeps ==
  ASSUME config \in Setting, Orderly(config), NEW t, SenderOk(t), NEW b \in Nat, NEW rx, NEW T,
         RInv(config, t, b, rx, T), NEW v, v = FlushOne(rx),
         RingReady(rx) \/ OverflowReady(rx) # 0
  PROVE  /\ RInv(config, t, b, v, T)
         /\ Entries(config, v) = Entries(config, rx) - 1
         /\ Len(v.done) = Len(rx.done) + 1
<1> DEFINE s == b + Len(rx.done)
           c == config
           f == s + 1
           st == Had(c, t, rx, f)
           n == Len(rx.done)
<1>1. t \in Sender /\ Top(t) \in Nat /\ Top(t) <= MaxFrame /\ MaxFrame \in Nat
  BY TopType, SizeAssumption DEF SenderOk
<1>2. /\ Window(c, t, rx, s) /\ DoneOk(b, rx) /\ StatesOk(c, t, rx, s)
      /\ (\A y \in T : SegOk(c, t, rx, s, At(y))) /\ Apart(T) /\ Covered(c, t, rx, s, T)
  BY DEF RInv
<1>3. /\ rx \in RxWork(c) /\ s \in Nat /\ s <= t.w /\ Top(t) <= s + c.max_lag
      /\ rx.next = SnOf(t, s + 1) /\ Placed(c, t, rx, s)
  BY <1>2 DEF Window
<1>4. rx.done \in Seq(Buffer) /\ rx.bytes \in Nat /\ n \in Nat
  BY <1>3, RxFields
<1>5. s = b + n
  OBVIOUS
<1> HIDE DEF s, n
<1>6. /\ v \in RxWork(c) /\ s + 1 <= Top(t)
      /\ GetState(c, rx, rx.next).is_complete
      /\ v.done = Append(rx.done, GetState(c, rx, rx.next).buffer)
      /\ v.bytes = rx.bytes + GetState(c, rx, rx.next).expected_size
      /\ v.next = NextSn(rx.next)
      /\ Placed(c, t, v, s + 1)
      /\ \A g \in (s + 2)..Top(t) : GetState(c, v, SnOf(t, g)) = GetState(c, rx, SnOf(t, g))
      /\ Entries(c, v) = Entries(c, rx) - 1
  <2>1. CASE RingReady(rx)
    BY <1>1, <1>3, <2>1, FlushFromRing
  <2>2. CASE ~RingReady(rx)
    BY <1>1, <1>3, <2>2, FlushFromOverflow
  <2>3. QED
    BY <2>1, <2>2
<1>7. f \in (s + 1)..Top(t) /\ f \in Frame /\ FrameSize[f] \in Nat \ {0} /\ f \in Int
  BY <1>1, <1>3, <1>6, SizeAssumption DEF Frame
<1>8. st = GetState(c, rx, rx.next)
  BY <1>3 DEF Had
<1>9. GoodState(st, f) /\ Got(st, f) \subseteq 1..Limit(t, f)
  BY <1>2, <1>7 DEF StatesOk
<1>10. f = s + 1
  OBVIOUS
<1> HIDE DEF st, f
<1>11. IsFrame(st.buffer, f) /\ st.expected_size = FrameSize[f] /\ Len(st.buffer) = FrameSize[f]
       /\ Got(st, f) = 1..FrameSize[f]
  BY <1>6, <1>7, <1>8, <1>9, CompleteIs DEF GoodState
<1>12. st.buffer \in Buffer
  BY <1>9 DEF GoodState, State, Buffer
<1>13. f <= t.w /\ Limit(t, f) = FrameSize[f]
  <2>1. t.w \in Nat /\ t.off \in Nat
    BY <1>1 DEF Sender
  <2>2. f <= t.w
    <3> SUFFICES ASSUME ~(f <= t.w) PROVE FALSE
      OBVIOUS
    <3>1. f = t.w + 1 /\ t.off # 0
      BY <1>1, <1>7, <2>1 DEF Top
    <3>2. Limit(t, f) = t.off /\ t.off < FrameSize[f]
      BY <3>1 DEF Limit, SenderOk
    <3>3. FrameSize[f] \in 1..FrameSize[f]
      BY <1>7
    <3>4. FrameSize[f] \in 1..t.off
      BY <1>9, <1>11, <3>2, <3>3
    <3>5. QED
      BY <1>7, <2>1, <3>2, <3>4
  <2>3. QED
    BY <2>2 DEF Limit
<1>14. /\ Len(v.done) = n + 1 /\ v.done[n + 1] = st.buffer
       /\ \A k \in 1..n : v.done[k] = rx.done[k]
  BY <1>4, <1>6, <1>8, <1>12 DEF n
<1>15. b + Len(v.done) = f /\ b + (n + 1) = f
  BY <1>4, <1>5, <1>10, <1>14
<1>16. DoneOk(b, v)
  <2>1. ASSUME NEW k \in 1..Len(v.done) PROVE IsFrame(v.done[k], b + k)
    <3>1. CASE k = n + 1
      BY <1>11, <1>14, <1>15, <3>1
    <3>2. CASE k # n + 1
      <4>1. k \in 1..n
        BY <1>4, <1>14, <3>2
      <4>2. QED
        BY <1>2, <1>14, <4>1 DEF DoneOk, n
    <3>3. QED
      BY <3>1, <3>2
  <2>2. v.bytes = SumOf(Lens(v.done))
    <3> DEFINE p == Lens(rx.done)
               q == Lens(v.done)
    <3>1. v.done \in Seq(Buffer)
      BY <1>6, RxFields
    <3>2. DOMAIN p = 1..n /\ \A k \in 1..n : p[k] = Len(rx.done[k])
      BY <1>4, LensShape DEF n
    <3>3. DOMAIN q = 1..(n + 1) /\ \A k \in 1..(n + 1) : q[k] = Len(v.done[k])
      BY <1>14, <3>1, LensShape
    <3>4. \A k \in 1..n : q[k] = p[k]
      <4> TAKE k \in 1..n
      <4>1. k \in 1..(n + 1)
        BY <1>4
      <4>2. QED
        BY <1>14, <3>2, <3>3, <4>1
    <3>5. q[n + 1] = FrameSize[f]
      <4>1. n + 1 \in 1..(n + 1)
        BY <1>4
      <4>2. QED
        BY <1>11, <1>14, <3>3, <4>1
    <3> HIDE DEF p, q
    <3>6. SumOf(q) = SumOf(p) + q[n + 1]
      <4>1. n \in Nat
        BY <1>4
      <4>2. DOMAIN p = 1..n
        BY <3>2
      <4>3. DOMAIN q = 1..(n + 1)
        BY <3>3
      <4>4. QED
        BY <3>4, <4>1, <4>2, <4>3, SumMore
    <3>7. rx.bytes = SumOf(p)
      BY <1>2 DEF DoneOk, p
    <3>8. v.bytes = rx.bytes + FrameSize[f]
      BY <1>6, <1>8, <1>11
    <3>9. QED
      BY <3>5, <3>6, <3>7, <3>8 DEF q
  <2>3. QED
    BY <2>1, <2>2 DEF DoneOk
<1>17. Window(c, t, v, f)
  <2>1. c.max_lag \in Nat
    BY SettingType
  <2>2. f \in Nat /\ Top(t) <= f + c.max_lag
    BY <1>1, <1>3, <1>10, <2>1
  <2>3. v.next = SnOf(t, f + 1)
    BY <1>1, <1>3, <1>6, <1>7, <1>10, SnOfNext
  <2>4. QED
    BY <1>6, <1>10, <1>13, <2>2, <2>3 DEF Window
<1>18. \A g \in (f + 1)..Top(t) : g \in (s + 1)..Top(t) /\ Had(c, t, v, g) = Had(c, t, rx, g)
  <2> TAKE g \in (f + 1)..Top(t)
  <2>1. g \in (s + 1)..Top(t) /\ g \in (s + 2)..Top(t)
    BY <1>1, <1>3, <1>10
  <2>2. QED
    BY <1>6, <2>1 DEF Had
<1>19. StatesOk(c, t, v, f)
  BY <1>2, <1>18 DEF StatesOk
<1>20. ASSUME NEW y \in T PROVE SegOk(c, t, v, f, At(y))
  <2> DEFINE g == At(y)
  <2>1. SegOk(c, t, rx, s, g)
    BY <1>2
  <2> HIDE DEF g
  <2>2. g.frame # f
    <3> SUFFICES ASSUME g.frame = f PROVE FALSE
      OBVIOUS
    <3>1. /\ g \in Segment /\ Octets(g) \subseteq 1..FrameSize[f]
          /\ Octets(g) \cap Got(st, f) = {}
      BY <1>13, <2>1 DEF SegOk, st
    <3>2. g.offset + 1 \in Octets(g)
      BY <3>1 DEF Segment, Octets
    <3>3. QED
      BY <1>11, <3>1, <3>2
  <2>3. g.frame \in (f + 1)..Top(t)
    <3>1. g.frame \in (s + 1)..Top(t)
      BY <2>1 DEF SegOk
    <3>2. QED
      BY <1>1, <1>3, <1>10, <2>2, <3>1
  <2>4. Had(c, t, v, g.frame) = Had(c, t, rx, g.frame)
    BY <1>18, <2>3
  <2>5. SegOk(c, t, v, f, g)
    BY <2>1, <2>3, <2>4 DEF SegOk
  <2>6. QED
    BY <2>5 DEF g
<1>21. Covered(c, t, v, f, T)
  BY <1>2, <1>18 DEF Covered
<1>22. RInv(c, t, b, v, T)
  BY <1>2, <1>15, <1>16, <1>17, <1>19, <1>20, <1>21 DEF RInv
<1>23. QED
  BY <1>6, <1>14, <1>22 DEF n

(* flush_completed_in_order ends when the next frame is not complete. *)
LEMMA FlushKeeps ==
  ASSUME config \in Setting, Orderly(config), NEW t, SenderOk(t), NEW b \in Nat, NEW rx, NEW T,
         RInv(config, t, b, rx, T)
  PROVE  /\ RInv(config, t, b, Flushed(rx), T)
         /\ ~GetState(config, Flushed(rx), Flushed(rx).next).is_complete
         /\ Len(rx.done) <= Len(Flushed(rx).done)
<1> DEFINE c == config
           n == FlushBound(rx)
           seq == FlushSteps(rx)
           Ready(r) == RingReady(r) \/ OverflowReady(r) # 0
           Inv(k) == {r \in RxWork(c) : /\ RInv(c, t, b, r, T)
                                        /\ Len(rx.done) <= Len(r.done)
                                        /\ Ready(r) => Entries(c, r) + k <= n}
           I == [k \in 0..n |-> Inv(k)]
<1>1. rx \in RxWork(c)
  BY DEF RInv, Window
<1>2. n \in Nat /\ DOMAIN seq = 1..n
  BY <1>1, FlushDomain
<1>3. rx \in Inv(0)
  <2> DEFINE a == Cardinality(Used(c, rx))
             o == Len(rx.overflow)
  <2>1. a \in Nat /\ a <= c.reorder_size /\ o \in Nat /\ c.reorder_size \in Nat
    BY <1>1, UsedFinite, RxFields, SettingType
  <2>2. Entries(c, rx) = a + o /\ n = c.reorder_size + o
    BY DEF Entries, FlushBound
  <2> HIDE DEF a, o, n
  <2>3. Entries(c, rx) + 0 <= n
    BY <2>1, <2>2
  <2>4. Len(rx.done) <= Len(rx.done)
    <3>1. Len(rx.done) \in Nat
      BY <1>1, RxFields
    <3>2. QED
      BY <3>1
  <2>5. QED
    BY <1>1, <2>3, <2>4
<1>4. ASSUME NEW k \in 0..(n - 1), NEW w \in Inv(k) PROVE FlushOne(w) \in Inv(k + 1)
  <2> DEFINE v == FlushOne(w)
  <2>1. w \in RxWork(c) /\ RInv(c, t, b, w, T) /\ (Ready(w) => Entries(c, w) + k <= n)
        /\ Len(rx.done) <= Len(w.done)
    OBVIOUS
  <2>2. Placed(c, t, w, b + Len(w.done))
    BY <2>1 DEF RInv, Window
  <2>3. v \in RxWork(c)
    BY <2>1, FlushOneShape
  <2>4. CASE ~Ready(w)
    <3>1. v = w
      BY <2>1, <2>2, <2>4, FlushNothing
    <3>2. QED
      BY <2>1, <2>4, <3>1
  <2>5. CASE Ready(w)
    <3>1. v = FlushOne(w)
      OBVIOUS
    <3> HIDE DEF v
    <3>2. RInv(c, t, b, v, T) /\ Entries(c, v) = Entries(c, w) - 1 /\ Len(v.done) = Len(w.done) + 1
      BY <2>1, <2>5, <3>1, EmitKeeps
    <3>3. Entries(c, v) + (k + 1) <= n
      <4> DEFINE e == Entries(c, w)
      <4>1. e \in Int
        <5>1. Cardinality(Used(c, w)) \in Nat
          BY UsedFinite
        <5>2. Len(w.overflow) \in Nat
          BY <2>1, RxFields
        <5>3. QED
          BY <5>1, <5>2 DEF Entries
      <4>2. e + k <= n /\ Entries(c, v) = e - 1
        BY <2>1, <2>5, <3>2
      <4> HIDE DEF e, n
      <4>3. QED
        BY <1>2, <4>1, <4>2
    <3>4. Len(rx.done) <= Len(v.done)
      <4>1. Len(rx.done) \in Nat
        BY <1>1, RxFields
      <4>2. Len(w.done) \in Nat
        BY <2>1, RxFields
      <4>3. QED
        BY <2>1, <3>2, <4>1, <4>2
    <3>5. v \in Inv(k + 1)
      BY <2>3, <3>1, <3>2, <3>3, <3>4
    <3>6. QED
      BY <3>5 DEF v
  <2>6. QED
    BY <2>4, <2>5
<1> HIDE DEF Inv
<1>5. rx \in I[0] /\ I[n] = Inv(n)
  BY <1>2, <1>3
<1>6. \A k \in 0..(n - 1) : \A w \in I[k] : FlushRound(w, seq[k + 1]) \in I[k + 1]
  <2> SUFFICES ASSUME NEW k \in 0..(n - 1), NEW w \in I[k]
               PROVE  FlushRound(w, seq[k + 1]) \in I[k + 1]
    OBVIOUS
  <2>1. w \in Inv(k) /\ I[k + 1] = Inv(k + 1)
    BY <1>2
  <2>2. QED
    BY <1>4, <2>1 DEF FlushRound
<1> HIDE DEF I, n, seq
<1>7. Flushing!FoldLeft(FlushRound, rx, seq) \in I[n]
  BY <1>2, <1>5, <1>6, Flushing!LoopInvariant
<1> DEFINE v == flush_completed_in_order(rx)
<1>8. v \in Inv(n)
  BY <1>5, <1>7, FlushLoop DEF seq
<1>9. Flushed(rx) = v
  BY DEF Flushed, Orderly
<1> HIDE DEF v
<1>10. v \in RxWork(c) /\ RInv(c, t, b, v, T) /\ (Ready(v) => Entries(c, v) + n <= n)
       /\ Len(rx.done) <= Len(v.done)
  BY <1>8 DEF Inv
<1>11. Placed(c, t, v, b + Len(v.done)) /\ v.next \in Sn
  BY <1>10, RxFields DEF RInv, Window
<1>12. ~GetState(c, v, v.next).is_complete
  <2>1. CASE ~Ready(v)
    BY <1>10, <1>11, <2>1, FlushNothing
  <2>2. CASE Ready(v)
    <3>1. Entries(c, v) <= 0
      <4>1. Cardinality(Used(c, v)) \in Nat /\ Len(v.overflow) \in Nat
        BY <1>10, UsedFinite, RxFields
      <4>2. Entries(c, v) \in Int
        BY <4>1 DEF Entries
      <4>3. QED
        BY <1>2, <1>10, <2>2, <4>2
    <3>2. GetState(c, v, v.next) = Fresh
      BY <1>10, <1>11, <3>1, NoEntries
    <3>3. QED
      BY <3>2 DEF Fresh
  <2>3. QED
    BY <2>1, <2>2
<1>13. QED
  BY <1>9, <1>10, <1>12
-----------------------------------------------------------------------------
(* A PDU is taken segment by segment. *)
LEMMA UnderWayIs ==
  ASSUME NEW A, NEW x
  PROVE  x \in UnderWay(A) <=> \E m \in A : \E k \in 1..Len(m) : x = <<m, k>>
BY DEF UnderWay

(* on_pdcp_data takes the segments of a PDU one by one, and then none of it is under way. *)
LEMMA TakenKeeps ==
  ASSUME config \in Setting, Orderly(config), NEW t, SenderOk(t), NEW b \in Nat, NEW rx, NEW A,
         NEW m \in A, m \in Seq(Segment), RInv(config, t, b, rx, UnderWay(A))
  PROVE  /\ RInv(config, t, b, Taken(rx, m), UnderWay(A \ {m}))
         /\ Taken(rx, m).done = rx.done
<1> DEFINE n == Len(m)
           T(j) == {x \in UnderWay(A) : x[1] # m \/ x[2] > j}
           Inv(j) == {r \in RxWork(config) : RInv(config, t, b, r, T(j)) /\ r.done = rx.done}
           I == [j \in 0..n |-> Inv(j)]
<1>1. n \in Nat /\ DOMAIN m = 1..n
  OBVIOUS
<1>2. T(0) = UnderWay(A)
  <2>1. ASSUME NEW x \in UnderWay(A) PROVE x[1] # m \/ x[2] > 0
    <3>0. PICK p \in A : \E k \in 1..Len(p) : x = <<p, k>>
      BY <2>1, UnderWayIs
    <3>1. PICK k \in 1..Len(p) : x = <<p, k>>
      BY <3>0
    <3>2. x[1] = p /\ x[2] = k
      BY <3>1
    <3>3. p = m => k \in 1..n
      BY <3>1
    <3>4. QED
      BY <1>1, <3>2, <3>3
  <2>2. QED
    BY <2>1
<1>3. T(n) = UnderWay(A \ {m})
  <2>1. ASSUME NEW x \in T(n) PROVE x \in UnderWay(A \ {m})
    <3>0. PICK p \in A : \E k \in 1..Len(p) : x = <<p, k>>
      BY <2>1, UnderWayIs
    <3>1. PICK k \in 1..Len(p) : x = <<p, k>>
      BY <3>0
    <3>2. x[1] = p /\ x[2] = k /\ (x[1] # m \/ x[2] > n)
      BY <2>1, <3>1
    <3>3. p # m
      BY <1>1, <3>1, <3>2
    <3>4. p \in A \ {m}
      BY <3>1, <3>3
    <3>5. QED
      BY <3>1, <3>4, UnderWayIs
  <2>2. ASSUME NEW x \in UnderWay(A \ {m}) PROVE x \in T(n)
    <3>0. PICK p \in A \ {m} : \E k \in 1..Len(p) : x = <<p, k>>
      BY <2>2, UnderWayIs
    <3>1. PICK k \in 1..Len(p) : x = <<p, k>>
      BY <3>0
    <3>2. x \in UnderWay(A)
      BY <3>1, UnderWayIs
    <3>3. x[1] = p
      BY <3>1
    <3>4. QED
      BY <3>1, <3>2, <3>3
  <2> HIDE DEF T
  <2>3. QED
    BY <2>1, <2>2
<1>4. ASSUME NEW j \in 0..(n - 1)
      PROVE  <<m, j + 1>> \in T(j) /\ T(j + 1) = T(j) \ {<<m, j + 1>>} /\ j + 1 \in 1..n
  <2>1. j + 1 \in 1..n /\ j + 1 > j /\ j \in Int
    BY <1>1
  <2>2. <<m, j + 1>> \in UnderWay(A)
    BY <2>1, UnderWayIs
  <2>3. <<m, j + 1>> \in T(j)
    BY <2>1, <2>2
  <2>4. ASSUME NEW x \in UnderWay(A)
        PROVE  (x[1] # m \/ x[2] > j + 1) <=> (x[1] # m \/ x[2] > j) /\ x # <<m, j + 1>>
    <3>0. PICK p \in A : \E k \in 1..Len(p) : x = <<p, k>>
      BY <2>4, UnderWayIs
    <3>1. PICK k \in 1..Len(p) : x = <<p, k>>
      BY <3>0
    <3>2. x[1] = p /\ x[2] = k /\ (x = <<m, j + 1>> <=> p = m /\ k = j + 1)
      BY <3>1
    <3>3. CASE p = m
      <4>1. k \in 1..n
        BY <3>1, <3>3
      <4>2. k > j + 1 <=> k > j /\ k # j + 1
        BY <1>1, <2>1, <4>1
      <4>3. QED
        BY <3>2, <3>3, <4>2
    <3>4. CASE p # m
      BY <3>2, <3>4
    <3>5. QED
      BY <3>3, <3>4
  <2>5. T(j + 1) = T(j) \ {<<m, j + 1>>}
    BY <2>4
  <2> HIDE DEF T
  <2>6. QED
    BY <2>1, <2>3, <2>5
<1> HIDE DEF T
<1>5. rx \in Inv(0)
  BY <1>2 DEF RInv, Window
<1>6. ASSUME NEW j \in 0..(n - 1), NEW w \in Inv(j) PROVE OnSegment(w, m[j + 1]) \in Inv(j + 1)
  <2> DEFINE v == OnSegment(w, m[j + 1])
             x == <<m, j + 1>>
             U == T(j)
  <2>1. RInv(config, t, b, w, U) /\ w.done = rx.done
    OBVIOUS
  <2>2. x \in U /\ T(j + 1) = U \ {x}
    BY <1>4
  <2>3. At(x) = m[j + 1]
    BY DEF At
  <2>4. v = OnSegment(w, At(x))
    BY <2>3
  <2> HIDE DEF v, x, U
  <2>5. RInv(config, t, b, v, U \ {x}) /\ v.done = w.done
    BY <2>1, <2>2, <2>4, SegmentKeeps
  <2>6. RInv(config, t, b, v, T(j + 1)) /\ v.done = rx.done
    BY <2>1, <2>2, <2>5
  <2>7. v \in RxWork(config)
    BY <2>6 DEF RInv, Window
  <2>8. v \in Inv(j + 1)
    BY <2>6, <2>7
  <2>9. QED
    BY <2>8 DEF v
<1> HIDE DEF Inv
<1>7. rx \in I[0] /\ I[n] = Inv(n)
  BY <1>1, <1>5
<1>8. \A k \in 0..(n - 1) : \A w \in I[k] : OnSegment(w, m[k + 1]) \in I[k + 1]
  <2> SUFFICES ASSUME NEW k \in 0..(n - 1), NEW w \in I[k]
               PROVE  OnSegment(w, m[k + 1]) \in I[k + 1]
    OBVIOUS
  <2>1. w \in Inv(k) /\ I[k + 1] = Inv(k + 1)
    BY <1>1
  <2>2. QED
    BY <1>6, <2>1
<1> HIDE DEF I, n
<1>9. Receiving!FoldLeft(OnSegment, rx, m) \in I[n]
  BY <1>1, <1>7, <1>8, Receiving!LoopInvariant
<1>10. Taken(rx, m) \in Inv(n)
  BY <1>7, <1>9, TakenLoop
<1>11. QED
  BY <1>3, <1>10 DEF Inv
-----------------------------------------------------------------------------
(* The sender goes on from t to u and hands pdu to the LLC. *)
Continues(c, t, u, pdu) ==
  /\ SenderOk(t) /\ SenderOk(u)
  /\ t.w <= u.w /\ u.sn = SnOf(t, u.w + 1)
  /\ pdu \in Seq(Segment) /\ pdu # <<>> /\ PduShape(c, t, pdu)
  /\ Top(u) = t.w + Len(pdu)
  /\ ~c.allow_segmentation => t.off = 0
  /\ \A k \in 1..Len(pdu) : Octets(pdu[k]) = (Limit(t, t.w + k) + 1)..Limit(u, t.w + k)

(* The sender's counters are within its frames. *)
LEMMA SenderShape ==
  ASSUME NEW c, NEW a, NEW frames, NEW offset, TxShape(c, a, frames, offset), NEW sn \in Sn,
         NEW u, u = [w |-> a - Len(frames), sn |-> sn, off |-> offset]
  PROVE  SenderOk(u) /\ Top(u) <= a /\ u.w <= a
<1> DEFINE n == Len(frames)
<1>1. /\ a \in 0..MaxFrame /\ frames \in Seq(Frame) /\ n <= a /\ offset \in Nat /\ n \in Nat
      /\ MaxFrame \in Nat
  BY SizeAssumption DEF TxShape
<1>2. offset # 0 => n # 0 /\ offset < FrameSize[(a - n) + 1]
  BY DEF TxShape
<1>3. u.w = a - n /\ u.off = offset /\ u.sn = sn
  OBVIOUS
<1>4. n # 0 => n >= 1
  BY <1>1
<1> HIDE DEF n
<1>5. u.w \in Nat /\ u.w <= a /\ (offset # 0 => u.w + 1 <= a)
  BY <1>1, <1>2, <1>3, <1>4
<1>6. u \in Sender
  BY <1>1, <1>3, <1>5 DEF Sender
<1>7. Top(u) <= a /\ Top(u) \in Nat
  BY <1>3, <1>5, <1>6, TopType DEF Top
<1>8. Top(u) <= MaxFrame
  BY <1>1, <1>7
<1>9. QED
  BY <1>2, <1>3, <1>5, <1>6, <1>7, <1>8 DEF SenderOk

(* write_pdcp cuts the PDU off where the sender was and leaves it where the PDU ends. *)
LEMMA WriteContinues ==
  ASSUME NEW c, NEW a, NEW t, SenderOk(t), NEW size, NEW left, NEW w,
         w \in WriteInv(c, a, t, size, left), w.pdu # <<>>, ~c.allow_segmentation => t.off = 0,
         NEW u, u = [w |-> a - Len(w.frames), sn |-> w.sn, off |-> w.offset]
  PROVE  Continues(c, t, u, w.pdu)
<1> DEFINE n == Len(w.pdu)
           pdu == w.pdu
<1>1. /\ TxShape(c, a, w.frames, w.offset) /\ PduShape(c, t, pdu)
      /\ w.sn = SnOf(t, (a - Len(w.frames)) + 1) /\ w.sn \in Sn /\ pdu \in Seq(Segment)
      /\ AtFrame(a, t, w) \/ InFrame(a, t, w)
  BY DEF WriteInv, TxWork
<1>2. u.w = a - Len(w.frames) /\ u.sn = w.sn /\ u.off = w.offset
  OBVIOUS
<1>3. SenderOk(u)
  BY <1>1, SenderShape
<1>4. /\ t.w \in Nat /\ t.off \in Nat /\ u.w \in Nat /\ u.off \in Nat
  BY <1>3 DEF SenderOk, Sender
<1>5. n \in Nat \ {0}
  BY <1>1
<1>6. ASSUME NEW k \in 1..n
      PROVE  /\ pdu[k].frame = t.w + k /\ pdu[k].offset = Limit(t, t.w + k)
             /\ pdu[k].offset \in Nat /\ pdu[k].size \in Nat
             /\ (pdu[k].last => pdu[k].offset + pdu[k].size = FrameSize[t.w + k])
             /\ (k < n => pdu[k].last)
  <2>1. /\ pdu[k].frame = t.w + k /\ pdu[k].offset = IF k = 1 THEN t.off ELSE 0
        /\ (pdu[k].last => pdu[k].offset + pdu[k].size = FrameSize[pdu[k].frame])
        /\ (k < n => pdu[k].last)
    BY <1>1 DEF PduShape
  <2>2. Limit(t, t.w + k) = IF k = 1 THEN t.off ELSE 0
    <3>1. k \in Int /\ ~(t.w + k <= t.w) /\ (t.w + k = t.w + 1 <=> k = 1)
      BY <1>4, <1>5
    <3>2. QED
      BY <3>1 DEF Limit
  <2>3. pdu[k] \in Segment
    BY <1>1
  <2>4. QED
    BY <2>1, <2>2, <2>3 DEF Segment
<1> HIDE DEF n, pdu
<1>7. /\ u.w + (IF u.off = 0 THEN 0 ELSE 1) = t.w + n
      /\ t.w <= u.w
      /\ \A k \in 1..n : Limit(u, t.w + k) = pdu[k].offset + pdu[k].size
  <2>1. CASE AtFrame(a, t, w)
    <3>1. u.w = t.w + n /\ u.off = 0 /\ \A k \in 1..n : pdu[k].last
      BY <1>2, <2>1 DEF AtFrame, n, pdu
    <3>2. ASSUME NEW k \in 1..n PROVE Limit(u, t.w + k) = pdu[k].offset + pdu[k].size
      <4>1. t.w + k <= u.w
        BY <1>4, <1>5, <3>1
      <4>2. QED
        BY <1>6, <3>1, <4>1 DEF Limit
    <3>3. QED
      BY <1>4, <1>5, <3>1, <3>2
  <2>2. CASE InFrame(a, t, w)
    <3>1. u.w + 1 = t.w + n /\ u.off > 0 /\ u.off = pdu[n].offset + pdu[n].size
      BY <1>2, <2>2 DEF InFrame, n, pdu
    <3>2. ASSUME NEW k \in 1..n PROVE Limit(u, t.w + k) = pdu[k].offset + pdu[k].size
      <4>1. CASE k = n
        <5>1. t.w + k = u.w + 1 /\ ~(t.w + k <= u.w)
          BY <1>4, <1>5, <3>1, <4>1
        <5>2. QED
          BY <3>1, <4>1, <5>1 DEF Limit
      <4>2. CASE k # n
        <5>1. t.w + k <= u.w /\ k < n
          BY <1>4, <1>5, <3>1, <4>2
        <5>2. QED
          BY <1>6, <5>1 DEF Limit
      <4>3. QED
        BY <4>1, <4>2
    <3>3. u.off # 0 /\ t.w <= u.w
      BY <1>4, <1>5, <3>1
    <3>4. QED
      BY <3>1, <3>2, <3>3
  <2>3. QED
    BY <1>1, <2>1, <2>2
<1>8. Top(u) = t.w + n
  BY <1>4, <1>5, <1>7 DEF Top
<1>9. \A k \in 1..n : Octets(pdu[k]) = (Limit(t, t.w + k) + 1)..Limit(u, t.w + k)
  <2> TAKE k \in 1..n
  <2>1. pdu[k].offset = Limit(t, t.w + k) /\ Limit(u, t.w + k) = pdu[k].offset + pdu[k].size
    BY <1>6, <1>7
  <2>2. QED
    BY <2>1 DEF Octets
<1>10. u.sn = SnOf(t, u.w + 1) /\ PduShape(c, t, pdu) /\ pdu \in Seq(Segment) /\ pdu # <<>>
  BY <1>1, <1>2 DEF pdu
<1>11. n = Len(pdu)
  BY DEF n, pdu
<1>12. Continues(c, t, u, pdu)
  BY <1>3, <1>7, <1>8, <1>9, <1>10, <1>11 DEF Continues
<1>13. QED
  BY <1>12 DEF pdu

(* A common factor may be left out. *)
LEMMA TimesLess ==
  ASSUME NEW a \in Nat, NEW b \in Nat, NEW h \in Nat \ {0}, a * h <= b * h PROVE a <= b
<1> SUFFICES ASSUME a > b PROVE FALSE
  OBVIOUS
<1>1. a - b - 1 \in Nat
  OBVIOUS
<1>2. (a - b - 1) * h >= 0
  BY <1>1
<1>3. (a - b - 1) * h = a * h - b * h - h
  OBVIOUS
<1>4. QED
  BY <1>2, <1>3

(* The LLC took the PDU, so it overtakes no frame that is still expected by too much. *)
LEMMA LagKeeps ==
  ASSUME NEW c \in Setting, Orderly(c), NEW t, SenderOk(t), NEW b \in Nat, NEW rx, NEW A,
         RInv(c, t, b, rx, UnderWay(A)), ~GetState(c, rx, rx.next).is_complete,
         \A m \in A : \A k \in 1..Len(m) : m[k] \in Segment /\ m[1] \in Segment
                                           /\ m[1].frame <= m[k].frame,
         NEW n \in Nat, NEW size \in BufferSize, n * (HeaderSize + 1) <= size,
         \A m \in A : (t.w + n) - m[1].frame < c.max_lag
  PROVE  t.w + n <= (b + Len(rx.done)) + c.max_lag
<1> DEFINE s == b + Len(rx.done)
           f == s + 1
           st == Had(c, t, rx, f)
<1>1. /\ Window(c, t, rx, s) /\ StatesOk(c, t, rx, s) /\ Covered(c, t, rx, s, UnderWay(A))
  BY DEF RInv
<1>2. s \in Nat /\ s <= t.w /\ rx.next = SnOf(t, s + 1)
  BY <1>1 DEF Window
<1>3. t \in Sender /\ t.w \in Nat /\ c.max_lag \in Nat /\ Top(t) \in Nat /\ t.w <= Top(t)
      /\ Top(t) <= MaxFrame /\ MaxFrame \in Nat
  BY SettingType, SizeAssumption, TopType DEF SenderOk, Sender
<1>4. ~st.is_complete
  BY <1>2 DEF Had
<1> HIDE DEF s
<1>5. CASE s = t.w
  <2>1. size \in Nat /\ HeaderSize + 1 \in Nat \ {0} /\ size <= c.max_lag * (HeaderSize + 1)
    BY SizeAssumption DEF Orderly
  <2>2. n * (HeaderSize + 1) \in Int /\ c.max_lag * (HeaderSize + 1) \in Int
    BY <1>3, <2>1
  <2>3. n * (HeaderSize + 1) <= c.max_lag * (HeaderSize + 1)
    BY <2>1, <2>2
  <2>4. n <= c.max_lag
    BY <1>3, <2>1, <2>3, TimesLess
  <2>5. QED
    BY <1>2, <1>3, <1>5, <2>4 DEF s
<1>6. CASE s # t.w
  <2>1. f \in (s + 1)..Top(t) /\ f <= t.w /\ f \in Frame /\ f \in Nat
    BY <1>2, <1>3, <1>6 DEF Frame
  <2>2. GoodState(st, f) /\ FrameSize[f] \in Nat
    BY <1>1, <2>1, SizeAssumption DEF StatesOk
  <2>3. f = s + 1 /\ st = Had(c, t, rx, f)
    OBVIOUS
  <2> HIDE DEF f, st
  <2>4. Got(st, f) # 1..FrameSize[f] /\ Got(st, f) \subseteq 1..FrameSize[f]
    BY <1>4, <2>1, <2>2, GotFinite DEF GoodState
  <2>5. PICK i \in 1..FrameSize[f] : i \notin Got(st, f)
    BY <2>4
  <2>6. Limit(t, f) = FrameSize[f]
    BY <2>1 DEF Limit
  <2>7. PICK x \in UnderWay(A) : At(x).frame = f
    BY <1>1, <2>1, <2>3, <2>5, <2>6 DEF Covered
  <2>8. PICK m \in A : \E k \in 1..Len(m) : x = <<m, k>>
    BY <2>7, UnderWayIs
  <2>9. PICK k \in 1..Len(m) : x = <<m, k>>
    BY <2>8
  <2>10. m[k].frame = f
    BY <2>7, <2>9 DEF At
  <2>11. m[1].frame \in Int /\ m[1].frame <= f
    <3>1. m[1] \in Segment /\ m[1].frame <= m[k].frame
      BY <2>9
    <3>2. QED
      BY <2>10, <3>1, <1>3 DEF Segment, Frame
  <2>12. (t.w + n) - m[1].frame < c.max_lag
    BY <2>8
  <2>13. t.w + n <= s + c.max_lag
    BY <1>2, <1>3, <2>3, <2>11, <2>12, SMTT(30)
  <2>14. QED
    BY <2>13 DEF s
<1>7. QED
  BY <1>5, <1>6

(* Nothing is written of the frames after Top. *)
LEMMA LimitType ==
  ASSUME NEW t \in Sender, NEW f \in Frame
  PROVE  /\ Limit(t, f) \in Nat
         /\ f > Top(t) => Limit(t, f) = 0
<1>1. t.w \in Nat /\ t.off \in Nat /\ FrameSize[f] \in Nat /\ f \in Int
  BY SizeAssumption DEF Sender, Frame
<1>2. QED
  BY <1>1 DEF Limit, Top

(* What was received of the frames of which nothing was written yet: nothing. *)
LEMMA NothingReceived ==
  ASSUME NEW c \in Setting, Orderly(c), NEW t \in Sender, NEW s, NEW rx, Window(c, t, rx, s),
         NEW f \in (Top(t) + 1)..(s + c.max_lag)
  PROVE  Had(c, t, rx, f) = Fresh
<1> DEFINE sn == SnOf(t, f)
<1>1. rx \in RxWork(c) /\ s \in Nat /\ Placed(c, t, rx, s) /\ rx.overflow \in Seq(Entry)
  BY RxFields DEF Window
<1>2. c.max_lag \in Nat /\ SnMod \in Nat /\ c.max_lag <= SnMod /\ Top(t) \in Nat
      /\ c.reorder_size \in Nat
  BY SettingType, SizeAssumption, TopType DEF Orderly
<1>3. sn \in Sn
  BY <1>1, <1>2, SnOfType
<1>4. ~OfWindow(t, s, sn)
  <2> SUFFICES ASSUME NEW g \in (s + 1)..Top(t), sn = SnOf(t, g) PROVE FALSE
    BY DEF OfWindow
  <2>1. f \in Int /\ g \in Int /\ f - g < SnMod /\ g - f < SnMod /\ f # g
    BY <1>1, <1>2
  <2>2. f = g
    BY <2>1, SnOfDistinct
  <2>3. QED
    BY <2>1, <2>2
<1>5. OverflowPlaced(c, t, rx, s) /\ RingPlaced(c, t, rx, s)
  BY <1>1 DEF Placed
<1>6. \A k \in 1..Len(rx.overflow) : rx.overflow[k].sn # sn
  BY <1>4, <1>5 DEF OverflowPlaced
<1>7. ~InRing(c, rx, sn)
  <2> SUFFICES ASSUME InRing(c, rx, sn) PROVE FALSE
    OBVIOUS
  <2>1. /\ c.reorder_size \in Nat \ {0} /\ rx.ring[Index(c, sn)].valid
        /\ rx.ring[Index(c, sn)].sn = sn /\ sn \in Int
    BY <1>2, <1>3, SizeAssumption DEF InRing, Sn
  <2>2. Index(c, sn) \in 0..(c.reorder_size - 1)
    BY <2>1, Summing!DivMod DEF Index
  <2>3. QED
    BY <1>4, <1>5, <2>1, <2>2 DEF RingPlaced
<1>8. GetState(c, rx, sn) = Fresh
  BY <1>1, <1>5, <1>6, <1>7, GetStateIs
<1>9. QED
  BY <1>8 DEF Had

(* A PDU is handed to the LLC. *)
LEMMA WriteKeeps ==
  ASSUME NEW c \in Setting, Orderly(c), NEW t, NEW u, NEW pdu, Continues(c, t, u, pdu),
         NEW b \in Nat, NEW rx, NEW A, RInv(c, t, b, rx, UnderWay(A)),
         Top(u) <= (b + Len(rx.done)) + c.max_lag
  PROVE  RInv(c, u, b, rx, UnderWay(A \cup {pdu}))
<1> DEFINE s == b + Len(rx.done)
           n == Len(pdu)
           T == UnderWay(A)
           U == UnderWay(A \cup {pdu})
<1>1. /\ Window(c, t, rx, s) /\ DoneOk(b, rx) /\ StatesOk(c, t, rx, s)
      /\ (\A y \in T : SegOk(c, t, rx, s, At(y))) /\ Apart(T) /\ Covered(c, t, rx, s, T)
  BY DEF RInv
<1>2. /\ rx \in RxWork(c) /\ s \in Nat /\ s <= t.w /\ Top(t) <= s + c.max_lag
      /\ rx.next = SnOf(t, s + 1) /\ Placed(c, t, rx, s)
  BY <1>1 DEF Window
<1>3. /\ SenderOk(t) /\ SenderOk(u) /\ t.w <= u.w /\ u.sn = SnOf(t, u.w + 1)
      /\ pdu \in Seq(Segment) /\ PduShape(c, t, pdu) /\ Top(u) = t.w + n
      /\ (~c.allow_segmentation => t.off = 0)
      /\ \A k \in 1..n : Octets(pdu[k]) = (Limit(t, t.w + k) + 1)..Limit(u, t.w + k)
  BY DEF Continues
<1>4. /\ t \in Sender /\ u \in Sender /\ t.w \in Nat /\ t.off \in Nat /\ u.w \in Nat
      /\ Top(t) \in Nat /\ Top(u) \in Nat /\ t.w <= Top(t) /\ Top(t) <= t.w + 1
      /\ Top(u) <= MaxFrame /\ MaxFrame \in Nat /\ c.max_lag \in Nat /\ n \in Nat
  BY <1>3, TopType, SizeAssumption, SettingType DEF SenderOk, Sender
<1>5. \A x : x \in U <=> x \in T \/ \E k \in 1..n : x = <<pdu, k>>
  <2> TAKE x
  <2>1. x \in U <=> \E m \in A \cup {pdu} : \E k \in 1..Len(m) : x = <<m, k>>
    BY UnderWayIs
  <2>2. x \in T <=> \E m \in A : \E k \in 1..Len(m) : x = <<m, k>>
    BY UnderWayIs
  <2> HIDE DEF T, U
  <2>3. QED
    BY <2>1, <2>2
<1>6. Top(u) <= s + c.max_lag
  OBVIOUS
<1> HIDE DEF s, n, T, U
<1>7. /\ Top(u) = t.w + n /\ t.w <= u.w /\ s \in Nat /\ s <= t.w /\ n \in Nat /\ t.w \in Nat
      /\ u.w \in Nat
  BY <1>2, <1>3, <1>4
<1>8. ASSUME NEW k \in 1..n
      PROVE  /\ pdu[k] \in Segment /\ pdu[k].frame = t.w + k /\ pdu[k].sn = SnOf(t, t.w + k)
             /\ pdu[k].offset = (IF k = 1 THEN t.off ELSE 0)
             /\ (pdu[k].last <=> pdu[k].offset + pdu[k].size = FrameSize[pdu[k].frame])
             /\ (~c.allow_segmentation => pdu[k].last)
             /\ t.w + k \in (s + 1)..Top(u)
  <2>1. pdu[k] \in Segment
    BY <1>3 DEF n
  <2>2. t.w + k \in (s + 1)..Top(u)
    BY <1>7
  <2>3. QED
    BY <1>3, <2>1, <2>2 DEF PduShape, n
<1>9. \A f \in Int : SnOf(u, f) = SnOf(t, f) /\ Had(c, u, rx, f) = Had(c, t, rx, f)
  BY <1>3, <1>4, SnOfLater DEF Had
<1>10. Top(t) <= Top(u)
  <2>1. n # 0
    BY <1>3 DEF n, Continues
  <2>2. QED
    BY <1>3, <1>4, <2>1
<1>11. ASSUME NEW f \in (s + 1)..Top(u)
       PROVE  /\ f \in Frame /\ f \in Int
              /\ Limit(t, f) \in Nat /\ Limit(u, f) \in Nat /\ Limit(t, f) <= Limit(u, f)
              /\ GoodState(Had(c, t, rx, f), f)
              /\ Got(Had(c, t, rx, f), f) \subseteq 1..Limit(t, f)
  <2>1. f \in Frame /\ f \in Int
    BY <1>2, <1>4 DEF Frame
  <2>2. Limit(t, f) \in Nat /\ Limit(u, f) \in Nat
    BY <1>4, <2>1, LimitType
  <2>3. Limit(t, f) <= Limit(u, f)
    <3>1. CASE f <= t.w
      <4>1. f <= u.w
        BY <1>3, <1>4, <2>1, <3>1
      <4>2. QED
        BY <2>2, <3>1, <4>1 DEF Limit
    <3>2. CASE ~(f <= t.w)
      <4> DEFINE k == f - t.w
      <4>1. k \in 1..n /\ t.w + k = f
        BY <1>7, <2>1, <3>2
      <4> HIDE DEF k
      <4>2. Octets(pdu[k]) = (Limit(t, f) + 1)..Limit(u, f) /\ pdu[k] \in Segment
        BY <1>3, <1>8, <4>1
      <4>3. pdu[k].offset + 1 \in Octets(pdu[k])
        BY <4>2 DEF Octets, Segment
      <4>4. pdu[k].offset + 1 \in (Limit(t, f) + 1)..Limit(u, f)
        BY <4>2, <4>3
      <4>5. pdu[k].offset \in Int
        BY <4>2 DEF Segment
      <4>6. QED
        BY <2>2, <4>4, <4>5
    <3>3. QED
      BY <3>1, <3>2
  <2>4. CASE f <= Top(t)
    <3>1. f \in (s + 1)..Top(t)
      BY <1>2, <1>4, <2>1, <2>4
    <3>2. QED
      BY <1>1, <2>1, <2>2, <2>3, <3>1 DEF StatesOk
  <2>5. CASE ~(f <= Top(t))
    <3>1. f \in (Top(t) + 1)..(s + c.max_lag)
      BY <1>2, <1>4, <1>6, <2>1, <2>5, SMTT(30)
    <3>2. Had(c, t, rx, f) = Fresh
      BY <1>1, <1>4, <3>1, NothingReceived
    <3>3. GoodState(Fresh, f) /\ Got(Fresh, f) = {}
      BY <2>1, FreshGood
    <3>4. QED
      BY <2>1, <2>2, <2>3, <3>2, <3>3
  <2>6. QED
    BY <2>4, <2>5
<1>12. \A sn : OfWindow(t, s, sn) => OfWindow(u, s, sn)
  <2> SUFFICES ASSUME NEW sn, NEW f \in (s + 1)..Top(t), sn = SnOf(t, f) PROVE OfWindow(u, s, sn)
    BY DEF OfWindow
  <2>1. f \in (s + 1)..Top(u) /\ f \in Int
    BY <1>2, <1>4, <1>10
  <2>2. SnOf(u, f) = sn
    BY <1>9, <2>1
  <2>3. QED
    BY <2>1, <2>2 DEF OfWindow
<1>13. Window(c, u, rx, s)
  <2>1. Placed(c, u, rx, s)
    BY <1>2, <1>12 DEF Placed, RingPlaced, OverflowPlaced
  <2>2. s <= u.w /\ s + 1 \in Int
    BY <1>7
  <2>3. rx.next = SnOf(u, s + 1)
    BY <1>2, <1>9, <2>2
  <2>4. QED
    BY <1>2, <1>6, <2>1, <2>2, <2>3 DEF Window
<1>14. StatesOk(c, u, rx, s)
  <2> SUFFICES ASSUME NEW f \in (s + 1)..Top(u)
               PROVE  /\ GoodState(Had(c, u, rx, f), f)
                      /\ Got(Had(c, u, rx, f), f) \subseteq 1..Limit(u, f)
    BY DEF StatesOk
  <2>1. /\ f \in Int /\ Limit(t, f) \in Nat /\ Limit(u, f) \in Nat /\ Limit(t, f) <= Limit(u, f)
        /\ GoodState(Had(c, t, rx, f), f) /\ Got(Had(c, t, rx, f), f) \subseteq 1..Limit(t, f)
    BY <1>11
  <2>2. 1..Limit(t, f) \subseteq 1..Limit(u, f)
    BY <2>1
  <2>3. QED
    BY <1>9, <2>1, <2>2
<1>15. ASSUME NEW x \in T PROVE SegOk(c, u, rx, s, At(x))
  <2> DEFINE g == At(x)
             f == g.frame
  <2>1. SegOk(c, t, rx, s, g)
    BY <1>1
  <2> HIDE DEF g
  <2>2. /\ f \in (s + 1)..Top(t) /\ g.sn = SnOf(t, f) /\ Octets(g) \subseteq 1..Limit(t, f)
        /\ Octets(g) \cap Got(Had(c, t, rx, f), f) = {}
    BY <2>1 DEF SegOk
  <2>3. f \in (s + 1)..Top(u)
    BY <1>2, <1>4, <1>10, <2>2
  <2>4. /\ f \in Int /\ Limit(t, f) \in Nat /\ Limit(u, f) \in Nat /\ Limit(t, f) <= Limit(u, f)
    BY <1>11, <2>3
  <2>5. 1..Limit(t, f) \subseteq 1..Limit(u, f)
    BY <2>4
  <2>6. g.sn = SnOf(u, f) /\ Had(c, u, rx, f) = Had(c, t, rx, f)
    BY <1>9, <2>2, <2>4
  <2>7. SegOk(c, u, rx, s, g)
    BY <2>1, <2>2, <2>3, <2>5, <2>6 DEF SegOk
  <2>8. QED
    BY <2>7 DEF g
<1>16. ASSUME NEW k \in 1..n PROVE SegOk(c, u, rx, s, pdu[k])
  <2> DEFINE g == pdu[k]
             f == t.w + k
  <2>1. /\ g \in Segment /\ g.frame = f /\ g.sn = SnOf(t, f)
        /\ g.offset = (IF k = 1 THEN t.off ELSE 0)
        /\ (g.last <=> g.offset + g.size = FrameSize[g.frame])
        /\ (~c.allow_segmentation => g.last)
        /\ f \in (s + 1)..Top(u)
    BY <1>8
  <2>2. Octets(g) = (Limit(t, f) + 1)..Limit(u, f)
    BY <1>3
  <2> HIDE DEF g, f
  <2>3. /\ f \in Int /\ Limit(t, f) \in Nat /\ Limit(u, f) \in Nat
        /\ Got(Had(c, t, rx, f), f) \subseteq 1..Limit(t, f)
    BY <1>11, <2>1
  <2>4. Octets(g) \subseteq 1..Limit(u, f)
    BY <2>2, <2>3
  <2>5. Octets(g) \cap Got(Had(c, u, rx, f), f) = {}
    <3>1. ((Limit(t, f) + 1)..Limit(u, f)) \cap (1..Limit(t, f)) = {}
      BY <2>3
    <3>2. Had(c, u, rx, f) = Had(c, t, rx, f)
      BY <1>9, <2>3
    <3>3. QED
      BY <2>2, <2>3, <3>1, <3>2
  <2>6. g.sn = SnOf(u, f)
    BY <1>9, <2>1, <2>3
  <2>7. ~c.allow_segmentation => g.offset = 0
    BY <1>3, <2>1
  <2>8. SegOk(c, u, rx, s, g)
    BY <2>1, <2>4, <2>5, <2>6, <2>7 DEF SegOk
  <2>9. QED
    BY <2>8 DEF g
<1>17. \A x \in U : SegOk(c, u, rx, s, At(x))
  <2> TAKE x \in U
  <2>1. CASE x \in T
    BY <1>15, <2>1
  <2>2. CASE \E k \in 1..n : x = <<pdu, k>>
    BY <1>16, <2>2 DEF At
  <2>3. QED
    BY <1>5, <2>1, <2>2
<1>18. ASSUME NEW x \in T, NEW k \in 1..n, At(x).frame = pdu[k].frame
       PROVE  Octets(At(x)) \cap Octets(pdu[k]) = {}
  <2> DEFINE f == t.w + k
  <2>1. pdu[k].frame = f /\ f \in (s + 1)..Top(u) /\ Octets(pdu[k]) = (Limit(t, f) + 1)..Limit(u, f)
    BY <1>3, <1>8
  <2>2. Octets(At(x)) \subseteq 1..Limit(t, f)
    BY <1>1, <1>18, <2>1 DEF SegOk
  <2> HIDE DEF f
  <2>3. Limit(t, f) \in Nat /\ Limit(u, f) \in Nat
    BY <1>11, <2>1
  <2>4. ((Limit(t, f) + 1)..Limit(u, f)) \cap (1..Limit(t, f)) = {}
    BY <2>3
  <2>5. QED
    BY <2>1, <2>2, <2>4
<1>19. Apart(U)
  <2> SUFFICES ASSUME NEW x \in U, NEW y \in U, x # y, At(x).frame = At(y).frame
               PROVE  Octets(At(x)) \cap Octets(At(y)) = {}
    BY DEF Apart
  <2>1. CASE x \in T /\ y \in T
    BY <1>1, <2>1 DEF Apart
  <2>2. ASSUME NEW k \in 1..n, x = <<pdu, k>> PROVE Octets(At(x)) \cap Octets(At(y)) = {}
    <3>1. At(x) = pdu[k]
      BY <2>2 DEF At
    <3>2. CASE y \in T
      BY <1>18, <3>1, <3>2
    <3>3. ASSUME NEW j \in 1..n, y = <<pdu, j>> PROVE FALSE
      <4>1. At(y) = pdu[j]
        BY <3>3 DEF At
      <4>2. pdu[k].frame = t.w + k /\ pdu[j].frame = t.w + j
        BY <1>8
      <4>3. j = k
        BY <1>4, <3>1, <4>1, <4>2
      <4>4. QED
        BY <2>2, <3>3, <4>3
    <3>4. QED
      BY <1>5, <3>2, <3>3
  <2>3. ASSUME x \in T, NEW k \in 1..n, y = <<pdu, k>> PROVE Octets(At(x)) \cap Octets(At(y)) = {}
    <3>1. At(y) = pdu[k]
      BY <2>3 DEF At
    <3>2. QED
      BY <1>18, <2>3, <3>1
  <2>4. QED
    BY <1>5, <2>1, <2>2, <2>3
<1>20. Covered(c, u, rx, s, U)
  <2> SUFFICES ASSUME NEW f \in (s + 1)..Top(u), NEW i \in 1..Limit(u, f)
               PROVE  \/ i \in Got(Had(c, u, rx, f), f)
                      \/ \E x \in U : At(x).frame = f /\ i \in Octets(At(x))
    BY DEF Covered
  <2>1. /\ f \in Frame /\ f \in Int /\ Limit(t, f) \in Nat /\ Limit(u, f) \in Nat
        /\ Had(c, u, rx, f) = Had(c, t, rx, f)
    BY <1>9, <1>11
  <2>2. CASE i \in 1..Limit(t, f)
    <3>1. f <= Top(t)
      <4> SUFFICES ASSUME f > Top(t) PROVE FALSE
        BY <1>4, <2>1
      <4>1. Limit(t, f) = 0
        BY <1>4, <2>1, LimitType
      <4>2. QED
        BY <2>2, <4>1
    <3>2. f \in (s + 1)..Top(t)
      BY <1>2, <1>4, <2>1, <3>1
    <3>3. \/ i \in Got(Had(c, t, rx, f), f)
          \/ \E x \in T : At(x).frame = f /\ i \in Octets(At(x))
      BY <1>1, <2>2, <3>2 DEF Covered
    <3>4. QED
      BY <1>5, <2>1, <3>3
  <2>3. CASE i \notin 1..Limit(t, f)
    <3>1. i \in (Limit(t, f) + 1)..Limit(u, f)
      BY <2>1, <2>3
    <3>2. ~(f <= t.w)
      <4> SUFFICES ASSUME f <= t.w PROVE FALSE
        OBVIOUS
      <4>1. f <= u.w
        BY <1>3, <1>4, <2>1, SMTT(30)
      <4>2. Limit(u, f) = Limit(t, f)
        BY <4>1 DEF Limit
      <4>3. QED
        BY <2>3, <4>2
    <3> DEFINE k == f - t.w
    <3>3. k \in 1..n /\ t.w + k = f
      BY <1>7, <2>1, <3>2
    <3> HIDE DEF k
    <3>4. Octets(pdu[k]) = (Limit(t, f) + 1)..Limit(u, f) /\ pdu[k].frame = f
      BY <1>3, <1>8, <3>3
    <3>5. At(<<pdu, k>>) = pdu[k] /\ <<pdu, k>> \in U
      BY <1>5, <3>3 DEF At
    <3>6. QED
      BY <3>1, <3>4, <3>5
  <2>4. QED
    BY <2>2, <2>3
<1>21. QED
  BY <1>1, <1>13, <1>14, <1>17, <1>19, <1>20 DEF RInv, s, U

(* A channel that was just established. *)
LEMMA EmptyKeeps ==
  ASSUME NEW c \in Setting, NEW a \in 0..MaxFrame, NEW t, t = [w |-> a, sn |-> 0, off |-> 0],
         NEW rx, rx = [ring |-> EmptyRing(c), overflow |-> <<>>, next |-> 0, done |-> <<>>,
                       bytes |-> 0]
  PROVE  SenderOk(t) /\ RInv(c, t, a, rx, UnderWay({})) /\ ~GetState(c, rx, rx.next).is_complete
<1>1. /\ t.w = a /\ t.sn = 0 /\ t.off = 0 /\ a \in Nat /\ a <= MaxFrame /\ 0 \in Sn
  BY SizeAssumption DEF Sn
<1>2. t \in Sender
  BY <1>1 DEF Sender
<1>3. Top(t) = a
  BY <1>1 DEF Top
<1>4. SenderOk(t)
  BY <1>1, <1>2, <1>3 DEF SenderOk
<1>5. /\ rx.ring = EmptyRing(c) /\ rx.overflow = <<>> /\ rx.next = 0 /\ rx.done = <<>>
      /\ rx.bytes = 0
  OBVIOUS
<1>6. rx \in RxWork(c)
  BY RxEmpty
<1>7. a + Len(rx.done) = a
  BY <1>1, <1>5
<1>8. \A i \in 0..(c.reorder_size - 1) : ~rx.ring[i].valid
  BY <1>5 DEF EmptyRing, EmptySlot
<1>9. Placed(c, t, rx, a)
  BY <1>5, <1>8 DEF Placed, RingPlaced, OverflowPlaced
<1>10. Window(c, t, rx, a)
  <2>1. rx.next = SnOf(t, a + 1)
    BY <1>1, <1>2, <1>5, SnOfFirst
  <2>2. c.max_lag \in Nat
    BY SettingType
  <2>3. a <= t.w /\ Top(t) <= a + c.max_lag
    BY <1>1, <1>3, <2>2
  <2>4. QED
    BY <1>1, <1>6, <1>9, <2>1, <2>3 DEF Window
<1>11. DoneOk(a, rx)
  <2>1. DOMAIN Lens(<<>>) = 1..0
    BY DEF Lens
  <2>2. SumOf(Lens(<<>>)) = 0
    BY <2>1, SumEmpty
  <2>3. QED
    BY <1>5, <2>2 DEF DoneOk
<1>12. (a + 1)..Top(t) = {}
  BY <1>1, <1>3
<1>13. StatesOk(c, t, rx, a) /\ Covered(c, t, rx, a, UnderWay({}))
  BY <1>12 DEF StatesOk, Covered
<1>14. UnderWay({}) = {}
  BY DEF UnderWay
<1>15. Apart(UnderWay({}))
  BY <1>14 DEF Apart
<1>16. RInv(c, t, a, rx, UnderWay({}))
  BY <1>7, <1>10, <1>11, <1>13, <1>14, <1>15 DEF RInv
<1>17. ~GetState(c, rx, rx.next).is_complete
  <2>1. ~InRing(c, rx, 0)
    <3> SUFFICES ASSUME InRing(c, rx, 0) PROVE FALSE
      OBVIOUS
    <3>1. c.reorder_size \in Nat \ {0} /\ rx.ring[Index(c, 0)].valid
      BY SettingType DEF InRing
    <3>2. Index(c, 0) \in 0..(c.reorder_size - 1)
      <4>1. 0 \in Int /\ c.reorder_size # 0
        BY <3>1
      <4>2. 0 % c.reorder_size \in 0..(c.reorder_size - 1)
        BY <3>1, <4>1, Summing!DivMod
      <4>3. QED
        BY <4>1, <4>2 DEF Index
    <3>3. QED
      BY <1>8, <3>1, <3>2
  <2>2. \A k \in 1..Len(rx.overflow) : rx.overflow[k].sn # 0
    BY <1>5
  <2>3. OverflowPlaced(c, t, rx, a)
    BY <1>9 DEF Placed
  <2>4. GetState(c, rx, 0) = Fresh
    BY <1>6, <2>1, <2>2, <2>3, GetStateIs
  <2>5. QED
    BY <1>5, <2>4 DEF Fresh
<1>18. QED
  BY <1>4, <1>16, <1>17

(* The size of a frame that is popped is taken off. *)
LEMMA LensTail ==
  ASSUME NEW done \in Seq(Buffer), done # <<>>
  PROVE  /\ SumOf(Lens(Tail(done))) \in Nat /\ Len(Head(done)) \in Nat
         /\ SumOf(Lens(done)) = Len(Head(done)) + SumOf(Lens(Tail(done)))
<1> DEFINE n == Len(done) - 1
           seq == Lens(done)
           less == Lens(Tail(done))
<1>1. n \in Nat /\ n + 1 = Len(done) /\ Tail(done) \in Seq(Buffer) /\ Len(Tail(done)) = n
  OBVIOUS
<1>2. \A k \in 1..n : Tail(done)[k] = done[k + 1]
  OBVIOUS
<1>3. DOMAIN seq = 1..(n + 1) /\ \A k \in 1..(n + 1) : seq[k] \in Nat
  BY <1>1, LensShape
<1>4. DOMAIN less = 1..n /\ \A k \in 1..n : less[k] = seq[k + 1]
  <2>1. DOMAIN less = 1..n
    BY <1>1, LensShape
  <2>2. ASSUME NEW k \in 1..n PROVE less[k] = seq[k + 1]
    <3>1. k + 1 \in 1..Len(done) /\ k \in 1..Len(Tail(done))
      BY <1>1
    <3>2. less[k] = Len(Tail(done)[k]) /\ seq[k + 1] = Len(done[k + 1])
      BY <1>1, <3>1, LensShape
    <3>3. QED
      BY <1>2, <3>2
  <2>3. QED
    BY <2>1, <2>2
<1>5. seq[1] = Len(Head(done)) /\ seq[1] \in Nat
  <2>1. 1 \in 1..Len(done) /\ Head(done) = done[1]
    BY <1>1
  <2>2. QED
    BY <2>1, LensShape
<1> HIDE DEF seq, less, n
<1>6. SumOf(less) \in Nat /\ SumOf(seq) = seq[1] + SumOf(less)
  BY <1>1, <1>3, <1>4, SumLess
<1>7. QED
  BY <1>5, <1>6 DEF seq, less

(* A frame is popped. *)
Popped(rx, v) ==
  /\ rx.done # <<>> /\ v.done = Tail(rx.done)
  /\ v.ring = rx.ring /\ v.overflow = rx.overflow /\ v.next = rx.next
  /\ LET size == Len(Head(rx.done))
     IN  v.bytes = IF rx.bytes >= size THEN rx.bytes - size ELSE 0

(* pop keeps the invariant; the frame that was popped counts as done with. *)
LEMMA PopKeeps ==
  ASSUME NEW c, NEW t, NEW b \in Nat, NEW d, d = b + 1, NEW rx, NEW T, RInv(c, t, b, rx, T),
         NEW v \in RxWork(c), Popped(rx, v)
  PROVE  /\ RInv(c, t, d, v, T)
         /\ \A sn : GetState(c, v, sn) = GetState(c, rx, sn)
<1> DEFINE s == b + Len(rx.done)
           n == Len(rx.done) - 1
           size == Len(Head(rx.done))
<1>1. /\ Window(c, t, rx, s) /\ DoneOk(b, rx) /\ StatesOk(c, t, rx, s)
      /\ (\A y \in T : SegOk(c, t, rx, s, At(y))) /\ Apart(T) /\ Covered(c, t, rx, s, T)
  BY DEF RInv
<1>2. rx \in RxWork(c) /\ s \in Nat
  BY <1>1 DEF Window
<1>3. rx.done \in Seq(Buffer) /\ v.done \in Seq(Buffer)
  BY <1>2, RxFields
<1>4. /\ n \in Nat /\ Len(rx.done) = n + 1 /\ Len(v.done) = n
      /\ \A k \in 1..n : v.done[k] = rx.done[k + 1]
  BY <1>3 DEF Popped
<1>5. (b + 1) + Len(v.done) = s
  <2> DEFINE q == Len(v.done)
  <2>1. s = b + (n + 1) /\ q = n /\ n \in Nat
    BY <1>4
  <2> HIDE DEF s, n, q
  <2>2. (b + 1) + q = s
    BY <2>1
  <2>3. QED
    BY <2>2 DEF q
<1>6. \A sn : GetState(c, v, sn) = GetState(c, rx, sn) /\ (InRing(c, v, sn) <=> InRing(c, rx, sn))
  BY DEF GetState, InRing, OverflowIndex, Popped
<1>7. \A f : Had(c, t, v, f) = Had(c, t, rx, f)
  BY <1>6 DEF Had
<1> HIDE DEF s, n
<1>8. Window(c, t, v, s)
  BY <1>1, <1>6 DEF Popped, Window, Placed, RingPlaced, OverflowPlaced
<1>9. ASSUME NEW k \in 1..Len(v.done) PROVE IsFrame(v.done[k], (b + 1) + k)
  <2>1. k \in 1..n
    BY <1>4
  <2>2. k + 1 \in 1..(n + 1) /\ (b + 1) + k = b + (k + 1)
    BY <1>4, <2>1
  <2>3. QED
    BY <1>1, <1>4, <2>1, <2>2 DEF DoneOk
<1>10. v.bytes = SumOf(Lens(v.done))
  <2> DEFINE all == SumOf(Lens(rx.done))
             less == SumOf(Lens(v.done))
  <2>1. rx.bytes = all /\ v.bytes = IF rx.bytes >= size THEN rx.bytes - size ELSE 0
    BY <1>1 DEF DoneOk, Popped
  <2>2. rx.done # <<>> /\ v.done = Tail(rx.done)
    BY DEF Popped
  <2>3. less \in Nat /\ size \in Nat /\ all = size + less
    BY <1>3, <2>2, LensTail
  <2> HIDE DEF size, all, less
  <2>4. v.bytes = less
    BY <2>1, <2>3
  <2>5. QED
    BY <2>4 DEF less
<1>11. DoneOk(d, v)
  BY <1>9, <1>10 DEF DoneOk
<1>12. StatesOk(c, t, v, s) /\ Covered(c, t, v, s, T)
  BY <1>1, <1>7 DEF StatesOk, Covered
<1>13. \A y \in T : SegOk(c, t, v, s, At(y))
  BY <1>1, <1>7 DEF SegOk
<1>14. RInv(c, t, d, v, T)
  BY <1>1, <1>5, <1>8, <1>11, <1>12, <1>13 DEF RInv
<1>15. QED
  BY <1>6, <1>14
-----------------------------------------------------------------------------
(***************************************************************************)
(* The inductive invariant.  Base counts the frames that were popped or    *)
(* dropped.                                                                *)
(***************************************************************************)
Base == settled - Len(completed_frames)
Ordered ==
  /\ settled \in Nat /\ Base \in Nat
  /\ SenderOk(Sent)
  /\ RInv(config, Sent, Base, Received, UnderWay(air))
  /\ ~GetState(config, Received, Received.next).is_complete
  /\ \A m \in air : \A k \in 1..Len(m) : m[1].frame <= m[k].frame
IInv == TInv /\ (Orderly(config) => Ordered)

(* The invariant holds in the beginning. *)
LEMMA IInit == Init => IInv
<1> SUFFICES ASSUME Init PROVE IInv
  OBVIOUS
<1>1. TInv
  BY TInit
<1>2. config \in Setting /\ accepted = 0 /\ settled = 0 /\ completed_frames = <<>> /\ air = {}
      /\ 0 \in 0..MaxFrame
  BY SizeAssumption DEF Init
<1>3. Base = 0
  <2> DEFINE n == Len(completed_frames)
  <2>1. n = 0
    BY <1>2
  <2>2. Base = 0 - n
    BY <1>2 DEF Base
  <2> HIDE DEF n
  <2>3. QED
    BY <2>1, <2>2
<1>4. Sent = [w |-> 0, sn |-> 0, off |-> 0]
  BY DEF Init, Sent
<1>5. Received = [ring |-> EmptyRing(config), overflow |-> <<>>, next |-> 0, done |-> <<>>,
                  bytes |-> 0]
  BY DEF Init, Received
<1>6. /\ SenderOk(Sent) /\ RInv(config, Sent, 0, Received, UnderWay({}))
      /\ ~GetState(config, Received, Received.next).is_complete
  BY <1>2, <1>4, <1>5, EmptyKeeps
<1>7. Ordered
  BY <1>2, <1>3, <1>6 DEF Ordered
<1>8. QED
  BY <1>1, <1>7 DEF IInv

(* pop and the other fields of pdcp_dl. *)
LEMMA ReceivedIs ==
  ASSUME TInv
  PROVE  /\ Received \in RxWork(config) /\ Received.done = completed_frames
         /\ Received.bytes = outstanding_bytes /\ Received.next = next_expected_sn
         /\ completed_frames \in Seq(Buffer) /\ Len(completed_frames) \in Nat
<1>1. Received \in RxWork(config) /\ Received.done = completed_frames
      /\ Received.bytes = outstanding_bytes /\ Received.next = next_expected_sn
  BY DEF TInv, Received
<1>2. completed_frames \in Seq(Buffer)
  BY <1>1, RxFields
<1>3. QED
  BY <1>1, <1>2

(* on_frame_data changes nothing that was written or received. *)
LEMMA AcceptOrdered ==
  ASSUME TInv, Ordered, on_frame_data PROVE Ordered'
<1>1. accepted' = accepted + 1 /\ Len(outstanding_buffers') = Len(outstanding_buffers) + 1
  BY AcceptShape
<1>2. UNCHANGED <<config, data_offset, sequence_number, air, completed_frames, Received, settled>>
  BY DEF on_frame_data, dl, Received
<1>3. accepted \in Int /\ Len(outstanding_buffers) \in Int
  BY SizeAssumption DEF TInv, TxShape
<1>4. Sent' = Sent
  <2> DEFINE n == Len(outstanding_buffers)
  <2>1. n \in Int /\ accepted' - Len(outstanding_buffers') = (accepted + 1) - (n + 1)
    BY <1>1, <1>3
  <2> HIDE DEF n
  <2>2. (accepted + 1) - (n + 1) = accepted - n
    BY <1>3, <2>1
  <2>3. QED
    BY <1>2, <2>1, <2>2 DEF Sent, n
<1>5. Base' = Base
  BY <1>2 DEF Base
<1>6. QED
  BY <1>2, <1>4, <1>5 DEF Ordered

(* write_pdcp: the new PDU has octets that no other has, and stays within the window. *)
LEMMA WriteOrdered ==
  ASSUME TInv, Orderly(config), Ordered, NEW size \in BufferSize, write_pdcp(size)
  PROVE  Ordered'
<1> DEFINE w == Written(size)
           left == Left(outstanding_buffers, data_offset)
           u == [w |-> accepted - Len(w.frames), sn |-> w.sn, off |-> w.offset]
           pdu == w.pdu
           n == Len(pdu)
<1>1. w = Written(size)
  OBVIOUS
<1> HIDE DEF w
<1>2. /\ w \in WriteInv(config, accepted, Sent, size, left) /\ size \in Nat
      /\ outstanding_buffers' = w.frames /\ data_offset' = w.offset
      /\ sequence_number' = w.sn /\ air' = air \cup {pdu}
      /\ pdu # <<>> /\ WithinLag(pdu)
      /\ UNCHANGED <<config, copies, dl, accepted, settled>>
  BY <1>1, WriteShape
<1>3. /\ config \in Setting /\ TxShape(config, accepted, outstanding_buffers, data_offset)
      /\ \A m \in air : m \in Seq(Segment)
  BY DEF TInv
<1>4. /\ settled \in Nat /\ Base \in Nat /\ SenderOk(Sent)
      /\ RInv(config, Sent, Base, Received, UnderWay(air))
      /\ ~GetState(config, Received, Received.next).is_complete
      /\ \A m \in air : \A k \in 1..Len(m) : m[1].frame <= m[k].frame
  BY DEF Ordered
<1>5. Sent' = u
  BY <1>2 DEF Sent
<1>6. UNCHANGED <<Received, Base>>
  BY <1>2 DEF Received, Base, dl
<1>7. Continues(config, Sent, u, pdu)
  <2>1. ~config.allow_segmentation => Sent.off = 0
    BY <1>3 DEF TxShape, Sent
  <2>2. QED
    BY <1>2, <1>4, <2>1, WriteContinues
<1> HIDE DEF u, pdu, left
<1>8. /\ pdu \in Seq(Segment) /\ PduShape(config, Sent, pdu) /\ SenderOk(u)
      /\ Top(u) = Sent.w + n /\ n \in Nat \ {0}
  BY <1>2, <1>7 DEF Continues
<1>9. \A k \in 1..n : pdu[k].frame = Sent.w + k
  BY <1>8 DEF PduShape
<1>10. n * (HeaderSize + 1) <= size
  <2> DEFINE r == w.room
             p == n * (HeaderSize + 1)
  <2>1. r \in Nat /\ Len(w.pdu) * (HeaderSize + 1) + r <= size
    BY <1>2 DEF WriteInv, TxWork
  <2>2. p + r <= size
    BY <2>1 DEF pdu
  <2>3. p \in Int
    BY <1>8, SizeAssumption
  <2> HIDE DEF r, p
  <2>4. p <= size
    BY <1>2, <2>1, <2>2, <2>3
  <2>5. QED
    BY <2>4 DEF p
<1>11. Top(u) <= (Base + Len(Received.done)) + config.max_lag
  <2>1. \A m \in air : (Sent.w + n) - m[1].frame < config.max_lag
    <3>1. n \in 1..n
      BY <1>8
    <3>2. pdu[n].frame = Sent.w + n
      BY <1>9, <3>1
    <3>3. QED
      BY <1>2, <3>2 DEF WithinLag, n
  <2>2. \A m \in air : \A k \in 1..Len(m) : m[k] \in Segment /\ m[1] \in Segment
                                            /\ m[1].frame <= m[k].frame
    <3> TAKE m \in air
    <3> TAKE k \in 1..Len(m)
    <3>1. m \in Seq(Segment)
      BY <1>3
    <3>2. 1 \in 1..Len(m)
      BY <3>1
    <3>3. QED
      BY <1>4, <3>1, <3>2
  <2>3. n \in Nat
    BY <1>8
  <2> HIDE DEF n
  <2>4. QED
    BY <1>3, <1>4, <1>8, <1>10, <2>1, <2>2, <2>3, LagKeeps
<1>12. RInv(config, u, Base, Received, UnderWay(air \cup {pdu}))
  BY <1>3, <1>4, <1>7, <1>11, WriteKeeps
<1>13. \A m \in air \cup {pdu} : \A k \in 1..Len(m) : m[1].frame <= m[k].frame
  <2>1. ASSUME NEW k \in 1..n PROVE pdu[1].frame <= pdu[k].frame
    <3>1. 1 \in 1..n /\ Sent.w \in Nat
      BY <1>4, <1>8 DEF SenderOk, Sender
    <3>2. pdu[1].frame = Sent.w + 1 /\ pdu[k].frame = Sent.w + k
      BY <1>9, <3>1
    <3>3. QED
      BY <1>8, <3>1, <3>2
  <2>2. QED
    BY <1>4, <2>1
<1>14. /\ Received' = Received /\ Base' = Base /\ settled' = settled /\ config' = config
       /\ air' = air \cup {pdu} /\ Sent' = u
  BY <1>2, <1>5, <1>6
<1>15. QED
  BY <1>4, <1>8, <1>12, <1>13, <1>14 DEF Ordered

(* What on_pdcp_data leaves is what pdcp_dl has. *)
LEMMA BecomesIs ==
  ASSUME NEW rx \in RxWork(config), Becomes(rx)
  PROVE  Received' = rx
<1>1. Received' = [ring |-> rx.ring, overflow |-> rx.overflow, next |-> rx.next,
                   done |-> rx.done, bytes |-> rx.bytes]
  BY DEF Becomes, Received
<1>2. QED
  BY <1>1, RxFields

(* on_pdcp_data: the segments of the PDU, then the flush. *)
LEMMA ReceiveOrdered ==
  ASSUME TInv, Orderly(config), Ordered, NEW m \in air, on_pdcp_data(m)
  PROVE  /\ Ordered' /\ Base' = Base /\ settled <= settled'
         /\ UNCHANGED <<config, ul, accepted>>
<1> DEFINE rx == Taken(Received, m)
           v == Flushed(rx)
<1>1. /\ config \in Setting /\ m \in Seq(Segment) /\ copies \in Nat
  BY DEF TInv
<1>2. /\ settled \in Nat /\ Base \in Nat /\ SenderOk(Sent)
      /\ RInv(config, Sent, Base, Received, UnderWay(air))
      /\ \A p \in air : \A k \in 1..Len(p) : p[1].frame <= p[k].frame
  BY DEF Ordered
<1>3. /\ Becomes(v) /\ UNCHANGED <<config, ul, accepted>>
      /\ \/ air' = air \ {m}
         \/ copies < config.max_copies
  BY DEF on_pdcp_data, Taken
<1>4. air' = air \ {m}
  <2>1. config.max_copies = 0
    BY DEF Orderly
  <2>2. QED
    BY <1>1, <1>3, <2>1
<1>5. RInv(config, Sent, Base, rx, UnderWay(air \ {m})) /\ rx.done = Received.done
  BY <1>1, <1>2, TakenKeeps
<1> HIDE DEF rx
<1>6. /\ RInv(config, Sent, Base, v, UnderWay(air \ {m}))
      /\ ~GetState(config, v, v.next).is_complete
      /\ Len(rx.done) <= Len(v.done)
  BY <1>1, <1>2, <1>5, FlushKeeps
<1> HIDE DEF v
<1>7. v \in RxWork(config)
  BY <1>6 DEF RInv, Window
<1>8. Received' = v
  BY <1>3, <1>7, BecomesIs
<1>9. /\ settled' = settled + Len(v.done) - Len(completed_frames) /\ completed_frames' = v.done
      /\ Len(completed_frames) <= Len(v.done)
  BY <1>3, <1>5, <1>6, ReceivedIs DEF Becomes
<1>10. Base' = Base /\ settled' \in Nat /\ settled <= settled'
  <2> DEFINE p == Len(completed_frames)
             q == Len(v.done)
  <2>1. p \in Nat /\ q \in Nat /\ p <= q /\ settled' = settled + q - p
    BY <1>7, <1>9, ReceivedIs, RxFields
  <2>2. Base = settled - p /\ Base' = settled' - q
    BY <1>9 DEF Base
  <2> HIDE DEF p, q
  <2>3. QED
    BY <1>2, <2>1, <2>2
<1>11. Sent' = Sent
  BY <1>3 DEF Sent, ul
<1>12. Ordered'
  <2>1. \A p \in air \ {m} : \A k \in 1..Len(p) : p[1].frame <= p[k].frame
    BY <1>2
  <2>2. config' = config
    BY <1>3
  <2>3. QED
    BY <1>2, <1>4, <1>6, <1>8, <1>10, <1>11, <2>1, <2>2 DEF Ordered
<1>13. QED
  BY <1>3, <1>10, <1>12

(* pop. *)
LEMMA PopOrdered ==
  ASSUME TInv, TInv', Ordered, pop PROVE Ordered' /\ Base' = Base + 1
<1> DEFINE size == Len(Head(completed_frames))
<1>v. PICK v : v = Received'
  OBVIOUS
<1>1. /\ completed_frames # <<>> /\ completed_frames' = Tail(completed_frames)
      /\ outstanding_bytes' = IF outstanding_bytes >= size THEN outstanding_bytes - size ELSE 0
      /\ UNCHANGED <<config, ul, air, copies, reorder_ring, overflow_deque, next_expected_sn,
                     accepted, settled>>
  BY DEF pop
<1>2. /\ settled \in Nat /\ Base \in Nat /\ SenderOk(Sent)
      /\ RInv(config, Sent, Base, Received, UnderWay(air))
      /\ ~GetState(config, Received, Received.next).is_complete
      /\ \A p \in air : \A k \in 1..Len(p) : p[1].frame <= p[k].frame
  BY DEF Ordered
<1>3. v \in RxWork(config)
  BY <1>v, <1>1 DEF TInv
<1>4. Popped(Received, v) /\ v.next = Received.next
  BY <1>v, <1>1 DEF Received, Popped
<1> HIDE DEF size
<1>6. /\ RInv(config, Sent, Base + 1, v, UnderWay(air))
      /\ \A sn : GetState(config, v, sn) = GetState(config, Received, sn)
  <2> DEFINE b == Base
             d == Base + 1
             rx == Received
             T == UnderWay(air)
  <2>1. b \in Nat /\ d = b + 1
    BY <1>2
  <2>2. RInv(config, Sent, b, rx, T)
    BY <1>2
  <2>3. Popped(rx, v)
    BY <1>4
  <2> HIDE DEF b, d, rx, T
  <2>4. /\ RInv(config, Sent, d, v, T)
        /\ \A sn : GetState(config, v, sn) = GetState(config, rx, sn)
    BY <1>3, <2>1, <2>2, <2>3, PopKeeps
  <2>5. QED
    BY <2>4 DEF d, rx, T
<1>7. Base' = Base + 1
  <2> DEFINE n == Len(completed_frames)
  <2>1. n \in Nat /\ Len(completed_frames') = n - 1
    BY <1>1, ReceivedIs
  <2>2. Base = settled - n /\ Base' = settled - (n - 1)
    BY <1>1, <2>1 DEF Base
  <2> HIDE DEF n
  <2>3. QED
    BY <1>2, <2>1, <2>2
<1>8. Sent' = Sent /\ Base + 1 \in Nat
  BY <1>1, <1>2 DEF Sent, ul
<1>9. config' = config /\ air' = air /\ settled' = settled /\ v = Received'
  BY <1>v, <1>1
<1>10. ~GetState(config, v, v.next).is_complete
  BY <1>2, <1>4, <1>6
<1>11. Ordered'
  BY <1>2, <1>6, <1>7, <1>8, <1>9, <1>10 DEF Ordered
<1>12. QED
  BY <1>7, <1>11

(* reset establishes the channel anew, whatever was before. *)
LEMMA ResetOrdered ==
  ASSUME TInv, reset PROVE Ordered' /\ Base' = accepted
<1>1. /\ config' \in Setting /\ Sent' = [w |-> accepted, sn |-> 0, off |-> 0]
      /\ settled' = accepted
      /\ Received' = [ring |-> EmptyRing(config'), overflow |-> <<>>, next |-> 0,
                      done |-> <<>>, bytes |-> 0]
      /\ air' = {} /\ completed_frames' = <<>>
  BY ResetShape DEF reset
<1>2. accepted \in 0..MaxFrame /\ accepted \in Nat
  BY SizeAssumption DEF TInv, TxShape
<1>3. Base' = accepted
  BY <1>1, <1>2 DEF Base
<1>4. /\ SenderOk(Sent') /\ RInv(config', Sent', accepted, Received', UnderWay({}))
      /\ ~GetState(config', Received', (Received').next).is_complete
  BY <1>1, <1>2, EmptyKeeps
<1>5. Ordered'
  BY <1>1, <1>2, <1>3, <1>4 DEF Ordered
<1>6. QED
  BY <1>3, <1>5

(* Every action keeps the invariant. *)
LEMMA INext ==
  ASSUME IInv, [Next]_vars PROVE IInv'
<1>1. TInv /\ TInv' /\ (Orderly(config) => Ordered)
  BY TNext DEF IInv
<1>2. CASE on_frame_data
  <2>1. config' = config
    BY <1>2 DEF on_frame_data
  <2>2. QED
    BY <1>1, <1>2, <2>1, AcceptOrdered DEF IInv
<1>3. ASSUME NEW size \in BufferSize, write_pdcp(size) PROVE IInv'
  <2>1. config' = config
    BY <1>3 DEF write_pdcp
  <2>2. QED
    BY <1>1, <1>3, <2>1, WriteOrdered DEF IInv
<1>4. ASSUME NEW m \in air, on_pdcp_data(m) PROVE IInv'
  <2>1. config' = config
    BY <1>4 DEF on_pdcp_data
  <2>2. QED
    BY <1>1, <1>4, <2>1, ReceiveOrdered DEF IInv
<1>5. ASSUME NEW m \in air, on_pdcp_data_damaged(m) PROVE IInv'
  <2>1. config' = config /\ copies < config.max_copies /\ copies \in Nat
    BY <1>1, <1>5 DEF on_pdcp_data_damaged, TInv
  <2>2. ~Orderly(config')
    BY <2>1 DEF Orderly
  <2>3. QED
    BY <1>1, <2>2 DEF IInv
<1>6. CASE pop
  <2>1. config' = config
    BY <1>6 DEF pop
  <2>2. QED
    BY <1>1, <1>6, <2>1, PopOrdered DEF IInv
<1>7. CASE reset
  BY <1>1, <1>7, ResetOrdered DEF IInv
<1>8. CASE reconfigure \/ UNCHANGED vars
  <2>1. UNCHANGED <<config, air, settled, Sent, Base, Received>>
    BY <1>8 DEF reconfigure, vars, ul, dl, Received, Sent, Base
  <2>2. Ordered => Ordered'
    BY <2>1 DEF Ordered
  <2>3. QED
    BY <1>1, <2>1, <2>2 DEF IInv
<1>9. QED
  BY <1>2, <1>3, <1>4, <1>5, <1>6, <1>7, <1>8 DEF Next, Write, Receive
-----------------------------------------------------------------------------
(* The invariant of the channel. *)
LEMMA InvariantHolds == Spec => []IInv
<1>1. IInv /\ [Next]_vars => IInv'
  BY INext
<1>2. QED
  BY <1>1, IInit, PTL DEF Spec

(* Frames that are settled are written, and frames that are written were accepted. *)
LEMMA Bounds ==
  ASSUME TInv, Ordered
  PROVE  /\ settled = Base + Len(completed_frames) /\ settled \in Nat /\ Base \in Nat
         /\ Len(completed_frames) \in Nat /\ accepted \in Nat /\ accepted <= MaxFrame
         /\ settled <= Sent.w /\ Sent.w <= accepted /\ Sent.w \in Nat
         /\ Base + Len(Received.done) = settled
<1> DEFINE n == Len(completed_frames)
<1>1. /\ settled \in Nat /\ Base \in Nat /\ SenderOk(Sent)
      /\ RInv(config, Sent, Base, Received, UnderWay(air))
  BY DEF Ordered
<1>2. n \in Nat /\ Received.done = completed_frames
  BY ReceivedIs
<1>3. Base = settled - n
  BY DEF Base
<1>4. Window(config, Sent, Received, Base + n)
  BY <1>1, <1>2 DEF RInv
<1>5. /\ TxShape(config, accepted, outstanding_buffers, data_offset) /\ sequence_number \in Sn
      /\ accepted \in 0..MaxFrame /\ MaxFrame \in Nat
  BY SizeAssumption DEF TInv, TxShape
<1>6. Sent.w <= accepted
  BY <1>5, SenderShape DEF Sent
<1>7. Base + n <= Sent.w /\ Sent.w \in Nat
  BY <1>1, <1>4 DEF Window, SenderOk, Sender
<1> HIDE DEF n
<1>8. settled = Base + n
  BY <1>1, <1>2, <1>3
<1>9. QED
  BY <1>1, <1>2, <1>5, <1>6, <1>7, <1>8 DEF n

(* pdcp_ul::get_outstanding_bytes tells the truth under every configuration: the octets of   *)
(* the frames that on_frame_data took and that write_pdcp has not written.                   *)
THEOREM UnwrittenExact == Spec => [](unwritten = Left(outstanding_buffers, data_offset))
<1>1. TInv /\ [Next]_vars => TInv'
  BY TNext
<1>2. TInv => unwritten = Left(outstanding_buffers, data_offset)
  BY DEF TInv
<1>3. QED
  BY <1>1, <1>2, TInit, PTL DEF Spec

(* get_outstanding_bytes tells the truth at both ends of an orderly channel: what is not     *)
(* written, and what pdcp_dl has emitted and the application has not popped.                 *)
THEOREM BytesExactHolds == Spec => [](Orderly(config) => BytesExact)
<1>1. IInv => (Orderly(config) => BytesExact)
  <2> SUFFICES ASSUME IInv, Orderly(config) PROVE BytesExact
    OBVIOUS
  <2>1. TInv /\ Ordered
    BY DEF IInv
  <2>2. unwritten = Left(outstanding_buffers, data_offset)
    BY <2>1 DEF TInv
  <2>3. outstanding_bytes = SumOf(Lens(completed_frames))
    BY <2>1, ReceivedIs DEF Ordered, RInv, DoneOk
  <2>4. QED
    BY <2>2, <2>3 DEF BytesExact, Left, Sizes, Lens
<1>2. QED
  BY <1>1, InvariantHolds, PTL

(* Reassembly never takes segments of two frames for one, nor hands out storage that no      *)
(* segment was copied to: what pdcp_dl emits on an orderly channel is a frame that was       *)
(* accepted, whole.                                                                          *)
THEOREM IntactHolds == Spec => [](Orderly(config) => Intact)
<1>1. IInv => (Orderly(config) => Intact)
  <2> SUFFICES ASSUME IInv, Orderly(config), NEW k \in 1..Len(completed_frames)
               PROVE  \E f \in 1..accepted : IsFrame(completed_frames[k], f)
    BY DEF Intact
  <2>1. TInv /\ Ordered
    BY DEF IInv
  <2> DEFINE n == Len(completed_frames)
  <2>2. /\ settled = Base + n /\ settled \in Nat /\ Base \in Nat /\ n \in Nat /\ accepted \in Nat
        /\ settled <= Sent.w /\ Sent.w <= accepted /\ Sent.w \in Nat
    BY <2>1, Bounds
  <2>3. IsFrame(completed_frames[k], Base + k)
    BY <2>1, ReceivedIs DEF Ordered, RInv, DoneOk
  <2> HIDE DEF n
  <2>4. k \in 1..n
    BY DEF n
  <2>5. Base + k \in 1..accepted
    BY <2>2, <2>4
  <2>6. QED
    BY <2>3, <2>5
<1>2. QED
  BY <1>1, InvariantHolds, PTL

(* When every frame was written and every PDU has arrived, flush_completed_in_order has      *)
(* emitted every frame: no segment was lost in another entry, and no complete frame waits.   *)
THEOREM NothingStrandedHolds == Spec => [](Orderly(config) => NothingStranded)
<1>1. IInv => (Orderly(config) => NothingStranded)
  <2> SUFFICES ASSUME IInv, Orderly(config), outstanding_buffers = <<>>, air = {}
               PROVE  settled >= accepted
    BY DEF NothingStranded
  <2>1. TInv /\ Ordered
    BY DEF IInv
  <2>2. /\ settled \in Nat /\ accepted \in Nat /\ accepted <= MaxFrame /\ settled <= Sent.w
        /\ Base + Len(Received.done) = settled
    BY <2>1, Bounds
  <2>3. Sent.w = accepted
    <3>1. Len(outstanding_buffers) = 0
      OBVIOUS
    <3>2. accepted - 0 = accepted
      BY <2>2
    <3>3. QED
      BY <3>1, <3>2 DEF Sent
  <2>4. /\ SenderOk(Sent) /\ ~GetState(config, Received, Received.next).is_complete
        /\ Window(config, Sent, Received, settled) /\ StatesOk(config, Sent, Received, settled)
        /\ Covered(config, Sent, Received, settled, {})
    <3>1. UnderWay({}) = {}
      BY DEF UnderWay
    <3>2. QED
      BY <2>1, <2>2, <3>1 DEF Ordered, RInv
  <2> SUFFICES ASSUME settled < accepted PROVE FALSE
    BY <2>2
  <2> DEFINE f == settled + 1
             st == Had(config, Sent, Received, f)
  <2>5. Top(Sent) \in Nat /\ Sent.w <= Top(Sent)
    BY <2>4, TopType DEF SenderOk
  <2>6. f \in (settled + 1)..Top(Sent) /\ f \in Frame /\ f <= Sent.w
    BY <2>2, <2>3, <2>5, SizeAssumption DEF Frame
  <2>7. ~st.is_complete
    BY <2>4 DEF Window, Had
  <2> HIDE DEF f, st
  <2>8. GoodState(st, f)
    BY <2>4, <2>6 DEF StatesOk, st
  <2>9. Limit(Sent, f) = FrameSize[f]
    BY <2>6 DEF Limit
  <2>10. \A i \in 1..FrameSize[f] : i \in Got(st, f)
    BY <2>4, <2>6, <2>9 DEF Covered, st
  <2>11. Got(st, f) = 1..FrameSize[f]
    BY <2>6, <2>8, <2>10, GotFinite
  <2>12. QED
    BY <2>7, <2>8, <2>11 DEF GoodState
<1>2. QED
  BY <1>1, InvariantHolds, PTL
-----------------------------------------------------------------------------
(***************************************************************************)
(* The refinement: what is pending and what was output, as frames.         *)
(***************************************************************************)
After(lo, n) == [k \in 1..n |-> lo + k]
Pending == WhenOrdered([k \in 1..(accepted - settled) |-> settled + k])
Output == WhenOrdered([k \in DOMAIN completed_frames |-> FrameIn(completed_frames[k])])

(* Consecutive frames: n of them after lo. *)
LEMMA AfterType ==
  ASSUME NEW lo \in Nat, NEW n \in Nat
  PROVE  /\ After(lo, n) \in Seq(Nat) /\ Len(After(lo, n)) = n
         /\ \A k \in 1..n : After(lo, n)[k] = lo + k
BY DEF After

(* A sequence that is After, element by element. *)
LEMMA AfterIs ==
  ASSUME NEW lo, NEW n \in Nat, NEW s \in Seq(Nat), Len(s) = n, \A k \in 1..n : s[k] = lo + k
  PROVE  s = After(lo, n)
<1>1. DOMAIN s = 1..n /\ s = [k \in DOMAIN s |-> s[k]]
  OBVIOUS
<1>2. QED
  BY <1>1 DEF After

(* One more frame at the end. *)
LEMMA AfterAppend ==
  ASSUME NEW lo \in Nat, NEW n \in Nat
  PROVE  Append(After(lo, n), lo + (n + 1)) = After(lo, n + 1)
<1> DEFINE a == After(lo, n)
           s == Append(a, lo + (n + 1))
<1>1. a \in Seq(Nat) /\ Len(a) = n /\ \A k \in 1..n : a[k] = lo + k
  BY AfterType
<1> HIDE DEF a
<1>2. s \in Seq(Nat) /\ Len(s) = n + 1 /\ \A k \in 1..(n + 1) : s[k] = lo + k
  BY <1>1
<1> HIDE DEF s
<1>3. s = After(lo, n + 1)
  BY <1>2, AfterIs
<1>4. QED
  BY <1>3 DEF s, a

(* One frame less at the beginning. *)
LEMMA AfterTail ==
  ASSUME NEW lo \in Nat, NEW n \in Nat
  PROVE  After(lo, n + 1) # <<>> /\ Tail(After(lo, n + 1)) = After(lo + 1, n)
<1> DEFINE a == After(lo, n + 1)
           s == Tail(a)
<1>1. a \in Seq(Nat) /\ Len(a) = n + 1 /\ \A k \in 1..(n + 1) : a[k] = lo + k
  <2>1. n + 1 \in Nat
    OBVIOUS
  <2>2. QED
    BY <2>1, AfterType
<1> HIDE DEF a
<1>2. a # <<>> /\ s \in Seq(Nat) /\ Len(s) = n /\ \A k \in 1..n : s[k] = a[k + 1]
  BY <1>1
<1> HIDE DEF s
<1>3. \A k \in 1..n : s[k] = (lo + 1) + k
  BY <1>1, <1>2
<1>4. s = After(lo + 1, n)
  BY <1>2, <1>3, AfterIs
<1>5. QED
  BY <1>2, <1>4 DEF s, a

(* The first j of m frames move from one sequence to the other. *)
LEMMA AfterMove ==
  ASSUME NEW lo \in Nat, NEW n \in Nat, NEW m \in Nat, NEW j \in 0..m
  PROVE  /\ After(lo, n) \o SubSeq(After(lo + n, m), 1, j) = After(lo, n + j)
         /\ SubSeq(After(lo + n, m), j + 1, m) = After((lo + n) + j, m - j)
<1> DEFINE a == After(lo, n)
           c == After(lo + n, m)
           p == SubSeq(c, 1, j)
           q == SubSeq(c, j + 1, m)
           s == a \o p
<1>1. a \in Seq(Nat) /\ Len(a) = n /\ \A k \in 1..n : a[k] = lo + k
  BY AfterType
<1>2. c \in Seq(Nat) /\ Len(c) = m /\ \A k \in 1..m : c[k] = (lo + n) + k
  <2>1. lo + n \in Nat
    OBVIOUS
  <2>2. QED
    BY <2>1, AfterType
<1> HIDE DEF a, c
<1>3. p \in Seq(Nat) /\ Len(p) = j /\ \A k \in 1..j : p[k] = c[k]
  BY <1>2
<1>4. q \in Seq(Nat) /\ Len(q) = m - j /\ \A k \in 1..(m - j) : q[k] = c[j + k]
  <2>1. q \in Seq(Nat) /\ Len(q) = m - j
    BY <1>2
  <2>2. ASSUME NEW k \in 1..(m - j) PROVE q[k] = c[j + k]
    <3>1. q[k] = c[((j + 1) + k) - 1]
      BY <1>2
    <3>2. ((j + 1) + k) - 1 = j + k
      OBVIOUS
    <3>3. QED
      BY <3>1, <3>2
  <2>3. QED
    BY <2>1, <2>2
<1> HIDE DEF p, q
<1>5. s \in Seq(Nat) /\ Len(s) = n + j
      /\ \A k \in 1..(n + j) : s[k] = IF k <= n THEN a[k] ELSE p[k - n]
  <2>1. s \in Seq(Nat) /\ Len(s) = n + j
    BY <1>1, <1>3, SMTT(30)
  <2>2. ASSUME NEW k \in 1..(n + j) PROVE s[k] = IF k <= n THEN a[k] ELSE p[k - n]
    <3>1. k \in 1..(Len(a) + Len(p))
      BY <1>1, <1>3
    <3>2. s[k] = IF k <= Len(a) THEN a[k] ELSE p[k - Len(a)]
      BY <1>1, <1>3, <3>1, ConcatProperties, Zenon
    <3>3. QED
      BY <1>1, <3>2
  <2>3. QED
    BY <2>1, <2>2
<1> HIDE DEF s
<1>6. \A k \in 1..(n + j) : s[k] = lo + k
  <2> TAKE k \in 1..(n + j)
  <2>1. CASE k <= n
    BY <1>1, <1>5, <2>1
  <2>2. CASE ~(k <= n)
    <3>1. k - n \in 1..j /\ k - n \in 1..m
      BY <2>2
    <3>2. s[k] = (lo + n) + (k - n)
      BY <1>2, <1>3, <1>5, <2>2, <3>1
    <3>3. QED
      BY <3>2
  <2>3. QED
    BY <2>1, <2>2
<1>7. n + j \in Nat /\ m - j \in Nat
  OBVIOUS
<1>8. s = After(lo, n + j)
  BY <1>5, <1>6, <1>7, AfterIs
<1>9. \A k \in 1..(m - j) : q[k] = ((lo + n) + j) + k
  <2> TAKE k \in 1..(m - j)
  <2>1. j + k \in 1..m
    OBVIOUS
  <2>2. q[k] = (lo + n) + (j + k)
    BY <1>2, <1>4, <2>1
  <2>3. QED
    BY <2>2
<1>10. q = After((lo + n) + j, m - j)
  BY <1>4, <1>7, <1>9, AfterIs
<1>11. QED
  BY <1>8, <1>10 DEF s, q, p, a, c

(* A frame has at least one octet, so a buffer is one frame only. *)
LEMMA FrameInIs ==
  ASSUME NEW f \in Frame, NEW buffer, IsFrame(buffer, f) PROVE FrameIn(buffer) = f
<1>1. \A g \in Frame : IsFrame(buffer, g) => buffer[1] = g
  <2> SUFFICES ASSUME NEW g \in Frame, IsFrame(buffer, g) PROVE buffer[1] = g
    OBVIOUS
  <2>1. FrameSize[g] \in Nat \ {0}
    BY SizeAssumption
  <2>2. 1 \in 1..FrameSize[g]
    BY <2>1
  <2>3. QED
    BY <2>2 DEF IsFrame
<1>2. \A g \in Frame : IsFrame(buffer, g) => g = f
  BY <1>1
<1>3. QED
  BY <1>2 DEF FrameIn

InOrder == TInv /\ Ordered /\ config.allow_reordering
Mapped ==
  /\ settled = Base + Len(completed_frames) /\ settled \in Nat /\ Base \in Nat
  /\ Len(completed_frames) \in Nat /\ accepted \in Nat
  /\ Pending = After(settled, accepted - settled) /\ accepted - settled \in Nat
  /\ Output = After(Base, Len(completed_frames))

(* On a channel that reorders, the frames pending and the frames output are consecutive. *)
LEMMA MappedIs == InOrder => Mapped
<1> SUFFICES ASSUME TInv, Ordered, config.allow_reordering PROVE Mapped
  BY DEF InOrder
<1> DEFINE n == Len(completed_frames)
<1>1. /\ settled = Base + n /\ settled \in Nat /\ Base \in Nat /\ n \in Nat /\ accepted \in Nat
      /\ accepted <= MaxFrame /\ settled <= Sent.w /\ Sent.w <= accepted /\ Sent.w \in Nat
  BY Bounds
<1>2. Pending = After(settled, accepted - settled) /\ accepted - settled \in Nat
  BY <1>1 DEF Pending, WhenOrdered, After
<1>3. completed_frames \in Seq(Buffer)
  BY ReceivedIs
<1>4. \A k \in 1..n : FrameIn(completed_frames[k]) = Base + k
  <2> TAKE k \in 1..n
  <2>1. IsFrame(completed_frames[k], Base + k)
    BY ReceivedIs DEF Ordered, RInv, DoneOk
  <2> HIDE DEF n
  <2>2. Base + k \in Frame
    BY <1>1, SizeAssumption DEF Frame
  <2>3. QED
    BY <2>1, <2>2, FrameInIs
<1>5. DOMAIN completed_frames = 1..n
  BY <1>3
<1>6. Output = After(Base, n)
  BY <1>4, <1>5 DEF Output, WhenOrdered, After
<1>7. QED
  BY <1>1, <1>2, <1>6 DEF Mapped

(* The same in the next state. *)
LEMMA MappedNext == InOrder' => Mapped'
BY MappedIs, PTL

(* on_frame_data is Accept. *)
LEMMA AcceptIsAbstract ==
  ASSUME TInv, Ordered, config.allow_reordering, on_frame_data, TInv', Ordered'
  PROVE  (\E f \in Frame : Pending' = Append(Pending, f)) /\ Output' = Output
<1>1. accepted' = accepted + 1 /\ accepted' \in Frame
  BY AcceptShape
<1>2. UNCHANGED <<config, settled, completed_frames>>
  BY DEF on_frame_data, dl
<1>3. Pending = After(settled, accepted - settled) /\ accepted - settled \in Nat
  BY MappedIs DEF InOrder, Mapped
<1>4. Pending' = After(settled, (accepted + 1) - settled)
  BY <1>1, <1>2 DEF Pending, WhenOrdered, After
<1>5. settled \in Nat /\ accepted \in Nat
  BY Bounds
<1> DEFINE n == accepted - settled
<1>6. (accepted + 1) - settled = n + 1 /\ accepted + 1 = settled + (n + 1) /\ n \in Nat
  BY <1>3, <1>5
<1> HIDE DEF n
<1>7. Append(After(settled, n), settled + (n + 1)) = After(settled, n + 1)
  BY <1>5, <1>6, AfterAppend
<1>8. Pending' = Append(Pending, accepted + 1)
  BY <1>3, <1>4, <1>6, <1>7 DEF n
<1>9. Output' = Output
  BY <1>2 DEF Output, WhenOrdered
<1>10. QED
  BY <1>1, <1>8, <1>9

(* on_pdcp_data is Deliver, or invisible if no frame was flushed. *)
LEMMA ReceiveIsAbstract ==
  ASSUME TInv, Orderly(config), Ordered, NEW m \in air, on_pdcp_data(m), TInv', Ordered'
  PROVE  \/ Pending' = Pending /\ Output' = Output
         \/ \E n \in 1..Len(Pending) :
              /\ Output' = Output \o SubSeq(Pending, 1, n)
              /\ Pending' = SubSeq(Pending, n + 1, Len(Pending))
<1> DEFINE n == Len(completed_frames)
           q == Len(completed_frames')
           l == accepted - settled
           j == settled' - settled
<1>1. Base' = Base /\ settled <= settled' /\ config' = config /\ accepted' = accepted
  BY ReceiveOrdered
<1>2. config.allow_reordering /\ config'.allow_reordering
  BY <1>1 DEF Orderly
<1>3. /\ settled = Base + n /\ settled \in Nat /\ Base \in Nat /\ n \in Nat /\ accepted \in Nat
  BY Bounds
<1>4. /\ settled' = Base' + q /\ settled' \in Nat /\ q \in Nat
      /\ accepted' - settled' \in Nat
  BY <1>2, MappedNext DEF InOrder, Mapped
<1>5. /\ Pending = After(settled, l) /\ l \in Nat /\ Output = After(Base, n)
  BY <1>2, MappedIs DEF InOrder, Mapped
<1>6. /\ Pending' = After(settled', accepted' - settled') /\ Output' = After(Base', q)
  BY <1>2, MappedNext DEF InOrder, Mapped
<1>7. j \in 0..l /\ q = n + j /\ settled' = settled + j /\ accepted' - settled' = l - j
  <2> HIDE DEF n, q
  <2>1. QED
    BY <1>1, <1>3, <1>4, <1>5
<1> HIDE DEF n, q, l, j
<1>8. /\ After(Base, n) \o SubSeq(After(Base + n, l), 1, j) = After(Base, n + j)
      /\ SubSeq(After(Base + n, l), j + 1, l) = After((Base + n) + j, l - j)
  <2>1. Base \in Nat
    BY <1>3
  <2>2. n \in Nat
    BY <1>3
  <2>3. l \in Nat
    BY <1>5
  <2>4. j \in 0..l
    BY <1>7
  <2>5. QED
    BY <2>1, <2>2, <2>3, <2>4, AfterMove, Zenon
<1>9. Output' = Output \o SubSeq(Pending, 1, j) /\ Pending' = SubSeq(Pending, j + 1, l)
  BY <1>1, <1>3, <1>5, <1>6, <1>7, <1>8
<1>10. Len(Pending) = l
  BY <1>3, <1>5, AfterType
<1>11. CASE j = 0
  <2>1. q = n /\ settled' = settled /\ accepted' - settled' = l
    BY <1>3, <1>5, <1>7, <1>11
  <2>2. QED
    BY <1>1, <1>5, <1>6, <2>1
<1>12. CASE j # 0
  <2>1. j \in 1..l
    BY <1>5, <1>7, <1>12
  <2>2. QED
    BY <1>9, <1>10, <2>1
<1>13. QED
  BY <1>11, <1>12

(* pop is Collect. *)
LEMMA PopIsAbstract ==
  ASSUME TInv, Ordered, config.allow_reordering, pop, TInv', Ordered'
  PROVE  Output # <<>> /\ Output' = Tail(Output) /\ Pending' = Pending
<1> DEFINE n == Len(completed_frames')
<1>1. /\ completed_frames # <<>> /\ completed_frames' = Tail(completed_frames)
      /\ UNCHANGED <<config, accepted, settled>>
  BY DEF pop
<1>2. Base' = Base + 1
  BY PopOrdered
<1>3. Base \in Nat
  BY Bounds
<1>4. n \in Nat
  BY <1>1, MappedNext DEF InOrder, Mapped
<1>5. Len(completed_frames) = n + 1
  BY <1>1, ReceivedIs
<1>6. Output = After(Base, n + 1)
  BY <1>5, MappedIs DEF InOrder, Mapped
<1>7. Output' = After(Base', n)
  BY <1>1, MappedNext DEF InOrder, Mapped
<1> HIDE DEF n
<1>8. After(Base, n + 1) # <<>> /\ Tail(After(Base, n + 1)) = After(Base + 1, n)
  BY <1>3, <1>4, AfterTail
<1>9. Pending' = Pending
  BY <1>1 DEF Pending, WhenOrdered
<1>10. QED
  BY <1>2, <1>6, <1>7, <1>8, <1>9

(* reset is Reset. *)
LEMMA ResetIsAbstract ==
  ASSUME TInv, reset PROVE Pending' = <<>> /\ Output' = <<>>
<1>1. settled' = accepted /\ accepted' = accepted /\ completed_frames' = <<>> /\ accepted \in Int
  BY SizeAssumption DEF reset, TInv, TxShape
<1>2. accepted' - settled' = 0 /\ 1..0 = {}
  <2>1. accepted - accepted = 0 /\ 1..0 = {}
    BY <1>1
  <2>2. accepted' - settled' = accepted - accepted
    BY <1>1
  <2>3. QED
    BY <2>1, <2>2
<1>3. [k \in 1..(accepted' - settled') |-> settled' + k] = <<>>
  BY <1>2
<1>4. [k \in DOMAIN completed_frames' |-> FrameIn(completed_frames'[k])] = <<>>
  BY <1>1
<1>5. QED
  BY <1>3, <1>4 DEF Pending, Output, WhenOrdered

(***************************************************************************)
(* pdcp_ul and pdcp_dl implement FrameChannel if every configuration that  *)
(* reorders is an orderly one: the frames come out whole, in the order     *)
(* they were accepted in and once each, whatever order the LLC delivers    *)
(* the PDUs in; on_frame_data accepts, the flush in on_pdcp_data delivers, *)
(* pop collects, and write_pdcp is invisible.                              *)
(***************************************************************************)
THEOREM RefinesFrameChannel ==
  ASSUME \A c \in Setting : c.allow_reordering => Orderly(c)
  PROVE  Spec => ImplementsFrameChannel
<1>1. Init => Channel!Init
  <2> SUFFICES ASSUME Init PROVE Channel!Init
    OBVIOUS
  <2>1. accepted - settled = 0 /\ completed_frames = <<>> /\ 1..0 = {}
    BY DEF Init
  <2>2. [k \in 1..(accepted - settled) |-> settled + k] = <<>>
        /\ [k \in DOMAIN completed_frames |-> FrameIn(completed_frames[k])] = <<>>
    BY <2>1
  <2>3. Pending = <<>> /\ Output = <<>>
    BY <2>2 DEF Pending, Output, WhenOrdered
  <2>4. QED
    BY <2>3 DEF Channel!Init, Pending, Output
<1>2. IInv /\ IInv' /\ [Next]_vars => Channel!Next \/ (Pending' = Pending /\ Output' = Output)
  <2> SUFFICES ASSUME IInv, IInv', [Next]_vars
               PROVE  Channel!Next \/ (Pending' = Pending /\ Output' = Output)
    OBVIOUS
  <2>1. TInv /\ TInv' /\ config \in Setting /\ config' \in Setting
    BY DEF IInv, TInv
  <2>2. config.allow_reordering => Orderly(config) /\ Ordered
    BY <2>1 DEF IInv
  <2>3. config'.allow_reordering => Ordered'
    BY <2>1 DEF IInv
  <2>4. CASE reset
    <3>1. Pending' = <<>> /\ Output' = <<>>
      BY <2>1, <2>4, ResetIsAbstract
    <3>2. Channel!Reset
      BY <3>1 DEF Channel!Reset, Pending, Output
    <3>3. QED
      BY <3>2 DEF Channel!Next
  <2>5. CASE ~reset /\ ~config.allow_reordering
    <3>1. config' = config
      BY <2>5 DEF Next, Write, Receive, on_frame_data, write_pdcp, on_pdcp_data,
                  on_pdcp_data_damaged, pop, reconfigure, vars
    <3>2. Pending = <<>> /\ Output = <<>> /\ Pending' = <<>> /\ Output' = <<>>
      BY <2>5, <3>1 DEF Pending, Output, WhenOrdered
    <3>3. QED
      BY <3>2
  <2>6. CASE ~reset /\ config.allow_reordering
    <3>1. TInv /\ Ordered /\ Orderly(config)
      BY <2>1, <2>2, <2>6
    <3>2. CASE on_frame_data
      <4>1. config' = config
        BY <3>2 DEF on_frame_data
      <4>2. (\E f \in Frame : Pending' = Append(Pending, f)) /\ Output' = Output
        BY <2>1, <2>3, <2>6, <3>1, <3>2, <4>1, AcceptIsAbstract
      <4>3. Channel!Accept
        BY <4>2 DEF Channel!Accept, Pending, Output
      <4>4. QED
        BY <4>3 DEF Channel!Next
    <3>3. ASSUME NEW size \in BufferSize, write_pdcp(size)
          PROVE  Pending' = Pending /\ Output' = Output
      BY <3>3 DEF write_pdcp, dl, Pending, Output, WhenOrdered
    <3>4. ASSUME NEW m \in air, on_pdcp_data(m)
          PROVE  Channel!Next \/ (Pending' = Pending /\ Output' = Output)
      <4>1. config' = config
        BY <3>4 DEF on_pdcp_data
      <4>2. \/ Pending' = Pending /\ Output' = Output
            \/ \E n \in 1..Len(Pending) :
                 /\ Output' = Output \o SubSeq(Pending, 1, n)
                 /\ Pending' = SubSeq(Pending, n + 1, Len(Pending))
        BY <2>1, <2>3, <2>6, <3>1, <3>4, <4>1, ReceiveIsAbstract
      <4>3. (Pending' = Pending /\ Output' = Output) \/ Channel!Deliver
        BY <4>2 DEF Channel!Deliver, Pending, Output
      <4>4. QED
        BY <4>3 DEF Channel!Next
    <3>5. ASSUME NEW m \in air, on_pdcp_data_damaged(m) PROVE FALSE
      <4>1. copies < config.max_copies /\ copies \in Nat /\ config.max_copies = 0
        BY <2>1, <3>1, <3>5 DEF on_pdcp_data_damaged, TInv, Orderly
      <4>2. QED
        BY <4>1
    <3>6. CASE pop
      <4>1. config' = config
        BY <3>6 DEF pop
      <4>2. Output # <<>> /\ Output' = Tail(Output) /\ Pending' = Pending
        BY <2>1, <2>3, <2>6, <3>1, <3>6, <4>1, PopIsAbstract
      <4>3. Channel!Collect
        BY <4>2 DEF Channel!Collect, Pending, Output
      <4>4. QED
        BY <4>3 DEF Channel!Next
    <3>7. CASE reconfigure \/ UNCHANGED vars
      BY <3>7 DEF reconfigure, vars, dl, Pending, Output, WhenOrdered
    <3>8. QED
      BY <2>6, <3>2, <3>3, <3>4, <3>5, <3>6, <3>7 DEF Next, Write, Receive
  <2>7. QED
    BY <2>4, <2>5, <2>6
<1>3. IInv /\ IInv' /\ [Next]_vars =>
        [Channel!Next]_<<WhenOrdered([k \in 1..(accepted - settled) |-> settled + k]),
          WhenOrdered([k \in DOMAIN completed_frames |-> FrameIn(completed_frames[k])])>>
  BY <1>2 DEF Pending, Output
<1>4. QED
  BY <1>1, <1>3, InvariantHolds, PTL DEF Spec, ImplementsFrameChannel, Channel!Spec
=============================================================================
