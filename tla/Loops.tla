------------------------------- MODULE Loops --------------------------------
(***************************************************************************)
(* What the proofs need to know of loops, and of counters with a width.    *)
(* The specifications write a loop as FoldLeft(Step, base, seq); here Step *)
(* is any operator, and a module that has a loop takes this one with       *)
(* INSTANCE for its own.  A loop invariant is a sequence of sets.          *)
(***************************************************************************)
EXTENDS Integers, SequencesExt, WellFoundedInduction, TLAPS

CONSTANT Step(_, _)  \* one round of the loop, on its variables and an element of seq

(* Every set of naturals that has an element has a least one. *)
LEMMA Least ==
  ASSUME NEW S, S \subseteq Nat, S # {}
  PROVE  \E n \in S : \A m \in S : n <= m
<1> DEFINE Rr == OpToRel(<, Nat)
<1>1. IsWellFoundedOn(Rr, Nat)
  BY NatLessThanWellFounded
<1>2. \A x \in Nat, y \in Nat : <<y, x>> \in Rr <=> y < x
  BY DEF OpToRel
<1> HIDE DEF Rr
<1>3. PICK x \in S : \A y \in S : ~(<<y, x>> \in Rr)
  BY <1>1, WFMin
<1>4. x \in Nat /\ \A y \in S : y \in Nat /\ ~(y < x)
  BY <1>2, <1>3
<1>5. \A y \in S : x <= y
  BY <1>4
<1>6. QED
  BY <1>5

(* Induction, for the numbers of a set. *)
LEMMA SetInduction ==
  ASSUME NEW S, 0 \in S, \A n \in Nat : n \in S => n + 1 \in S
  PROVE  Nat \subseteq S
<1> DEFINE B == Nat \ S
<1> SUFFICES ASSUME B # {} PROVE FALSE
  OBVIOUS
<1>1. PICK n \in B : \A m \in B : n <= m
  BY Least
<1>2. n # 0 /\ n \in Nat
  OBVIOUS
<1>3. n - 1 \in Nat /\ n - 1 \notin B
  BY <1>1, <1>2
<1>4. (n - 1) + 1 \in S
  BY <1>3
<1>5. QED
  BY <1>4, <1>2

(* Induction up to n. *)
LEMMA RangeInduction ==
  ASSUME NEW n \in Nat, NEW S, 0 \in S, \A k \in 0..(n - 1) : k \in S => k + 1 \in S
  PROVE  0..n \subseteq S
<1> DEFINE B == {k \in 0..n : k \notin S}
<1> SUFFICES ASSUME B # {} PROVE FALSE
  OBVIOUS
<1>1. PICK m \in B : \A j \in B : m <= j
  <2>1. B \subseteq Nat
    OBVIOUS
  <2> HIDE DEF B
  <2>2. QED
    BY <2>1, Least
<1>2. m # 0 /\ m \in 0..n /\ m \notin S
  OBVIOUS
<1>3. m - 1 \in 0..n /\ m - 1 \in 0..(n - 1) /\ (m - 1) + 1 = m
  BY <1>2
<1>4. m - 1 \notin B
  BY <1>1, <1>3
<1>5. QED
  BY <1>3, <1>4, <1>2

(* The greatest element of a set of integers, if it is known. *)
LEMMA MaxIs ==
  ASSUME NEW s, NEW m \in s, s \subseteq Int, \A y \in s : y <= m
  PROVE  Max(s) = m
<1>1. \A y \in s : m >= y
  OBVIOUS
<1>2. ASSUME NEW x \in s, \A y \in s : x >= y PROVE x = m
  BY <1>2
<1>3. QED
  BY <1>1, <1>2 DEF Max

(* A set of numbers up to n has a greatest one. *)
LEMMA MaxIn ==
  ASSUME NEW n \in Nat, NEW s, s \subseteq 1..n, s # {}
  PROVE  Max(s) \in s /\ \A y \in s : y <= Max(s)
<1> DEFINE B == {k \in Nat : n - k \in s}
<1>1. B \subseteq Nat /\ B # {}
  <2>1. PICK y \in s : TRUE
    OBVIOUS
  <2>2. n - y \in Nat /\ n - (n - y) = y
    OBVIOUS
  <2>3. QED
    BY <2>2
<1>2. PICK k \in B : \A j \in B : k <= j
  <2> HIDE DEF B
  <2>1. QED
    BY <1>1, Least
<1>3. n - k \in s /\ k \in Nat
  OBVIOUS
<1>4. \A y \in s : y <= n - k
  <2> TAKE y \in s
  <2>1. n - y \in Nat /\ n - (n - y) = y
    OBVIOUS
  <2>2. n - y \in B
    BY <2>1
  <2>3. k <= n - y /\ k \in Nat
    BY <1>2, <2>2
  <2>4. QED
    BY <2>3, <2>1
<1> DEFINE m == n - k
<1>5. m \in s /\ \A y \in s : y <= m
  BY <1>3, <1>4
<1>6. s \subseteq Int
  OBVIOUS
<1>7. Max(s) = m
  <2> HIDE DEF m
  <2>1. QED
    BY <1>5, <1>6, MaxIs
<1>8. QED
  BY <1>5, <1>7

(* The function that FoldLeft is defined by, on the sets of indices up to n. *)
Iterates(it, base, seq, n) ==
  it = [s \in SUBSET (1..n) |->
          IF s = {} THEN base
          ELSE LET x == Max(s) IN Step(it[s \ {x}], seq[x])]

(* There is such a function. *)
LEMMA IteratesExists ==
  ASSUME NEW base, NEW seq, NEW n \in Nat
  PROVE  \E it : Iterates(it, base, seq, n)
<1> DEFINE S == {m \in Nat : \E it : Iterates(it, base, seq, m)}
<1>1. 0 \in S
  <2> DEFINE g == [s \in SUBSET (1..0) |-> base]
  <2>1. \A s \in SUBSET (1..0) : s = {}
    OBVIOUS
  <2>2. Iterates(g, base, seq, 0)
    BY <2>1 DEF Iterates
  <2>3. QED
    BY <2>2
<1>2. ASSUME NEW m \in Nat, m \in S PROVE m + 1 \in S
  <2>1. PICK it : Iterates(it, base, seq, m)
    BY <1>2
  <2> DEFINE g == [s \in SUBSET (1..(m + 1)) |->
                     IF m + 1 \in s THEN Step(it[s \ {m + 1}], seq[m + 1]) ELSE it[s]]
  <2>2. \A s \in SUBSET (1..m) : s \in SUBSET (1..(m + 1)) /\ m + 1 \notin s
    OBVIOUS
  <2>3. \A s \in SUBSET (1..m) : g[s] = it[s]
    BY <2>2
  <2>4. ASSUME NEW s \in SUBSET (1..(m + 1))
        PROVE  g[s] = IF s = {} THEN base ELSE LET x == Max(s) IN Step(g[s \ {x}], seq[x])
    <3>1. CASE m + 1 \in s
      <4>1. Max(s) = m + 1
        <5>1. \A y \in s : y <= m + 1
          OBVIOUS
        <5>2. s \subseteq Int
          OBVIOUS
        <5>3. QED
          BY <5>1, <5>2, <3>1, MaxIs
      <4>2. s \ {m + 1} \in SUBSET (1..m)
        OBVIOUS
      <4>3. g[s \ {m + 1}] = it[s \ {m + 1}]
        BY <4>2, <2>3
      <4>4. g[s] = Step(it[s \ {m + 1}], seq[m + 1])
        BY <3>1
      <4> HIDE DEF g
      <4>5. QED
        BY <4>1, <4>3, <4>4, <3>1
    <3>2. CASE m + 1 \notin s
      <4>1. s \in SUBSET (1..m)
        BY <3>2
      <4>2. g[s] = it[s]
        BY <4>1, <2>3
      <4>3. it[s] = IF s = {} THEN base ELSE LET x == Max(s) IN Step(it[s \ {x}], seq[x])
        BY <4>1, <2>1 DEF Iterates
      <4>4. \A x : s \ {x} \in SUBSET (1..m)
        BY <4>1
      <4>5. \A x : g[s \ {x}] = it[s \ {x}]
        BY <4>4, <2>3
      <4> HIDE DEF g
      <4>6. QED
        BY <4>2, <4>3, <4>5
    <3>3. QED
      BY <3>1, <3>2
  <2>5. Iterates(g, base, seq, m + 1)
    <3>1. g = [s \in SUBSET (1..(m + 1)) |-> g[s]]
      OBVIOUS
    <3> HIDE DEF g
    <3>2. QED
      BY <3>1, <2>4 DEF Iterates
  <2>6. QED
    BY <2>5
<1>3. Nat \subseteq S
  <2> HIDE DEF S
  <2>1. \A m \in Nat : m \in S => m + 1 \in S
    BY <1>2
  <2>2. QED
    BY <1>1, <2>1, SetInduction
<1>4. QED
  BY <1>3

(* FoldLeft is the value of that function. *)
LEMMA FoldIterates ==
  ASSUME NEW base, NEW seq, NEW n \in Nat, DOMAIN seq = 1..n
  PROVE  \E it : Iterates(it, base, seq, n) /\ FoldLeft(Step, base, seq) = it[1..n]
<1>1. \E it : Iterates(it, base, seq, n)
  BY IteratesExists
<1>2. QED
  BY <1>1 DEF FoldLeft, MapThenFoldSet, Iterates

(* The rounds of a loop: f[k] is what it works on after k rounds. *)
Rounds(f, base, seq, n) ==
  /\ f[0] = base
  /\ \A k \in 0..(n - 1) : f[k + 1] = Step(f[k], seq[k + 1])

(* FoldLeft is what the rounds end with. *)
THEOREM FoldRounds ==
  ASSUME NEW base, NEW seq, NEW n \in Nat, DOMAIN seq = 1..n
  PROVE  \E f : Rounds(f, base, seq, n) /\ FoldLeft(Step, base, seq) = f[n]
<1>1. PICK it : Iterates(it, base, seq, n) /\ FoldLeft(Step, base, seq) = it[1..n]
  BY FoldIterates
<1> DEFINE f == [k \in 0..n |-> it[1..k]]
<1>2. \A s \in SUBSET (1..n) :
        it[s] = IF s = {} THEN base ELSE LET x == Max(s) IN Step(it[s \ {x}], seq[x])
  BY <1>1 DEF Iterates
<1>3. f[0] = base
  <2>1. f[0] = it[1..0] /\ 1..0 = {} /\ 1..0 \in SUBSET (1..n)
    OBVIOUS
  <2>2. it[1..0] = base
    BY <2>1, <1>2
  <2>3. QED
    BY <2>1, <2>2
<1>4. ASSUME NEW k \in 0..(n - 1)
      PROVE  f[k + 1] = Step(f[k], seq[k + 1])
  <2> DEFINE s == 1..(k + 1)
  <2>1. f[k] = it[1..k] /\ f[k + 1] = it[1..(k + 1)]
    OBVIOUS
  <2>2. s \in SUBSET (1..n) /\ s # {} /\ k + 1 \in s /\ s \subseteq Int
    OBVIOUS
  <2>3. Max(s) = k + 1
    <3>1. \A y \in s : y <= k + 1
      OBVIOUS
    <3> HIDE DEF s
    <3>2. QED
      BY <3>1, <2>2, MaxIs
  <2>4. s \ {k + 1} = 1..k
    OBVIOUS
  <2>5. it[s] = Step(it[s \ {k + 1}], seq[k + 1])
    <3> HIDE DEF s
    <3>1. QED
      BY <2>2, <2>3, <1>2
  <2>6. QED
    BY <2>1, <2>4, <2>5
<1>5. Rounds(f, base, seq, n)
  <2> HIDE DEF f
  <2>1. QED
    BY <1>3, <1>4 DEF Rounds
<1>6. f[n] = it[1..n]
  OBVIOUS
<1>7. QED
  BY <1>1, <1>5, <1>6

(* What every round leads from one set to the next leads from the first to the last. *)
THEOREM LoopInvariant ==
  ASSUME NEW base, NEW seq, NEW n \in Nat, DOMAIN seq = 1..n, NEW I, base \in I[0],
         \A k \in 0..(n - 1) : \A w \in I[k] : Step(w, seq[k + 1]) \in I[k + 1]
  PROVE  FoldLeft(Step, base, seq) \in I[n]
<1>1. PICK f : Rounds(f, base, seq, n) /\ FoldLeft(Step, base, seq) = f[n]
  BY FoldRounds
<1> DEFINE S == {k \in Nat : f[k] \in I[k]}
<1>2. 0 \in S
  BY <1>1 DEF Rounds
<1>3. ASSUME NEW k \in 0..(n - 1), k \in S PROVE k + 1 \in S
  <2>1. f[k] \in I[k] /\ f[k + 1] = Step(f[k], seq[k + 1])
    BY <1>1, <1>3 DEF Rounds
  <2>2. QED
    BY <2>1
<1>4. 0..n \subseteq S
  <2> HIDE DEF S
  <2>1. QED
    BY <1>2, <1>3, RangeInduction
<1>5. QED
  BY <1>1, <1>4

(* A function that has the rounds of a loop ends with its result. *)
LEMMA FoldIs ==
  ASSUME NEW base, NEW seq, NEW n \in Nat, DOMAIN seq = 1..n, NEW f, Rounds(f, base, seq, n)
  PROVE  FoldLeft(Step, base, seq) = f[n]
<1> DEFINE I == [k \in 0..n |-> {f[k]}]
<1>1. base \in I[0]
  BY DEF Rounds
<1>2. \A k \in 0..(n - 1) : \A w \in I[k] : Step(w, seq[k + 1]) \in I[k + 1]
  <2> SUFFICES ASSUME NEW k \in 0..(n - 1), NEW w \in I[k]
               PROVE  Step(w, seq[k + 1]) \in I[k + 1]
    OBVIOUS
  <2>1. k \in 0..n /\ k + 1 \in 0..n
    OBVIOUS
  <2>2. w = f[k] /\ I[k + 1] = {f[k + 1]}
    BY <2>1
  <2>3. f[k + 1] = Step(f[k], seq[k + 1])
    BY DEF Rounds
  <2>4. QED
    BY <2>2, <2>3
<1>3. I[n] = {f[n]}
  OBVIOUS
<1> HIDE DEF I
<1>4. FoldLeft(Step, base, seq) \in I[n]
  BY <1>1, <1>2, LoopInvariant
<1>5. QED
  BY <1>3, <1>4

(* A loop of no rounds. *)
LEMMA FoldEmpty ==
  ASSUME NEW base, NEW seq, DOMAIN seq = 1..0
  PROVE  FoldLeft(Step, base, seq) = base
<1> DEFINE f == [k \in 0..0 |-> base]
<1>1. Rounds(f, base, seq, 0) /\ f[0] = base
  BY DEF Rounds
<1> HIDE DEF f
<1>2. FoldLeft(Step, base, seq) = f[0]
  BY <1>1, FoldIs
<1>3. QED
  BY <1>1, <1>2
-----------------------------------------------------------------------------
(* Division with remainder. *)
LEMMA DivMod ==
  ASSUME NEW m \in Nat \ {0}, NEW x \in Int
  PROVE  /\ x \div m \in Int
         /\ x % m \in 0..(m - 1)
         /\ x = m * (x \div m) + (x % m)
OBVIOUS

(* A remainder is determined by any quotient it goes with. *)
LEMMA ModUnique ==
  ASSUME NEW m \in Nat \ {0}, NEW x \in Int, NEW q \in Int, NEW r \in 0..(m - 1),
         x = m * q + r
  PROVE  x % m = r
<1> DEFINE d == x \div m
           t == x % m
<1>1. d \in Int /\ t \in 0..(m - 1) /\ x = m * d + t
  BY DivMod
<1> HIDE DEF d, t
<1>2. m * (q - d) = t - r
  BY <1>1
<1>3. ~(q - d >= 1)
  <2>1. ASSUME q - d >= 1 PROVE m * (q - d) >= m
    BY <1>1, <2>1
  <2>2. QED
    BY <1>1, <1>2, <2>1
<1>4. ~(q - d <= -1)
  <2>1. ASSUME q - d <= -1 PROVE m * (q - d) <= -m
    BY <1>1, <2>1
  <2>2. QED
    BY <1>1, <1>2, <2>1
<1>5. q - d = 0
  BY <1>1, <1>3, <1>4
<1>6. m * (q - d) = 0
  BY <1>5
<1>7. t = r
  BY <1>1, <1>2, <1>6
<1>8. QED
  BY <1>7 DEF t

(* A number in range is its own remainder. *)
LEMMA ModSmall ==
  ASSUME NEW m \in Nat \ {0}, NEW x \in 0..(m - 1)
  PROVE  x % m = x
<1>1. x = m * 0 + x /\ x \in Int /\ 0 \in Int
  OBVIOUS
<1>2. QED
  BY <1>1, ModUnique

(* Adding to a remainder. *)
LEMMA ModAdd ==
  ASSUME NEW m \in Nat \ {0}, NEW x \in Int, NEW y \in Int
  PROVE  ((x % m) + y) % m = (x + y) % m
<1> DEFINE d == x \div m
           t == x % m
           e == (t + y) \div m
           v == (t + y) % m
           q == d + e
           z == x + y
<1>1. d \in Int /\ t \in 0..(m - 1) /\ x = m * d + t
  BY DivMod
<1> HIDE DEF d, t
<1>2. t + y \in Int
  BY <1>1
<1>3. e \in Int /\ v \in 0..(m - 1) /\ t + y = m * e + v
  BY <1>2, DivMod
<1> HIDE DEF e, v
<1>4. q \in Int /\ z \in Int /\ m * q = m * d + m * e
  BY <1>1, <1>3
<1>5. z = m * q + v
  BY <1>1, <1>2, <1>3, <1>4
<1> HIDE DEF q, z
<1>6. z % m = v
  BY <1>3, <1>4, <1>5, ModUnique
<1>7. QED
  BY <1>6 DEF v, t, z

(* Subtracting a remainder. *)
LEMMA ModSub ==
  ASSUME NEW m \in Nat \ {0}, NEW x \in Int, NEW y \in Int
  PROVE  (y - (x % m)) % m = (y - x) % m
<1> DEFINE d == x \div m
           t == x % m
           z == y - x
           e == z \div m
           v == z % m
           q == d + e
           w == y - t
<1>1. d \in Int /\ t \in 0..(m - 1) /\ x = m * d + t
  BY DivMod
<1> HIDE DEF d, t
<1>2. z \in Int
  OBVIOUS
<1>3. e \in Int /\ v \in 0..(m - 1) /\ z = m * e + v
  BY <1>2, DivMod
<1> HIDE DEF e, v
<1>4. q \in Int /\ w \in Int /\ m * q = m * d + m * e
  BY <1>1, <1>3
<1>5. w = m * q + v
  BY <1>1, <1>2, <1>3, <1>4
<1> HIDE DEF q, w
<1>6. w % m = v
  BY <1>3, <1>4, <1>5, ModUnique
<1>7. QED
  BY <1>6 DEF v, t, z, w

(* A counter of n * m values counts modulo m, too. *)
LEMMA ModOfMod ==
  ASSUME NEW m \in Nat \ {0}, NEW n \in Nat \ {0}, NEW x \in Int
  PROVE  (x % (n * m)) % m = x % m
<1> DEFINE w == n * m
<1>1. w \in Nat \ {0} /\ w = m * n
  OBVIOUS
<1> HIDE DEF w
<1> DEFINE d == x \div w
           t == x % w
           e == t \div m
           v == t % m
           q == n * d + e
<1>2. d \in Int /\ t \in 0..(w - 1) /\ x = w * d + t
  BY <1>1, DivMod
<1> HIDE DEF d, t
<1>3. t \in Int
  BY <1>1, <1>2
<1>4. e \in Int /\ v \in 0..(m - 1) /\ t = m * e + v
  BY <1>3, DivMod
<1> HIDE DEF e, v
<1>5. n * d \in Int /\ q \in Int
  BY <1>2, <1>4
<1>6. m * (n * d) = w * d
  BY <1>1, <1>2
<1>7. m * q = w * d + m * e
  BY <1>2, <1>4, <1>5, <1>6
<1>8. x = m * q + v
  BY <1>1, <1>2, <1>4, <1>5, <1>7
<1> HIDE DEF q
<1>9. x % m = v
  BY <1>4, <1>5, <1>8, ModUnique
<1>10. QED
  BY <1>9 DEF v, t, w

(* A remainder is not greater than what it is taken of. *)
LEMMA ModLeq ==
  ASSUME NEW m \in Nat \ {0}, NEW x \in Nat
  PROVE  x % m <= x
<1>1. CASE x < m
  <2>1. x \in 0..(m - 1)
    BY <1>1
  <2>2. x % m = x
    BY <2>1, ModSmall
  <2>3. QED
    BY <2>2
<1>2. CASE ~(x < m)
  <2>1. x % m \in 0..(m - 1)
    BY DivMod
  <2>2. QED
    BY <1>2, <2>1
<1>3. QED
  BY <1>1, <1>2

(* A counter whose modulus is a multiple of m, taken modulo m. *)
LEMMA ModMultiple ==
  ASSUME NEW m \in Nat \ {0}, NEW w \in Nat \ {0}, w % m = 0, NEW x \in Int
  PROVE  (x % w) % m = x % m
<1> DEFINE n == w \div m
<1>1. n \in Int /\ w = m * n + 0
  BY DivMod
<1>2. w = n * m
  BY <1>1
<1>3. n \in Nat \ {0}
  <2>1. n > 0
    <3> SUFFICES ASSUME n <= 0 PROVE FALSE
      BY <1>1
    <3>1. m * n <= 0
      BY <1>1
    <3>2. QED
      BY <1>1, <3>1
  <2>2. QED
    BY <1>1, <2>1
<1> HIDE DEF n
<1>4. (x % (n * m)) % m = x % m
  BY <1>3, ModOfMod
<1>5. QED
  BY <1>2, <1>4

(* The way from a to x, around m places, as a goes on by one. *)
LEMMA ModBack ==
  ASSUME NEW m \in Nat \ {0}, NEW a \in 0..(m - 1), NEW x \in 0..(m - 1)
  PROVE  /\ x = a => (x - a) % m = 0 /\ (x - ((a + 1) % m)) % m = m - 1
         /\ x # a => /\ (x - a) % m \in 1..(m - 1)
                     /\ (x - ((a + 1) % m)) % m = ((x - a) % m) - 1
<1>1. a + 1 \in Int /\ x \in Int /\ a \in Int /\ m \in Int
  OBVIOUS
<1>2. (x - ((a + 1) % m)) % m = (x - (a + 1)) % m
  BY <1>1, ModSub
<1>3. CASE x = a
  <2>1. x - a = 0 /\ 0 \in 0..(m - 1)
    BY <1>3
  <2>2. (x - a) % m = 0
    BY <2>1, ModSmall
  <2>3. /\ x - (a + 1) \in Int /\ -1 \in Int /\ m - 1 \in 0..(m - 1)
        /\ x - (a + 1) = m * (-1) + (m - 1)
    BY <1>3
  <2>4. (x - (a + 1)) % m = m - 1
    BY <2>3, ModUnique
  <2>5. QED
    BY <1>2, <1>3, <2>2, <2>4
<1>4. CASE x > a
  <2>1. x - a \in 0..(m - 1) /\ x - a \in 1..(m - 1) /\ x - (a + 1) \in 0..(m - 1)
    BY <1>4
  <2>2. (x - a) % m = x - a /\ (x - (a + 1)) % m = x - (a + 1)
    BY <2>1, ModSmall
  <2>3. x # a
    BY <1>4
  <2>4. x - (a + 1) = (x - a) - 1
    OBVIOUS
  <2>5. QED
    BY <1>2, <2>1, <2>2, <2>3, <2>4
<1>5. CASE x < a
  <2> DEFINE t == x - a + m
             s == t - 1
  <2>1. /\ t \in 1..(m - 1) /\ t \in 0..(m - 1) /\ s \in 0..(m - 1)
        /\ x - a \in Int /\ x - (a + 1) \in Int /\ -1 \in Int
    BY <1>5
  <2>2. x - a = m * (-1) + t /\ x - (a + 1) = m * (-1) + s
    BY <1>5
  <2>3. s = t - 1
    OBVIOUS
  <2> HIDE DEF t, s
  <2>4. (x - a) % m = t
    BY <2>1, <2>2, ModUnique
  <2>5. (x - (a + 1)) % m = s
    BY <2>1, <2>2, ModUnique
  <2>6. x # a
    BY <1>5
  <2>7. QED
    BY <1>2, <2>1, <2>3, <2>4, <2>5, <2>6
<1>6. QED
  BY <1>1, <1>3, <1>4, <1>5
=============================================================================
