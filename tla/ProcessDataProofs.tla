--------------------------- MODULE ProcessDataProofs ---------------------------
(***************************************************************************)
(* What ProcessData promises, for any number of slaves with process data   *)
(* of any shape, and any lengths of segments and of the index stack: the   *)
(* map is disjoint, a cycle goes over each byte once, the working counter  *)
(* tells whether all of it came back, and outputs are kept.                *)
(*                                                                         *)
(* The segments, the runs of a shape and the loop that cuts datagrams are  *)
(* functions defined by recursion on an interval.  They are reasoned about *)
(* with Along: an interval is well founded, so what is true at its begin   *)
(* and goes on being true is true all along.                               *)
(***************************************************************************)
EXTENDS ProcessData, FiniteSetTheorems, SequenceTheorems, TLAPS

(* A nonempty set of natural numbers has a least element. *)
LEMMA Least ==
  ASSUME NEW S \in SUBSET Nat, S # {}
  PROVE  \E x \in S : \A y \in S : x <= y
<1>1. PICK n \in S : TRUE
  OBVIOUS
<1>2. IsFiniteSet(0..n) /\ n \in Nat
  BY FS_Interval
<1> DEFINE R == StrictSubsetOrdering(0..n)
<1> DEFINE T == {0..x : x \in {y \in S : y <= n}}
<1>3. IsWellFoundedOn(R, SUBSET (0..n))
  BY <1>2, FS_StrictSubsetOrderingWellFounded, FS_FiniteSubsetsOfFinite
<1>4. T \subseteq SUBSET (0..n)
  <2>1. \A x \in Nat : x <= n => 0..x \subseteq 0..n
    BY <1>2
  <2>2. QED
    BY <2>1
<1>5. T # {}
  BY <1>1
<1>6. \E I \in T : \A J \in T : ~(<<J, I>> \in R)
  <2> HIDE DEF R, T
  <2>1. QED
    BY <1>3, <1>4, <1>5, WFMin
<1>7. PICK x \in S : x <= n /\ \A J \in T : <<J, 0..x>> \notin R
  BY <1>6
<1>8. \A y \in S : x <= y
  <2> SUFFICES ASSUME NEW y \in S, y < x PROVE FALSE
    BY <1>7
  <2>1. y <= n /\ 0..y \in T
    BY <1>2, <1>7
  <2>2. 0..y \subseteq 0..x /\ x \in 0..x /\ x \notin 0..y
    BY <1>2, <1>7
  <2>3. 0..y \in SUBSET (0..n) /\ 0..x \in SUBSET (0..n)
    BY <1>2, <1>7, <2>1
  <2>4. <<0..y, 0..x>> \in R
    BY <2>2, <2>3 DEF StrictSubsetOrdering
  <2>5. QED
    BY <1>7, <2>1, <2>4
<1>9. QED
  BY <1>8

(* What holds at the begin of an interval and goes on holding, holds of    *)
(* all of it.                                                              *)
LEMMA Along ==
  ASSUME NEW a \in Int, NEW n \in Int, NEW T \in SUBSET (a..n),
         a <= n => a \in T,
         \A k \in a..n - 1 : k \in T => k + 1 \in T
  PROVE  T = a..n
<1> SUFFICES ASSUME T # a..n PROVE FALSE
  OBVIOUS
<1> DEFINE S == {x \in Nat : a + x \in a..n \ T}
<1>1. S \in SUBSET Nat
  OBVIOUS
<1>2. PICK k \in a..n : k \notin T
  OBVIOUS
<1>3. k - a \in Nat /\ a + (k - a) = k
  BY <1>2
<1>4. k - a \in S
  BY <1>2, <1>3
<1>5. PICK x \in S : \A y \in S : x <= y
  <2> HIDE DEF S
  <2>1. QED
    BY <1>1, <1>4, Least
<1>6. x \in Nat /\ a + x \in a..n /\ a + x \notin T
  BY <1>5
<1>7. x # 0
  BY <1>6
<1>8. x - 1 \in Nat /\ a + (x - 1) \in a..n - 1 /\ (a + (x - 1)) + 1 = a + x
  BY <1>6, <1>7
<1>9. a + (x - 1) \notin T
  BY <1>6, <1>8
<1>10. x - 1 \in S
  BY <1>8, <1>9
<1>11. x <= x - 1
  <2> HIDE DEF S
  <2>1. QED
    BY <1>5, <1>10
<1>12. QED
  BY <1>6, <1>11

(* A function on an interval is defined by its first value and the step    *)
(* from each to the next.                                                  *)
Follows(g, a, n, S, z, h) ==
  g \in [a..n -> S] /\ g[a] = z /\ \A k \in a + 1..n : g[k] = h[k][g[k - 1]]

(* There is one such function, whatever the first value and the steps.     *)
LEMMA Recursion ==
  ASSUME NEW a \in Int, NEW n \in Int, a <= n, NEW S, NEW z \in S,
         NEW h, \A k \in a + 1..n : \A v \in S : h[k][v] \in S
  PROVE  \E g : Follows(g, a, n, S, z, h)
<1> DEFINE Right(g, m) == g = [k \in a..m |-> IF k = a THEN z ELSE h[k][g[k - 1]]]
<1> DEFINE T == {m \in a..n : \E g \in [a..m -> S] : Right(g, m)}
<1>1. a \in T
  <2> DEFINE g == [k \in a..a |-> z]
  <2>1. g \in [a..a -> S] /\ a \in a..n
    OBVIOUS
  <2>2. Right(g, a)
    OBVIOUS
  <2> HIDE DEF g, Right
  <2>3. QED
    BY <2>1, <2>2
<1>2. ASSUME NEW m \in a..n - 1, m \in T PROVE m + 1 \in T
  <2>1. PICK g \in [a..m -> S] : Right(g, m)
    BY <1>2
  <2> DEFINE f == [k \in a..m + 1 |-> IF k = m + 1 THEN h[m + 1][g[m]] ELSE g[k]]
  <2>2. m \in Int /\ m + 1 \in a + 1..n /\ a <= m /\ m \in a..m
    OBVIOUS
  <2>3. h[m + 1][g[m]] \in S
    BY <2>2
  <2>4. f \in [a..m + 1 -> S]
    BY <2>2, <2>3
  <2>5. \A k \in a..m + 1 : f[k] = IF k = a THEN z ELSE h[k][f[k - 1]]
    <3> SUFFICES ASSUME NEW k \in a..m + 1
                 PROVE  f[k] = IF k = a THEN z ELSE h[k][f[k - 1]]
      OBVIOUS
    <3>1. CASE k = m + 1
      <4>1. k # a /\ k - 1 = m /\ m \in a..m + 1 /\ m # m + 1
        BY <2>2, <3>1
      <4>2. f[k] = h[m + 1][g[m]] /\ f[m] = g[m]
        BY <3>1, <4>1
      <4>3. QED
        BY <3>1, <4>1, <4>2
    <3>2. CASE k # m + 1
      <4>1. k \in a..m /\ f[k] = g[k] /\ g[k] = IF k = a THEN z ELSE h[k][g[k - 1]]
        BY <2>1, <2>2, <3>2
      <4>2. k # a => k - 1 \in a..m /\ k - 1 \in a..m + 1 /\ k - 1 # m + 1
        BY <2>2, <4>1
      <4>3. k # a => f[k - 1] = g[k - 1]
        BY <4>2
      <4>4. QED
        BY <4>1, <4>3
    <3>3. QED
      BY <3>1, <3>2
  <2>6. Right(f, m + 1)
    <3>1. f = [k \in a..m + 1 |-> f[k]]
      BY <2>4
    <3> HIDE DEF f
    <3>2. QED
      BY <2>5, <3>1
  <2> HIDE DEF f, Right
  <2>7. QED
    BY <2>2, <2>4, <2>6
<1>3. T = a..n
  <2>1. T \in SUBSET (a..n)
    OBVIOUS
  <2> HIDE DEF T
  <2>2. QED
    BY <1>1, <1>2, <2>1, Along
<1>4. n \in T
  BY <1>3
<1>5. PICK g \in [a..n -> S] : Right(g, n)
  BY <1>4
<1>6. g[a] = z /\ \A k \in a + 1..n : g[k] = h[k][g[k - 1]]
  BY <1>5
<1>7. QED
  BY <1>6 DEF Follows

(* A function that does not fall from one point to the next does not fall. *)
LEMMA Rising ==
  ASSUME NEW a \in Int, NEW n \in Int, NEW g \in [a..n -> Int],
         \A k \in a..n - 1 : g[k] <= g[k + 1],
         NEW i \in a..n, NEW j \in a..n, i <= j
  PROVE  g[i] <= g[j]
<1> DEFINE T == {k \in i..n : g[i] <= g[k]}
<1>1. i \in T
  OBVIOUS
<1>2. \A k \in i..n - 1 : k \in T => k + 1 \in T
  OBVIOUS
<1>3. T = i..n
  <2>1. T \in SUBSET (i..n) /\ i \in Int
    OBVIOUS
  <2> HIDE DEF T
  <2>2. QED
    BY <1>1, <1>2, <2>1, Along
<1>4. j \in T
  BY <1>3
<1>5. QED
  BY <1>4

(* What a function has at first and keeps from each point to the next, it   *)
(* has everywhere.                                                         *)
LEMMA Keeping ==
  ASSUME NEW a \in Int, NEW n \in Int, NEW S, NEW g, a <= n,
         g = [k \in a..n |-> g[k]], g[a] \in S,
         \A k \in a + 1..n : g[k - 1] \in S => g[k] \in S
  PROVE  g \in [a..n -> S]
<1> DEFINE T == {k \in a..n : g[k] \in S}
<1>1. a \in T
  OBVIOUS
<1>2. \A k \in a..n - 1 : k \in T => k + 1 \in T
  <2>1. ASSUME NEW k \in a..n - 1, k \in T PROVE k + 1 \in T
    <3>1. k + 1 \in a + 1..n /\ (k + 1) - 1 = k /\ k + 1 \in a..n
      BY SMT
    <3>2. g[k] \in S
      BY <2>1
    <3>3. g[k + 1] \in S
      BY <3>1, <3>2
    <3>4. QED
      BY <3>1, <3>3
  <2>2. QED
    BY <2>1
<1>3. T = a..n
  <2>1. T \in SUBSET (a..n)
    OBVIOUS
  <2> HIDE DEF T
  <2>2. QED
    BY <1>1, <1>2, <2>1, Along
<1>4. \A k \in a..n : g[k] \in S
  BY <1>3
<1>5. QED
  BY <1>4

-----------------------------------------------------------------------------
(* The parts of a shape are numbers.                                       *)
LEMMA ShapeType ==
  ASSUME NEW sh \in Shape
  PROVE  /\ sh.bits \in Nat /\ Len(sh.runs) \in Nat
         /\ \A k \in 1..Len(sh.runs) : sh.runs[k] \in Nat \ {0}
         /\ Bytes(sh) \in Nat
<1>1. sh.bits \in Nat /\ sh.runs \in Seq(Nat \ {0})
  BY DEF Shape
<1>2. QED
  BY <1>1 DEF Bytes

(* How far the runs of a slave go: each FMMU goes beyond the one before,    *)
(* and none beyond the bytes of the slave.                                 *)
LEMMA DoneRises ==
  ASSUME NEW sh \in Shape
  PROVE  /\ FMMUdone(sh) \in [0..Len(sh.runs) -> 0..Bytes(sh)]
         /\ FMMUdone(sh)[0] = 0
         /\ \A k \in 1..Len(sh.runs) :
              /\ FMMUdone(sh)[k - 1] <= FMMUdone(sh)[k]
              /\ FMMUdone(sh)[k - 1] < Bytes(sh) => FMMUdone(sh)[k - 1] < FMMUdone(sh)[k]
<1> DEFINE n == Len(sh.runs)
<1> DEFINE B == Bytes(sh)
<1> DEFINE Count(c) == c = [k \in 0..n |-> IF k = 0 THEN 0 ELSE c[k - 1] + sh.runs[k]]
<1> DEFINE c == CHOOSE c : Count(c)
<1> DEFINE Done(d) == d = [k \in 0..n |-> IF k = 0 THEN 0
                           ELSE IF c[k] + d[k - 1] > B THEN B ELSE c[k] + d[k - 1]]
<1> DEFINE d == CHOOSE d : Done(d)
<1>1. FMMUdone(sh) = d
  BY DEF FMMUdone
<1>2. n \in Nat /\ B \in Nat /\ \A k \in 1..n : sh.runs[k] \in Nat \ {0}
  BY ShapeType
<1> HIDE DEF n, B
<1>3. Count(c)
  <2> DEFINE h == [k \in 1..n |-> [v \in Nat |-> v + sh.runs[k]]]
  <2>1. \A k \in 0 + 1..n : \A v \in Nat : h[k][v] \in Nat
    BY <1>2
  <2>2. n \in Int /\ 0 \in Int /\ 0 \in Nat /\ 0 <= n
    BY <1>2
  <2>3. PICK g : Follows(g, 0, n, Nat, 0, h)
    <3> HIDE DEF h
    <3>1. QED
      BY <2>1, <2>2, Recursion
  <2>4. g \in [0..n -> Nat] /\ g[0] = 0 /\ \A k \in 1..n : g[k] = h[k][g[k - 1]]
    BY <2>3 DEF Follows
  <2>5. \A k \in 1..n : g[k] = g[k - 1] + sh.runs[k]
    <3> SUFFICES ASSUME NEW k \in 1..n PROVE g[k] = g[k - 1] + sh.runs[k]
      OBVIOUS
    <3>1. k - 1 \in 0..n
      BY <1>2
    <3>2. g[k - 1] \in Nat
      BY <2>4, <3>1
    <3>3. QED
      BY <2>4, <3>2
  <2>6. Count(g)
    BY <1>2, <2>4, <2>5
  <2> HIDE DEF Count
  <2>7. QED
    BY <2>6
<1> HIDE DEF c
<1>4. c \in [0..n -> Nat] /\ c[0] = 0 /\ \A k \in 1..n : c[k] = c[k - 1] + sh.runs[k]
  <2>1. c[0] = 0 /\ \A k \in 1..n : c[k] = c[k - 1] + sh.runs[k]
    BY <1>2, <1>3
  <2>2. c = [k \in 0..n |-> c[k]]
    BY <1>3
  <2>3. \A k \in 0 + 1..n : c[k - 1] \in Nat => c[k] \in Nat
    BY <1>2, <2>1
  <2>4. c \in [0..n -> Nat]
    <3>1. n \in Int /\ 0 \in Int /\ 0 <= n /\ c[0] \in Nat
      BY <1>2, <2>1
    <3>2. QED
      BY <2>2, <2>3, <3>1, Keeping
  <2>5. QED
    BY <2>1, <2>4
<1>5. \A k \in 1..n : c[k] \in Nat \ {0}
  <2> SUFFICES ASSUME NEW k \in 1..n PROVE c[k] \in Nat \ {0}
    OBVIOUS
  <2>1. k - 1 \in 0..n
    BY <1>2
  <2>2. c[k - 1] \in Nat /\ sh.runs[k] \in Nat \ {0} /\ c[k] = c[k - 1] + sh.runs[k]
    BY <1>2, <1>4, <2>1
  <2>3. QED
    BY <2>2
<1>6. Done(d)
  <2> DEFINE h == [k \in 1..n |-> [v \in 0..B |-> IF c[k] + v > B THEN B ELSE c[k] + v]]
  <2>1. \A k \in 0 + 1..n : \A v \in 0..B : h[k][v] \in 0..B
    BY <1>2, <1>5
  <2>2. n \in Int /\ 0 \in Int /\ 0 <= n /\ 0 \in 0..B
    BY <1>2
  <2>3. PICK g : Follows(g, 0, n, 0..B, 0, h)
    <3> HIDE DEF h
    <3>1. QED
      BY <2>1, <2>2, Recursion
  <2>4. g \in [0..n -> 0..B] /\ g[0] = 0 /\ \A k \in 1..n : g[k] = h[k][g[k - 1]]
    BY <2>3 DEF Follows
  <2>5. \A k \in 1..n : g[k] = IF c[k] + g[k - 1] > B THEN B ELSE c[k] + g[k - 1]
    <3> SUFFICES ASSUME NEW k \in 1..n
                 PROVE  g[k] = IF c[k] + g[k - 1] > B THEN B ELSE c[k] + g[k - 1]
      OBVIOUS
    <3>1. k - 1 \in 0..n
      BY <1>2
    <3>2. g[k - 1] \in 0..B
      BY <2>4, <3>1
    <3>3. QED
      BY <2>4, <3>2
  <2>6. Done(g)
    BY <1>2, <2>4, <2>5
  <2> HIDE DEF Done
  <2>7. QED
    BY <2>6
<1> HIDE DEF d
<1>7. d[0] = 0 /\ \A k \in 1..n : d[k] = IF c[k] + d[k - 1] > B THEN B ELSE c[k] + d[k - 1]
  BY <1>2, <1>6
<1>8. d \in [0..n -> 0..B]
  <2>1. d = [k \in 0..n |-> d[k]]
    BY <1>6
  <2>2. \A k \in 0 + 1..n : d[k - 1] \in 0..B => d[k] \in 0..B
    BY <1>2, <1>5, <1>7
  <2>3. n \in Int /\ 0 \in Int /\ 0 <= n /\ d[0] \in 0..B
    BY <1>2, <1>7
  <2>4. QED
    BY <2>1, <2>2, <2>3, Keeping
<1>9. \A k \in 1..n : d[k - 1] <= d[k] /\ (d[k - 1] < B => d[k - 1] < d[k])
  <2> SUFFICES ASSUME NEW k \in 1..n
               PROVE  d[k - 1] <= d[k] /\ (d[k - 1] < B => d[k - 1] < d[k])
    OBVIOUS
  <2>1. k - 1 \in 0..n /\ k \in 0..n
    BY <1>2
  <2>2. d[k - 1] \in 0..B /\ d[k] \in 0..B /\ c[k] \in Nat \ {0}
    BY <1>5, <1>8, <2>1
  <2>3. d[k] = IF c[k] + d[k - 1] > B THEN B ELSE c[k] + d[k - 1]
    BY <1>7
  <2>4. QED
    BY <1>2, <2>2, <2>3
<1>10. QED
  BY <1>1, <1>7, <1>8, <1>9 DEF n, B

-----------------------------------------------------------------------------
Dir  == {"out", "in"}
Fmmu == [slave : Slave, dir : Dir, run : Nat, first : Nat, last : Nat]

Where == 8 * LogAddr + BitPos
After(sh) == 8 * AfterFmmus(sh)[1] + AfterFmmus(sh)[2]

Apart(f, g) == f.last < g.first \/ g.last < f.first

(* The FMMUs of one direction of a slave lie between the place they begin  *)
(* at and the place they end at, in order; if there are several of them they *)
(* end at a byte.                                                          *)
LEMMA FmmusPlaced ==
  ASSUME LogAddr \in Nat, BitPos \in 0..7,
         NEW sh \in Shape, NEW s \in Slave, NEW d \in Dir
  PROVE  /\ AfterFmmus(sh)[1] \in Nat /\ AfterFmmus(sh)[2] \in 0..7
         /\ AfterFmmus(sh)[1] >= LogAddr /\ After(sh) >= Where
         /\ Fmmus(s, d, sh) \subseteq Fmmu
         /\ \A g \in Fmmus(s, d, sh) :
              /\ g.slave = s /\ g.dir = d /\ sh.bits # 0
              /\ Where <= g.first /\ g.first <= g.last /\ g.last < After(sh)
         /\ \A f, g \in Fmmus(s, d, sh) : f # g => Apart(f, g) /\ AfterFmmus(sh)[2] = 0
         /\ sh.bits = 0 => AfterFmmus(sh) = <<LogAddr, BitPos>>
<1>1. sh.bits \in Nat /\ Bytes(sh) \in Nat /\ (Bytes(sh) > 0 => sh.bits > 7)
  BY ShapeType DEF Bytes
<1>2. CASE sh.bits = 0
  BY <1>1, <1>2 DEF AfterFmmus, Fmmus, After, Where
<1>3. CASE sh.bits # 0 /\ Bytes(sh) = 0
  <2>1. sh.bits \in 1..7
    BY <1>1, <1>3 DEF Bytes
  <2>2. Fmmus(s, d, sh) = {BitFmmu(s, d, sh)}
    BY <1>1, <1>3 DEF Fmmus
  <2>3. BitFmmu(s, d, sh) = [slave |-> s, dir |-> d, run |-> 1, first |-> Where,
                             last |-> Where + sh.bits - 1]
    BY DEF BitFmmu, Where
  <2>4. Where \in Nat /\ Where + sh.bits - 1 \in Nat
    BY <2>1 DEF Where
  <2>5. AfterFmmus(sh) = <<LogAddr + (BitPos + sh.bits) \div 8, (BitPos + sh.bits) % 8>>
    BY <1>1, <1>3 DEF AfterFmmus
  <2>6. /\ (BitPos + sh.bits) \div 8 \in Nat /\ (BitPos + sh.bits) % 8 \in 0..7
        /\ 8 * ((BitPos + sh.bits) \div 8) + ((BitPos + sh.bits) % 8) = BitPos + sh.bits
    <3> DEFINE x == BitPos + sh.bits
    <3>1. x \in 0..14
      BY <2>1
    <3> HIDE DEF x
    <3>2. x < 8 => x \div 8 = 0 /\ x % 8 = x
      BY <3>1
    <3>3. x >= 8 => x \div 8 = 1 /\ x % 8 = x - 8
      BY <3>1
    <3>4. x \div 8 \in Nat /\ x % 8 \in 0..7 /\ 8 * (x \div 8) + (x % 8) = x
      <4>1. x \div 8 \in Nat /\ x % 8 \in 0..7
        BY <3>1
      <4>2. CASE x < 8
        BY <3>1, <3>2, <4>1, <4>2
      <4>3. CASE x >= 8
        BY <3>1, <3>3, <4>1, <4>3
      <4>4. QED
        BY <3>1, <4>1, <4>2, <4>3
    <3>5. QED
      BY <3>4 DEF x
  <2>7. After(sh) = Where + sh.bits /\ AfterFmmus(sh)[1] \in Nat
        /\ AfterFmmus(sh)[1] >= LogAddr /\ AfterFmmus(sh)[2] \in 0..7
    <3> DEFINE q == (BitPos + sh.bits) \div 8
    <3> DEFINE r == (BitPos + sh.bits) % 8
    <3>1. q \in Nat /\ r \in 0..7 /\ 8 * q + r = BitPos + sh.bits
      BY <2>6
    <3>2. AfterFmmus(sh)[1] = LogAddr + q /\ AfterFmmus(sh)[2] = r
      BY <2>5
    <3> HIDE DEF q, r
    <3>3. QED
      BY <2>1, <3>1, <3>2 DEF After, Where
  <2>8. BitFmmu(s, d, sh) \in Fmmu
    BY <2>3, <2>4 DEF Fmmu
  <2>9. QED
    BY <1>3, <2>1, <2>2, <2>3, <2>4, <2>7, <2>8
<1>4. CASE Bytes(sh) > 0
  <2> DEFINE n == Len(sh.runs)
  <2> DEFINE B == Bytes(sh)
  <2> DEFINE e == FMMUdone(sh)
  <2>1. n \in Nat /\ e \in [0..n -> 0..B] /\ e[0] = 0
        /\ \A k \in 1..n : e[k - 1] <= e[k] /\ (e[k - 1] < B => e[k - 1] < e[k])
    BY ShapeType, DoneRises
  <2>2. sh.bits > 7 /\ Fmmus(s, d, sh) = ByteFmmus(s, d, sh)
        /\ AfterFmmus(sh) = <<NextByte + e[n], 0>>
    BY <1>1, <1>4 DEF Fmmus, AfterFmmus
  <2>3. NextByte \in Nat /\ NextByte >= LogAddr /\ 8 * NextByte >= Where
    BY DEF NextByte, Where
  <2> DEFINE F(k) == [slave |-> s, dir |-> d, run |-> k,
                      first |-> 8 * (NextByte + e[k - 1]), last |-> 8 * (NextByte + e[k]) - 1]
  <2>4. ByteFmmus(s, d, sh) = {F(k) : k \in {k \in 1..n : e[k - 1] < B}}
    BY DEF ByteFmmus
  <2> HIDE DEF n, B, e
  <2>5. \A i, j \in 0..n : i <= j => e[i] <= e[j]
    <3>1. e \in [0..n -> Int] /\ 0 \in Int /\ n \in Int
      BY <1>1, <2>1 DEF B
    <3>2. \A k \in 0..n - 1 : e[k] <= e[k + 1]
      <4> SUFFICES ASSUME NEW k \in 0..n - 1 PROVE e[k] <= e[k + 1]
        OBVIOUS
      <4>1. k + 1 \in 1..n /\ (k + 1) - 1 = k
        BY <2>1
      <4>2. QED
        BY <2>1, <4>1
    <3>3. QED
      BY <3>1, <3>2, Rising
  <2>6. e[n] \in 0..B /\ B \in Nat
    BY <1>1, <2>1 DEF B
  <2>7. /\ AfterFmmus(sh)[1] = NextByte + e[n] /\ AfterFmmus(sh)[2] = 0
        /\ After(sh) = 8 * (NextByte + e[n])
    BY <2>2, <2>3, <2>6 DEF After
  <2>8. ASSUME NEW k \in 1..n, e[k - 1] < B
        PROVE  /\ F(k) \in Fmmu /\ F(k).slave = s /\ F(k).dir = d
               /\ Where <= F(k).first /\ F(k).first <= F(k).last /\ F(k).last < After(sh)
    <3>1. k \in 0..n /\ k - 1 \in 0..n /\ n \in 0..n /\ k \in Nat
      BY <2>1
    <3>2. e[k - 1] \in Nat /\ e[k] \in Nat /\ e[k - 1] < e[k] /\ e[k] <= e[n]
      BY <2>1, <2>5, <2>6, <2>8, <3>1
    <3>3. 8 * (NextByte + e[k - 1]) \in Nat /\ 8 * (NextByte + e[k]) - 1 \in Nat
      BY <2>3, <3>2
    <3>4. F(k) \in Fmmu
      BY <3>1, <3>3 DEF Fmmu
    <3>5. QED
      BY <2>3, <2>6, <2>7, <3>2, <3>4 DEF Where
  <2>9. ASSUME NEW i \in 1..n, NEW j \in 1..n, F(i) # F(j) PROVE Apart(F(i), F(j))
    <3>1. i # j /\ i \in 0..n /\ j \in 0..n /\ i - 1 \in 0..n /\ j - 1 \in 0..n
      BY <2>1, <2>9
    <3>2. e[i] \in Nat /\ e[j] \in Nat /\ e[i - 1] \in Nat /\ e[j - 1] \in Nat
      BY <2>1, <2>6, <3>1
    <3>3. i <= j - 1 => e[i] <= e[j - 1]
      BY <2>5, <3>1
    <3>4. j <= i - 1 => e[j] <= e[i - 1]
      BY <2>5, <3>1
    <3>5. i <= j - 1 \/ j <= i - 1
      BY <3>1
    <3>6. QED
      BY <2>3, <3>2, <3>3, <3>4, <3>5 DEF Apart
  <2>10. /\ AfterFmmus(sh)[1] \in Nat /\ AfterFmmus(sh)[1] >= LogAddr
         /\ After(sh) >= Where /\ sh.bits # 0
    <3>1. NextByte + e[n] \in Nat /\ NextByte + e[n] >= LogAddr
          /\ 8 * (NextByte + e[n]) >= Where
      BY <2>3, <2>6 DEF Where
    <3>2. sh.bits # 0
      BY <1>1, <2>2
    <3>3. QED
      BY <2>7, <3>1, <3>2
  <2>11. ASSUME NEW g \in Fmmus(s, d, sh)
         PROVE  \E k \in 1..n : g = F(k) /\ e[k - 1] < B
    BY <2>2, <2>4
  <2> HIDE DEF F
  <2>12. \A g \in Fmmus(s, d, sh) :
            /\ g \in Fmmu /\ g.slave = s /\ g.dir = d
            /\ Where <= g.first /\ g.first <= g.last /\ g.last < After(sh)
    BY <2>8, <2>11
  <2>13. \A f, g \in Fmmus(s, d, sh) : f # g => Apart(f, g)
    BY <2>9, <2>11
  <2>14. QED
    BY <2>7, <2>10, <2>12, <2>13
<1>5. QED
  BY <1>1, <1>2, <1>3, <1>4

-----------------------------------------------------------------------------
(* Where each segment begins in the logical address space.                 *)
Lengths == [0..MAXSEG - 1 -> Nat]

SegBegin(segs) ==
  LET begin[k \in 0..MAXSEG] == IF k = 0 THEN 0 ELSE begin[k - 1] + segs[k - 1]
  IN begin

(* A segment begins where the one before ends.                             *)
LEMMA SegmentsFollow ==
  ASSUME NEW segs \in Lengths
  PROVE  /\ SegBegin(segs) \in [0..MAXSEG -> Nat]
         /\ SegBegin(segs)[0] = 0
         /\ \A k \in 0..MAXSEG - 1 : SegBegin(segs)[k + 1] = SegBegin(segs)[k] + segs[k]
<1> DEFINE n == MAXSEG
<1> DEFINE Sum(b) == b = [k \in 0..n |-> IF k = 0 THEN 0 ELSE b[k - 1] + segs[k - 1]]
<1> DEFINE b == CHOOSE b : Sum(b)
<1>1. SegBegin(segs) = b
  BY DEF SegBegin
<1>2. n \in Nat /\ n # 0 /\ \A k \in 0..n - 1 : segs[k] \in Nat
  BY SegmentAssumption DEF Lengths
<1> HIDE DEF n
<1>3. \A k \in 1..n : k - 1 \in 0..n - 1 /\ k - 1 \in 0..n /\ segs[k - 1] \in Nat
  BY <1>2
<1>4. Sum(b)
  <2> DEFINE h == [k \in 1..n |-> [v \in Nat |-> v + segs[k - 1]]]
  <2>1. \A k \in 0 + 1..n : \A v \in Nat : h[k][v] \in Nat
    BY <1>3
  <2>2. n \in Int /\ 0 \in Int /\ 0 \in Nat /\ 0 <= n
    BY <1>2
  <2>3. PICK g : Follows(g, 0, n, Nat, 0, h)
    <3> HIDE DEF h
    <3>1. QED
      BY <2>1, <2>2, Recursion
  <2>4. g \in [0..n -> Nat] /\ g[0] = 0 /\ \A k \in 1..n : g[k] = h[k][g[k - 1]]
    BY <2>3 DEF Follows
  <2>5. \A k \in 1..n : g[k] = g[k - 1] + segs[k - 1]
    BY <1>3, <2>4
  <2>6. Sum(g)
    BY <1>2, <2>4, <2>5
  <2> HIDE DEF Sum
  <2>7. QED
    BY <2>6
<1> HIDE DEF b
<1>5. b[0] = 0 /\ \A k \in 1..n : b[k] = b[k - 1] + segs[k - 1]
  BY <1>2, <1>4
<1>6. b \in [0..n -> Nat]
  <2>1. b = [k \in 0..n |-> b[k]]
    BY <1>4
  <2>2. \A k \in 0 + 1..n : b[k - 1] \in Nat => b[k] \in Nat
    BY <1>3, <1>5
  <2>3. n \in Int /\ 0 \in Int /\ 0 <= n /\ b[0] \in Nat
    BY <1>2, <1>5
  <2>4. QED
    BY <2>1, <2>2, <2>3, Keeping
<1>7. \A k \in 0..n - 1 : b[k + 1] = b[k] + segs[k]
  <2> SUFFICES ASSUME NEW k \in 0..n - 1 PROVE b[k + 1] = b[k] + segs[k]
    OBVIOUS
  <2>1. k + 1 \in 1..n /\ (k + 1) - 1 = k
    BY <1>2
  <2>2. QED
    BY <1>5, <2>1
<1>8. QED
  BY <1>1, <1>5, <1>6, <1>7 DEF n

(* A later segment does not begin before an earlier one.                   *)
LEMMA SegmentsRise ==
  ASSUME NEW segs \in Lengths, NEW i \in 0..MAXSEG, NEW j \in 0..MAXSEG, i <= j
  PROVE  SegBegin(segs)[i] <= SegBegin(segs)[j]
<1> DEFINE b == SegBegin(segs)
<1>1. b \in [0..MAXSEG -> Nat] /\ \A k \in 0..MAXSEG - 1 : b[k + 1] = b[k] + segs[k]
  BY SegmentsFollow
<1>2. 0 \in Int /\ MAXSEG \in Int /\ \A k \in 0..MAXSEG - 1 : segs[k] \in Nat
  BY SegmentAssumption DEF Lengths
<1> HIDE DEF b
<1>3. \A k \in 0..MAXSEG - 1 : b[k] <= b[k + 1]
  <2> SUFFICES ASSUME NEW k \in 0..MAXSEG - 1 PROVE b[k] <= b[k + 1]
    OBVIOUS
  <2>1. k \in 0..MAXSEG /\ segs[k] \in Nat
    BY <1>2
  <2>2. b[k] \in Nat /\ b[k + 1] = b[k] + segs[k]
    BY <1>1, <2>1
  <2>3. QED
    BY <2>1, <2>2
<1>4. b \in [0..MAXSEG -> Int]
  BY <1>1
<1>5. b[i] <= b[j]
  BY <1>2, <1>3, <1>4, Rising
<1>6. QED
  BY <1>5 DEF b

(* A segment begins where those before it end.                             *)
LEMMA SegmentsSame ==
  ASSUME NEW r \in Lengths, NEW q \in Lengths, NEW m \in 0..MAXSEG,
         \A k \in 0..m - 1 : r[k] = q[k]
  PROVE  \A k \in 0..m : SegBegin(r)[k] = SegBegin(q)[k]
<1> DEFINE f == SegBegin(r)
<1> DEFINE g == SegBegin(q)
<1> DEFINE T == {k \in 0..m : f[k] = g[k]}
<1>1. /\ f[0] = 0 /\ \A k \in 0..MAXSEG - 1 : f[k + 1] = f[k] + r[k]
      /\ g[0] = 0 /\ \A k \in 0..MAXSEG - 1 : g[k + 1] = g[k] + q[k]
  BY SegmentsFollow
<1>2. m \in Nat /\ m <= MAXSEG /\ MAXSEG \in Nat
  BY SegmentAssumption
<1> HIDE DEF f, g
<1>3. 0 \in T
  BY <1>1, <1>2
<1>4. \A k \in 0..m - 1 : k \in T => k + 1 \in T
  BY <1>1, <1>2
<1>5. T = 0..m
  <2>1. T \in SUBSET (0..m) /\ 0 \in Int /\ m \in Int
    BY <1>2
  <2> HIDE DEF T
  <2>2. QED
    BY <1>3, <1>4, <2>1, Along
<1>6. \A k \in 0..m : f[k] = g[k]
  BY <1>5
<1>7. QED
  BY <1>6 DEF f, g

(* What a slave or the rest of a byte of diff more bytes does to the        *)
(* segments: the current one grows or another is begun behind it, as long  *)
(* as there is one.                                                        *)
Extends(p, diff) ==
  /\ p.segs \in Lengths /\ p.cur \in 0..MAXSEG - 1 /\ p.size \in Nat
  /\ p.cur \in {currentsegment, currentsegment + 1}
  /\ \A k \in 0..currentsegment - 1 : p.segs[k] = IOsegment[k]
  /\ p.cur = currentsegment => p.size >= segmentsize
  /\ p.cur # currentsegment => p.segs[currentsegment] = segmentsize
  /\ currentsegment < MAXSEG - 1 =>
       p.size = IF p.cur = currentsegment THEN segmentsize + diff ELSE diff

SegType == /\ IOsegment \in Lengths /\ currentsegment \in 0..MAXSEG - 1
           /\ segmentsize \in Nat

(* ecx_config_map_group puts the bytes in the current segment or begins    *)
(* another.                                                                *)
LEMMA PackedExtends ==
  ASSUME SegType, NEW diff \in Nat
  PROVE  Extends(Packed(diff), diff)
<1> DEFINE full == [IOsegment EXCEPT ![currentsegment] = segmentsize]
<1>1. MAXSEG \in Nat \ {0} /\ MAXLRW \in Nat
  BY SegmentAssumption
<1>2. full \in Lengths /\ full[currentsegment] = segmentsize
      /\ \A k \in 0..currentsegment - 1 : full[k] = IOsegment[k]
  BY <1>1 DEF SegType, Lengths
<1>3. CASE segmentsize + diff <= MAXLRW
  <2>1. Packed(diff) = [segs |-> IOsegment, cur |-> currentsegment, size |-> segmentsize + diff]
    BY <1>3 DEF Packed
  <2>2. QED
    BY <2>1 DEF Extends, SegType
<1>4. CASE ~(segmentsize + diff <= MAXLRW) /\ currentsegment < MAXSEG - 1
  <2>1. Packed(diff) = [segs |-> full, cur |-> currentsegment + 1, size |-> diff]
    BY <1>4 DEF Packed
  <2>2. currentsegment + 1 \in 0..MAXSEG - 1 /\ currentsegment + 1 # currentsegment
    BY <1>1, <1>4 DEF SegType
  <2> HIDE DEF full
  <2>3. QED
    BY <1>2, <2>1, <2>2 DEF Extends, SegType
<1>5. CASE ~(segmentsize + diff <= MAXLRW) /\ ~(currentsegment < MAXSEG - 1)
  <2>1. Packed(diff) = [segs |-> full, cur |-> currentsegment, size |-> segmentsize]
    BY <1>5 DEF Packed
  <2> HIDE DEF full
  <2>2. QED
    BY <1>2, <1>5, <2>1 DEF Extends, SegType
<1>6. QED
  BY <1>3, <1>4, <1>5

(* A slave without process data leaves the segments as they are.           *)
LEMMA UnpackedExtends ==
  ASSUME SegType PROVE Extends(Unpacked, 0)
  BY DEF Unpacked, Extends, SegType

(* The rest of a byte is one byte more, if the byte was begun.             *)
LEMMA FillByteExtends ==
  ASSUME SegType, LogAddr \in Nat, BitPos \in 0..7
  PROVE  Extends(FillByte, NextByte - LogAddr)
<1>1. CASE BitPos > 0
  <2>1. NextByte - LogAddr = 1 /\ FillByte = Packed(1)
    BY <1>1 DEF NextByte, FillByte
  <2>2. QED
    BY <2>1, PackedExtends
<1>2. CASE ~(BitPos > 0)
  <2>1. NextByte - LogAddr = 0 /\ FillByte = Unpacked
    BY <1>2 DEF NextByte, FillByte
  <2>2. QED
    BY <2>1, UnpackedExtends
<1>3. QED
  BY <1>1, <1>2

-----------------------------------------------------------------------------
MapType ==
  /\ shape \in [Slave -> [out : OutShape, in : InShape]]
  /\ overlap \in BOOLEAN
  /\ step \in IF overlap THEN {"both", "mapped"} ELSE {"out", "in", "mapped"}
  /\ slave \in 1..NSlave + 1
  /\ LogAddr \in Nat /\ BitPos \in 0..7
  /\ SegType
  /\ Obytes \in Nat /\ Ibytes \in Nat /\ Isegment \in 0..MAXSEG - 1 /\ Ioffset \in Nat
  /\ fmmu \subseteq Fmmu

(* The FMMUs lie before the place that is free, apart, the outputs before  *)
(* the inputs.                                                             *)
Exempt(f, g) == overlap /\ f.slave = g.slave /\ f.dir # g.dir

Placed ==
  /\ \A g \in fmmu : g.first <= g.last /\ g.last < Where
  /\ \A f, g \in fmmu : f # g /\ ~Exempt(f, g) => Apart(f, g)

Sorted ==
  /\ ~overlap =>
       /\ step = "out" => \A g \in fmmu : g.dir = "out"
       /\ step # "out" =>
            /\ 8 * Obytes <= Where
            /\ \A g \in fmmu : IF g.dir = "out" THEN g.last < 8 * Obytes
                               ELSE g.first >= 8 * Obytes
       /\ step = "mapped" => LogAddr = Obytes + Ibytes /\ BitPos = 0
  /\ overlap =>
       /\ BitPos = 0 /\ LogAddr = EndOverlap(Obytes, Ibytes)
       /\ \A g \in fmmu : g.last < 8 * (IF g.dir = "out" THEN Obytes ELSE Ibytes)

(* Only slaves whose turn was have FMMUs.                                  *)
InTurn ==
  \A g \in fmmu : \/ step = "mapped" \/ g.slave < slave
                  \/ step = "in" /\ g.dir = "out"

(* The segments are the bytes so far, without a gap, and all FMMUs of one   *)
(* direction of a slave that has several are in one of them.               *)
SegEnd(k) == IF k = currentsegment THEN LogAddr ELSE SegBegin(IOsegment)[k + 1]
InSegment(g, k) == 8 * SegBegin(IOsegment)[k] <= g.first /\ g.last < 8 * SegEnd(k)
InCurrent(g) == InSegment(g, currentsegment)

Akin(f, g) == f.slave = g.slave /\ f.dir = g.dir

Cut ==
  /\ SegBegin(IOsegment)[currentsegment] + segmentsize = LogAddr
  /\ \A f, g \in fmmu : Akin(f, g) /\ f # g =>
       \E k \in 0..currentsegment : InSegment(f, k) /\ InSegment(g, k)
  /\ ~overlap /\ step # "out" => SegBegin(IOsegment)[Isegment] + Ioffset = Obytes

(* As long as the last segment is free no byte was left out.               *)
LastIsFree == currentsegment < MAXSEG - 1

(* The inputs begin within the segment the outputs end in.                 *)
InputsBegin ==
  /\ Isegment <= currentsegment
  /\ Ioffset <= IF Isegment = currentsegment THEN segmentsize ELSE IOsegment[Isegment]
  /\ step = "mapped" => IOsegment[currentsegment] = segmentsize

MapInv ==
  /\ MapType /\ Placed /\ Sorted /\ InTurn
  /\ LastIsFree => Cut
  /\ InputsBegin

-----------------------------------------------------------------------------
(* The last segment is written down at the end of the mapping.             *)
LEMMA ClosedExtends ==
  ASSUME SegType, NEW diff \in Nat, NEW p, Extends(p, diff),
         DOMAIN p = {"segs", "cur", "size"}
  PROVE  /\ Extends([p EXCEPT !.segs[p.cur] = p.size], diff)
         /\ [p EXCEPT !.segs[p.cur] = p.size].segs[p.cur] = p.size
<1> DEFINE s == [p.segs EXCEPT ![p.cur] = p.size]
<1> DEFINE q == [p EXCEPT !.segs[p.cur] = p.size]
<1>1. q.segs = s /\ q.cur = p.cur /\ q.size = p.size
  OBVIOUS
<1>2. s \in Lengths /\ s[p.cur] = p.size /\ \A k \in 0..MAXSEG - 1 : k # p.cur => s[k] = p.segs[k]
  BY DEF Extends, Lengths
<1>3. \A k \in 0..currentsegment - 1 : k # p.cur /\ k \in 0..MAXSEG - 1
  BY SegmentAssumption DEF Extends, SegType
<1> HIDE DEF q, s
<1>4. Extends(q, diff)
  BY <1>1, <1>2, <1>3 DEF Extends, SegType
<1>5. QED
  BY <1>1, <1>2, <1>4 DEF q

(* What is taken keeps the segments before it and their FMMUs.             *)
LEMMA TakeKeeps ==
  ASSUME MapType, NEW diff \in Nat, NEW p, Extends(p, diff), Take(p)
  PROVE  /\ SegType'
         /\ InputsBegin => /\ Isegment <= currentsegment'
                           /\ Ioffset <= IF Isegment = currentsegment' THEN segmentsize'
                                         ELSE IOsegment'[Isegment]
         /\ LastIsFree' => LastIsFree
         /\ currentsegment <= currentsegment'
         /\ \A k \in 0..currentsegment : SegBegin(IOsegment')[k] = SegBegin(IOsegment)[k]
<1>1. SegType /\ MAXSEG \in Nat \ {0} /\ Isegment \in 0..MAXSEG - 1 /\ Ioffset \in Nat
  BY SegmentAssumption DEF MapType
<1>2. IOsegment' = p.segs /\ currentsegment' = p.cur /\ segmentsize' = p.size
  BY DEF Take
<1>3. SegType'
  BY <1>2 DEF Extends, SegType
<1>4. currentsegment <= currentsegment' /\ (LastIsFree' => LastIsFree)
  BY <1>1, <1>2 DEF Extends, SegType, LastIsFree
<1>5. \A k \in 0..currentsegment : SegBegin(IOsegment')[k] = SegBegin(IOsegment)[k]
  <2>1. /\ IOsegment' \in Lengths /\ IOsegment \in Lengths /\ currentsegment \in 0..MAXSEG
        /\ \A k \in 0..currentsegment - 1 : IOsegment'[k] = IOsegment[k]
    BY <1>1, <1>2, <1>3 DEF SegType, Extends
  <2>2. QED
    BY <2>1, SegmentsSame
<1>6. ASSUME InputsBegin
      PROVE  /\ Isegment <= currentsegment'
             /\ Ioffset <= IF Isegment = currentsegment' THEN segmentsize'
                           ELSE IOsegment'[Isegment]
  <2>1. currentsegment \in Nat /\ Isegment \in Nat /\ Isegment <= currentsegment
    BY <1>1, <1>6 DEF InputsBegin, SegType
  <2>2. CASE Isegment < currentsegment
    <3>1. Isegment \in 0..currentsegment - 1 /\ Isegment # p.cur
      BY <2>1, <2>2 DEF Extends
    <3>2. QED
      BY <1>2, <1>4, <1>6, <2>1, <2>2, <3>1 DEF InputsBegin, Extends
  <2>3. CASE Isegment = currentsegment
    <3>1. CASE p.cur = currentsegment
      BY <1>1, <1>2, <1>6, <2>3, <3>1 DEF InputsBegin, Extends, SegType
    <3>2. CASE p.cur # currentsegment
      BY <1>1, <1>2, <1>4, <1>6, <2>3, <3>2 DEF InputsBegin, Extends, SegType
    <3>3. QED
      BY <3>1, <3>2
  <2>4. QED
    BY <2>1, <2>2, <2>3
<1>7. QED
  BY <1>3, <1>4, <1>5, <1>6

(* What lay within a segment still does, and what was added lies in the    *)
(* one that is current now.                                                *)
LEMMA CutKept ==
  ASSUME MapType, NEW diff \in Nat, NEW p, Extends(p, diff), Take(p),
         LogAddr' = LogAddr + diff, LastIsFree', Cut
  PROVE  /\ SegBegin(IOsegment')[currentsegment'] + segmentsize' = LogAddr'
         /\ \A g \in Fmmu : \A k \in 0..currentsegment : InSegment(g, k) => InSegment(g, k)'
         /\ \A g \in Fmmu : 8 * LogAddr <= g.first /\ g.last < 8 * LogAddr' =>
              InCurrent(g)'
<1> DEFINE b == SegBegin(IOsegment)
<1> DEFINE c == SegBegin(IOsegment')
<1>1. /\ SegType /\ SegType' /\ LastIsFree /\ MAXSEG \in Nat \ {0} /\ LogAddr \in Nat
      /\ currentsegment \in Nat /\ currentsegment' \in Nat
  BY TakeKeeps, SegmentAssumption DEF MapType, SegType
<1>2. \A k \in 0..currentsegment : c[k] = b[k]
  BY TakeKeeps
<1>3. IOsegment' = p.segs /\ currentsegment' = p.cur /\ segmentsize' = p.size
  BY DEF Take
<1>4. \A k \in 0..MAXSEG : c[k] \in Nat /\ b[k] \in Nat
  BY <1>1, SegmentsFollow DEF SegType
<1>5. \A k \in 0..MAXSEG - 1 : c[k + 1] = c[k] + IOsegment'[k]
  BY <1>1, SegmentsFollow DEF SegType
<1>6. /\ currentsegment \in 0..MAXSEG /\ currentsegment \in 0..MAXSEG - 1
      /\ currentsegment + 1 \in 0..MAXSEG
      /\ b[currentsegment] \in Nat /\ b[currentsegment] + segmentsize = LogAddr
      /\ segmentsize \in Nat
  BY <1>1, <1>4 DEF SegType, Cut
<1>7. currentsegment' \in {currentsegment, currentsegment + 1}
  BY <1>3 DEF Extends
<1> HIDE DEF b, c
<1>8. CASE currentsegment' = currentsegment
  <2>1. segmentsize' = segmentsize + diff
    BY <1>1, <1>3, <1>8 DEF Extends, LastIsFree
  <2>2. c[currentsegment] = b[currentsegment]
    BY <1>2, <1>6
  <2>3. c[currentsegment'] + segmentsize' = LogAddr'
    BY <1>6, <1>8, <2>1, <2>2
  <2>4. ASSUME NEW g \in Fmmu, NEW k \in 0..currentsegment, InSegment(g, k)
        PROVE  InSegment(g, k)'
    <3>1. g.last \in Nat /\ k \in Nat /\ c[k] = b[k]
      BY <1>2 DEF Fmmu
    <3>2. CASE k = currentsegment
      BY <1>1, <1>6, <1>8, <2>4, <3>1, <3>2 DEF InSegment, SegEnd, b, c
    <3>3. CASE k # currentsegment
      <4>1. k + 1 \in 0..currentsegment
        BY <1>1, <3>3
      <4>2. c[k + 1] = b[k + 1]
        BY <1>2, <4>1
      <4>3. QED
        BY <1>8, <2>4, <3>1, <3>3, <4>2 DEF InSegment, SegEnd, b, c
    <3>4. QED
      BY <3>2, <3>3
  <2>5. ASSUME NEW g \in Fmmu, 8 * LogAddr <= g.first, g.last < 8 * LogAddr'
        PROVE  InCurrent(g)'
    <3>1. g.first \in Nat /\ c[currentsegment'] = b[currentsegment]
      BY <1>8, <2>2 DEF Fmmu
    <3>2. 8 * c[currentsegment'] <= g.first
      BY <1>1, <1>6, <2>5, <3>1
    <3>3. QED
      BY <2>5, <3>2 DEF InCurrent, InSegment, SegEnd, c
  <2>6. QED
    BY <2>3, <2>4, <2>5 DEF c
<1>9. CASE currentsegment' = currentsegment + 1
  <2>1. segmentsize' = diff /\ IOsegment'[currentsegment] = segmentsize
    BY <1>1, <1>3, <1>9 DEF Extends, LastIsFree
  <2>2. c[currentsegment'] = LogAddr
    BY <1>2, <1>5, <1>6, <1>9, <2>1
  <2>3. c[currentsegment'] + segmentsize' = LogAddr'
    BY <2>1, <2>2
  <2>4. ASSUME NEW g \in Fmmu, NEW k \in 0..currentsegment, InSegment(g, k)
        PROVE  InSegment(g, k)'
    <3>1. g.last \in Nat /\ k \in Nat /\ c[k] = b[k] /\ k # currentsegment'
      BY <1>1, <1>2, <1>9 DEF Fmmu
    <3>2. CASE k = currentsegment
      <4>1. c[k + 1] = LogAddr
        BY <1>9, <2>2, <3>2
      <4>2. QED
        BY <2>4, <3>1, <3>2, <4>1 DEF InSegment, SegEnd, b, c
    <3>3. CASE k # currentsegment
      <4>1. k + 1 \in 0..currentsegment
        BY <1>1, <3>3
      <4>2. c[k + 1] = b[k + 1]
        BY <1>2, <4>1
      <4>3. QED
        BY <2>4, <3>1, <3>3, <4>2 DEF InSegment, SegEnd, b, c
    <3>4. QED
      BY <3>2, <3>3
  <2>5. ASSUME NEW g \in Fmmu, 8 * LogAddr <= g.first, g.last < 8 * LogAddr'
        PROVE  InCurrent(g)'
    BY <2>2, <2>5 DEF InCurrent, InSegment, SegEnd, c
  <2>6. QED
    BY <2>3, <2>4, <2>5 DEF c
<1>10. QED
  BY <1>7, <1>8, <1>9

(* A byte and a bit of it, as a number of bits.                            *)
LEMMA PlaceType ==
  ASSUME NEW l \in Nat, NEW b \in 0..7
  PROVE  /\ 8 * l + b \in Nat /\ 8 * l <= 8 * l + b /\ 8 * l + b < 8 * l + 8
         /\ b = 0 => 8 * l + b = 8 * l
  OBVIOUS

(* Bytes taken for bits keep their order.                                  *)
LEMMA Eightfold ==
  ASSUME NEW a \in Nat, NEW b \in Nat
  PROVE  8 * a \in Nat /\ (a <= b => 8 * a <= 8 * b)
  OBVIOUS

(* What is added to the smaller of two makes the greater.                  *)
LEMMA Difference ==
  ASSUME NEW a \in Nat, NEW b \in Nat, a >= b
  PROVE  a - b \in Nat /\ a = b + (a - b)
  OBVIOUS

(* What adding the FMMUs of the slave whose turn it is keeps.               *)
Adds(new) ==
  /\ fmmu' = fmmu \cup new /\ new \subseteq Fmmu
  /\ \A g \in new : Where <= g.first /\ g.first <= g.last /\ g.last < Where'
  /\ \A f, g \in new : f # g /\ ~Exempt(f, g) => Apart(f, g)
  /\ \A f, g \in new : f # g /\ Akin(f, g) => g.last < 8 * LogAddr'
  /\ \A f \in fmmu, g \in new : ~Akin(f, g)

(* FMMUs placed at the free place leave all FMMUs apart, and in order of   *)
(* the slaves.                                                             *)
LEMMA AddingKeeps ==
  ASSUME MapInv, NEW diff \in Nat, NEW p, Extends(p, diff), Take(p),
         LogAddr' = LogAddr + diff, BitPos' \in 0..7, Where <= Where',
         UNCHANGED overlap, NEW new, Adds(new)
  PROVE  /\ SegType' /\ LogAddr' \in Nat /\ BitPos' \in 0..7
         /\ (fmmu \subseteq Fmmu)' /\ Placed'
         /\ LastIsFree' =>
              /\ LastIsFree
              /\ SegBegin(IOsegment')[currentsegment'] + segmentsize' = LogAddr'
              /\ \A f, g \in fmmu' : Akin(f, g) /\ f # g =>
                   (\E k \in 0..currentsegment : InSegment(f, k) /\ InSegment(g, k))'
<1>1. MapType /\ LogAddr \in Nat /\ BitPos \in 0..7 /\ fmmu \subseteq Fmmu
  BY DEF MapInv, MapType
<1>2. SegType' /\ (LastIsFree' => LastIsFree) /\ currentsegment <= currentsegment'
  BY <1>1, TakeKeeps
<1>3. LogAddr' \in Nat /\ Where \in Nat /\ Where' \in Nat /\ 8 * LogAddr <= Where
  <2>1. LogAddr' \in Nat
    BY <1>1
  <2>2. QED
    BY <1>1, <2>1, PlaceType DEF Where
<1>4. (fmmu \subseteq Fmmu)'
  BY <1>1 DEF Adds
<1>5. \A g \in Fmmu : g.first \in Nat /\ g.last \in Nat
  BY DEF Fmmu
<1>6. \A g \in fmmu' : g.first <= g.last /\ g.last < Where'
  <2> SUFFICES ASSUME NEW g \in fmmu' PROVE g.first <= g.last /\ g.last < Where'
    OBVIOUS
  <2>1. CASE g \in fmmu
    BY <1>1, <1>3, <1>5, <2>1 DEF MapInv, Placed
  <2>2. CASE g \in new
    BY <2>2 DEF Adds
  <2>3. QED
    BY <2>1, <2>2 DEF Adds
<1>7. ASSUME NEW f \in fmmu', NEW g \in fmmu', f # g, ~Exempt(f, g)'
      PROVE  Apart(f, g)
  <2>1. f \in Fmmu /\ g \in Fmmu /\ ~Exempt(f, g)
    BY <1>4, <1>7 DEF Exempt
  <2>2. CASE f \in fmmu /\ g \in fmmu
    BY <1>7, <2>1, <2>2 DEF MapInv, Placed
  <2>3. CASE f \in fmmu /\ g \in new
    BY <1>3, <1>5, <2>1, <2>3 DEF MapInv, Placed, Adds, Apart
  <2>4. CASE f \in new /\ g \in fmmu
    BY <1>3, <1>5, <2>1, <2>4 DEF MapInv, Placed, Adds, Apart
  <2>5. CASE f \in new /\ g \in new
    BY <1>7, <2>1, <2>5 DEF Adds
  <2>6. QED
    BY <2>2, <2>3, <2>4, <2>5 DEF Adds
<1>8. Placed'
  BY <1>6, <1>7 DEF Placed, Apart
<1>9. ASSUME LastIsFree'
      PROVE  /\ SegBegin(IOsegment')[currentsegment'] + segmentsize' = LogAddr'
             /\ \A f, g \in fmmu' : Akin(f, g) /\ f # g =>
                  (\E k \in 0..currentsegment : InSegment(f, k) /\ InSegment(g, k))'
  <2>1. Cut
    BY <1>2, <1>9 DEF MapInv
  <2>2. /\ SegBegin(IOsegment')[currentsegment'] + segmentsize' = LogAddr'
        /\ \A g \in Fmmu : \A k \in 0..currentsegment : InSegment(g, k) => InSegment(g, k)'
        /\ \A g \in Fmmu : 8 * LogAddr <= g.first /\ g.last < 8 * LogAddr' => InCurrent(g)'
    BY <1>1, <1>9, <2>1, CutKept
  <2>3. ASSUME NEW f \in fmmu', NEW g \in fmmu', Akin(f, g), f # g
        PROVE  (\E k \in 0..currentsegment : InSegment(f, k) /\ InSegment(g, k))'
    <3>1. f \in Fmmu /\ g \in Fmmu /\ Akin(g, f)
      BY <1>4, <2>3 DEF Akin
    <3>2. CASE f \in fmmu /\ g \in fmmu
      <4>1. PICK k \in 0..currentsegment : InSegment(f, k) /\ InSegment(g, k)
        BY <2>1, <2>3, <3>2 DEF Cut
      <4>2. InSegment(f, k)' /\ InSegment(g, k)'
        BY <2>2, <3>1, <4>1
      <4>3. k \in 0..currentsegment'
        BY <1>1, <1>2 DEF MapType, SegType
      <4>4. QED
        BY <4>2, <4>3
    <3>3. CASE f \in new /\ g \in new
      <4>1. f.last < 8 * LogAddr' /\ g.last < 8 * LogAddr'
        BY <2>3, <3>1, <3>3 DEF Adds
      <4>2. 8 * LogAddr <= f.first /\ 8 * LogAddr <= g.first
        BY <1>1, <1>3, <1>5, <3>1, <3>3 DEF Adds
      <4>3. InCurrent(f)' /\ InCurrent(g)'
        BY <2>2, <3>1, <4>1, <4>2
      <4>4. currentsegment' \in 0..currentsegment'
        BY <1>2 DEF SegType
      <4>5. QED
        BY <4>3, <4>4 DEF InCurrent
    <3>4. QED
      BY <2>3, <3>1, <3>2, <3>3 DEF Adds
  <2>4. QED
    BY <2>2, <2>3
<1>10. QED
  BY <1>1, <1>2, <1>3, <1>4, <1>8, <1>9

(* The slaves were found with shapes.                                      *)
LEMMA ShapesFound ==
  ASSUME MapType, NEW s \in Slave
  PROVE  shape[s].out \in Shape /\ shape[s].in \in Shape
  BY ShapeAssumption DEF MapType

(* One slave in one direction keeps the map right.                         *)
LEMMA MapSlaveKeeps ==
  ASSUME MapInv, NEW d \in Dir, MapSlave(d)
  PROVE  MapInv'
<1> DEFINE sh == IF d = "out" THEN shape[slave].out ELSE shape[slave].in
<1> DEFINE new == Fmmus(slave, d, sh)
<1> DEFINE diff == LogAddr' - LogAddr
<1> DEFINE p == IF sh.bits = 0 THEN Unpacked ELSE Packed(diff)
<1>1. /\ step = d /\ slave \in Slave
      /\ fmmu' = fmmu \cup new
      /\ LogAddr' = AfterFmmus(sh)[1] /\ BitPos' = AfterFmmus(sh)[2]
      /\ Take(p) /\ slave' = slave + 1
      /\ UNCHANGED <<shape, overlap, step, Obytes, Ibytes, Isegment, Ioffset>>
  BY DEF MapSlave
<1>2. /\ MapType /\ LogAddr \in Nat /\ BitPos \in 0..7 /\ SegType /\ fmmu \subseteq Fmmu
      /\ Isegment \in 0..MAXSEG - 1 /\ Ioffset \in Nat /\ Obytes \in Nat /\ Ibytes \in Nat
  BY DEF MapInv, MapType
<1>3. sh \in Shape
  BY <1>1, <1>2, ShapesFound
<1> HIDE DEF sh
<1>4. /\ AfterFmmus(sh)[1] \in Nat /\ AfterFmmus(sh)[2] \in 0..7
      /\ AfterFmmus(sh)[1] >= LogAddr /\ After(sh) >= Where /\ new \subseteq Fmmu
      /\ \A g \in new : /\ g.slave = slave /\ g.dir = d /\ sh.bits # 0
                        /\ Where <= g.first /\ g.first <= g.last /\ g.last < After(sh)
      /\ \A f, g \in new : f # g => Apart(f, g) /\ AfterFmmus(sh)[2] = 0
      /\ sh.bits = 0 => AfterFmmus(sh) = <<LogAddr, BitPos>>
  BY <1>1, <1>2, <1>3, FmmusPlaced
<1> HIDE DEF new
<1>5. LogAddr' \in Nat /\ BitPos' \in 0..7 /\ Where' = After(sh) /\ diff \in Nat
      /\ LogAddr' = LogAddr + diff /\ Where <= Where'
  <2>1. LogAddr' \in Nat /\ BitPos' \in 0..7 /\ LogAddr' >= LogAddr
    BY <1>1, <1>4
  <2>2. Where' = After(sh)
    BY <1>1 DEF Where, After
  <2>3. Where \in Nat /\ Where' \in Nat
    BY <1>2, <2>1, PlaceType DEF Where
  <2>4. QED
    BY <1>2, <1>4, <2>1, <2>2, <2>3, Difference
<1>6. Extends(p, diff)
  <2>1. CASE sh.bits = 0
    <3>1. diff = 0
      BY <1>1, <1>2, <1>4, <2>1
    <3>2. QED
      BY <1>2, <2>1, <3>1, UnpackedExtends
  <2>2. CASE sh.bits # 0
    BY <1>2, <1>5, <2>2, PackedExtends
  <2>3. QED
    BY <2>1, <2>2
<1> HIDE DEF diff, p
<1>7. \A g \in Fmmu : g.first \in Nat /\ g.last \in Nat /\ g.slave \in Slave /\ g.dir \in Dir
  BY DEF Fmmu
<1>8. Slave = 1..NSlave /\ NSlave \in Nat
  BY NSlaveAssumption DEF Slave
<1>9. step # "mapped" /\ step \in Dir
  BY <1>1 DEF Dir
<1>10. ~overlap
  BY <1>2, <1>9 DEF MapType, Dir
<1>11. Adds(new)
  <2>1. \A f, g \in new : f # g /\ Akin(f, g) => g.last < 8 * LogAddr'
    <3> SUFFICES ASSUME NEW f \in new, NEW g \in new, f # g PROVE g.last < 8 * LogAddr'
      OBVIOUS
    <3>1. BitPos' = 0
      BY <1>1, <1>4
    <3>2. Where' = 8 * LogAddr'
      BY <1>5, <3>1 DEF Where
    <3>3. QED
      BY <1>4, <1>5, <3>2
  <2>2. ASSUME NEW f \in fmmu, NEW g \in new PROVE ~Akin(f, g)
    <3>1. g.slave = slave /\ g.dir = d /\ f.slave \in Slave
      BY <1>2, <1>4, <1>7
    <3>2. f.slave < slave \/ (step = "in" /\ f.dir = "out")
      BY <1>9 DEF MapInv, InTurn
    <3>3. QED
      BY <1>1, <1>8, <3>1, <3>2 DEF Akin
  <2>3. QED
    BY <1>1, <1>4, <1>5, <2>1, <2>2 DEF Adds
<1>12. /\ SegType' /\ (fmmu \subseteq Fmmu)' /\ Placed'
       /\ LastIsFree' =>
            /\ LastIsFree
            /\ SegBegin(IOsegment')[currentsegment'] + segmentsize' = LogAddr'
            /\ \A f, g \in fmmu' : Akin(f, g) /\ f # g =>
                 (\E k \in 0..currentsegment : InSegment(f, k) /\ InSegment(g, k))'
  BY <1>1, <1>5, <1>6, <1>11, AddingKeeps
<1>13. MapType'
  <2>1. slave' \in 1..NSlave + 1
    BY <1>1, <1>8
  <2>2. QED
    BY <1>1, <1>2, <1>5, <1>12, <2>1 DEF MapType
<1>14. Sorted'
  <2>1. Sorted /\ Where \in Nat /\ Where' \in Nat
    BY <1>2, <1>5, PlaceType DEF MapInv, Where
  <2>2. CASE step = "out"
    BY <1>1, <1>4, <1>10, <2>1, <2>2 DEF Sorted
  <2>3. CASE step = "in"
    <3>1. 8 * Obytes <= Where /\ 8 * Obytes <= Where'
      BY <1>2, <1>5, <1>10, <2>1, <2>3 DEF Sorted
    <3>2. \A g \in new : g.dir = "in" /\ g.first >= 8 * Obytes
      BY <1>1, <1>2, <1>4, <1>7, <2>1, <2>3, <3>1
    <3>3. \A g \in fmmu : IF g.dir = "out" THEN g.last < 8 * Obytes ELSE g.first >= 8 * Obytes
      BY <1>10, <2>1, <2>3 DEF Sorted
    <3>4. QED
      BY <1>1, <1>10, <2>3, <3>1, <3>2, <3>3 DEF Sorted
  <2>4. QED
    BY <1>9, <2>2, <2>3 DEF Dir
<1>15. InTurn'
  <2> SUFFICES ASSUME NEW g \in fmmu'
               PROVE  g.slave < slave + 1 \/ (step = "in" /\ g.dir = "out")
    BY <1>1 DEF InTurn
  <2>1. CASE g \in fmmu
    BY <1>2, <1>7, <1>8, <1>9, <1>1, <2>1 DEF MapInv, InTurn
  <2>2. CASE g \in new
    BY <1>1, <1>4, <1>8, <2>2
  <2>3. QED
    BY <1>1, <2>1, <2>2
<1>16. /\ InputsBegin'
       /\ SegBegin(IOsegment')[Isegment'] = SegBegin(IOsegment)[Isegment]
  <2>1. InputsBegin /\ currentsegment \in Nat
    BY <1>2 DEF MapInv, SegType
  <2>2. /\ Isegment <= currentsegment'
        /\ Ioffset <= IF Isegment = currentsegment' THEN segmentsize' ELSE IOsegment'[Isegment]
        /\ \A k \in 0..currentsegment : SegBegin(IOsegment')[k] = SegBegin(IOsegment)[k]
    BY <1>1, <1>2, <1>5, <1>6, <2>1, TakeKeeps
  <2>3. Isegment \in 0..currentsegment
    BY <1>2, <2>1 DEF InputsBegin
  <2>4. QED
    BY <1>1, <1>9, <2>2, <2>3 DEF InputsBegin
<1>17. LastIsFree' => Cut'
  BY <1>1, <1>12, <1>16, <1>10 DEF MapInv, Cut, Akin
<1>18. QED
  BY <1>12, <1>13, <1>14, <1>15, <1>16, <1>17 DEF MapInv

(* The next byte is where the place is, or less than a byte behind.        *)
LEMMA NextByteType ==
  ASSUME LogAddr \in Nat, BitPos \in 0..7
  PROVE  /\ NextByte \in Nat /\ NextByte - LogAddr \in Nat
         /\ NextByte = LogAddr + (NextByte - LogAddr)
         /\ Where \in Nat /\ 8 * LogAddr <= Where /\ Where <= 8 * NextByte
<1>1. NextByte \in Nat /\ NextByte >= LogAddr
  BY DEF NextByte
<1>2. Where \in Nat /\ 8 * LogAddr <= Where
  BY DEF Where
<1>3. Where <= 8 * NextByte
  BY DEF Where, NextByte
<1>4. QED
  BY <1>1, <1>2, <1>3, Difference

(* What a segment record holds.                                            *)
LEMMA PackedFields ==
  ASSUME NEW diff
  PROVE  DOMAIN Packed(diff) = {"segs", "cur", "size"}
<1>1. CASE segmentsize + diff <= MAXLRW
  BY <1>1 DEF Packed
<1>2. CASE ~(segmentsize + diff <= MAXLRW) /\ currentsegment < MAXSEG - 1
  BY <1>2 DEF Packed
<1>3. CASE ~(segmentsize + diff <= MAXLRW) /\ ~(currentsegment < MAXSEG - 1)
  BY <1>3 DEF Packed
<1>4. QED
  BY <1>1, <1>2, <1>3

(* To add no FMMU is to add.                                               *)
LEMMA NothingAdded ==
  ASSUME fmmu' = fmmu PROVE Adds({})
  BY DEF Adds

(* The end of the outputs keeps the map right.                             *)
LEMMA EndOutputsKeeps ==
  ASSUME MapInv, EndOutputs
  PROVE  MapInv'
<1> DEFINE diff == NextByte - LogAddr
<1>1. /\ step = "out" /\ slave = NSlave + 1
      /\ LogAddr' = NextByte /\ BitPos' = 0 /\ Take(FillByte)
      /\ Obytes' = NextByte /\ Isegment' = FillByte.cur /\ Ioffset' = FillByte.size
      /\ step' = "in" /\ slave' = 1
      /\ UNCHANGED <<shape, overlap, Ibytes, fmmu>>
  BY DEF EndOutputs, ToByte
<1>2. /\ MapType /\ LogAddr \in Nat /\ BitPos \in 0..7 /\ SegType /\ fmmu \subseteq Fmmu
      /\ Isegment \in 0..MAXSEG - 1 /\ Ioffset \in Nat /\ Obytes \in Nat /\ Ibytes \in Nat
  BY DEF MapInv, MapType
<1>3. /\ NextByte \in Nat /\ diff \in Nat /\ NextByte = LogAddr + diff
      /\ Where \in Nat /\ Where <= 8 * NextByte
  BY <1>2, NextByteType
<1>4. Extends(FillByte, diff)
  BY <1>2, FillByteExtends
<1> HIDE DEF diff
<1>5. Where' = 8 * NextByte /\ Where <= Where'
  BY <1>1, <1>3 DEF Where
<1>6. Adds({})
  BY <1>1, NothingAdded
<1>7. LogAddr' = LogAddr + diff /\ BitPos' \in 0..7 /\ UNCHANGED overlap
  BY <1>1, <1>3
<1>8. /\ SegType' /\ (fmmu \subseteq Fmmu)' /\ Placed'
      /\ LastIsFree' =>
           /\ SegBegin(IOsegment')[currentsegment'] + segmentsize' = LogAddr'
           /\ \A f, g \in fmmu' : Akin(f, g) /\ f # g =>
                (\E k \in 0..currentsegment : InSegment(f, k) /\ InSegment(g, k))'
  BY <1>1, <1>3, <1>4, <1>5, <1>6, <1>7, AddingKeeps
<1>9. ~overlap
  BY <1>1, <1>2 DEF MapType
<1>10. Isegment' = currentsegment' /\ Ioffset' = segmentsize'
  BY <1>1 DEF Take
<1>11. MapType'
  <2>1. 1 \in 1..NSlave + 1 /\ Isegment' \in 0..MAXSEG - 1 /\ Ioffset' \in Nat
    BY <1>8, <1>10, NSlaveAssumption DEF SegType
  <2>2. QED
    BY <1>1, <1>2, <1>3, <1>8, <1>9, <2>1 DEF MapType
<1>12. Sorted'
  <2>1. \A g \in fmmu : g.dir = "out" /\ g.last < Where /\ g.last \in Nat
    BY <1>1, <1>2, <1>9 DEF MapInv, Sorted, Placed, Fmmu
  <2>2. \A g \in fmmu : g.dir = "out" /\ g.last < 8 * NextByte
    BY <1>3, <2>1
  <2>3. 8 * Obytes' <= Where'
    BY <1>1, <1>3, <1>5
  <2>4. QED
    BY <1>1, <1>9, <2>2, <2>3 DEF Sorted
<1>13. InTurn'
  BY <1>1, <1>2, <1>9 DEF MapInv, Sorted, InTurn
<1>14. InputsBegin'
  BY <1>1, <1>8, <1>10 DEF InputsBegin, SegType
<1>15. LastIsFree' => Cut'
  <2>1. Obytes' = LogAddr'
    BY <1>1
  <2>2. QED
    BY <1>8, <1>10, <2>1 DEF Cut, Akin
<1>16. QED
  BY <1>8, <1>11, <1>12, <1>13, <1>14, <1>15 DEF MapInv

(* The end of the inputs keeps the map right.                              *)
LEMMA EndInputsKeeps ==
  ASSUME MapInv, EndInputs
  PROVE  MapInv'
<1> DEFINE diff == NextByte - LogAddr
<1> DEFINE p == [FillByte EXCEPT !.segs[FillByte.cur] = FillByte.size]
<1>1. /\ step = "in" /\ slave = NSlave + 1
      /\ LogAddr' = NextByte /\ BitPos' = 0 /\ Take(p)
      /\ Ibytes' = NextByte - Obytes
      /\ step' = "mapped"
      /\ UNCHANGED <<shape, overlap, slave, Obytes, Isegment, Ioffset, fmmu>>
  BY DEF EndInputs, ToByte
<1>2. /\ MapType /\ LogAddr \in Nat /\ BitPos \in 0..7 /\ SegType /\ fmmu \subseteq Fmmu
      /\ Isegment \in 0..MAXSEG - 1 /\ Ioffset \in Nat /\ Obytes \in Nat /\ Ibytes \in Nat
  BY DEF MapInv, MapType
<1>3. /\ NextByte \in Nat /\ diff \in Nat /\ NextByte = LogAddr + diff
      /\ Where \in Nat /\ Where <= 8 * NextByte
  BY <1>2, NextByteType
<1>4. Extends(p, diff) /\ p.segs[FillByte.cur] = FillByte.size
      /\ p.cur = FillByte.cur /\ p.size = FillByte.size
  <2>1. Extends(FillByte, diff)
    BY <1>2, FillByteExtends
  <2>2. DOMAIN FillByte = {"segs", "cur", "size"}
    BY PackedFields DEF FillByte, Unpacked
  <2>3. p.cur = FillByte.cur /\ p.size = FillByte.size
    BY <2>2
  <2> HIDE DEF diff
  <2>4. QED
    BY <1>2, <1>3, <2>1, <2>2, <2>3, ClosedExtends
<1> HIDE DEF diff, p
<1>5. Where' = 8 * NextByte /\ Where <= Where'
  BY <1>1, <1>3 DEF Where
<1>6. Adds({})
  BY <1>1, NothingAdded
<1>7. LogAddr' = LogAddr + diff /\ BitPos' \in 0..7 /\ UNCHANGED overlap
  BY <1>1, <1>3
<1>8. /\ SegType' /\ (fmmu \subseteq Fmmu)' /\ Placed'
      /\ LastIsFree' =>
           /\ LastIsFree
           /\ SegBegin(IOsegment')[currentsegment'] + segmentsize' = LogAddr'
           /\ \A f, g \in fmmu' : Akin(f, g) /\ f # g =>
                (\E k \in 0..currentsegment : InSegment(f, k) /\ InSegment(g, k))'
  BY <1>1, <1>3, <1>4, <1>5, <1>6, <1>7, AddingKeeps
<1>9. ~overlap
  BY <1>1, <1>2 DEF MapType
<1>10. /\ Sorted /\ 8 * Obytes <= Where
       /\ \A g \in fmmu : IF g.dir = "out" THEN g.last < 8 * Obytes ELSE g.first >= 8 * Obytes
  BY <1>1, <1>9 DEF MapInv, Sorted
<1>11. Ibytes' \in Nat /\ NextByte = Obytes + Ibytes'
  <2>1. NextByte >= Obytes
    BY <1>2, <1>3, <1>10
  <2>2. QED
    BY <1>1, <1>2, <1>3, <2>1, Difference
<1>12. MapType'
  BY <1>1, <1>2, <1>3, <1>8, <1>9, <1>11 DEF MapType
<1>13. Sorted'
  <2>1. 8 * Obytes' <= Where'
    BY <1>1, <1>2, <1>3, <1>5, <1>10
  <2>2. QED
    BY <1>1, <1>9, <1>10, <1>11, <2>1 DEF Sorted
<1>14. InTurn'
  BY <1>1 DEF InTurn
<1>15. /\ InputsBegin'
       /\ SegBegin(IOsegment')[Isegment'] = SegBegin(IOsegment)[Isegment]
  <2>1. InputsBegin /\ currentsegment \in Nat
    BY <1>2 DEF MapInv, SegType
  <2>2. /\ Isegment <= currentsegment'
        /\ Ioffset <= IF Isegment = currentsegment' THEN segmentsize' ELSE IOsegment'[Isegment]
        /\ \A k \in 0..currentsegment : SegBegin(IOsegment')[k] = SegBegin(IOsegment)[k]
    BY <1>1, <1>2, <1>3, <1>4, <2>1, TakeKeeps
  <2>3. Isegment \in 0..currentsegment
    BY <1>2, <2>1 DEF InputsBegin
  <2>4. IOsegment'[currentsegment'] = segmentsize'
    BY <1>1, <1>4 DEF Take
  <2>5. QED
    BY <1>1, <2>2, <2>3, <2>4 DEF InputsBegin
<1>16. LastIsFree' => Cut'
  BY <1>1, <1>8, <1>9, <1>15 DEF MapInv, Cut, Akin
<1>17. QED
  BY <1>8, <1>12, <1>13, <1>14, <1>15, <1>16 DEF MapInv

(* The end of an overlapping map keeps it right.                           *)
LEMMA EndBothKeeps ==
  ASSUME MapInv, EndBoth
  PROVE  MapInv'
<1> DEFINE p == [Unpacked EXCEPT !.segs[Unpacked.cur] = Unpacked.size]
<1>1. /\ step = "both" /\ slave = NSlave + 1
      /\ Take(p) /\ Isegment' = 0 /\ Ioffset' = 0
      /\ step' = "mapped"
      /\ UNCHANGED <<shape, overlap, slave, LogAddr, BitPos, Obytes, Ibytes, fmmu>>
  BY DEF EndBoth, Unpacked
<1>2. /\ MapType /\ LogAddr \in Nat /\ BitPos \in 0..7 /\ SegType /\ fmmu \subseteq Fmmu
      /\ Obytes \in Nat /\ Ibytes \in Nat
  BY DEF MapInv, MapType
<1>3. Extends(p, 0) /\ p.segs[p.cur] = p.size
  <2>1. Extends(Unpacked, 0) /\ 0 \in Nat
    BY <1>2, UnpackedExtends
  <2>2. DOMAIN Unpacked = {"segs", "cur", "size"}
    BY DEF Unpacked
  <2>3. p.cur = Unpacked.cur /\ p.size = Unpacked.size
    BY <2>2
  <2>4. QED
    BY <1>2, <2>1, <2>2, <2>3, ClosedExtends
<1> HIDE DEF p
<1>4. Where' = Where /\ Where <= Where' /\ Where \in Nat
  BY <1>1, <1>2 DEF Where
<1>5. Adds({})
  BY <1>1, NothingAdded
<1>6. LogAddr' = LogAddr + 0 /\ BitPos' \in 0..7 /\ UNCHANGED overlap /\ 0 \in Nat
  BY <1>1, <1>2
<1>7. /\ SegType' /\ (fmmu \subseteq Fmmu)' /\ Placed'
      /\ LastIsFree' =>
           /\ SegBegin(IOsegment')[currentsegment'] + segmentsize' = LogAddr'
           /\ \A f, g \in fmmu' : Akin(f, g) /\ f # g =>
                (\E k \in 0..currentsegment : InSegment(f, k) /\ InSegment(g, k))'
  BY <1>1, <1>3, <1>4, <1>5, <1>6, AddingKeeps
<1>8. overlap
  BY <1>1, <1>2 DEF MapType
<1>9. MapType'
  <2>1. 0 \in 0..MAXSEG - 1
    BY SegmentAssumption
  <2>2. QED
    BY <1>1, <1>2, <1>7, <1>8, <2>1 DEF MapType
<1>10. Sorted' /\ InTurn'
  BY <1>1, <1>8 DEF MapInv, Sorted, InTurn
<1>11. InputsBegin'
  <2>1. IOsegment'[currentsegment'] = segmentsize'
    BY <1>1, <1>3 DEF Take
  <2>2. currentsegment' \in 0..MAXSEG - 1 /\ segmentsize' \in Nat
        /\ IOsegment'[0] \in Nat
    BY <1>7, SegmentAssumption DEF SegType, Lengths
  <2>3. QED
    BY <1>1, <2>1, <2>2 DEF InputsBegin
<1>12. LastIsFree' => Cut'
  BY <1>1, <1>7, <1>8 DEF Cut, Akin
<1>13. QED
  BY <1>7, <1>9, <1>10, <1>11, <1>12 DEF MapInv

(* The byte at which a slave's process data end is not before where they   *)
(* begin.                                                                  *)
LEMMA EndByteType ==
  ASSUME LogAddr \in Nat, BitPos \in 0..7, NEW sh \in Shape
  PROVE  EndByte(sh) \in Nat /\ EndByte(sh) >= LogAddr /\ After(sh) <= 8 * EndByte(sh)
<1> DEFINE a == AfterFmmus(sh)[1]
<1> DEFINE b == AfterFmmus(sh)[2]
<1>1. a \in Nat /\ b \in 0..7 /\ a >= LogAddr
  <2>1. NSlave \in Slave /\ "out" \in Dir
    BY NSlaveAssumption DEF Slave, Dir
  <2>2. QED
    BY <2>1, FmmusPlaced
<1>2. EndByte(sh) = a + (IF b > 0 THEN 1 ELSE 0) /\ After(sh) = 8 * a + b
  BY DEF EndByte, After
<1> HIDE DEF a, b
<1>3. QED
  BY <1>1, <1>2

(* One slave of an overlapping map keeps it right.                         *)
LEMMA MapOverlapKeeps ==
  ASSUME MapInv, MapOverlap
  PROVE  MapInv'
<1> DEFINE out == shape[slave].out
<1> DEFINE in == shape[slave].in
<1> DEFINE outs == Fmmus(slave, "out", out)
<1> DEFINE ins == Fmmus(slave, "in", in)
<1> DEFINE new == outs \cup ins
<1> DEFINE diff == LogAddr' - LogAddr
<1>1. /\ step = "both" /\ slave \in Slave
      /\ fmmu' = fmmu \cup new
      /\ Obytes' = EndByte(out) /\ Ibytes' = EndByte(in)
      /\ LogAddr' = EndOverlap(Obytes', Ibytes') /\ BitPos' = 0
      /\ Take(Packed(diff)) /\ slave' = slave + 1
      /\ UNCHANGED <<shape, overlap, step, Isegment, Ioffset>>
  BY DEF MapOverlap
<1>2. /\ MapType /\ LogAddr \in Nat /\ BitPos \in 0..7 /\ SegType /\ fmmu \subseteq Fmmu
      /\ Isegment \in 0..MAXSEG - 1 /\ Ioffset \in Nat
  BY DEF MapInv, MapType
<1>3. overlap
  BY <1>1, <1>2 DEF MapType
<1>4. BitPos = 0 /\ Where = 8 * LogAddr
  <2>1. BitPos = 0
    BY <1>3 DEF MapInv, Sorted
  <2>2. QED
    BY <1>2, <2>1 DEF Where
<1>5. out \in Shape /\ in \in Shape
  BY <1>1, <1>2, ShapesFound
<1> HIDE DEF out, in
<1>6. /\ outs \subseteq Fmmu /\ ins \subseteq Fmmu
      /\ \A g \in outs : /\ g.slave = slave /\ g.dir = "out"
                         /\ Where <= g.first /\ g.first <= g.last /\ g.last < After(out)
      /\ \A g \in ins : /\ g.slave = slave /\ g.dir = "in"
                        /\ Where <= g.first /\ g.first <= g.last /\ g.last < After(in)
      /\ \A f, g \in outs : f # g => Apart(f, g)
      /\ \A f, g \in ins : f # g => Apart(f, g)
      /\ After(out) \in Nat /\ After(in) \in Nat
  <2>1. "out" \in Dir /\ "in" \in Dir
    BY DEF Dir
  <2>2. /\ outs \subseteq Fmmu
        /\ \A g \in outs : /\ g.slave = slave /\ g.dir = "out"
                           /\ Where <= g.first /\ g.first <= g.last /\ g.last < After(out)
        /\ \A f, g \in outs : f # g => Apart(f, g)
        /\ AfterFmmus(out)[1] \in Nat /\ AfterFmmus(out)[2] \in 0..7
    BY <1>1, <1>2, <1>5, <2>1, FmmusPlaced
  <2>3. /\ ins \subseteq Fmmu
        /\ \A g \in ins : /\ g.slave = slave /\ g.dir = "in"
                          /\ Where <= g.first /\ g.first <= g.last /\ g.last < After(in)
        /\ \A f, g \in ins : f # g => Apart(f, g)
        /\ AfterFmmus(in)[1] \in Nat /\ AfterFmmus(in)[2] \in 0..7
    BY <1>1, <1>2, <1>5, <2>1, FmmusPlaced
  <2>4. After(out) \in Nat /\ After(in) \in Nat
    BY <2>2, <2>3, PlaceType DEF After
  <2>5. QED
    BY <2>2, <2>3, <2>4
<1> HIDE DEF outs, ins
<1>7. /\ Obytes' \in Nat /\ Obytes' >= LogAddr /\ After(out) <= 8 * Obytes'
      /\ Ibytes' \in Nat /\ Ibytes' >= LogAddr /\ After(in) <= 8 * Ibytes'
  BY <1>1, <1>2, <1>5, EndByteType
<1>8. /\ LogAddr' \in Nat /\ LogAddr' >= LogAddr
      /\ Obytes' <= LogAddr' /\ Ibytes' <= LogAddr'
  BY <1>1, <1>7 DEF EndOverlap
<1>9. diff \in Nat /\ LogAddr' = LogAddr + diff /\ BitPos' \in 0..7 /\ UNCHANGED overlap
  BY <1>1, <1>2, <1>8, Difference
<1>10. Extends(Packed(diff), diff)
  BY <1>2, <1>9, PackedExtends
<1> HIDE DEF diff
<1>11. Where' = 8 * LogAddr' /\ Where <= Where' /\ Where \in Nat
  <2>1. Where' = 8 * LogAddr'
    BY <1>1, <1>8, PlaceType DEF Where
  <2>2. QED
    BY <1>2, <1>4, <1>8, <2>1, Eightfold
<1>12. \A g \in Fmmu : g.first \in Nat /\ g.last \in Nat /\ g.slave \in Slave /\ g.dir \in Dir
  BY DEF Fmmu
<1>13. Slave = 1..NSlave /\ NSlave \in Nat
  BY NSlaveAssumption DEF Slave
<1>14. /\ \A g \in outs : g.last < 8 * Obytes' /\ g.last < 8 * LogAddr'
       /\ \A g \in ins : g.last < 8 * Ibytes' /\ g.last < 8 * LogAddr'
  <2>1. 8 * Obytes' <= 8 * LogAddr' /\ 8 * Ibytes' <= 8 * LogAddr'
        /\ 8 * Obytes' \in Nat /\ 8 * Ibytes' \in Nat /\ 8 * LogAddr' \in Nat
    BY <1>7, <1>8, Eightfold
  <2>2. QED
    BY <1>6, <1>7, <1>12, <2>1
<1>15. Adds(new)
  <2>1. new \subseteq Fmmu
    BY <1>6
  <2>2. \A g \in new : /\ Where <= g.first /\ g.first <= g.last
                       /\ g.last < Where' /\ g.last < 8 * LogAddr'
    BY <1>6, <1>11, <1>14
  <2>3. \A f, g \in new : f # g /\ ~Exempt(f, g) => Apart(f, g)
    BY <1>3, <1>6 DEF Exempt
  <2>4. ASSUME NEW f \in fmmu, NEW g \in new PROVE ~Akin(f, g)
    <3>1. g.slave = slave /\ f.slave \in Slave
      BY <1>2, <1>6, <1>12
    <3>2. f.slave < slave
      BY <1>1 DEF MapInv, InTurn
    <3>3. QED
      BY <1>1, <1>13, <3>1, <3>2 DEF Akin
  <2>5. QED
    BY <1>1, <2>1, <2>2, <2>3, <2>4 DEF Adds
<1>16. /\ SegType' /\ (fmmu \subseteq Fmmu)' /\ Placed'
       /\ LastIsFree' =>
            /\ SegBegin(IOsegment')[currentsegment'] + segmentsize' = LogAddr'
            /\ \A f, g \in fmmu' : Akin(f, g) /\ f # g =>
                 (\E k \in 0..currentsegment : InSegment(f, k) /\ InSegment(g, k))'
  BY <1>1, <1>9, <1>10, <1>11, <1>15, AddingKeeps
<1>17. MapType'
  <2>1. slave' \in 1..NSlave + 1
    BY <1>1, <1>13
  <2>2. QED
    BY <1>1, <1>2, <1>3, <1>7, <1>8, <1>9, <1>16, <2>1 DEF MapType
<1>18. Sorted'
  <2>1. ASSUME NEW g \in fmmu'
        PROVE  g.last < 8 * (IF g.dir = "out" THEN Obytes' ELSE Ibytes')
    <3>1. CASE g \in fmmu
      <4>1. g.last < Where /\ g.last \in Nat
        BY <1>2, <1>12, <3>1 DEF MapInv, Placed
      <4>2. Where <= 8 * Obytes' /\ Where <= 8 * Ibytes'
            /\ 8 * Obytes' \in Nat /\ 8 * Ibytes' \in Nat
        BY <1>2, <1>4, <1>7, Eightfold
      <4>3. g.last < 8 * Obytes' /\ g.last < 8 * Ibytes'
        BY <1>11, <4>1, <4>2
      <4>4. QED
        BY <4>3
    <3>2. CASE g \in outs
      BY <1>6, <1>14, <3>2
    <3>3. CASE g \in ins
      BY <1>6, <1>14, <3>3
    <3>4. QED
      BY <1>1, <3>1, <3>2, <3>3
  <2>2. QED
    BY <1>1, <1>3, <2>1 DEF Sorted
<1>19. InTurn'
  <2> SUFFICES ASSUME NEW g \in fmmu' PROVE g.slave < slave + 1
    BY <1>1 DEF InTurn
  <2>1. CASE g \in fmmu
    <3>1. g.slave < slave /\ g.slave \in Slave
      BY <1>1, <1>2, <1>12, <2>1 DEF MapInv, InTurn
    <3>2. QED
      BY <1>1, <1>13, <3>1
  <2>2. CASE g \in new
    BY <1>1, <1>6, <1>13, <2>2
  <2>3. QED
    BY <1>1, <2>1, <2>2
<1>20. InputsBegin'
  <2>1. InputsBegin
    BY DEF MapInv
  <2>2. /\ Isegment <= currentsegment'
        /\ Ioffset <= IF Isegment = currentsegment' THEN segmentsize' ELSE IOsegment'[Isegment]
    BY <1>1, <1>2, <1>9, <1>10, <2>1, TakeKeeps
  <2>3. QED
    BY <1>1, <2>2 DEF InputsBegin
<1>21. LastIsFree' => Cut'
  BY <1>1, <1>3, <1>16 DEF Cut, Akin
<1>22. QED
  BY <1>16, <1>17, <1>18, <1>19, <1>20, <1>21 DEF MapInv

(* The empty map is right.                                                 *)
LEMMA MapInitInv ==
  ASSUME MapInit PROVE MapInv
<1>1. /\ overlap \in BOOLEAN /\ step = (IF overlap THEN "both" ELSE "out") /\ slave = 1
      /\ LogAddr = 0 /\ BitPos = 0
      /\ IOsegment = [k \in 0..(MAXSEG - 1) |-> 0]
      /\ currentsegment = 0 /\ segmentsize = 0
      /\ Obytes = 0 /\ Ibytes = 0 /\ Isegment = 0 /\ Ioffset = 0
      /\ fmmu = {}
      /\ shape \in [Slave -> [out : OutShape, in : InShape]]
  BY DEF MapInit
<1>2. SegType /\ 0 \in 0..MAXSEG - 1 /\ 1 \in 1..NSlave + 1
  BY <1>1, SegmentAssumption, NSlaveAssumption DEF SegType, Lengths
<1>3. MapType
  BY <1>1, <1>2 DEF MapType
<1>4. Placed /\ InTurn
  BY <1>1 DEF Placed, InTurn
<1>5. Sorted
  BY <1>1 DEF Sorted, EndOverlap
<1>6. InputsBegin
  BY <1>1 DEF InputsBegin
<1>7. Cut
  <2>1. SegBegin(IOsegment)[0] = 0
    BY <1>2, SegmentsFollow DEF SegType
  <2>2. QED
    BY <1>1, <2>1 DEF Cut
<1>8. QED
  BY <1>3, <1>4, <1>5, <1>6, <1>7 DEF MapInv

(* Every step of the mapping keeps the map right.                          *)
LEMMA MapKeeps ==
  ASSUME MapInv, Map PROVE MapInv'
<1>1. ASSUME NEW d \in {"out", "in"}, MapSlave(d) PROVE MapInv'
  BY <1>1, MapSlaveKeeps DEF Dir
<1>2. QED
  BY <1>1, EndOutputsKeeps, EndInputsKeeps, MapOverlapKeeps, EndBothKeeps DEF Map

-----------------------------------------------------------------------------
(* How many bytes the loop over the segments has sent before each of them.  *)
Command == {"LRW", "LRD", "LWR"}

Sends(W, cmd, seg, length) ==
  /\ W \in [seg..nsegments -> Nat] /\ W[seg] = 0
  /\ \A k \in seg + 1..nsegments :
       W[k] = W[k - 1] + Sublength(cmd, k - 1, length - W[k - 1])
  /\ \A k \in seg + 1..nsegments : W[k - 1] <= W[k]

(* The datagrams of a loop that sends W and ends before segment e.          *)
Loop(W, e, cmd, seg, at) ==
  [k \in 1..e - seg |->
     [cmd |-> cmd, at |-> at + W[seg + k - 1],
      len |-> W[seg + k] - W[seg + k - 1], dc |-> FALSE]]

Ends(W, e, seg, n, length) ==
  /\ e \in seg + 1..n
  /\ W[e] = length \/ e = n
  /\ \A k \in seg + 1..e - 1 : W[k] # length

(* The loop over the segments ends.                                        *)
LEMMA LoopEnds ==
  ASSUME NEW seg \in Nat, NEW n \in Nat, seg < n, NEW length, NEW W
  PROVE  \E e : Ends(W, e, seg, n, length)
<1> DEFINE S == {e \in seg + 1..n : W[e] = length \/ e = n}
<1>1. S \in SUBSET Nat /\ n \in S
  OBVIOUS
<1>2. PICK e \in S : \A k \in S : e <= k
  <2> HIDE DEF S
  <2>1. QED
    BY <1>1, Least
<1>3. e \in seg + 1..n /\ (W[e] = length \/ e = n)
  BY <1>2
<1>4. ASSUME NEW k \in seg + 1..e - 1 PROVE W[k] # length
  <2>1. k \in seg + 1..n /\ ~(e <= k)
    BY <1>3
  <2>2. QED
    BY <1>2, <2>1
<1>5. Ends(W, e, seg, n, length)
  BY <1>3, <1>4 DEF Ends
<1>6. QED
  BY <1>5

(* The loop over the segments sends what a function does that follows its  *)
(* equation.                                                               *)
LEMMA LoopIs ==
  ASSUME nsegments \in Nat, NEW cmd, NEW seg \in Nat, seg < nsegments,
         NEW at, NEW length, NEW W, Sends(W, cmd, seg, length)
  PROVE  \E e : /\ Ends(W, e, seg, nsegments, length)
               /\ SegmentLoop(cmd, seg, at, length) = Loop(W, e, cmd, seg, at)
<1> DEFINE n == nsegments
<1> DEFINE Sum(f) == f = [k \in seg..n |->
                            IF k = seg THEN 0
                            ELSE f[k - 1] + Sublength(cmd, k - 1, length - f[k - 1])]
<1> DEFINE sent == CHOOSE f : Sum(f)
<1> DEFINE End(e) == /\ sent[e] = length \/ e = n
                     /\ \A k \in seg + 1..e - 1 : sent[k] # length
<1> DEFINE end == CHOOSE e \in seg + 1..n : End(e)
<1>1. SegmentLoop(cmd, seg, at, length) = Loop(sent, end, cmd, seg, at)
  BY DEF SegmentLoop, Loop
<1> HIDE DEF n
<1>2. n \in Nat /\ seg < n
  BY DEF n
<1>3. W \in [seg..n -> Nat] /\ W[seg] = 0
      /\ \A k \in seg + 1..n : W[k] = W[k - 1] + Sublength(cmd, k - 1, length - W[k - 1])
  BY DEF Sends, n
<1>4. Sum(W)
  <2>1. \A k \in seg..n : W[k] = IF k = seg THEN 0
                                 ELSE W[k - 1] + Sublength(cmd, k - 1, length - W[k - 1])
    BY <1>2, <1>3
  <2>2. QED
    BY <1>3, <2>1
<1>5. Sum(sent)
  <2> HIDE DEF Sum
  <2>1. QED
    BY <1>4
<1> HIDE DEF sent
<1>6. sent = W
  <2> DEFINE T == {k \in seg..n : sent[k] = W[k]}
  <2>1. seg \in T
    BY <1>2, <1>3, <1>5
  <2>2. ASSUME NEW k \in seg..n - 1, k \in T PROVE k + 1 \in T
    <3>1. k + 1 \in seg + 1..n /\ (k + 1) - 1 = k /\ k + 1 # seg /\ k + 1 \in seg..n
      BY <1>2
    <3>2. sent[k + 1] = sent[k] + Sublength(cmd, k, length - sent[k])
      BY <1>5, <3>1
    <3>3. W[k + 1] = W[k] + Sublength(cmd, k, length - W[k])
      BY <1>3, <3>1
    <3>4. QED
      BY <2>2, <3>1, <3>2, <3>3
  <2>3. T = seg..n
    <3>1. T \in SUBSET (seg..n) /\ seg \in Int /\ n \in Int
      BY <1>2
    <3> HIDE DEF T
    <3>2. QED
      BY <2>1, <2>2, <3>1, Along
  <2>4. \A k \in seg..n : sent[k] = W[k]
    BY <2>3
  <2>5. sent = [k \in seg..n |-> sent[k]]
    BY <1>5
  <2>6. QED
    BY <1>3, <2>4, <2>5
<1>7. \E e \in seg + 1..n : End(e)
  <2>1. PICK e : Ends(W, e, seg, n, length)
    BY <1>2, LoopEnds
  <2>2. e \in seg + 1..n /\ End(e)
    BY <1>6, <2>1 DEF Ends
  <2>3. QED
    BY <2>2
<1>8. end \in seg + 1..n /\ End(end)
  <2> HIDE DEF End
  <2>1. QED
    BY <1>7
<1> HIDE DEF end
<1>9. Ends(W, end, seg, nsegments, length)
  BY <1>6, <1>8 DEF Ends, n
<1>10. QED
  BY <1>1, <1>6, <1>9

(* The bytes of a segment that are left for a datagram are never negative.  *)
LEMMA SublengthType ==
  ASSUME MapInv, step = "mapped", NEW cmd \in Command, NEW k \in 0..currentsegment,
         NEW left \in Nat
  PROVE  /\ Sublength(cmd, k, left) \in Nat
         /\ cmd = "LWR" => Sublength(cmd, k, left) <= left
<1>1. /\ SegType /\ InputsBegin /\ Ioffset \in Nat /\ currentsegment \in 0..MAXSEG - 1
      /\ MAXSEG \in Nat
  BY SegmentAssumption DEF MapInv, MapType, SegType
<1>2. k \in 0..MAXSEG - 1
  BY <1>1
<1>3. IOsegment[k] \in Nat
  BY <1>1, <1>2 DEF SegType, Lengths
<1>4. CASE cmd = "LRW"
  BY <1>3, <1>4 DEF Sublength
<1>5. CASE cmd = "LWR"
  BY <1>3, <1>5 DEF Sublength, Smaller
<1>6. CASE cmd = "LRD"
  <2>1. CASE k = Isegment
    <3>1. IOsegment[k] >= Ioffset
      BY <1>1, <2>1 DEF InputsBegin
    <3>2. QED
      BY <1>1, <1>3, <1>6, <2>1, <3>1 DEF Sublength
  <2>2. CASE k # Isegment
    BY <1>3, <1>6, <2>2 DEF Sublength
  <2>3. QED
    BY <2>1, <2>2, <1>6
<1>7. QED
  BY <1>4, <1>5, <1>6 DEF Command

(* The segments are within the array.                                      *)
LEMMA SegmentsThere ==
  ASSUME MapInv
  PROVE  /\ currentsegment \in Nat /\ nsegments \in Nat /\ nsegments = currentsegment + 1
         /\ nsegments \in 0..MAXSEG /\ MAXSEG \in Nat
         /\ \A k \in 0..nsegments : k \in 0..MAXSEG
         /\ \A k \in 0..currentsegment : k \in 0..MAXSEG - 1
         /\ Isegment \in 0..currentsegment
<1>1. currentsegment \in 0..MAXSEG - 1 /\ Isegment \in 0..MAXSEG - 1
      /\ Isegment <= currentsegment
  BY DEF MapInv, MapType, SegType, InputsBegin
<1>2. QED
  BY <1>1, SegmentAssumption DEF nsegments

(* The loop sends a function of the bytes before each segment.             *)
LEMMA SendsSomething ==
  ASSUME MapInv, step = "mapped", NEW cmd \in Command, NEW seg \in 0..currentsegment,
         NEW length \in Nat
  PROVE  \E W : Sends(W, cmd, seg, length)
<1> DEFINE n == nsegments
<1> DEFINE S == IF cmd = "LWR" THEN 0..length ELSE Nat
<1> DEFINE Sub(k, v) == Sublength(cmd, k - 1, IF cmd = "LWR" THEN length - v ELSE 0)
<1> DEFINE h == [k \in seg + 1..n |-> [v \in S |-> v + Sub(k, v)]]
<1>1. seg \in Nat /\ n \in Nat /\ seg < n /\ n = currentsegment + 1 /\ currentsegment \in Nat
  BY SegmentsThere
<1> HIDE DEF n
<1>2. \A k \in seg + 1..n : k - 1 \in 0..currentsegment /\ k - 1 \in seg..n
  BY <1>1
<1>3. ASSUME NEW k \in seg + 1..n, NEW v \in S
      PROVE  v \in Nat /\ Sub(k, v) \in Nat /\ v + Sub(k, v) \in S
             /\ Sub(k, v) = Sublength(cmd, k - 1, length - v)
  <2>1. CASE cmd = "LWR"
    <3>1. v \in Nat /\ v <= length /\ length - v \in Nat
      BY <2>1
    <3>2. Sublength(cmd, k - 1, length - v) \in Nat
          /\ Sublength(cmd, k - 1, length - v) <= length - v
      BY <1>2, <2>1, <3>1, SublengthType
    <3>3. QED
      BY <2>1, <3>1, <3>2
  <2>2. CASE cmd # "LWR"
    <3>1. Sublength(cmd, k - 1, 0) \in Nat /\ 0 \in Nat
      BY <1>2, SublengthType
    <3>2. Sublength(cmd, k - 1, 0) = Sublength(cmd, k - 1, length - v)
      BY <2>2 DEF Sublength
    <3>3. QED
      BY <2>2, <3>1, <3>2
  <2>3. QED
    BY <2>1, <2>2
<1> HIDE DEF Sub
<1>4. \A k \in seg + 1..n : \A v \in S : h[k][v] = v + Sub(k, v) /\ h[k][v] \in S
  BY <1>3
<1>5. seg \in Int /\ n \in Int /\ seg <= n /\ 0 \in S
  BY <1>1
<1> HIDE DEF h, S
<1>6. PICK W : Follows(W, seg, n, S, 0, h)
  BY <1>4, <1>5, Recursion
<1>7. W \in [seg..n -> S] /\ W[seg] = 0 /\ \A k \in seg + 1..n : W[k] = h[k][W[k - 1]]
  BY <1>6 DEF Follows
<1>8. \A k \in seg..n : W[k] \in S /\ W[k] \in Nat
  BY <1>7 DEF S
<1>9. ASSUME NEW k \in seg + 1..n
      PROVE  W[k] = W[k - 1] + Sublength(cmd, k - 1, length - W[k - 1]) /\ W[k - 1] <= W[k]
  <2>1. W[k - 1] \in S /\ W[k - 1] \in Nat
    BY <1>2, <1>8
  <2>2. W[k] = W[k - 1] + Sub(k, W[k - 1])
    BY <1>4, <1>7, <2>1
  <2>3. Sub(k, W[k - 1]) \in Nat /\ Sub(k, W[k - 1]) = Sublength(cmd, k - 1, length - W[k - 1])
    BY <1>3, <2>1
  <2>4. QED
    BY <2>1, <2>2, <2>3
<1>10. W \in [seg..n -> Nat]
  BY <1>7, <1>8
<1>11. Sends(W, cmd, seg, length)
  BY <1>7, <1>9, <1>10 DEF Sends, n
<1>12. QED
  BY <1>11

Datagram == [cmd : Command, at : Nat, len : Nat, dc : BOOLEAN]

(* The loop makes datagrams, one from each segment on the way.             *)
LEMMA LoopType ==
  ASSUME NEW cmd \in Command, NEW seg \in Nat, nsegments \in Nat, NEW at \in Nat,
         NEW length, NEW W, NEW e, Sends(W, cmd, seg, length), Ends(W, e, seg, nsegments, length)
  PROVE  /\ Loop(W, e, cmd, seg, at) \in Seq(Datagram)
         /\ Len(Loop(W, e, cmd, seg, at)) = e - seg /\ e - seg \in Nat
         /\ \A j \in 1..e - seg :
              /\ seg + j - 1 \in seg..nsegments /\ seg + j \in seg..nsegments
              /\ Loop(W, e, cmd, seg, at)[j] =
                   [cmd |-> cmd, at |-> at + W[seg + j - 1],
                    len |-> W[seg + j] - W[seg + j - 1], dc |-> FALSE]
<1> DEFINE m == e - seg
<1> DEFINE F(j) == [cmd |-> cmd, at |-> at + W[seg + j - 1],
                    len |-> W[seg + j] - W[seg + j - 1], dc |-> FALSE]
<1>1. e \in seg + 1..nsegments
  BY DEF Ends
<1>2. m \in Nat
  BY <1>1
<1>3. Loop(W, e, cmd, seg, at) = [j \in 1..m |-> F(j)]
  BY DEF Loop
<1>4. ASSUME NEW j \in 1..m
      PROVE  /\ F(j) \in Datagram
             /\ seg + j - 1 \in seg..nsegments /\ seg + j \in seg..nsegments
  <2>1. /\ seg + j - 1 \in seg..nsegments /\ seg + j \in seg..nsegments
        /\ seg + j \in seg + 1..nsegments /\ (seg + j) - 1 = seg + j - 1
    BY <1>1
  <2>2. W[seg + j - 1] \in Nat /\ W[seg + j] \in Nat /\ W[seg + j - 1] <= W[seg + j]
    BY <2>1 DEF Sends
  <2>3. at + W[seg + j - 1] \in Nat /\ W[seg + j] - W[seg + j - 1] \in Nat
    BY <2>2
  <2>4. QED
    BY <2>1, <2>3 DEF Datagram
<1> HIDE DEF F, m
<1>5. [j \in 1..m |-> F(j)] \in [1..m -> Datagram]
  BY <1>4
<1>6. [j \in 1..m |-> F(j)] \in Seq(Datagram)
  BY <1>2, <1>5, SeqDef
<1>7. Len([j \in 1..m |-> F(j)]) = m
  BY <1>2, <1>5, <1>6, LenProperties
<1>8. \A j \in 1..m : Loop(W, e, cmd, seg, at)[j] = F(j)
  BY <1>3
<1>9. QED
  BY <1>2, <1>3, <1>4, <1>6, <1>7, <1>8 DEF F, m

LoopOf(d, cmd, at) ==
  /\ d \in Seq(Datagram)
  /\ \A j \in DOMAIN d : d[j].cmd = cmd /\ d[j].at >= at /\ d[j].dc = FALSE

(* The datagrams of a loop have its command and are not before its         *)
(* address.                                                                *)
LEMMA SegmentLoopType ==
  ASSUME MapInv, step = "mapped", NEW cmd \in Command, NEW seg \in 0..currentsegment,
         NEW at \in Nat, NEW length \in Nat
  PROVE  LoopOf(SegmentLoop(cmd, seg, at, length), cmd, at)
<1>1. nsegments \in Nat /\ seg \in Nat /\ seg < nsegments
  BY SegmentsThere
<1>2. PICK W : Sends(W, cmd, seg, length)
  BY SendsSomething
<1>3. PICK e : /\ Ends(W, e, seg, nsegments, length)
               /\ SegmentLoop(cmd, seg, at, length) = Loop(W, e, cmd, seg, at)
  BY <1>1, <1>2, LoopIs
<1>d. /\ Loop(W, e, cmd, seg, at) \in Seq(Datagram)
      /\ Len(Loop(W, e, cmd, seg, at)) = e - seg /\ e - seg \in Nat
      /\ \A j \in 1..e - seg :
           /\ seg + j - 1 \in seg..nsegments /\ seg + j \in seg..nsegments
           /\ Loop(W, e, cmd, seg, at)[j] =
                [cmd |-> cmd, at |-> at + W[seg + j - 1],
                 len |-> W[seg + j] - W[seg + j - 1], dc |-> FALSE]
  <2>1. Ends(W, e, seg, nsegments, length)
    BY <1>3
  <2>2. QED
    BY <1>1, <1>2, <2>1, LoopType
<1> DEFINE d == Loop(W, e, cmd, seg, at)
<1>4. /\ d \in Seq(Datagram) /\ Len(d) = e - seg
      /\ \A j \in 1..e - seg :
           /\ seg + j - 1 \in seg..nsegments
           /\ d[j] = [cmd |-> cmd, at |-> at + W[seg + j - 1],
                      len |-> W[seg + j] - W[seg + j - 1], dc |-> FALSE]
  BY <1>d
<1> HIDE DEF d
<1>5. DOMAIN d = 1..e - seg
  BY <1>4, LenProperties
<1>6. ASSUME NEW j \in DOMAIN d PROVE d[j].cmd = cmd /\ d[j].at >= at /\ d[j].dc = FALSE
  <2>1. W[seg + j - 1] \in Nat
    BY <1>2, <1>4, <1>5 DEF Sends
  <2>2. at + W[seg + j - 1] >= at
    BY <2>1
  <2>3. QED
    BY <1>4, <1>5, <2>2
<1>7. LoopOf(d, cmd, at)
  BY <1>4, <1>6 DEF LoopOf
<1>8. QED
  BY <1>3, <1>7 DEF d

(* The datagrams of a cycle have the commands of the group, and LRD ones   *)
(* lie behind the outputs.                                                 *)
LEMMA DatagramsType ==
  ASSUME MapInv, step = "mapped"
  PROVE  /\ Datagrams \in Seq(Datagram)
         /\ \A j \in DOMAIN Datagrams :
              /\ Datagrams[j].dc = FALSE
              /\ Datagrams[j].cmd \in IF blockLRW THEN {"LRD", "LWR"} ELSE {"LRW"}
              /\ Datagrams[j].cmd = "LRD" => Datagrams[j].at >= Obytes
<1>1. /\ Obytes \in Nat /\ Ibytes \in Nat /\ Length \in Nat /\ 0 \in Nat
      /\ "LRD" \in Command /\ "LWR" \in Command /\ "LRW" \in Command
      /\ 0 \in 0..currentsegment /\ Isegment \in 0..currentsegment
  BY SegmentsThere DEF MapInv, MapType, Length, Command
<1> DEFINE lrd == SegmentLoop("LRD", Isegment, Obytes, Ibytes)
<1> DEFINE lwr == SegmentLoop("LWR", 0, 0, Obytes)
<1> DEFINE lrw == SegmentLoop("LRW", 0, 0, Length)
<1>2. /\ lrd \in Seq(Datagram)
      /\ \A j \in DOMAIN lrd : lrd[j].cmd = "LRD" /\ lrd[j].at >= Obytes /\ lrd[j].dc = FALSE
  <2>1. LoopOf(lrd, "LRD", Obytes)
    BY <1>1, SegmentLoopType
  <2> HIDE DEF lrd
  <2>2. QED
    BY <2>1 DEF LoopOf
<1>3. /\ lwr \in Seq(Datagram)
      /\ \A j \in DOMAIN lwr : lwr[j].cmd = "LWR" /\ lwr[j].dc = FALSE
  <2>1. LoopOf(lwr, "LWR", 0)
    BY <1>1, SegmentLoopType
  <2> HIDE DEF lwr
  <2>2. QED
    BY <2>1 DEF LoopOf
<1>4. /\ lrw \in Seq(Datagram)
      /\ \A j \in DOMAIN lrw : lrw[j].cmd = "LRW" /\ lrw[j].dc = FALSE
  <2>1. LoopOf(lrw, "LRW", 0)
    BY <1>1, SegmentLoopType
  <2> HIDE DEF lrw
  <2>2. QED
    BY <2>1 DEF LoopOf
<1> DEFINE s1 == IF Ibytes = 0 THEN <<>> ELSE lrd
<1> DEFINE s2 == IF Obytes = 0 THEN <<>> ELSE lwr
<1>5. Datagrams = IF Length = 0 THEN <<>> ELSE IF blockLRW THEN s1 \o s2 ELSE lrw
  BY DEF Datagrams
<1> HIDE DEF lrd, lwr, lrw
<1>6. << >> \in Seq(Datagram) /\ DOMAIN << >> = {}
  OBVIOUS
<1>7. /\ s1 \in Seq(Datagram)
      /\ \A j \in DOMAIN s1 : s1[j].cmd = "LRD" /\ s1[j].at >= Obytes /\ s1[j].dc = FALSE
  BY <1>2, <1>6
<1>8. /\ s2 \in Seq(Datagram)
      /\ \A j \in DOMAIN s2 : s2[j].cmd = "LWR" /\ s2[j].dc = FALSE
  BY <1>3, <1>6
<1> HIDE DEF s1, s2
<1>9. /\ s1 \o s2 \in Seq(Datagram)
      /\ \A j \in DOMAIN (s1 \o s2) : \/ j \in DOMAIN s1 /\ (s1 \o s2)[j] = s1[j]
                                      \/ j - Len(s1) \in DOMAIN s2 /\ (s1 \o s2)[j] = s2[j - Len(s1)]
  <2>1. /\ s1 \o s2 \in Seq(Datagram) /\ Len(s1 \o s2) = Len(s1) + Len(s2)
        /\ \A j \in 1..Len(s1) + Len(s2) :
             (s1 \o s2)[j] = IF j <= Len(s1) THEN s1[j] ELSE s2[j - Len(s1)]
    BY <1>7, <1>8, ConcatProperties
  <2>2. /\ Len(s1) \in Nat /\ DOMAIN s1 = 1..Len(s1)
        /\ Len(s2) \in Nat /\ DOMAIN s2 = 1..Len(s2)
        /\ DOMAIN (s1 \o s2) = 1..Len(s1 \o s2)
    BY <1>7, <1>8, <2>1, LenProperties
  <2>3. ASSUME NEW j \in DOMAIN (s1 \o s2)
        PROVE  \/ j \in DOMAIN s1 /\ (s1 \o s2)[j] = s1[j]
               \/ j - Len(s1) \in DOMAIN s2 /\ (s1 \o s2)[j] = s2[j - Len(s1)]
    <3>1. j \in 1..Len(s1) + Len(s2)
      BY <2>1, <2>2
    <3>2. CASE j <= Len(s1)
      BY <2>1, <2>2, <3>1, <3>2
    <3>3. CASE ~(j <= Len(s1))
      <4>1. j - Len(s1) \in 1..Len(s2)
        BY <2>2, <3>1, <3>3
      <4>2. QED
        BY <2>1, <2>2, <3>1, <3>3, <4>1
    <3>4. QED
      BY <3>2, <3>3
  <2>4. QED
    BY <2>1, <2>3
<1>10. CASE Length = 0
  BY <1>5, <1>6, <1>10
<1>11. CASE Length # 0 /\ blockLRW
  <2>1. Datagrams = s1 \o s2
    BY <1>5, <1>11
  <2>2. QED
    BY <1>7, <1>8, <1>9, <1>11, <2>1
<1>12. CASE Length # 0 /\ ~blockLRW
  <2>1. Datagrams = lrw
    BY <1>5, <1>12
  <2>2. QED
    BY <1>4, <1>12, <2>1
<1>13. QED
  BY <1>10, <1>11, <1>12

(* The clock goes behind the first datagram and changes nothing else.      *)
LEMMA WithClockType ==
  ASSUME NEW s \in Seq(Datagram), \A j \in DOMAIN s : s[j].dc = FALSE
  PROVE  /\ WithClock(s) \in Seq(Datagram) /\ Len(WithClock(s)) = Len(s)
         /\ DOMAIN WithClock(s) = DOMAIN s
         /\ \A j \in DOMAIN s : /\ WithClock(s)[j].cmd = s[j].cmd
                                /\ WithClock(s)[j].at = s[j].at
                                /\ WithClock(s)[j].len = s[j].len
                                /\ WithClock(s)[j].dc => j = 1
<1>1. CASE ~(hasdc /\ s # << >>)
  BY <1>1 DEF WithClock
<1>2. CASE hasdc /\ s # << >>
  <2> DEFINE r == [s[1] EXCEPT !.dc = TRUE]
  <2>1. WithClock(s) = [s EXCEPT ![1] = r]
    BY <1>2 DEF WithClock
  <2>2. Len(s) \in Nat /\ s \in [1..Len(s) -> Datagram] /\ DOMAIN s = 1..Len(s) /\ 1 \in 1..Len(s)
    BY <1>2, LenProperties, EmptySeq
  <2>3. s[1] \in Datagram
    BY <2>2
  <2>4. /\ r \in Datagram /\ r.cmd = s[1].cmd /\ r.at = s[1].at /\ r.len = s[1].len
    BY <2>3 DEF Datagram
  <2> HIDE DEF r
  <2>5. [s EXCEPT ![1] = r] \in Seq(Datagram) /\ Len([s EXCEPT ![1] = r]) = Len(s)
        /\ \A j \in 1..Len(s) : [s EXCEPT ![1] = r][j] = IF j = 1 THEN r ELSE s[j]
    BY <2>2, <2>4, ExceptSeq
  <2>6. DOMAIN [s EXCEPT ![1] = r] = DOMAIN s
    BY <2>2, <2>5, LenProperties
  <2>7. QED
    BY <2>1, <2>2, <2>4, <2>5, <2>6
<1>3. QED
  BY <1>1, <1>2

-----------------------------------------------------------------------------
(* The inductive invariant of the cycle: the map is right, the application *)
(* writes outputs only, and while frames are received they are those the   *)
(* map tells to send.                                                      *)
CycInv ==
  /\ MapInv
  /\ blockLRW \in BOOLEAN /\ hasdc \in BOOLEAN /\ alive \in SUBSET Slave
  /\ phase \in {"map", "send", "receive", "done"}
  /\ phase = "map" <=> step # "mapped"
  /\ unsent \subseteq 0..Obytes - 1
  /\ phase = "map" => unsent = {}
  /\ phase = "receive" =>
       /\ frames = WithClock(Datagrams) /\ pushed = Pushed(Len(frames))
       /\ pulled \in 0..pushed

(* What is on the way is what the map tells to send.                       *)
LEMMA FramesSent ==
  ASSUME CycInv, phase = "receive"
  PROVE  /\ step = "mapped" /\ frames \in Seq(Datagram)
         /\ DOMAIN frames = DOMAIN Datagrams /\ DOMAIN frames = 1..Len(frames)
         /\ \A j \in DOMAIN frames :
              /\ frames[j].cmd = Datagrams[j].cmd /\ frames[j].at = Datagrams[j].at
              /\ frames[j].len = Datagrams[j].len
              /\ frames[j].dc => j = 1
              /\ frames[j].cmd \in IF blockLRW THEN {"LRD", "LWR"} ELSE {"LRW"}
              /\ frames[j].cmd = "LRD" => frames[j].at >= Obytes
         /\ pushed \in Nat /\ pushed <= Len(frames)
         /\ pulled < pushed => pulled + 1 \in DOMAIN frames
<1>1. step = "mapped" /\ frames = WithClock(Datagrams) /\ MapInv
      /\ pushed = Pushed(Len(frames)) /\ pulled \in 0..pushed
  BY DEF CycInv
<1>2. /\ Datagrams \in Seq(Datagram)
      /\ \A j \in DOMAIN Datagrams :
           /\ Datagrams[j].dc = FALSE
           /\ Datagrams[j].cmd \in IF blockLRW THEN {"LRD", "LWR"} ELSE {"LRW"}
           /\ Datagrams[j].cmd = "LRD" => Datagrams[j].at >= Obytes
  BY <1>1, DatagramsType
<1>3. /\ frames \in Seq(Datagram) /\ DOMAIN frames = DOMAIN Datagrams
      /\ \A j \in DOMAIN Datagrams :
           /\ frames[j].cmd = Datagrams[j].cmd /\ frames[j].at = Datagrams[j].at
           /\ frames[j].len = Datagrams[j].len
           /\ frames[j].dc => j = 1
  BY <1>1, <1>2, WithClockType
<1>4. DOMAIN frames = 1..Len(frames) /\ Len(frames) \in Nat
  BY <1>3, LenProperties
<1>5. pushed \in Nat /\ pushed <= Len(frames)
  BY <1>1, <1>4, MAXBUFAssumption DEF Pushed, Smaller
<1>6. QED
  BY <1>1, <1>2, <1>3, <1>4, <1>5

(* It holds at first.                                                      *)
LEMMA CycInit ==
  ASSUME Init PROVE CycInv
<1>1. MapInv
  BY MapInitInv DEF Init
<1>2. step # "mapped"
  BY DEF Init, MapInit
<1>3. QED
  BY <1>1, <1>2 DEF CycInv, Init

(* The map is right as long as it is not changed.                          *)
LEMMA SameMap ==
  ASSUME MapInv, UNCHANGED mapvars
  PROVE  MapInv'
  BY DEF mapvars, MapInv, MapType, Placed, Sorted, InTurn, Cut, InputsBegin, LastIsFree,
         SegType, Where, Exempt, Akin, InSegment, SegEnd

(* The datagrams are the same as long as the map is.                       *)
LEMMA SameDatagrams ==
  ASSUME UNCHANGED <<mapvars, blockLRW, hasdc>>
  PROVE  WithClock(Datagrams)' = WithClock(Datagrams)
  BY DEF mapvars, WithClock, Datagrams, SegmentLoop, Sublength, Length, nsegments

(* It holds after every step.                                              *)
LEMMA CycNext ==
  ASSUME CycInv, [Next]_vars
  PROVE  CycInv'
<1> USE DEF CycInv
<1>1. CASE Configure
  <2>1. Map /\ phase = "map" /\ phase' = (IF step' = "mapped" THEN "send" ELSE "map")
        /\ UNCHANGED <<blockLRW, hasdc, alive, frames, pushed, pulled, unsent>>
    BY <1>1 DEF Configure
  <2>2. MapInv'
    BY <2>1, MapKeeps
  <2>3. QED
    BY <2>1, <2>2
<1>2. CASE Send
  <2>1. /\ phase = "send" /\ phase' = "receive" /\ frames' = WithClock(Datagrams)
        /\ pushed' = Pushed(Len(frames')) /\ pulled' = 0 /\ unsent' = {}
        /\ alive' \in SUBSET Slave
        /\ UNCHANGED <<mapvars, blockLRW, hasdc>>
    BY <1>2 DEF Send
  <2>2. MapInv' /\ step = "mapped" /\ UNCHANGED step
    BY <2>1, SameMap DEF mapvars
  <2>3. frames' = WithClock(Datagrams)'
    BY <2>1, SameDatagrams
  <2>4. Datagrams \in Seq(Datagram) /\ \A j \in DOMAIN Datagrams : Datagrams[j].dc = FALSE
    BY <2>2, DatagramsType
  <2>5. Len(frames') \in Nat
    BY <2>1, <2>4, WithClockType, LenProperties
  <2>6. pulled' \in 0..pushed'
    BY <2>1, <2>5, MAXBUFAssumption DEF Pushed, Smaller
  <2>7. QED
    BY <2>1, <2>2, <2>3, <2>6
<1>3. CASE WriteOutputs
  <2>1. /\ UNCHANGED <<mapvars, blockLRW, hasdc, alive, phase, frames, pushed, pulled>>
        /\ unsent' = 0..Obytes - 1 /\ phase # "map"
    BY <1>3 DEF WriteOutputs
  <2>2. MapInv' /\ UNCHANGED <<step, Obytes>>
    BY <2>1, SameMap DEF mapvars
  <2>3. WithClock(Datagrams)' = WithClock(Datagrams)
    BY <2>1, SameDatagrams
  <2>4. QED
    BY <2>1, <2>2, <2>3
<1>4. CASE Receive
  <2>1. /\ UNCHANGED <<mapvars, blockLRW, hasdc, alive, phase, frames, pushed>>
        /\ unsent' \subseteq unsent /\ phase = "receive"
        /\ pulled < pushed /\ pulled' = pulled + 1
    BY <1>4 DEF Receive
  <2>2. MapInv' /\ UNCHANGED <<step, Obytes>>
    BY <2>1, SameMap DEF mapvars
  <2>3. WithClock(Datagrams)' = WithClock(Datagrams)
    BY <2>1, SameDatagrams
  <2>4. pushed \in Nat /\ pulled' \in 0..pushed
    BY <2>1, FramesSent
  <2>5. QED
    BY <2>1, <2>2, <2>3, <2>4
<1>5. CASE ReceiveNothing
  <2>1. /\ UNCHANGED <<mapvars, blockLRW, hasdc, alive, phase, frames, pushed, unsent>>
        /\ phase = "receive" /\ pulled < pushed /\ pulled' = pulled + 1
    BY <1>5 DEF ReceiveNothing
  <2>2. MapInv' /\ UNCHANGED <<step, Obytes>>
    BY <2>1, SameMap DEF mapvars
  <2>3. WithClock(Datagrams)' = WithClock(Datagrams)
    BY <2>1, SameDatagrams
  <2>4. pushed \in Nat /\ pulled' \in 0..pushed
    BY <2>1, FramesSent
  <2>5. QED
    BY <2>1, <2>2, <2>3, <2>4
<1>6. CASE ClearIndex
  <2>1. /\ UNCHANGED <<mapvars, blockLRW, hasdc, alive, unsent>>
        /\ phase = "receive" /\ phase' = "done"
    BY <1>6 DEF ClearIndex
  <2>2. MapInv' /\ UNCHANGED <<step, Obytes>>
    BY <2>1, SameMap DEF mapvars
  <2>3. QED
    BY <2>1, <2>2
<1>7. CASE NextCycle
  <2>1. /\ UNCHANGED <<mapvars, blockLRW, hasdc, unsent>> /\ alive' = Slave
        /\ phase = "done" /\ phase' = "send"
    BY <1>7 DEF NextCycle
  <2>2. MapInv' /\ UNCHANGED <<step, Obytes>>
    BY <2>1, SameMap DEF mapvars
  <2>3. QED
    BY <2>1, <2>2
<1>8. CASE UNCHANGED vars
  <2>1. UNCHANGED <<mapvars, blockLRW, hasdc, alive, phase, frames, pushed, pulled, unsent>>
    BY <1>8 DEF vars, cycvars
  <2>2. MapInv' /\ UNCHANGED <<step, Obytes>>
    BY <2>1, SameMap DEF mapvars
  <2>3. WithClock(Datagrams)' = WithClock(Datagrams)
    BY <2>1, SameDatagrams
  <2>4. QED
    BY <2>1, <2>2, <2>3
<1>9. QED
  BY <1>1, <1>2, <1>3, <1>4, <1>5, <1>6, <1>7, <1>8 DEF Next

(* What comes back is put behind the outputs.                              *)
LEMMA BehindOutputs ==
  ASSUME CycInv, phase = "receive", blockLRW \/ overlap, NEW j \in DOMAIN frames
  PROVE  CopiedTo(frames[j]) \cap (0..Obytes - 1) = {}
<1> DEFINE f == frames[j]
<1>1. /\ f \in Datagram /\ f.cmd \in (IF blockLRW THEN {"LRD", "LWR"} ELSE {"LRW"})
      /\ f.cmd = "LRD" => f.at >= Obytes
  BY FramesSent, ElementOfSeq
<1>2. f.at \in Nat /\ f.len \in Nat /\ Obytes \in Nat
  BY <1>1 DEF Datagram, CycInv, MapInv, MapType
<1> HIDE DEF f
<1>3. CASE f.cmd = "LWR"
  BY <1>3 DEF CopiedTo, f
<1>4. CASE f.cmd = "LRD"
  <2>1. CopiedTo(f) = Addresses(f)
    BY <1>4 DEF CopiedTo
  <2>2. \A x \in Addresses(f) : x \in Int /\ x >= Obytes
    BY <1>1, <1>2, <1>4 DEF Addresses
  <2>3. QED
    BY <1>2, <2>1, <2>2 DEF f
<1>5. CASE f.cmd = "LRW"
  <2>1. overlap
    BY <1>1, <1>5 DEF CycInv
  <2>2. CopiedTo(f) = {Obytes + k : k \in Addresses(f)}
    BY <1>5, <2>1 DEF CopiedTo
  <2>3. \A k \in Addresses(f) : k \in Nat
    BY <1>2 DEF Addresses
  <2>4. \A x \in CopiedTo(f) : x \in Int /\ x >= Obytes
    BY <1>2, <2>2, <2>3
  <2>5. QED
    BY <1>2, <2>4 DEF f
<1>6. QED
  BY <1>1, <1>3, <1>4, <1>5

(* No step but the next send takes back what the application wrote.        *)
LEMMA OutputsStay ==
  ASSUME CycInv, [Next]_vars
  PROVE  [blockLRW \/ overlap => Keeps]_vars
<1> SUFFICES ASSUME blockLRW \/ overlap, phase = "receive", Next
             PROVE  unsent \subseteq unsent'
  BY DEF Keeps
<1>1. CASE Configure
  BY <1>1 DEF Configure
<1>2. CASE Send
  BY <1>2 DEF Send
<1>3. CASE WriteOutputs
  BY <1>3 DEF WriteOutputs, CycInv
<1>4. CASE Receive
  <2>1. unsent' = unsent \ CopiedTo(Current) /\ pulled < pushed
    BY <1>4 DEF Receive
  <2>2. CopiedTo(Current) \cap (0..Obytes - 1) = {}
    BY <2>1, FramesSent, BehindOutputs DEF Current
  <2>3. QED
    BY <2>1, <2>2 DEF CycInv
<1>5. CASE ReceiveNothing
  BY <1>5 DEF ReceiveNothing
<1>6. CASE ClearIndex
  BY <1>6 DEF ClearIndex
<1>7. CASE NextCycle
  BY <1>7 DEF NextCycle
<1>8. QED
  BY <1>1, <1>2, <1>3, <1>4, <1>5, <1>6, <1>7 DEF Next

(* In every reachable state of the mapping and the cyclic exchange the map *)
(* is right, and the datagrams on the way are the ones it tells to send.   *)
THEOREM Inductive == Spec => []CycInv
<1>1. Init => CycInv
  BY CycInit
<1>2. CycInv /\ [Next]_vars => CycInv'
  BY CycNext
<1>3. QED
  BY <1>1, <1>2, PTL DEF Spec

(* Receiving (ecx_receive_processdata_group) leaves the outputs alone with *)
(* LRD and LWR datagrams, and with an overlapping map.                     *)
THEOREM OutputsAreKept == Spec => OutputsKept
<1>1. CycInv /\ [Next]_vars => [blockLRW \/ overlap => Keeps]_vars
  BY OutputsStay
<1>2. QED
  BY <1>1, Inductive, PTL DEF Spec, OutputsKept

(* In a right map no two slaves share a bit.                               *)
LEMMA MapApart ==
  ASSUME MapInv PROVE MapDisjoint
<1>1. /\ Placed /\ Sorted /\ MapType /\ fmmu \subseteq Fmmu
      /\ overlap \in BOOLEAN /\ Obytes \in Nat /\ Ibytes \in Nat /\ LogAddr \in Nat
  BY DEF MapInv, MapType
<1>2. \A f, g \in fmmu :
        f # g /\ ~(overlap /\ f.slave = g.slave /\ f.dir # g.dir) =>
          f.last < g.first \/ g.last < f.first
  BY <1>1 DEF Placed, Exempt, Apart
<1>3. ASSUME step = "mapped", NEW f \in fmmu
      PROVE  CASE f.dir = "out" -> f.last < 8 * Obytes
               [] f.dir = "in" /\ ~overlap ->
                    f.first >= 8 * Obytes /\ f.last < 8 * (Obytes + Ibytes)
               [] OTHER -> f.last < 8 * Ibytes
  <2>1. f.dir \in Dir
    BY <1>1 DEF Fmmu
  <2>2. CASE f.dir = "out"
    BY <1>1, <1>3, <2>2 DEF Sorted
  <2>3. CASE f.dir = "in" /\ ~overlap
    <3>1. f.first >= 8 * Obytes /\ LogAddr = Obytes + Ibytes /\ BitPos = 0
      BY <1>1, <1>3, <2>3 DEF Sorted
    <3>2. f.last < 8 * (Obytes + Ibytes)
      BY <1>1, <1>3, <3>1 DEF Placed, Where
    <3>3. QED
      BY <2>3, <3>1, <3>2
  <2>4. CASE f.dir = "in" /\ overlap
    BY <1>1, <1>3, <2>4 DEF Sorted
  <2>5. QED
    BY <1>1, <2>1, <2>2, <2>3, <2>4 DEF Dir
<1>4. QED
  BY <1>2, <1>3 DEF MapDisjoint

(* ecx_config_map_group and ecx_config_overlap_map_group give no bit of    *)
(* the logical address space to two FMMUs, and keep outputs and inputs in  *)
(* their halves, for any number of slaves of any shapes, packed bitwise or *)
(* not, and also when the segments run out.                                *)
THEOREM MapIsDisjoint == Spec => []MapDisjoint
<1>1. CycInv => MapDisjoint
  BY MapApart DEF CycInv
<1>2. QED
  BY <1>1, Inductive, PTL

-----------------------------------------------------------------------------
(* A mapped group: the segments are all of the logical bytes.              *)
LEMMA SegmentsWhole ==
  ASSUME MapInv, LastIsFree, step = "mapped"
  PROVE  LET b == SegBegin(IOsegment) IN
         /\ b[0] = 0 /\ b[nsegments] = LogAddr /\ LogAddr \in Nat
         /\ \A k \in 0..nsegments : b[k] \in Nat /\ b[k] <= LogAddr
         /\ \A k \in 0..currentsegment :
              IOsegment[k] \in Nat /\ b[k + 1] = b[k] + IOsegment[k]
         /\ \A i, k \in 0..nsegments : i <= k => b[i] <= b[k]
         /\ ~overlap => /\ b[Isegment] + Ioffset = Obytes /\ Ioffset <= IOsegment[Isegment]
                        /\ LogAddr = Obytes + Ibytes
<1> DEFINE b == SegBegin(IOsegment)
<1>1. /\ SegType /\ Cut /\ Sorted /\ InputsBegin /\ LogAddr \in Nat /\ IOsegment \in Lengths
  BY DEF MapInv, MapType, SegType
<1>2. /\ currentsegment \in Nat /\ nsegments = currentsegment + 1
      /\ \A k \in 0..nsegments : k \in 0..MAXSEG
      /\ \A k \in 0..currentsegment : k \in 0..MAXSEG - 1
      /\ Isegment \in 0..currentsegment
  BY SegmentsThere
<1>3. /\ b \in [0..MAXSEG -> Nat] /\ b[0] = 0
      /\ \A k \in 0..MAXSEG - 1 : b[k + 1] = b[k] + IOsegment[k]
  BY <1>1, SegmentsFollow
<1>4. \A i, k \in 0..MAXSEG : i <= k => b[i] <= b[k]
  BY <1>1, SegmentsRise
<1>5. b[currentsegment] + segmentsize = LogAddr /\ IOsegment[currentsegment] = segmentsize
  BY <1>1 DEF Cut, InputsBegin
<1> HIDE DEF b
<1>6. \A k \in 0..currentsegment : IOsegment[k] \in Nat /\ b[k + 1] = b[k] + IOsegment[k]
  BY <1>1, <1>2, <1>3 DEF Lengths
<1>7. b[nsegments] = LogAddr
  BY <1>2, <1>5, <1>6
<1>8. \A i, k \in 0..nsegments : i <= k => b[i] <= b[k]
  BY <1>2, <1>4
<1>9. \A k \in 0..nsegments : b[k] \in Nat /\ b[k] <= LogAddr
  BY <1>2, <1>3, <1>7, <1>8
<1>10. ASSUME ~overlap
       PROVE  /\ b[Isegment] + Ioffset = Obytes /\ Ioffset <= IOsegment[Isegment]
              /\ LogAddr = Obytes + Ibytes
  <2>1. Ioffset <= IOsegment[Isegment]
    BY <1>1, <1>5 DEF InputsBegin
  <2>2. QED
    BY <1>1, <1>10, <2>1 DEF Cut, Sorted, b
<1>11. QED
  BY <1>1, <1>3, <1>6, <1>7, <1>8, <1>9, <1>10 DEF b

(* The loops that the cycle runs: all bytes, the outputs, or the inputs.    *)
Runs(cmd, seg, at, length) ==
  \/ cmd = "LRW" /\ seg = 0 /\ at = 0 /\ length = LogAddr
  \/ cmd = "LWR" /\ seg = 0 /\ at = 0 /\ length \in 0..LogAddr
  \/ cmd = "LRD" /\ seg = Isegment /\ at = Obytes /\ length = Ibytes /\ ~overlap

(* How many of the length bytes from at lie before x.                      *)
Before(x, at, length) ==
  IF x < at THEN 0 ELSE IF x > at + length THEN length ELSE x - at

(* A loop stays within the map.                                            *)
LEMMA RunsType ==
  ASSUME MapInv, LastIsFree, step = "mapped", NEW cmd, NEW seg, NEW at, NEW length,
         Runs(cmd, seg, at, length)
  PROVE  /\ cmd \in Command /\ seg \in 0..currentsegment /\ at \in Nat /\ length \in Nat
         /\ at + length <= LogAddr
         /\ SegBegin(IOsegment)[seg] <= at
         /\ cmd # "LWR" => at + length = LogAddr
<1>1. /\ LogAddr \in Nat /\ Obytes \in Nat /\ Ibytes \in Nat /\ Ioffset \in Nat
      /\ Isegment \in 0..currentsegment /\ 0 \in 0..currentsegment
      /\ \A k \in 0..nsegments : SegBegin(IOsegment)[k] \in Nat
      /\ nsegments = currentsegment + 1 /\ currentsegment \in Nat
  BY SegmentsThere, SegmentsWhole DEF MapInv, MapType
<1>2. CASE cmd = "LRW" /\ seg = 0 /\ at = 0 /\ length = LogAddr
  BY <1>1, <1>2, SegmentsWhole DEF Command
<1>3. CASE cmd = "LWR" /\ seg = 0 /\ at = 0 /\ length \in 0..LogAddr
  BY <1>1, <1>3, SegmentsWhole DEF Command
<1>4. CASE cmd = "LRD" /\ seg = Isegment /\ at = Obytes /\ length = Ibytes /\ ~overlap
  <2>1. SegBegin(IOsegment)[Isegment] + Ioffset = Obytes /\ LogAddr = Obytes + Ibytes
    BY <1>4, SegmentsWhole
  <2>2. SegBegin(IOsegment)[Isegment] \in Nat
    BY <1>1
  <2>3. QED
    BY <1>1, <1>4, <2>1, <2>2 DEF Command
<1>5. QED
  BY <1>2, <1>3, <1>4 DEF Runs

(* In a whole map the loop has sent, at each segment, what of its bytes    *)
(* lies before it.                                                         *)
LEMMA RunSends ==
  ASSUME MapInv, LastIsFree, step = "mapped", NEW cmd, NEW seg, NEW at, NEW length,
         Runs(cmd, seg, at, length)
  PROVE  Sends([k \in seg..nsegments |-> Before(SegBegin(IOsegment)[k], at, length)],
               cmd, seg, length)
<1> DEFINE b == SegBegin(IOsegment)
<1> DEFINE W == [k \in seg..nsegments |-> Before(b[k], at, length)]
<1>1. /\ cmd \in Command /\ seg \in 0..currentsegment /\ at \in Nat /\ length \in Nat
      /\ at + length <= LogAddr /\ b[seg] <= at
      /\ cmd # "LWR" => at + length = LogAddr
  BY RunsType
<1>2. /\ b[0] = 0 /\ LogAddr \in Nat
      /\ \A k \in 0..nsegments : b[k] \in Nat /\ b[k] <= LogAddr
      /\ \A k \in 0..currentsegment :
           IOsegment[k] \in Nat /\ b[k + 1] = b[k] + IOsegment[k]
      /\ ~overlap => b[Isegment] + Ioffset = Obytes /\ Ioffset <= IOsegment[Isegment]
  BY SegmentsWhole
<1>3. /\ currentsegment \in Nat /\ nsegments = currentsegment + 1 /\ Ioffset \in Nat
      /\ Isegment \in 0..currentsegment
  BY SegmentsThere DEF MapInv, MapType
<1> HIDE DEF b
<1>4. \A k \in seg..nsegments :
        /\ k \in 0..nsegments /\ b[k] \in Nat /\ W[k] = Before(b[k], at, length) /\ W[k] \in Nat
  <2> SUFFICES ASSUME NEW k \in seg..nsegments
               PROVE  /\ k \in 0..nsegments /\ b[k] \in Nat
                      /\ W[k] = Before(b[k], at, length) /\ W[k] \in Nat
    OBVIOUS
  <2>1. k \in 0..nsegments
    BY <1>1, <1>3
  <2>2. b[k] \in Nat
    BY <1>2, <2>1
  <2>3. W[k] = Before(b[k], at, length)
    OBVIOUS
  <2>4. Before(b[k], at, length) \in Nat
    BY <1>1, <2>2 DEF Before
  <2>5. QED
    BY <2>1, <2>2, <2>3, <2>4
<1>5. W \in [seg..nsegments -> Nat]
  BY <1>4
<1>6. W[seg] = 0
  <2>1. seg \in seg..nsegments /\ seg \in 0..nsegments
    BY <1>1, <1>3
  <2>2. QED
    BY <1>1, <1>4, <2>1 DEF Before
<1> HIDE DEF W
<1>7. ASSUME NEW k \in seg + 1..nsegments
      PROVE  W[k] = W[k - 1] + Sublength(cmd, k - 1, length - W[k - 1]) /\ W[k - 1] <= W[k]
  <2>1. /\ k \in seg..nsegments /\ k - 1 \in seg..nsegments /\ k - 1 \in 0..currentsegment
        /\ (k - 1) + 1 = k /\ k \in Int /\ seg \in Int /\ k - 1 >= seg
    BY <1>1, <1>3
  <2>2. b[k] = b[k - 1] + IOsegment[k - 1] /\ IOsegment[k - 1] \in Nat
    BY <1>2, <2>1
  <2>3. /\ b[k] \in Nat /\ b[k - 1] \in Nat /\ b[k] <= LogAddr
        /\ W[k] = Before(b[k], at, length) /\ W[k - 1] = Before(b[k - 1], at, length)
        /\ W[k] \in Nat /\ W[k - 1] \in Nat
    BY <1>2, <1>4, <2>1
  <2>4. W[k - 1] <= W[k]
    BY <1>1, <2>2, <2>3 DEF Before
  <2>5. CASE cmd = "LRW"
    <3>1. at = 0 /\ length = LogAddr
      BY <2>5 DEF Runs
    <3>2. Sublength(cmd, k - 1, length - W[k - 1]) = IOsegment[k - 1]
      BY <2>5 DEF Sublength
    <3>3. W[k] = b[k] /\ W[k - 1] = b[k - 1]
      BY <1>1, <2>2, <2>3, <3>1 DEF Before
    <3>4. QED
      BY <2>2, <2>4, <3>2, <3>3
  <2>6. CASE cmd = "LWR"
    <3>1. at = 0 /\ length \in Nat
      BY <2>6, <1>1 DEF Runs
    <3>2. Sublength(cmd, k - 1, length - W[k - 1]) = Smaller(IOsegment[k - 1], length - W[k - 1])
      BY <2>6 DEF Sublength
    <3>3. /\ W[k] = IF b[k] > length THEN length ELSE b[k]
          /\ W[k - 1] = IF b[k - 1] > length THEN length ELSE b[k - 1]
      BY <2>3, <3>1 DEF Before
    <3>4. W[k] = W[k - 1] + Smaller(IOsegment[k - 1], length - W[k - 1])
      BY <2>2, <2>3, <3>1, <3>3 DEF Smaller
    <3>5. QED
      BY <2>4, <3>2, <3>4
  <2>7. CASE cmd = "LRD"
    <3>1. seg = Isegment /\ at = Obytes /\ ~overlap /\ at + length = LogAddr
      BY <1>1, <2>7 DEF Runs
    <3>2. b[Isegment] + Ioffset = at /\ Ioffset <= IOsegment[Isegment]
      BY <1>2, <3>1
    <3>3. CASE k - 1 = Isegment
      <4>1. Sublength(cmd, k - 1, length - W[k - 1]) = IOsegment[k - 1] - Ioffset
        BY <2>7, <3>3 DEF Sublength
      <4>2. W[k - 1] = 0
        BY <1>6, <3>1, <3>3
      <4>3. b[k] >= at /\ b[k] - at = IOsegment[k - 1] - Ioffset
        BY <1>1, <1>3, <2>2, <2>3, <3>2, <3>3
      <4>4. W[k] = b[k] - at
        BY <1>1, <2>3, <3>1, <4>3 DEF Before
      <4>5. QED
        BY <1>3, <2>2, <2>4, <4>1, <4>2, <4>3, <4>4
    <3>4. CASE k - 1 # Isegment
      <4>1. Sublength(cmd, k - 1, length - W[k - 1]) = IOsegment[k - 1]
        BY <2>7, <3>4 DEF Sublength
      <4>2. b[Isegment + 1] = b[Isegment] + IOsegment[Isegment] /\ IOsegment[Isegment] \in Nat
            /\ b[Isegment] \in Nat
        BY <1>2, <1>3
      <4>3. Isegment + 1 <= k - 1 /\ Isegment + 1 \in 0..nsegments /\ k - 1 \in 0..nsegments
        BY <1>3, <2>1, <3>1, <3>4
      <4>4. b[Isegment + 1] <= b[k - 1]
        BY <4>3, SegmentsWhole DEF b
      <4>5. b[k - 1] >= at
        BY <1>1, <1>3, <2>3, <3>2, <4>2, <4>4
      <4>6. W[k] = b[k] - at /\ W[k - 1] = b[k - 1] - at
        BY <1>1, <2>2, <2>3, <3>1, <4>5 DEF Before
      <4>7. QED
        BY <1>1, <2>2, <2>3, <2>4, <4>1, <4>6
    <3>5. QED
      BY <3>3, <3>4
  <2>8. QED
    BY <1>1, <2>5, <2>6, <2>7 DEF Command
<1>8. Sends(W, cmd, seg, length)
  BY <1>5, <1>6, <1>7 DEF Sends
<1>9. QED
  BY <1>8 DEF W, b

(* What of a segment lies within the length bytes from at.                 *)
Part(k, at, length) ==
  {x \in at..at + length - 1 : /\ SegBegin(IOsegment)[k] <= x
                               /\ x < SegBegin(IOsegment)[k + 1]}

Tiles(d, cmd, at, length) ==
  /\ d \in Seq(Datagram)
  /\ \A j \in DOMAIN d :
       d[j].cmd = cmd /\ \E k \in 0..currentsegment : Addresses(d[j]) = Part(k, at, length)
  /\ \A i, j \in DOMAIN d : i # j => Addresses(d[i]) \cap Addresses(d[j]) = {}
  /\ \A x \in at..at + length - 1 : \E j \in DOMAIN d : x \in Addresses(d[j])

(* The least segment end beyond a byte.                                    *)
LEMMA SegmentOf ==
  ASSUME NEW seg \in Nat, NEW n \in Nat, seg < n, NEW b, \A k \in seg..n : b[k] \in Nat,
         NEW x \in Nat, b[seg] <= x, x < b[n]
  PROVE  \E k \in seg + 1..n : /\ b[k - 1] <= x /\ x < b[k]
                               /\ \A i \in seg..n : x < b[i] => k <= i
<1> DEFINE S == {k \in seg..n : x < b[k]}
<1>1. S \in SUBSET Nat /\ n \in S
  OBVIOUS
<1>2. PICK k \in S : \A i \in S : k <= i
  <2> HIDE DEF S
  <2>1. QED
    BY <1>1, Least
<1>3. k \in seg..n /\ x < b[k] /\ \A i \in seg..n : x < b[i] => k <= i
  BY <1>2
<1>4. k # seg
  BY <1>3
<1>5. k - 1 \in seg..n /\ ~(k <= k - 1) /\ k \in seg + 1..n
  BY <1>3, <1>4
<1>6. b[k - 1] <= x
  <2>1. ~(x < b[k - 1]) /\ b[k - 1] \in Nat
    BY <1>3, <1>5
  <2>2. QED
    BY <2>1
<1>7. QED
  BY <1>3, <1>5, <1>6

(* A loop sends each of its bytes in one datagram, that of its segment.    *)
LEMMA LoopTiles ==
  ASSUME MapInv, LastIsFree, step = "mapped", NEW cmd, NEW seg, NEW at, NEW length,
         Runs(cmd, seg, at, length)
  PROVE  Tiles(SegmentLoop(cmd, seg, at, length), cmd, at, length)
<1> DEFINE b == SegBegin(IOsegment)
<1> DEFINE W == [k \in seg..nsegments |-> Before(b[k], at, length)]
<1>1. /\ cmd \in Command /\ seg \in 0..currentsegment /\ at \in Nat /\ length \in Nat
      /\ at + length <= LogAddr /\ b[seg] <= at
  BY RunsType
<1>2. /\ LogAddr \in Nat /\ b[nsegments] = LogAddr
      /\ \A k \in 0..nsegments : b[k] \in Nat
      /\ \A i, k \in 0..nsegments : i <= k => b[i] <= b[k]
  BY SegmentsWhole
<1>3. /\ currentsegment \in Nat /\ nsegments = currentsegment + 1
      /\ nsegments \in Nat /\ seg \in Nat /\ seg < nsegments
      /\ nsegments \in seg..nsegments /\ nsegments \in 0..nsegments
      /\ \A k \in seg..nsegments : k \in 0..nsegments
  BY <1>1, SegmentsThere
<1>4. Sends(W, cmd, seg, length)
  BY RunSends
<1>5. \A k \in seg..nsegments : W[k] = Before(b[k], at, length)
  OBVIOUS
<1> HIDE DEF W
<1>6. PICK e : /\ Ends(W, e, seg, nsegments, length)
               /\ SegmentLoop(cmd, seg, at, length) = Loop(W, e, cmd, seg, at)
  BY <1>1, <1>3, <1>4, LoopIs
<1> DEFINE d == Loop(W, e, cmd, seg, at)
<1>7. /\ d \in Seq(Datagram) /\ Len(d) = e - seg /\ e - seg \in Nat
      /\ \A j \in 1..e - seg :
           /\ seg + j - 1 \in seg..nsegments /\ seg + j \in seg..nsegments
           /\ d[j] = [cmd |-> cmd, at |-> at + W[seg + j - 1],
                      len |-> W[seg + j] - W[seg + j - 1], dc |-> FALSE]
  BY <1>1, <1>3, <1>4, <1>6, LoopType
<1>8. DOMAIN d = 1..e - seg
  BY <1>7, LenProperties
<1> HIDE DEF d, b
<1>9. ASSUME NEW j \in DOMAIN d
      PROVE  d[j].cmd = cmd /\ Addresses(d[j]) = Part(seg + j - 1, at, length)
             /\ seg + j - 1 \in 0..currentsegment
  <2> DEFINE k == seg + j - 1
  <2>1. /\ j \in 1..e - seg /\ k \in seg..nsegments /\ seg + j \in seg..nsegments
        /\ k + 1 = seg + j /\ k \in 0..currentsegment
    BY <1>1, <1>3, <1>7, <1>8
  <2>2. /\ b[k] \in Nat /\ b[k + 1] \in Nat /\ b[k] <= b[k + 1]
        /\ W[k] = Before(b[k], at, length) /\ W[k + 1] = Before(b[k + 1], at, length)
    BY <1>2, <1>3, <1>5, <2>1
  <2>3. d[j] = [cmd |-> cmd, at |-> at + W[k], len |-> W[k + 1] - W[k], dc |-> FALSE]
    BY <1>7, <2>1
  <2> HIDE DEF k
  <2>4. W[k] \in Nat /\ W[k + 1] \in Nat
    BY <1>1, <2>2 DEF Before
  <2>5. Addresses(d[j]) = at + W[k]..at + W[k + 1] - 1
    <3>1. Addresses(d[j]) = at + W[k]..(at + W[k]) + (W[k + 1] - W[k]) - 1
      BY <2>3 DEF Addresses
    <3>2. (at + W[k]) + (W[k + 1] - W[k]) - 1 = at + W[k + 1] - 1
      BY <1>1, <2>4
    <3>3. QED
      BY <3>1, <3>2
  <2>6. ASSUME NEW x \in Int
        PROVE  x \in at + W[k]..at + W[k + 1] - 1
                 <=> x \in at..at + length - 1 /\ b[k] <= x /\ x < b[k + 1]
    BY <1>1, <2>2, <2>4 DEF Before
  <2>7. Addresses(d[j]) = Part(k, at, length)
    <3>1. Part(k, at, length) = {x \in at..at + length - 1 : b[k] <= x /\ x < b[k + 1]}
      BY DEF Part, b
    <3>2. QED
      BY <1>1, <2>4, <2>5, <2>6, <3>1
  <2>8. QED
    BY <2>1, <2>3, <2>7 DEF k
<1>10. ASSUME NEW i \in DOMAIN d, NEW j \in DOMAIN d, i < j
       PROVE  Addresses(d[i]) \cap Addresses(d[j]) = {}
  <2>1. /\ i \in 1..e - seg /\ j \in 1..e - seg
        /\ Addresses(d[i]) = Part(seg + i - 1, at, length)
        /\ Addresses(d[j]) = Part(seg + j - 1, at, length)
    BY <1>8, <1>9
  <2>2. /\ (seg + i - 1) + 1 \in 0..nsegments /\ seg + j - 1 \in 0..nsegments
        /\ (seg + i - 1) + 1 <= seg + j - 1
    BY <1>1, <1>3, <1>7, <1>10, <2>1
  <2>3. b[(seg + i - 1) + 1] <= b[seg + j - 1]
        /\ b[(seg + i - 1) + 1] \in Nat /\ b[seg + j - 1] \in Nat
    BY <1>2, <2>2
  <2>4. \A x \in Addresses(d[i]) : x \in Int /\ x < b[(seg + i - 1) + 1]
    BY <1>1, <2>1 DEF Part, b
  <2>5. \A x \in Addresses(d[j]) : x \in Int /\ b[seg + j - 1] <= x
    BY <1>1, <2>1 DEF Part, b
  <2>6. QED
    BY <2>3, <2>4, <2>5
<1>11. \A i, j \in DOMAIN d : i # j => Addresses(d[i]) \cap Addresses(d[j]) = {}
  <2> SUFFICES ASSUME NEW i \in DOMAIN d, NEW j \in DOMAIN d, i # j
               PROVE  Addresses(d[i]) \cap Addresses(d[j]) = {}
    OBVIOUS
  <2>1. i < j \/ j < i
    BY <1>8
  <2>2. QED
    BY <1>10, <2>1
<1>12. ASSUME NEW x \in at..at + length - 1
       PROVE  \E j \in DOMAIN d : x \in Addresses(d[j])
  <2>1. x \in Nat /\ b[seg] <= x /\ x < b[nsegments] /\ length > 0
    <3>1. b[seg] \in Nat
      BY <1>2, <1>3
    <3>2. QED
      BY <1>1, <1>2, <3>1
  <2>2. PICK k \in seg + 1..nsegments : /\ b[k - 1] <= x /\ x < b[k]
                                        /\ \A i \in seg..nsegments : x < b[i] => k <= i
    <3>1. \A i \in seg..nsegments : b[i] \in Nat
      BY <1>2, <1>3
    <3>2. QED
      BY <1>3, <2>1, <3>1, SegmentOf
  <2>3. e \in seg..nsegments /\ e \in seg + 1..nsegments /\ W[e] = length
    <3>1. e \in seg + 1..nsegments /\ (W[e] = length \/ e = nsegments)
      BY <1>6 DEF Ends
    <3>2. W[nsegments] = length
      BY <1>1, <1>2, <1>3, <1>5 DEF Before
    <3>3. QED
      BY <1>3, <3>1, <3>2
  <2>4. x < b[e]
    <3>1. b[e] \in Nat /\ Before(b[e], at, length) = length
      BY <1>2, <1>3, <1>5, <2>3
    <3>2. b[e] >= at + length
      BY <1>1, <2>1, <3>1 DEF Before
    <3>3. QED
      BY <1>1, <3>1, <3>2
  <2>5. k <= e
    BY <2>2, <2>3, <2>4
  <2> DEFINE j == k - seg
  <2>6. j \in DOMAIN d /\ seg + j - 1 = k - 1 /\ (seg + j - 1) + 1 = k
    BY <1>3, <1>8, <2>2, <2>3, <2>5
  <2>7. x \in Part(seg + j - 1, at, length)
    BY <2>2, <2>6 DEF Part, b
  <2>8. x \in Addresses(d[j])
    BY <1>9, <2>6, <2>7
  <2>9. QED
    BY <2>6, <2>8
<1>13. Tiles(d, cmd, at, length)
  <2>1. \A j \in DOMAIN d :
          d[j].cmd = cmd /\ \E k \in 0..currentsegment : Addresses(d[j]) = Part(k, at, length)
    BY <1>9
  <2>2. QED
    BY <1>7, <1>11, <1>12, <2>1 DEF Tiles
<1>14. QED
  BY <1>6, <1>13 DEF d

(* The bytes that each of the commands of a cycle has to go over.          *)
Used     == IF blockLRW THEN {"LRD", "LWR"} ELSE {"LRW"}
Start(c) == IF c = "LRD" THEN Obytes ELSE 0
Size(c)  == CASE c = "LRW" -> Length [] c = "LRD" -> Ibytes [] OTHER -> Obytes
Goal(c)  == Start(c)..Start(c) + Size(c) - 1

Partition(d) ==
  /\ d \in Seq(Datagram)
  /\ \A j \in DOMAIN d :
       /\ d[j].cmd \in Used
       /\ \E k \in 0..currentsegment :
            Addresses(d[j]) = Part(k, Start(d[j].cmd), Size(d[j].cmd))
  /\ \A i, j \in DOMAIN d : i # j => Addresses(d[i]) \cap Addresses(d[j]) = {}
  /\ \A c \in Used : \A x \in Goal(c) : \E j \in DOMAIN d : d[j].cmd = c /\ x \in Addresses(d[j])

(* What is in two sequences put together.                                  *)
LEMMA Concatenation ==
  ASSUME NEW S, NEW s \in Seq(S), NEW t \in Seq(S)
  PROVE  /\ s \o t \in Seq(S)
         /\ \A j \in DOMAIN (s \o t) : \/ j \in DOMAIN s /\ (s \o t)[j] = s[j]
                                       \/ j - Len(s) \in DOMAIN t /\ (s \o t)[j] = t[j - Len(s)]
         /\ \A j \in DOMAIN s : j \in DOMAIN (s \o t) /\ (s \o t)[j] = s[j]
         /\ \A j \in DOMAIN t : Len(s) + j \in DOMAIN (s \o t) /\ (s \o t)[Len(s) + j] = t[j]
<1> DEFINE u == s \o t
<1>1. /\ u \in Seq(S) /\ Len(u) = Len(s) + Len(t)
      /\ \A j \in 1..Len(s) + Len(t) : u[j] = IF j <= Len(s) THEN s[j] ELSE t[j - Len(s)]
  BY ConcatProperties
<1> HIDE DEF u
<1>2. /\ Len(s) \in Nat /\ DOMAIN s = 1..Len(s) /\ Len(t) \in Nat /\ DOMAIN t = 1..Len(t)
      /\ DOMAIN u = 1..Len(s) + Len(t)
  BY <1>1, LenProperties
<1>3. ASSUME NEW j \in DOMAIN u
      PROVE  \/ j \in DOMAIN s /\ u[j] = s[j]
             \/ j - Len(s) \in DOMAIN t /\ u[j] = t[j - Len(s)]
  <2>1. CASE j <= Len(s)
    BY <1>1, <1>2, <2>1
  <2>2. CASE ~(j <= Len(s))
    <3>1. j - Len(s) \in 1..Len(t)
      BY <1>2, <2>2
    <3>2. QED
      BY <1>1, <1>2, <2>2, <3>1
  <2>3. QED
    BY <2>1, <2>2
<1>4. \A j \in DOMAIN s : j \in DOMAIN u /\ u[j] = s[j]
  BY <1>1, <1>2
<1>5. ASSUME NEW j \in DOMAIN t PROVE Len(s) + j \in DOMAIN u /\ u[Len(s) + j] = t[j]
  <2>1. Len(s) + j \in 1..Len(s) + Len(t) /\ ~(Len(s) + j <= Len(s)) /\ (Len(s) + j) - Len(s) = j
    BY <1>2
  <2>2. QED
    BY <1>1, <1>2, <2>1
<1>6. QED
  BY <1>1, <1>3, <1>4, <1>5 DEF u

(* The datagrams of a cycle together go over each byte of each command     *)
(* once.                                                                   *)
LEMMA DatagramsPartition ==
  ASSUME MapInv, LastIsFree, step = "mapped", Supported, blockLRW \in BOOLEAN
  PROVE  Partition(Datagrams)
<1>1. /\ overlap \in BOOLEAN /\ Obytes \in Nat /\ Ibytes \in Nat /\ LogAddr \in Nat /\ Sorted
  BY DEF MapInv, MapType
<1>2. Length = LogAddr /\ Length \in Nat /\ (~overlap => LogAddr = Obytes + Ibytes)
  <2>1. CASE overlap
    BY <1>1, <2>1 DEF Sorted, Length, EndOverlap
  <2>2. CASE ~overlap
    BY <1>1, <2>2 DEF Sorted, Length
  <2>3. QED
    BY <1>1, <2>1, <2>2
<1>3. << >> \in Seq(Datagram) /\ DOMAIN << >> = {}
  OBVIOUS
<1>4. CASE ~blockLRW
  <2>1. Used = {"LRW"} /\ Start("LRW") = 0 /\ Size("LRW") = Length
        /\ Goal("LRW") = 0..0 + Length - 1
    BY <1>4 DEF Used, Start, Size, Goal
  <2>2. CASE Length = 0
    <3>1. Datagrams = << >> /\ Goal("LRW") = {}
      BY <1>2, <2>1, <2>2 DEF Datagrams
    <3>2. QED
      BY <1>3, <2>1, <3>1 DEF Partition
  <2>3. CASE Length # 0
    <3>1. Datagrams = SegmentLoop("LRW", 0, 0, Length)
      BY <1>4, <2>3 DEF Datagrams
    <3>2. Tiles(Datagrams, "LRW", 0, Length)
      BY <1>2, <3>1, LoopTiles DEF Runs
    <3> DEFINE d == Datagrams
    <3>3. Tiles(d, "LRW", 0, Length)
      BY <3>2
    <3> HIDE DEF d
    <3>4. \A j \in DOMAIN d :
            /\ d[j].cmd \in Used
            /\ \E k \in 0..currentsegment :
                 Addresses(d[j]) = Part(k, Start(d[j].cmd), Size(d[j].cmd))
      BY <2>1, <3>3 DEF Tiles
    <3>5. \A c \in Used : \A x \in Goal(c) :
            \E j \in DOMAIN d : d[j].cmd = c /\ x \in Addresses(d[j])
      <4>1. \A x \in Goal("LRW") : \E j \in DOMAIN d : x \in Addresses(d[j])
        BY <2>1, <3>3 DEF Tiles
      <4>2. \A j \in DOMAIN d : d[j].cmd = "LRW"
        BY <3>3 DEF Tiles
      <4>3. QED
        BY <2>1, <4>1, <4>2
    <3>6. d \in Seq(Datagram)
          /\ \A i, j \in DOMAIN d : i # j => Addresses(d[i]) \cap Addresses(d[j]) = {}
      BY <3>3 DEF Tiles
    <3>7. Partition(d)
      BY <3>4, <3>5, <3>6 DEF Partition
    <3>8. QED
      BY <3>7 DEF d
  <2>4. QED
    BY <2>2, <2>3
<1>5. CASE blockLRW
  <2>1. ~overlap /\ LogAddr = Obytes + Ibytes
    BY <1>2, <1>5 DEF Supported
  <2>2. /\ Used = {"LRD", "LWR"}
        /\ Start("LRD") = Obytes /\ Size("LRD") = Ibytes /\ Goal("LRD") = Obytes..Obytes + Ibytes - 1
        /\ Start("LWR") = 0 /\ Size("LWR") = Obytes /\ Goal("LWR") = 0..0 + Obytes - 1
    BY <1>5 DEF Used, Start, Size, Goal
  <2> DEFINE s == IF Ibytes = 0 THEN <<>> ELSE SegmentLoop("LRD", Isegment, Obytes, Ibytes)
  <2> DEFINE t == IF Obytes = 0 THEN <<>> ELSE SegmentLoop("LWR", 0, 0, Obytes)
  <2>3. CASE Length = 0
    <3>1. Datagrams = << >> /\ Goal("LRD") = {} /\ Goal("LWR") = {}
      BY <1>1, <1>2, <2>1, <2>2, <2>3 DEF Datagrams
    <3>2. QED
      BY <1>3, <2>2, <3>1 DEF Partition
  <2>4. CASE Length # 0
    <3>1. Datagrams = s \o t
      BY <1>5, <2>4 DEF Datagrams
    <3>2. Tiles(s, "LRD", Obytes, Ibytes)
      <4>1. CASE Ibytes = 0
        <5>1. s = << >> /\ Obytes..Obytes + Ibytes - 1 = {}
          BY <1>1, <4>1
        <5> HIDE DEF s
        <5>2. QED
          BY <1>3, <5>1 DEF Tiles
      <4>2. CASE Ibytes # 0
        <5>1. s = SegmentLoop("LRD", Isegment, Obytes, Ibytes)
          BY <4>2
        <5>2. Runs("LRD", Isegment, Obytes, Ibytes)
          BY <2>1 DEF Runs
        <5>3. QED
          BY <5>1, <5>2, LoopTiles
      <4>3. QED
        BY <4>1, <4>2
    <3>3. Tiles(t, "LWR", 0, Obytes)
      <4>1. CASE Obytes = 0
        <5>1. t = << >> /\ 0..0 + Obytes - 1 = {}
          BY <1>1, <4>1
        <5> HIDE DEF t
        <5>2. QED
          BY <1>3, <5>1 DEF Tiles
      <4>2. CASE Obytes # 0
        <5>1. t = SegmentLoop("LWR", 0, 0, Obytes)
          BY <4>2
        <5>2. Runs("LWR", 0, 0, Obytes)
          BY <1>1, <2>1 DEF Runs
        <5>3. QED
          BY <5>1, <5>2, LoopTiles
      <4>3. QED
        BY <4>1, <4>2
    <3> DEFINE d == s \o t
    <3> HIDE DEF s, t
    <3>4. /\ d \in Seq(Datagram)
          /\ \A j \in DOMAIN d : \/ j \in DOMAIN s /\ d[j] = s[j]
                                 \/ j - Len(s) \in DOMAIN t /\ d[j] = t[j - Len(s)]
          /\ \A j \in DOMAIN s : j \in DOMAIN d /\ d[j] = s[j]
          /\ \A j \in DOMAIN t : Len(s) + j \in DOMAIN d /\ d[Len(s) + j] = t[j]
      BY <3>2, <3>3, Concatenation DEF Tiles
    <3>5. /\ \A j \in DOMAIN s : /\ s[j].cmd = "LRD"
                                 /\ \E k \in 0..currentsegment : Addresses(s[j]) = Part(k, Obytes, Ibytes)
          /\ \A i, j \in DOMAIN s : i # j => Addresses(s[i]) \cap Addresses(s[j]) = {}
          /\ \A x \in Goal("LRD") : \E j \in DOMAIN s : x \in Addresses(s[j])
      BY <2>2, <3>2 DEF Tiles
    <3>6. /\ \A j \in DOMAIN t : /\ t[j].cmd = "LWR"
                                 /\ \E k \in 0..currentsegment : Addresses(t[j]) = Part(k, 0, Obytes)
          /\ \A i, j \in DOMAIN t : i # j => Addresses(t[i]) \cap Addresses(t[j]) = {}
          /\ \A x \in Goal("LWR") : \E j \in DOMAIN t : x \in Addresses(t[j])
      BY <2>2, <3>3 DEF Tiles
    <3>7. \A i \in DOMAIN s, j \in DOMAIN t : Addresses(s[i]) \cap Addresses(t[j]) = {}
      <4>1. \A k : \A x \in Part(k, Obytes, Ibytes) : x \in Int /\ x >= Obytes
        BY <1>1 DEF Part
      <4>2. \A k : \A x \in Part(k, 0, Obytes) : x \in Int /\ x < Obytes
        BY <1>1 DEF Part
      <4>3. \A x \in Int : ~(x >= Obytes /\ x < Obytes)
        BY <1>1
      <4>4. QED
        BY <3>5, <3>6, <4>1, <4>2, <4>3
    <3> HIDE DEF d
    <3>8. \A j \in DOMAIN d :
            /\ d[j].cmd \in Used
            /\ \E k \in 0..currentsegment :
                 Addresses(d[j]) = Part(k, Start(d[j].cmd), Size(d[j].cmd))
      <4> SUFFICES ASSUME NEW j \in DOMAIN d
                   PROVE  /\ d[j].cmd \in Used
                          /\ \E k \in 0..currentsegment :
                               Addresses(d[j]) = Part(k, Start(d[j].cmd), Size(d[j].cmd))
        OBVIOUS
      <4>1. CASE j \in DOMAIN s /\ d[j] = s[j]
        BY <2>2, <3>5, <4>1
      <4>2. CASE j - Len(s) \in DOMAIN t /\ d[j] = t[j - Len(s)]
        BY <2>2, <3>6, <4>2
      <4>3. QED
        BY <3>4, <4>1, <4>2
    <3>9. ASSUME NEW i \in DOMAIN d, NEW j \in DOMAIN d, i # j
          PROVE  Addresses(d[i]) \cap Addresses(d[j]) = {}
      <4>0. i \in Int /\ j \in Int /\ Len(s) \in Int
        BY <3>2, <3>4, LenProperties DEF Tiles
      <4>1. CASE i \in DOMAIN s /\ d[i] = s[i] /\ j \in DOMAIN s /\ d[j] = s[j]
        BY <3>5, <3>9, <4>1
      <4>2. CASE i \in DOMAIN s /\ d[i] = s[i]
                 /\ j - Len(s) \in DOMAIN t /\ d[j] = t[j - Len(s)]
        BY <3>7, <4>2
      <4>3. CASE i - Len(s) \in DOMAIN t /\ d[i] = t[i - Len(s)]
                 /\ j \in DOMAIN s /\ d[j] = s[j]
        BY <3>7, <4>3
      <4>4. CASE i - Len(s) \in DOMAIN t /\ d[i] = t[i - Len(s)]
                 /\ j - Len(s) \in DOMAIN t /\ d[j] = t[j - Len(s)]
        <5>1. i - Len(s) # j - Len(s)
          BY <3>9, <4>0
        <5>2. QED
          BY <3>6, <4>4, <5>1
      <4>5. QED
        BY <3>4, <4>1, <4>2, <4>3, <4>4
    <3>10. ASSUME NEW c \in Used, NEW x \in Goal(c)
           PROVE  \E j \in DOMAIN d : d[j].cmd = c /\ x \in Addresses(d[j])
      <4>1. CASE c = "LRD"
        <5>1. PICK j \in DOMAIN s : x \in Addresses(s[j])
          BY <3>5, <3>10, <4>1
        <5>2. QED
          BY <3>4, <3>5, <4>1, <5>1
      <4>2. CASE c = "LWR"
        <5>1. PICK j \in DOMAIN t : x \in Addresses(t[j])
          BY <3>6, <3>10, <4>2
        <5>2. QED
          BY <3>4, <3>6, <4>2, <5>1
      <4>3. QED
        BY <2>2, <4>1, <4>2
    <3>11. Partition(d)
      BY <3>4, <3>8, <3>9, <3>10 DEF Partition
    <3>12. QED
      BY <3>1, <3>11 DEF d
  <2>5. QED
    BY <2>3, <2>4
<1>6. QED
  BY <1>4, <1>5

(* So do the frames on the way.                                            *)
LEMMA FramesPartition ==
  ASSUME CycInv, phase = "receive", LastIsFree, Supported
  PROVE  Partition(frames)
<1>1. Partition(Datagrams)
  BY FramesSent, DatagramsPartition DEF CycInv
<1>2. /\ frames \in Seq(Datagram) /\ DOMAIN frames = DOMAIN Datagrams
      /\ \A j \in DOMAIN frames :
           /\ frames[j].cmd = Datagrams[j].cmd /\ frames[j].at = Datagrams[j].at
           /\ frames[j].len = Datagrams[j].len
  BY FramesSent
<1>3. \A j \in DOMAIN frames : Addresses(frames[j]) = Addresses(Datagrams[j])
  BY <1>2 DEF Addresses
<1>4. QED
  BY <1>1, <1>2, <1>3 DEF Partition

-----------------------------------------------------------------------------
(* That is what is meant by a cycle that tiles the map.                    *)
LEMMA FramesTile ==
  ASSUME CycInv, phase = "receive", LastIsFree, Supported
  PROVE  Tiled
<1>1. /\ MapInv /\ step = "mapped" /\ Obytes \in Nat /\ Ibytes \in Nat /\ LogAddr \in Nat
      /\ overlap \in BOOLEAN /\ blockLRW \in BOOLEAN /\ Sorted
  BY FramesSent DEF CycInv, MapInv, MapType
<1>2. Partition(frames)
  BY FramesPartition
<1>3. /\ \A j \in DOMAIN frames : /\ frames[j].cmd \in Used
                                  /\ Addresses(frames[j]) \subseteq Goal(frames[j].cmd)
      /\ \A c \in Used : \A x \in Goal(c) :
           \E j \in DOMAIN frames : frames[j].cmd = c /\ x \in Addresses(frames[j])
      /\ \A i, j \in DOMAIN frames :
           i # j => Addresses(frames[i]) \cap Addresses(frames[j]) = {}
  <2>1. \A k, a, n : Part(k, a, n) \subseteq a..a + n - 1
    BY DEF Part
  <2>2. QED
    BY <1>2, <2>1 DEF Partition, Goal
<1>4. ASSUME NEW c, NEW u \in Used, c \cap Used = {u}
      PROVE  Covered(c) = Goal(u)
  BY <1>3, <1>4 DEF Covered
<1>5. /\ \A u \in Used : u \in {"LRW", "LRD", "LWR"}
      /\ blockLRW => /\ {"LRW", "LRD"} \cap Used = {"LRD"} /\ "LRD" \in Used
                     /\ {"LRW", "LWR"} \cap Used = {"LWR"} /\ "LWR" \in Used
                     /\ Goal("LRD") = Obytes..Obytes + Ibytes - 1
                     /\ Goal("LWR") = 0..Obytes - 1
      /\ ~blockLRW => /\ {"LRW", "LRD"} \cap Used = {"LRW"} /\ "LRW" \in Used
                      /\ {"LRW", "LWR"} \cap Used = {"LRW"}
                      /\ Goal("LRW") = 0..Length - 1
  <2>1. 0 + Length - 1 = Length - 1 /\ 0 + Obytes - 1 = Obytes - 1
    BY <1>1 DEF Length
  <2>2. QED
    BY <1>1, <2>1 DEF Used, Goal, Start, Size
<1>6. Covered({"LRW", "LRD"}) = IF blockLRW THEN Obytes..Obytes + Ibytes - 1 ELSE 0..Length - 1
  BY <1>1, <1>4, <1>5
<1>7. Covered({"LRW", "LWR"}) = IF blockLRW THEN 0..Obytes - 1 ELSE 0..Length - 1
  BY <1>1, <1>4, <1>5
<1>8. ASSUME ~overlap \/ Obytes <= Ibytes, NEW j \in DOMAIN frames
      PROVE  CopiedTo(frames[j]) \subseteq 0..Obytes + Ibytes - 1
  <2> DEFINE f == frames[j]
  <2>1. f.cmd \in Used /\ Addresses(f) \subseteq Goal(f.cmd)
    BY <1>3
  <2> HIDE DEF f
  <2>2. CASE blockLRW
    <3>1. ~overlap /\ (f.cmd = "LWR" \/ f.cmd = "LRD")
      BY <2>1, <2>2 DEF Supported, Used
    <3>2. CopiedTo(f) = {} \/ CopiedTo(f) \subseteq Obytes..Obytes + Ibytes - 1
      BY <1>5, <2>1, <2>2, <3>1 DEF CopiedTo
    <3>3. QED
      BY <1>1, <3>2 DEF f
  <2>3. CASE ~blockLRW
    <3>1. f.cmd = "LRW" /\ Addresses(f) \subseteq 0..Length - 1
      BY <1>5, <2>1, <2>3 DEF Used
    <3>2. CASE overlap
      <4>1. Length = Ibytes
        BY <1>1, <1>8, <3>2 DEF Length
      <4>2. CopiedTo(f) = {Obytes + k : k \in Addresses(f)}
        BY <3>1, <3>2 DEF CopiedTo
      <4>3. \A k \in Addresses(f) : Obytes + k \in 0..Obytes + Ibytes - 1
        BY <1>1, <3>1, <4>1
      <4>4. QED
        BY <4>2, <4>3 DEF f
    <3>3. CASE ~overlap
      <4>1. CopiedTo(f) = Addresses(f)
        BY <3>1, <3>3 DEF CopiedTo
      <4>2. Length = Obytes + Ibytes
        BY <3>3 DEF Length
      <4>3. CopiedTo(f) \subseteq 0..Obytes + Ibytes - 1
        BY <1>1, <3>1, <4>1, <4>2
      <4>4. QED
        BY <4>3 DEF f
    <3>4. QED
      BY <3>2, <3>3
  <2>4. QED
    BY <2>2, <2>3
<1>9. QED
  BY <1>1, <1>3, <1>6, <1>7, <1>8, MapApart DEF Tiled

(* As long as a segment is left, a cycle goes over every byte once.        *)
THEOREM CycleTiles == Spec => [](LastIsFree => Tiled)
<1>1. CycInv /\ LastIsFree => Tiled
  <2> SUFFICES ASSUME CycInv, LastIsFree PROVE Tiled
    OBVIOUS
  <2>1. CASE phase = "receive" /\ Supported
    BY <2>1, FramesTile
  <2>2. CASE ~(phase = "receive" /\ Supported)
    BY <2>2, MapApart DEF Tiled, CycInv
  <2>3. QED
    BY <2>1, <2>2
<1>2. QED
  BY <1>1, Inductive, PTL

-----------------------------------------------------------------------------
(* A slave begins at most one segment in each direction, the end of the    *)
(* outputs one more, and so does that of the inputs.                       *)
Turns == currentsegment <= CASE step = "in" -> NSlave + slave
                             [] step = "mapped" -> 2 * NSlave + 2
                             [] OTHER -> slave - 1

(* A step of the mapping begins at most one segment.                       *)
LEMMA OneMore ==
  ASSUME SegType, NEW diff
  PROVE  /\ Packed(diff).cur <= currentsegment + 1 /\ Unpacked.cur <= currentsegment + 1
         /\ Packed(diff).cur \in Int
  BY SegmentAssumption DEF SegType, Packed, Unpacked

(* The segments in use stay bounded by the turns taken.                    *)
LEMMA TurnsKept ==
  ASSUME CycInv, Turns, [Next]_vars
  PROVE  Turns'
<1>1. /\ SegType /\ currentsegment \in Nat /\ slave \in 1..NSlave + 1 /\ NSlave \in Nat
      /\ step \in {"both", "out", "in", "mapped"}
  BY SegmentAssumption, NSlaveAssumption DEF CycInv, MapInv, MapType, SegType
<1>2. CASE Configure
  <2>1. CASE MapSlave("out")
    <3>1. /\ step = "out" /\ step' = "out" /\ slave' = slave + 1 /\ slave \in Slave
          /\ currentsegment' <= currentsegment + 1 /\ currentsegment' \in Int
      BY <1>1, <2>1, OneMore DEF MapSlave, Take, Unpacked
    <3>2. QED
      BY <1>1, <3>1 DEF Turns
  <2>2. CASE MapSlave("in")
    <3>1. /\ step = "in" /\ step' = "in" /\ slave' = slave + 1 /\ slave \in Slave
          /\ currentsegment' <= currentsegment + 1 /\ currentsegment' \in Int
      BY <1>1, <2>2, OneMore DEF MapSlave, Take, Unpacked
    <3>2. QED
      BY <1>1, <3>1 DEF Turns
  <2>3. CASE EndOutputs
    <3>1. /\ step = "out" /\ step' = "in" /\ slave = NSlave + 1 /\ slave' = 1
          /\ currentsegment' <= currentsegment + 1 /\ currentsegment' \in Int
      BY <1>1, <2>3, OneMore DEF EndOutputs, FillByte, Take, Unpacked
    <3>2. QED
      BY <1>1, <3>1 DEF Turns
  <2>4. CASE EndInputs
    <3>1. /\ step = "in" /\ step' = "mapped" /\ slave = NSlave + 1
          /\ currentsegment' = FillByte.cur
      BY <2>4 DEF EndInputs, Take
    <3>2. FillByte.cur <= currentsegment + 1 /\ FillByte.cur \in Int
      BY <1>1, OneMore DEF FillByte, Unpacked
    <3>3. QED
      BY <1>1, <3>1, <3>2 DEF Turns
  <2>5. CASE MapOverlap
    <3>1. /\ step = "both" /\ step' = "both" /\ slave' = slave + 1 /\ slave \in Slave
          /\ currentsegment' <= currentsegment + 1 /\ currentsegment' \in Int
      BY <1>1, <2>5, OneMore DEF MapOverlap, Take
    <3>2. QED
      BY <1>1, <3>1 DEF Turns
  <2>6. CASE EndBoth
    <3>1. /\ step = "both" /\ step' = "mapped" /\ slave = NSlave + 1
          /\ currentsegment' = currentsegment
      BY <2>6 DEF EndBoth, Take, Unpacked
    <3>2. QED
      BY <1>1, <3>1 DEF Turns
  <2>7. QED
    BY <1>2, <2>1, <2>2, <2>3, <2>4, <2>5, <2>6 DEF Configure, Map
<1>3. CASE UNCHANGED mapvars
  BY <1>3 DEF mapvars, Turns
<1>4. QED
  BY <1>2, <1>3 DEF Next, Send, WriteOutputs, Receive, ReceiveNothing, ClearIndex, NextCycle, vars

(* With two segments for each slave and four more, one is always left.     *)
THEOREM EnoughSegments ==
  ASSUME MAXSEG >= 2 * NSlave + 4
  PROVE  Spec => []LastIsFree
<1>1. Init => Turns
  BY NSlaveAssumption DEF Init, MapInit, Turns
<1>2. CycInv /\ Turns /\ [Next]_vars => Turns'
  BY TurnsKept
<1>3. CycInv /\ Turns => LastIsFree
  <2> SUFFICES ASSUME CycInv, Turns PROVE LastIsFree
    OBVIOUS
  <2>1. /\ currentsegment \in Nat /\ slave \in 1..NSlave + 1 /\ NSlave \in Nat
        /\ MAXSEG \in Nat /\ step \in {"both", "out", "in", "mapped"}
    BY SegmentAssumption, NSlaveAssumption DEF CycInv, MapInv, MapType, SegType
  <2>2. currentsegment <= 2 * NSlave + 2
    BY <2>1 DEF Turns
  <2>3. QED
    BY <2>1, <2>2 DEF LastIsFree
<1>4. QED
  BY <1>1, <1>2, <1>3, Inductive, PTL DEF Spec

(* Then a cycle goes over every byte once, whatever the slaves are.        *)
THEOREM AlwaysTiled ==
  ASSUME MAXSEG >= 2 * NSlave + 4
  PROVE  Spec => []Tiled
  BY CycleTiles, EnoughSegments, PTL

-----------------------------------------------------------------------------
(* The working counter.                                                    *)
LEMMA InOctets ==
  ASSUME NEW x \in Nat, NEW a \in Nat, NEW b \in Nat
  PROVE  /\ x \div 8 \in Nat
         /\ 8 * a <= x => a <= x \div 8
         /\ x < 8 * b => x \div 8 < b
  OBVIOUS

(* Bits in order lie in bytes in order.                                    *)
LEMMA OctetsRise ==
  ASSUME NEW x \in Nat, NEW y \in Nat, x <= y
  PROVE  x \div 8 <= y \div 8
  OBVIOUS

(* An FMMU between two byte boundaries has its bytes between them.         *)
LEMMA BytesBetween ==
  ASSUME NEW g \in Fmmu, g.first <= g.last, NEW a \in Nat, NEW b \in Nat,
         8 * a <= g.first, g.last < 8 * b
  PROVE  BytesOf(g) \subseteq a..b - 1
<1>1. g.first \in Nat /\ g.last \in Nat
  BY DEF Fmmu
<1>2. /\ g.first \div 8 \in Nat /\ g.last \div 8 \in Nat
      /\ a <= g.first \div 8 /\ g.last \div 8 < b
  BY <1>1, InOctets
<1>3. QED
  BY <1>2 DEF BytesOf

(* An FMMU has a byte.                                                     *)
LEMMA SomeByte ==
  ASSUME NEW g \in Fmmu, g.first <= g.last
  PROVE  BytesOf(g) # {}
<1>1. g.first \in Nat /\ g.last \in Nat
  BY DEF Fmmu
<1>2. g.first \div 8 \in Nat /\ g.last \div 8 \in Nat /\ g.first \div 8 <= g.last \div 8
  BY <1>1, InOctets, OctetsRise
<1>3. g.first \div 8 \in BytesOf(g)
  BY <1>2 DEF BytesOf
<1>4. QED
  BY <1>3

(* The command that takes the process data of a direction.                 *)
Carrier(d) == IF ~blockLRW THEN "LRW" ELSE IF d = "in" THEN "LRD" ELSE "LWR"

(* The bytes of an FMMU are among those its command goes over.             *)
LEMMA InGoal ==
  ASSUME MapInv, step = "mapped", Supported, blockLRW \in BOOLEAN, NEW g \in fmmu
  PROVE  BytesOf(g) \subseteq Goal(Carrier(g.dir))
<1>1. /\ overlap \in BOOLEAN /\ Obytes \in Nat /\ Ibytes \in Nat /\ LogAddr \in Nat /\ Sorted
      /\ Placed /\ g \in Fmmu
  BY DEF MapInv, MapType
<1>2. Length = LogAddr /\ (~overlap => LogAddr = Obytes + Ibytes) /\ BitPos = 0
  <2>1. CASE overlap
    BY <1>1, <2>1 DEF Sorted, Length, EndOverlap
  <2>2. CASE ~overlap
    BY <1>1, <2>2 DEF Sorted, Length
  <2>3. QED
    BY <1>1, <2>1, <2>2
<1>3. g.first <= g.last /\ g.last < 8 * LogAddr /\ g.first \in Nat /\ 8 * 0 <= g.first
  <2>1. g.first <= g.last /\ g.last < Where /\ Where = 8 * LogAddr + 0
    BY <1>1, <1>2 DEF Placed, Where
  <2>2. g.first \in Nat /\ g.last \in Nat
    BY <1>1 DEF Fmmu
  <2>3. QED
    BY <1>1, <2>1, <2>2
<1>4. CASE ~blockLRW
  <2>1. BytesOf(g) \subseteq 0..LogAddr - 1
    BY <1>1, <1>3, BytesBetween
  <2>2. Goal(Carrier(g.dir)) = 0..0 + Length - 1
    BY <1>4 DEF Goal, Carrier, Start, Size
  <2>3. 0 + Length - 1 = LogAddr - 1
    BY <1>1, <1>2
  <2>4. QED
    BY <2>1, <2>2, <2>3
<1>5. CASE blockLRW
  <2>1. ~overlap
    BY <1>5 DEF Supported
  <2>2. CASE g.dir = "in"
    <3>1. 8 * Obytes <= g.first
      <4>1. g.first >= 8 * Obytes
        BY <1>1, <2>1, <2>2 DEF Sorted
      <4>2. QED
        BY <1>1, <1>3, <4>1
    <3>2. BytesOf(g) \subseteq Obytes..LogAddr - 1
      BY <1>1, <1>3, <3>1, BytesBetween
    <3>3. Goal(Carrier(g.dir)) = Obytes..Obytes + Ibytes - 1
      BY <1>5, <2>2 DEF Goal, Carrier, Start, Size
    <3>4. QED
      BY <1>1, <1>2, <2>1, <3>2, <3>3
  <2>3. CASE g.dir = "out"
    <3>1. g.last < 8 * Obytes
      BY <1>1, <2>1, <2>3 DEF Sorted
    <3>2. BytesOf(g) \subseteq 0..Obytes - 1
      BY <1>1, <1>3, <3>1, BytesBetween
    <3>3. Goal(Carrier(g.dir)) = 0..0 + Obytes - 1
      BY <1>5, <2>3 DEF Goal, Carrier, Start, Size
    <3>4. 0 + Obytes - 1 = Obytes - 1
      BY <1>1
    <3>5. QED
      BY <3>2, <3>3, <3>4
  <2>4. QED
    BY <1>1, <2>2, <2>3 DEF Fmmu, Dir
<1>6. QED
  BY <1>4, <1>5

(* Two segments that share a byte are one.                                 *)
LEMMA OneSegment ==
  ASSUME MapInv, LastIsFree, step = "mapped",
         NEW i \in 0..currentsegment, NEW k \in 0..currentsegment, NEW x \in Int,
         SegBegin(IOsegment)[i] <= x, x < SegBegin(IOsegment)[i + 1],
         SegBegin(IOsegment)[k] <= x, x < SegBegin(IOsegment)[k + 1]
  PROVE  i = k
<1> DEFINE b == SegBegin(IOsegment)
<1>1. /\ \A n \in 0..nsegments : b[n] \in Nat
      /\ \A m, n \in 0..nsegments : m <= n => b[m] <= b[n]
  BY SegmentsWhole
<1>2. currentsegment \in Nat /\ nsegments = currentsegment + 1
  BY SegmentsThere
<1>3. b[i] <= x /\ x < b[i + 1] /\ b[k] <= x /\ x < b[k + 1]
  OBVIOUS
<1> HIDE DEF b
<1>4. /\ i \in 0..nsegments /\ k \in 0..nsegments /\ i + 1 \in 0..nsegments
      /\ k + 1 \in 0..nsegments
  BY <1>2
<1>5. ~(i + 1 <= k)
  <2>1. SUFFICES ASSUME i + 1 <= k PROVE FALSE
    OBVIOUS
  <2>2. b[i + 1] <= b[k] /\ b[i + 1] \in Nat /\ b[k] \in Nat
    BY <1>1, <1>4, <2>1
  <2>3. QED
    BY <1>3, <2>2
<1>6. ~(k + 1 <= i)
  <2>1. SUFFICES ASSUME k + 1 <= i PROVE FALSE
    OBVIOUS
  <2>2. b[k + 1] <= b[i] /\ b[k + 1] \in Nat /\ b[i] \in Nat
    BY <1>1, <1>4, <2>1
  <2>3. QED
    BY <1>3, <2>2
<1>7. QED
  BY <1>2, <1>5, <1>6

-----------------------------------------------------------------------------
(* No FMMU lies on both sides of the end of a datagram, and all            *)
(* bytes are sent.                                                         *)
NoSplit  == \A g \in fmmu : ~Split(g)
Whole    == Supported /\ LastIsFree /\ NoSplit

(* A datagram that serves an FMMU has all of it, and is part of one        *)
(* segment.                                                                *)
LEMMA CarriedBy ==
  ASSUME CycInv, phase = "receive", Whole, NEW g \in fmmu, NEW j \in DOMAIN frames,
         Serves(g, frames[j])
  PROVE  /\ frames[j].cmd = Carrier(g.dir) /\ g.slave \in alive /\ g.dir \in Dir
         /\ BytesOf(g) \subseteq Addresses(frames[j]) /\ BytesOf(g) # {}
         /\ \E k \in 0..currentsegment :
              Addresses(frames[j]) = Part(k, Start(Carrier(g.dir)), Size(Carrier(g.dir)))
<1>1. Partition(frames) /\ g.dir \in Dir
  BY FramesPartition DEF Whole, CycInv, MapInv, MapType, Fmmu
<1>2. frames[j].cmd \in Used
      /\ \E k \in 0..currentsegment :
           Addresses(frames[j]) = Part(k, Start(frames[j].cmd), Size(frames[j].cmd))
  BY <1>1 DEF Partition
<1>3. frames[j].cmd = Carrier(g.dir) /\ g.slave \in alive
  BY <1>1, <1>2 DEF Serves, Used, Carrier, Dir
<1>4. BytesOf(g) \subseteq Addresses(frames[j]) /\ BytesOf(g) # {}
  BY DEF Serves, Whole, NoSplit, Split
<1>5. QED
  BY <1>1, <1>2, <1>3, <1>4

(* The datagram of one FMMU is that of all of the direction of the slave.  *)
LEMMA AllOfThem ==
  ASSUME CycInv, phase = "receive", Whole, NEW f \in fmmu, NEW g \in fmmu, Akin(f, g),
         NEW j \in DOMAIN frames, Serves(g, frames[j])
  PROVE  Serves(f, frames[j]) /\ BytesOf(f) \subseteq Addresses(frames[j])
<1> DEFINE b == SegBegin(IOsegment)
<1> DEFINE at == Start(Carrier(g.dir))
<1> DEFINE size == Size(Carrier(g.dir))
<1>1. CASE f = g
  BY <1>1, CarriedBy
<1>2. CASE f # g
  <2>1. /\ MapInv /\ step = "mapped" /\ Placed /\ Cut /\ LastIsFree /\ Supported
        /\ blockLRW \in BOOLEAN /\ f \in Fmmu /\ g \in Fmmu
    BY FramesSent DEF CycInv, Whole, MapInv, MapType
  <2>2. PICK k \in 0..currentsegment : InSegment(f, k) /\ InSegment(g, k)
    BY <1>2, <2>1 DEF Cut
  <2>3. /\ \A n \in 0..nsegments : b[n] \in Nat
        /\ b[nsegments] = LogAddr /\ nsegments = currentsegment + 1
        /\ currentsegment \in Nat /\ k + 1 \in 0..nsegments /\ k \in 0..nsegments
    BY <2>1, SegmentsWhole, SegmentsThere
  <2>4. b[k] \in Nat /\ b[k + 1] \in Nat /\ SegEnd(k) = b[k + 1]
    BY <2>3 DEF SegEnd
  <2> HIDE DEF b
  <2>5. /\ 8 * b[k] <= f.first /\ f.last < 8 * b[k + 1]
        /\ 8 * b[k] <= g.first /\ g.last < 8 * b[k + 1]
    BY <2>2, <2>4 DEF InSegment, b
  <2>6. f.first <= f.last /\ g.first <= g.last
    BY <2>1 DEF Placed
  <2>7. BytesOf(f) \subseteq b[k]..b[k + 1] - 1 /\ BytesOf(g) \subseteq b[k]..b[k + 1] - 1
    BY <2>1, <2>4, <2>5, <2>6, BytesBetween
  <2>8. BytesOf(f) # {} /\ BytesOf(g) # {}
    BY <2>1, <2>6, SomeByte
  <2>9. BytesOf(f) \subseteq at..at + size - 1
    BY <2>1, InGoal DEF Goal, Akin
  <2>10. /\ frames[j].cmd = Carrier(g.dir) /\ g.slave \in alive /\ g.dir \in Dir
         /\ BytesOf(g) \subseteq Addresses(frames[j])
    BY CarriedBy
  <2>11. PICK n \in 0..currentsegment : Addresses(frames[j]) = Part(n, at, size)
    BY CarriedBy
  <2> HIDE DEF at, size
  <2>12. PICK x : x \in BytesOf(g)
    BY <2>8
  <2>13. x \in Int /\ b[k] <= x /\ x < b[k + 1]
    BY <2>4, <2>7, <2>12
  <2>14. b[n] <= x /\ x < b[n + 1]
    BY <2>10, <2>11, <2>12 DEF Part, b
  <2>15. n = k
    BY <2>1, <2>13, <2>14, OneSegment DEF b
  <2>16. BytesOf(f) \subseteq Part(k, at, size)
    BY <2>4, <2>7, <2>9 DEF Part, b
  <2>17. BytesOf(f) \subseteq Addresses(frames[j])
    BY <2>11, <2>15, <2>16
  <2>18. Serves(f, frames[j])
    BY <2>8, <2>17 DEF Serves, Akin
  <2>19. QED
    BY <2>17, <2>18
<1>3. QED
  BY <1>1, <1>2

(* One datagram only serves a direction of a slave.                        *)
LEMMA OneFrame ==
  ASSUME CycInv, phase = "receive", Whole, NEW f \in fmmu, NEW g \in fmmu, Akin(f, g),
         NEW i \in DOMAIN frames, NEW j \in DOMAIN frames,
         Serves(f, frames[i]), Serves(g, frames[j])
  PROVE  i = j
<1>1. BytesOf(f) \subseteq Addresses(frames[j])
  BY AllOfThem
<1>2. BytesOf(f) \subseteq Addresses(frames[i]) /\ BytesOf(f) # {}
  BY CarriedBy
<1>3. \A m, n \in DOMAIN frames : m # n => Addresses(frames[m]) \cap Addresses(frames[n]) = {}
  BY FramesPartition DEF Partition, Whole
<1>4. QED
  BY <1>1, <1>2, <1>3

-----------------------------------------------------------------------------
(* The slaves of which process data of a direction went over.              *)
GoneOf(ex, d) == {s \in Slave : \E g \in fmmu : /\ g.slave = s /\ g.dir = d
                                                  /\ \E b \in BytesOf(g) : <<g, b>> \in ex}
Having(d) == {s \in Slave : Has(s, d)}

(* Of what went over, all of the direction of the slave went over, in one  *)
(* of the first n datagrams.                                               *)
AllOrNothing(ex) ==
  /\ \A p \in ex : \E g \in fmmu : \E b \in BytesOf(g) : p = <<g, b>>
  /\ \A f, g \in fmmu : Akin(f, g) =>
       \A b \in BytesOf(g) : <<g, b>> \in ex => {f} \X BytesOf(f) \subseteq ex

Taken(ex, n) ==
  \A g \in fmmu : \A b \in BytesOf(g) :
    <<g, b>> \in ex => \E k \in 1..n : Serves(g, frames[k])

Sum(ex) == Cardinality(GoneOf(ex, "in")) + 2 * Cardinality(GoneOf(ex, "out"))

(* The counter is the count of the slaves whose process data went over,    *)
(* those with outputs twice.                                               *)
WkcInv ==
  phase \in {"receive", "done"} /\ Whole =>
    /\ AllOrNothing(exchanged)
    /\ valid \in BOOLEAN /\ (~valid => exchanged = {})
    /\ phase = "receive" => Taken(exchanged, pulled) /\ wkc = Sum(exchanged)
    /\ phase = "done" => wkc = IF valid THEN Sum(exchanged) ELSE NOFRAME

(* What a frame adds.                                                      *)
LEMMA FrameCounts ==
  ASSUME NEW f, f.cmd \in Command,
         \A d \in Dir : Cardinality(Touched(f, d)) \in Nat
  PROVE  Factor(f) * FrameWkc(f) = Cardinality(Touched(f, "in")) + 2 * Cardinality(Touched(f, "out"))
<1> DEFINE m == Cardinality(Touched(f, "in"))
<1> DEFINE n == Cardinality(Touched(f, "out"))
<1>1. m \in Nat /\ n \in Nat
  BY DEF Dir
<1>2. FrameWkc(f) = m + (IF f.cmd = "LRW" THEN 2 ELSE 1) * n
  BY DEF FrameWkc
<1>3. Cardinality({}) = 0
  BY FS_EmptySet
<1>4. f.cmd = "LRD" => n = 0
  <2>1. f.cmd = "LRD" => Touched(f, "out") = {}
    BY DEF Touched, Serves
  <2>2. QED
    BY <1>3, <2>1
<1>5. f.cmd = "LWR" => m = 0
  <2>1. f.cmd = "LWR" => Touched(f, "in") = {}
    BY DEF Touched, Serves
  <2>2. QED
    BY <1>3, <2>1
<1> HIDE DEF m, n
<1>6. ASSUME f.cmd = "LRW" PROVE Factor(f) * FrameWkc(f) = m + 2 * n
  <2>1. Factor(f) = 1 /\ FrameWkc(f) = m + 2 * n
    BY <1>2, <1>6 DEF Factor
  <2>2. QED
    BY <1>1, <2>1
<1>7. ASSUME f.cmd = "LRD" PROVE Factor(f) * FrameWkc(f) = m + 2 * n
  <2>1. Factor(f) = 1 /\ FrameWkc(f) = m + 1 * n
    BY <1>2, <1>7 DEF Factor
  <2>2. QED
    BY <1>1, <1>4, <1>7, <2>1
<1>8. ASSUME f.cmd = "LWR" PROVE Factor(f) * FrameWkc(f) = m + 2 * n
  <2>1. Factor(f) = 2 /\ FrameWkc(f) = m + 1 * n
    BY <1>2, <1>8 DEF Factor
  <2>2. QED
    BY <1>1, <1>5, <1>8, <2>1
<1>9. Factor(f) * FrameWkc(f) = m + 2 * n
  BY <1>6, <1>7, <1>8 DEF Command
<1>10. QED
  BY <1>9 DEF m, n

(* Slaves can be counted.                                                  *)
LEMMA SlavesFinite ==
  ASSUME NEW S, S \subseteq Slave
  PROVE  IsFiniteSet(S) /\ Cardinality(S) \in Nat
<1>1. IsFiniteSet(Slave)
  BY FS_Interval, NSlaveAssumption DEF Slave
<1>2. QED
  BY <1>1, FS_Subset, FS_CardinalityType

(* Two groups of slaves apart count together what each counts.             *)
LEMMA CountApart ==
  ASSUME NEW S, S \subseteq Slave, NEW T, T \subseteq Slave, S \cap T = {}
  PROVE  Cardinality(S \cup T) = Cardinality(S) + Cardinality(T)
<1>1. IsFiniteSet(S) /\ IsFiniteSet(T) /\ Cardinality(S) \in Nat /\ Cardinality(T) \in Nat
  BY SlavesFinite
<1>2. Cardinality(S \cup T) = Cardinality(S) + Cardinality(T) - Cardinality(S \cap T)
  BY <1>1, FS_Union
<1>3. Cardinality(S \cap T) = 0
  BY FS_EmptySet
<1>4. QED
  BY <1>1, <1>2, <1>3

(* What a frame moves.                                                     *)
LEMMA InMoved ==
  ASSUME NEW f, NEW g, NEW b
  PROVE  <<g, b>> \in Moved(f)
           <=> g \in fmmu /\ Serves(g, f) /\ b \in BytesOf(g) /\ b \in Addresses(f)
  BY DEF Moved

(* It moves bytes of FMMUs.                                                *)
LEMMA OfMoved ==
  ASSUME NEW f, NEW p \in Moved(f)
  PROVE  \E g \in fmmu : \E b \in BytesOf(g) : p = <<g, b>>
  BY DEF Moved

(* A frame adds slaves that no frame before it had, and all of each.       *)
LEMMA FrameAdds ==
  ASSUME CycInv, phase = "receive", Whole, pulled < pushed,
         AllOrNothing(exchanged), Taken(exchanged, pulled), NEW ex,
         ex = exchanged \cup Moved(Current)
  PROVE  /\ AllOrNothing(ex) /\ Taken(ex, pulled + 1)
         /\ \A d \in Dir : /\ GoneOf(ex, d) = GoneOf(exchanged, d) \cup Touched(Current, d)
                           /\ GoneOf(exchanged, d) \cap Touched(Current, d) = {}
<1> DEFINE c == Current
<1>1. /\ pulled + 1 \in DOMAIN frames /\ c = frames[pulled + 1] /\ pulled \in Nat
      /\ \A k \in 1..pulled : k \in DOMAIN frames /\ k # pulled + 1
  BY FramesSent DEF CycInv, Current
<1>2. \A g \in fmmu : Serves(g, c) => BytesOf(g) \subseteq Addresses(c) /\ BytesOf(g) # {}
  BY <1>1, CarriedBy
<1>3. \A f, g \in fmmu : Akin(f, g) /\ Serves(g, c) =>
        Serves(f, c) /\ BytesOf(f) \subseteq Addresses(c)
  BY <1>1, AllOfThem
<1>4. ex = exchanged \cup Moved(c)
  OBVIOUS
<1> HIDE DEF c
<1>5. AllOrNothing(ex)
  <2>1. \A p \in ex : \E g \in fmmu : \E b \in BytesOf(g) : p = <<g, b>>
    BY <1>4, OfMoved DEF AllOrNothing
  <2>2. ASSUME NEW f \in fmmu, NEW g \in fmmu, Akin(f, g), NEW b \in BytesOf(g), <<g, b>> \in ex
        PROVE  {f} \X BytesOf(f) \subseteq ex
    <3>1. CASE <<g, b>> \in exchanged
      BY <1>4, <2>2, <3>1 DEF AllOrNothing
    <3>2. CASE <<g, b>> \in Moved(c)
      <4>1. Serves(f, c) /\ BytesOf(f) \subseteq Addresses(c)
        BY <1>3, <2>2, <3>2, InMoved
      <4>2. \A x \in BytesOf(f) : <<f, x>> \in Moved(c)
        BY <4>1, InMoved
      <4>3. QED
        BY <1>4, <4>2
    <3>3. QED
      BY <1>4, <2>2, <3>1, <3>2
  <2>3. QED
    BY <2>1, <2>2 DEF AllOrNothing
<1>6. Taken(ex, pulled + 1)
  <2> SUFFICES ASSUME NEW g \in fmmu, NEW b \in BytesOf(g), <<g, b>> \in ex
               PROVE  \E k \in 1..pulled + 1 : Serves(g, frames[k])
    BY DEF Taken
  <2>1. CASE <<g, b>> \in exchanged
    <3>1. PICK k \in 1..pulled : Serves(g, frames[k])
      BY <2>1 DEF Taken
    <3>2. k \in 1..pulled + 1
      BY <1>1
    <3>3. QED
      BY <3>1, <3>2
  <2>2. CASE <<g, b>> \in Moved(c)
    <3>1. Serves(g, frames[pulled + 1])
      BY <1>1, <2>2, InMoved
    <3>2. pulled + 1 \in 1..pulled + 1
      BY <1>1
    <3>3. QED
      BY <3>1, <3>2
  <2>3. QED
    BY <1>4, <2>1, <2>2
<1>7. ASSUME NEW d \in Dir
      PROVE  GoneOf(ex, d) = GoneOf(exchanged, d) \cup Touched(c, d)
  <2>1. ASSUME NEW s \in GoneOf(ex, d)
        PROVE  s \in GoneOf(exchanged, d) \/ s \in Touched(c, d)
    <3>1. PICK g \in fmmu : s \in Slave /\ g.slave = s /\ g.dir = d
                            /\ \E b \in BytesOf(g) : <<g, b>> \in ex
      BY <2>1 DEF GoneOf
    <3>2. PICK b \in BytesOf(g) : <<g, b>> \in ex
      BY <3>1
    <3>3. CASE <<g, b>> \in exchanged
      BY <3>1, <3>3 DEF GoneOf
    <3>4. CASE <<g, b>> \in Moved(c)
      BY <3>1, <3>4, InMoved DEF Touched
    <3>5. QED
      BY <1>4, <3>2, <3>3, <3>4
  <2>2. ASSUME NEW s \in GoneOf(exchanged, d) PROVE s \in GoneOf(ex, d)
    BY <1>4, <2>2 DEF GoneOf
  <2>3. ASSUME NEW s \in Touched(c, d) PROVE s \in GoneOf(ex, d)
    <3>1. PICK g \in fmmu : s \in Slave /\ g.slave = s /\ g.dir = d /\ Serves(g, c)
      BY <2>3 DEF Touched
    <3>2. PICK b \in BytesOf(g) : b \in Addresses(c)
      BY <1>2, <3>1
    <3>3. <<g, b>> \in ex
      BY <1>4, <3>1, <3>2, InMoved
    <3>4. QED
      BY <3>1, <3>3 DEF GoneOf
  <2>4. QED
    BY <2>1, <2>2, <2>3
<1>8. ASSUME NEW d \in Dir, NEW s \in GoneOf(exchanged, d), s \in Touched(c, d)
      PROVE  FALSE
  <2>1. PICK f \in fmmu : f.slave = s /\ f.dir = d
                          /\ \E b \in BytesOf(f) : <<f, b>> \in exchanged
    BY <1>8 DEF GoneOf
  <2>2. PICK k \in 1..pulled : Serves(f, frames[k])
    BY <2>1 DEF Taken
  <2>3. PICK g \in fmmu : g.slave = s /\ g.dir = d /\ Serves(g, c)
    BY <1>8 DEF Touched
  <2>4. Akin(f, g)
    BY <2>1, <2>3 DEF Akin
  <2>5. k = pulled + 1
    BY <1>1, <2>2, <2>3, <2>4, OneFrame
  <2>6. QED
    BY <1>1, <2>5
<1>9. QED
  BY <1>5, <1>6, <1>7, <1>8 DEF c

(* So the counter after a frame is the count of the slaves that went over. *)
LEMMA Counting ==
  ASSUME CycInv, WkcInv, phase = "receive", Whole, pulled < pushed, NEW ex,
         ex = exchanged \cup Moved(Current)
  PROVE  Counted(Current) = Sum(ex)
<1> DEFINE c == Current
<1>1. /\ AllOrNothing(exchanged) /\ Taken(exchanged, pulled) /\ wkc = Sum(exchanged)
  BY DEF WkcInv
<1>2. /\ pulled + 1 \in DOMAIN frames /\ c = frames[pulled + 1] /\ pulled \in Nat
      /\ c \in Datagram /\ (c.dc => pulled = 0)
  <2>1. /\ pulled + 1 \in DOMAIN frames /\ pulled \in Nat /\ frames \in Seq(Datagram)
        /\ \A j \in DOMAIN frames : frames[j].dc => j = 1
    BY FramesSent DEF CycInv
  <2>2. frames[pulled + 1] \in Datagram
    BY <2>1, ElementOfSeq
  <2>3. QED
    BY <2>1, <2>2 DEF Current
<1>3. /\ \A d \in Dir : /\ GoneOf(ex, d) = GoneOf(exchanged, d) \cup Touched(c, d)
                        /\ GoneOf(exchanged, d) \cap Touched(c, d) = {}
  BY <1>1, FrameAdds
<1>4. \A d \in Dir : GoneOf(exchanged, d) \subseteq Slave /\ Touched(c, d) \subseteq Slave
  BY DEF GoneOf, Touched
<1> HIDE DEF c
<1>5. \A d \in Dir : /\ Cardinality(GoneOf(exchanged, d)) \in Nat
                     /\ Cardinality(Touched(c, d)) \in Nat
                     /\ Cardinality(GoneOf(ex, d))
                          = Cardinality(GoneOf(exchanged, d)) + Cardinality(Touched(c, d))
  BY <1>3, <1>4, SlavesFinite, CountApart
<1>6. c.dc => wkc = 0
  <2> SUFFICES ASSUME c.dc PROVE wkc = 0
    OBVIOUS
  <2>1. \A d \in Dir : GoneOf(exchanged, d) = {}
    <3>1. \A k \in 1..pulled : FALSE
      BY <1>2
    <3>2. \A g \in fmmu : \A b \in BytesOf(g) : <<g, b>> \notin exchanged
      BY <1>1, <3>1 DEF Taken
    <3>3. QED
      BY <3>2 DEF GoneOf
  <2>2. Cardinality({}) = 0
    BY FS_EmptySet
  <2>3. Cardinality(GoneOf(exchanged, "in")) = 0 /\ Cardinality(GoneOf(exchanged, "out")) = 0
    BY <2>1, <2>2 DEF Dir
  <2>4. QED
    BY <1>1, <2>3 DEF Sum
<1> DEFINE m == Cardinality(Touched(c, "in"))
<1> DEFINE n == Cardinality(Touched(c, "out"))
<1> DEFINE i == Cardinality(GoneOf(exchanged, "in"))
<1> DEFINE o == Cardinality(GoneOf(exchanged, "out"))
<1>7. m \in Nat /\ n \in Nat /\ i \in Nat /\ o \in Nat
  BY <1>5 DEF Dir
<1>8. Factor(c) * FrameWkc(c) = m + 2 * n
  BY <1>2, <1>5, FrameCounts DEF Datagram
<1>9. Counted(c) = wkc + (m + 2 * n)
  <2>1. Counted(c) = (IF c.dc THEN 0 ELSE wkc) + (m + 2 * n)
    BY <1>8 DEF Counted
  <2>2. (IF c.dc THEN 0 ELSE wkc) = wkc
    BY <1>6
  <2> HIDE DEF m, n
  <2>3. QED
    BY <2>1, <2>2
<1>10. wkc = i + 2 * o
  BY <1>1 DEF Sum
<1>11. Sum(ex) = (i + m) + 2 * (o + n)
  BY <1>5 DEF Sum, Dir
<1> HIDE DEF m, n, i, o
<1>12. Counted(c) = Sum(ex)
  BY <1>7, <1>9, <1>10, <1>11
<1>13. QED
  BY <1>12 DEF c

(* The exchange is the same as long as its parts are.                      *)
LEMMA SameExchange ==
  ASSUME UNCHANGED <<mapvars, blockLRW, frames, alive>>, NEW ex, exchanged' = ex
  PROVE  /\ Whole' <=> Whole
         /\ AllOrNothing(exchanged)' <=> AllOrNothing(ex)
         /\ Taken(exchanged, pulled)' <=> Taken(ex, pulled')
         /\ Sum(exchanged)' = Sum(ex)
  BY DEF mapvars, Whole, Supported, LastIsFree, NoSplit, Split, AllOrNothing, Akin, Taken,
         Serves, Sum, GoneOf

(* Before the first frame nothing went over.                               *)
LEMMA NothingGone ==
  ASSUME exchanged' = {}, pulled' = 0
  PROVE  AllOrNothing(exchanged)' /\ Taken(exchanged, pulled)' /\ Sum(exchanged)' = 0
<1>1. GoneOf(exchanged, "in")' = {} /\ GoneOf(exchanged, "out")' = {}
  BY DEF GoneOf
<1>2. Cardinality({}) = 0
  BY FS_EmptySet
<1>3. Sum(exchanged)' = 0 + 2 * 0
  BY <1>1, <1>2 DEF Sum
<1>4. QED
  BY <1>3 DEF AllOrNothing, Taken

(* The counter is right after every step.                                  *)
LEMMA WkcNext ==
  ASSUME CycInv, WkcInv, [Next]_vars
  PROVE  WkcInv'
<1> SUFFICES ASSUME phase' \in {"receive", "done"}, Whole'
             PROVE  /\ AllOrNothing(exchanged)'
                    /\ valid' \in BOOLEAN /\ (~valid' => exchanged' = {})
                    /\ phase' = "receive" => Taken(exchanged, pulled)' /\ wkc' = Sum(exchanged)'
                    /\ phase' = "done" => wkc' = IF valid' THEN Sum(exchanged)' ELSE NOFRAME
  BY DEF WkcInv
<1>1. CASE Configure
  BY <1>1 DEF Configure
<1>2. CASE Send
  <2>1. /\ exchanged' = {} /\ pulled' = 0 /\ valid' = FALSE /\ wkc' = 0 /\ phase' = "receive"
    BY <1>2 DEF Send
  <2>2. QED
    BY <2>1, NothingGone
<1>3. CASE WriteOutputs \/ UNCHANGED vars
  <2>1. UNCHANGED <<mapvars, blockLRW, frames, alive>>
        /\ UNCHANGED <<phase, pulled, wkc, valid, exchanged>>
    BY <1>3 DEF WriteOutputs, vars, cycvars
  <2>2. QED
    BY <2>1, SameExchange DEF WkcInv
<1>4. CASE Receive
  <2>1. /\ UNCHANGED <<mapvars, blockLRW, frames, alive>>
        /\ phase = "receive" /\ phase' = "receive" /\ pulled < pushed /\ pulled' = pulled + 1
        /\ wkc' = Counted(Current) /\ valid' = TRUE
        /\ exchanged' = exchanged \cup Moved(Current)
    BY <1>4 DEF Receive
  <2> DEFINE ex == exchanged \cup Moved(Current)
  <2>2. /\ Whole /\ (AllOrNothing(exchanged)' <=> AllOrNothing(ex))
        /\ (Taken(exchanged, pulled)' <=> Taken(ex, pulled')) /\ Sum(exchanged)' = Sum(ex)
    BY <2>1, SameExchange
  <2>3. AllOrNothing(exchanged) /\ Taken(exchanged, pulled)
    BY <2>1, <2>2 DEF WkcInv
  <2>4. AllOrNothing(ex) /\ Taken(ex, pulled + 1)
    BY <2>1, <2>2, <2>3, FrameAdds
  <2>5. Counted(Current) = Sum(ex)
    BY <2>1, <2>2, Counting
  <2> HIDE DEF ex
  <2>6. QED
    BY <2>1, <2>2, <2>4, <2>5
<1>5. CASE ReceiveNothing
  <2>1. /\ UNCHANGED <<mapvars, blockLRW, frames, alive>>
        /\ UNCHANGED <<phase, wkc, valid, exchanged>>
        /\ phase = "receive" /\ pulled' = pulled + 1 /\ pulled \in Nat
    BY <1>5, FramesSent DEF ReceiveNothing, CycInv
  <2>2. /\ Whole /\ (AllOrNothing(exchanged)' <=> AllOrNothing(exchanged))
        /\ (Taken(exchanged, pulled)' <=> Taken(exchanged, pulled'))
        /\ Sum(exchanged)' = Sum(exchanged)
    BY <2>1, SameExchange
  <2>3. \A k \in 1..pulled : k \in 1..pulled'
    BY <2>1
  <2>4. Taken(exchanged, pulled) => Taken(exchanged, pulled')
    BY <2>3 DEF Taken
  <2>5. QED
    BY <2>1, <2>2, <2>4 DEF WkcInv
<1>6. CASE ClearIndex
  <2>1. /\ UNCHANGED <<mapvars, blockLRW, frames, alive>>
        /\ UNCHANGED <<valid, exchanged>> /\ phase = "receive" /\ phase' = "done"
        /\ wkc' = IF valid THEN wkc ELSE NOFRAME
    BY <1>6 DEF ClearIndex
  <2>2. QED
    BY <2>1, SameExchange DEF WkcInv
<1>7. CASE NextCycle
  BY <1>7 DEF NextCycle
<1>8. QED
  BY <1>1, <1>2, <1>3, <1>4, <1>5, <1>6, <1>7 DEF Next

(* Two counts that are each bounded and together reach the sum of bounds.  *)
LEMMA BothFull ==
  ASSUME NEW i \in Nat, NEW o \in Nat, NEW m \in Nat, NEW n \in Nat, i <= m, o <= n
  PROVE  i + 2 * o <= 2 * n + m /\ (i + 2 * o = 2 * n + m <=> i = m /\ o = n)
  OBVIOUS

(* A counter that is right tells whether all went over.                    *)
LEMMA Tells ==
  ASSUME CycInv, WkcInv, LastIsFree
  PROVE  WkcTells
<1> SUFFICES ASSUME phase = "done", Supported, fmmu # {}, \A g \in fmmu : ~Split(g)
             PROVE  wkc <= expectedWKC /\ (wkc = expectedWKC <=> AllExchanged)
  BY DEF WkcTells
<1>1. /\ AllOrNothing(exchanged) /\ valid \in BOOLEAN /\ (~valid => exchanged = {})
      /\ wkc = IF valid THEN Sum(exchanged) ELSE NOFRAME
  BY DEF WkcInv, Whole, NoSplit
<1>2. \A g \in fmmu : g \in Fmmu /\ g.first <= g.last /\ g.slave \in Slave /\ g.dir \in Dir
  BY DEF CycInv, MapInv, MapType, Placed, Fmmu
<1>3. \A g \in fmmu : BytesOf(g) # {}
  BY <1>2, SomeByte
<1> DEFINE Went(d) == GoneOf(exchanged, d)
<1>4. \A d : Went(d) \subseteq Having(d) /\ Having(d) \subseteq Slave
  BY DEF GoneOf, Having, Has
<1>5. \A d : /\ IsFiniteSet(Having(d))
             /\ Cardinality(Went(d)) \in Nat /\ Cardinality(Having(d)) \in Nat
             /\ Cardinality(Went(d)) <= Cardinality(Having(d))
             /\ Cardinality(Went(d)) = Cardinality(Having(d)) => Went(d) = Having(d)
  <2> TAKE d
  <2>1. Went(d) \subseteq Having(d) /\ Having(d) \subseteq Slave /\ Went(d) \subseteq Slave
    BY <1>4
  <2> HIDE DEF Went
  <2>2. IsFiniteSet(Having(d)) /\ Cardinality(Went(d)) \in Nat /\ Cardinality(Having(d)) \in Nat
    BY <2>1, SlavesFinite
  <2>3. /\ Cardinality(Went(d)) <= Cardinality(Having(d))
        /\ Cardinality(Went(d)) = Cardinality(Having(d)) => Went(d) = Having(d)
    BY <2>1, <2>2, FS_Subset
  <2>4. QED
    BY <2>2, <2>3
<1> HIDE DEF Went
<1>6. /\ expectedWKC = 2 * Cardinality(Having("out")) + Cardinality(Having("in"))
      /\ Sum(exchanged) = Cardinality(Went("in")) + 2 * Cardinality(Went("out"))
  BY DEF expectedWKC, outputsWKC, inputsWKC, Having, Sum, Went
<1>7. /\ Sum(exchanged) <= expectedWKC /\ Sum(exchanged) \in Nat /\ expectedWKC \in Nat
      /\ Sum(exchanged) = expectedWKC
           <=> Went("in") = Having("in") /\ Went("out") = Having("out")
  <2> DEFINE i == Cardinality(Went("in"))
  <2> DEFINE o == Cardinality(Went("out"))
  <2> DEFINE m == Cardinality(Having("in"))
  <2> DEFINE n == Cardinality(Having("out"))
  <2>1. /\ i \in Nat /\ o \in Nat /\ m \in Nat /\ n \in Nat /\ i <= m /\ o <= n
        /\ (i = m <=> Went("in") = Having("in")) /\ (o = n <=> Went("out") = Having("out"))
    BY <1>5
  <2>2. expectedWKC = 2 * n + m /\ Sum(exchanged) = i + 2 * o
    BY <1>6
  <2> HIDE DEF i, o, m, n
  <2>3. i + 2 * o <= 2 * n + m /\ (i + 2 * o = 2 * n + m <=> i = m /\ o = n)
    BY <2>1, BothFull
  <2>4. QED
    BY <2>1, <2>2, <2>3
<1>8. AllExchanged => valid /\ Went("in") = Having("in") /\ Went("out") = Having("out")
  <2> SUFFICES ASSUME AllExchanged
               PROVE  valid /\ Went("in") = Having("in") /\ Went("out") = Having("out")
    OBVIOUS
  <2>1. \A g \in fmmu : \E b \in BytesOf(g) : <<g, b>> \in exchanged
    BY <1>3 DEF AllExchanged
  <2>2. valid
    BY <1>1, <2>1
  <2>3. \A d : Having(d) \subseteq Went(d)
    BY <2>1 DEF Having, Has, Went, GoneOf
  <2>4. QED
    BY <1>4, <2>2, <2>3
<1>9. Went("in") = Having("in") /\ Went("out") = Having("out") => AllExchanged
  <2> SUFFICES ASSUME Went("in") = Having("in"), Went("out") = Having("out"), NEW f \in fmmu
               PROVE  {f} \X BytesOf(f) \subseteq exchanged
    BY DEF AllExchanged
  <2>1. f.slave \in Having(f.dir) /\ f.dir \in Dir
    BY <1>2 DEF Having, Has
  <2>2. f.slave \in Went(f.dir)
    BY <2>1 DEF Dir
  <2>3. PICK g \in fmmu : /\ g.slave = f.slave /\ g.dir = f.dir
                          /\ \E b \in BytesOf(g) : <<g, b>> \in exchanged
    BY <2>2 DEF Went, GoneOf
  <2>4. Akin(f, g)
    BY <2>3 DEF Akin
  <2>5. QED
    BY <1>1, <2>3, <2>4 DEF AllOrNothing
<1>10. CASE valid
  BY <1>1, <1>7, <1>8, <1>9, <1>10
<1>11. CASE ~valid
  <2>1. wkc = -1 /\ ~AllExchanged
    BY <1>1, <1>8, <1>11 DEF NOFRAME
  <2>2. QED
    BY <1>7, <2>1
<1>12. QED
  BY <1>1, <1>10, <1>11

(* As long as a segment is left, the working counter tells.                *)
THEOREM CounterTells == Spec => [](LastIsFree => WkcTells)
<1>1. Init => WkcInv
  BY DEF Init, WkcInv
<1>2. CycInv /\ WkcInv /\ [Next]_vars => WkcInv'
  BY WkcNext
<1>3. CycInv /\ WkcInv => (LastIsFree => WkcTells)
  BY Tells
<1>4. QED
  BY <1>1, <1>2, <1>3, Inductive, PTL DEF Spec

(* With enough segments for the slaves the working counter always tells:   *)
(* the application may trust wkc = expectedWKC (simpletest), whichever     *)
(* frames or slaves were lost, unless an FMMU is split.                    *)
THEOREM AlwaysTells ==
  ASSUME MAXSEG >= 2 * NSlave + 4
  PROVE  Spec => []WkcTells
  BY CounterTells, EnoughSegments, PTL
=============================================================================
