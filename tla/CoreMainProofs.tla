--------------------------- MODULE CoreMainProofs ---------------------------
(***************************************************************************)
(* main of CoreMark: for every number of contexts, size of memory, machine *)
(* and command line, the workloads stay in their own memory, the number of *)
(* iterations that is found gives a run of the right length, and the       *)
(* verdict is honest.                                                      *)
(***************************************************************************)
EXTENDS CoreMain, FiniteSetTheorems, WellFoundedInduction, TLAPS

-------------------------------------------------------------------------------
(* Numbers. *)

\* The quotient of two numbers lies where it should.
LEMMA Quotient ==
  ASSUME NEW x \in Nat, NEW s \in Nat \ {0}
  PROVE  /\ x \div s \in Nat
         /\ (x \div s) * s <= x /\ x < (x \div s) * s + s
OBVIOUS

\* Products are monotonic.
LEMMA MoreTimes ==
  ASSUME NEW a \in Int, NEW b \in Int, NEW k \in Nat, a <= b
  PROVE  a * k \in Int /\ b * k \in Int /\ a * k <= b * k
OBVIOUS

\* Once or more is at least once.
LEMMA AtLeastOnce ==
  ASSUME NEW a \in Nat, NEW k \in Nat, k >= 1
  PROVE  k * a \in Nat /\ a <= k * a
OBVIOUS

\* Ten times the iterations are ten times the work.
LEMMA TenfoldWork ==
  ASSUME NEW n \in Nat, NEW c \in Nat
  PROVE  /\ n * c \in Nat
         /\ (n * 10) * c = 10 * (n * c)
OBVIOUS

\* A product of iterations and their cost, by a factor.
LEMMA ScaledWork ==
  ASSUME NEW n \in Nat, NEW c \in Nat, NEW k \in Nat
  PROVE  (n * k) * c = (n * c) * k
OBVIOUS

\* What 1 + 10 / divisor makes of a calibration of d seconds, a run of 11 seconds or
\* more, and of fewer than 50 if the calibration was shorter than 45.
LEMMA ElevenSecondsOrMore ==
  ASSUME NEW t \in Nat, NEW s \in Nat \ {0}, s <= t
  PROVE  LET w == t * (1 + 10 \div (t \div s))
         IN  w \in Nat /\ w >= 11 * s /\ (t < 45 * s => w <= 50 * s)
<1> DEFINE d == t \div s
           q == 10 \div d
<1>1. d \in Nat /\ d * s <= t /\ t < d * s + s
  BY Quotient
<1>2. d >= 1
  <2>1. CASE d = 0
    BY <1>1, <2>1
  <2> QED BY <1>1, <2>1
<1> HIDE DEF d
<1>3. q \in Nat /\ q * d <= 10 /\ 10 < q * d + d
  BY <1>1, <1>2, Quotient
<1> HIDE DEF q
<1>4. t * (1 + q) \in Nat /\ t * (1 + q) >= (d * s) * (1 + q)
  BY <1>1, <1>3
<1>5. (d * s) * (1 + q) = (d + q * d) * s
  BY <1>1, <1>3
<1>6. (d + q * d) * s >= 11 * s
  <2>1. d + q * d \in Nat /\ d + q * d >= 11
    BY <1>1, <1>3
  <2> QED BY <2>1
<1>7. ASSUME t < 45 * s PROVE t * (1 + q) <= 50 * s
  <2>1. d <= 44
    <3>1. CASE d >= 45
      <4>1. d * s >= 45 * s
        BY <1>1, <3>1
      <4> QED BY <1>1, <1>7, <4>1
    <3> QED BY <1>1, <3>1
  <2>2. (d + 1) * (1 + q) <= 50
    <3>1. q = 0 \/ d <= 10
      <4>1. CASE d > 10 /\ q >= 1
        <5>1. q * d >= d
          BY <1>1, <1>3, <4>1
        <5> QED BY <1>1, <1>3, <4>1, <5>1
      <4> QED BY <1>1, <1>3, <4>1
    <3>2. (d + 1) * (1 + q) = d + q * d + 1 + q
      BY <1>1, <1>3
    <3>3. q <= 10
      <4>1. q * d >= q
        BY <1>1, <1>2, <1>3
      <4> QED BY <1>1, <1>3, <4>1
    <3> QED BY <1>1, <1>3, <2>1, <3>1, <3>2, <3>3
  <2>3. t * (1 + q) <= (d * s + s) * (1 + q)
    <3>1. t \in Int /\ d * s + s \in Int /\ t <= d * s + s /\ 1 + q \in Nat
      BY <1>1, <1>3
    <3> QED BY <3>1, MoreTimes
  <2>4. (d * s + s) * (1 + q) = ((d + 1) * (1 + q)) * s
    BY <1>1, <1>3
  <2>5. ((d + 1) * (1 + q)) * s <= 50 * s
    <3>1. (d + 1) * (1 + q) \in Nat
      BY <1>1, <1>3
    <3> QED BY <2>2, <3>1
  <2>6. t * (1 + q) \in Int /\ (d * s + s) * (1 + q) \in Int /\ 50 * s \in Int
    BY <1>1, <1>3
  <2> QED BY <2>3, <2>4, <2>5, <2>6
<1> QED BY <1>4, <1>5, <1>6, <1>7, <1>1, <1>3 DEF d, q

\* The difference of two readings of a counter is the time between them, if that is
\* less than a whole turn, and never more.
LEMMA AcrossTheWrap ==
  ASSUME NEW m \in Nat \ {0}, NEW a \in 0 .. m - 1, NEW t \in Nat
  PROVE  /\ (a + t) % m \in 0 .. m - 1
         /\ (((a + t) % m) - a) % m \in 0 .. t
         /\ t < m => (((a + t) % m) - a) % m = t
<1>1. (a + t) % m \in 0 .. m - 1
  OBVIOUS
<1>2. ASSUME t < m PROVE (((a + t) % m) - a) % m = t
  <2>1. CASE a + t < m
    <3>1. (a + t) % m = a + t /\ t % m = t
      BY <1>2, <2>1
    <3> QED BY <3>1
  <2>2. CASE a + t >= m
    <3>1. (a + t) % m = a + t - m
      BY <1>2, <2>2
    <3>2. (t - m) % m = t
      BY <1>2
    <3> QED BY <3>1, <3>2
  <2> QED BY <2>1, <2>2
<1>3. (((a + t) % m) - a) % m \in 0 .. m - 1
  <2>1. ((a + t) % m) - a \in Int
    BY <1>1
  <2>2. \A d \in Int : d % m \in 0 .. m - 1
    OBVIOUS
  <2> QED BY <2>1, <2>2
<1>4. (((a + t) % m) - a) % m \in 0 .. t
  <2> DEFINE elapsed == (((a + t) % m) - a) % m
  <2>1. elapsed \in 0 .. m - 1 /\ (t < m => elapsed = t)
    BY <1>2, <1>3
  <2> HIDE DEF elapsed
  <2>2. elapsed \in 0 .. t
    BY <2>1
  <2> QED BY <2>2 DEF elapsed
<1> QED BY <1>1, <1>2, <1>4

\* A set of numbers has a least one.
LEMMA LeastOf ==
  ASSUME NEW S \in SUBSET Nat, S # {}
  PROVE  \E m \in S : m - 1 \notin S /\ \A k \in S : m <= k
<1> DEFINE Less == {ss \in Nat \X Nat : ss[1] < ss[2]}
<1>w. IsWellFoundedOn(Less, Nat)
  BY NatLessThanWellFounded, Zenon DEF OpToRel
<1>1. PICK m \in S : \A k \in S : ~(<<k, m>> \in Less)
  <2> HIDE DEF Less
  <2> QED BY <1>w, WFMin
<1>2. \A k \in S : k \in Nat /\ m \in Nat /\ ~(k < m)
  BY <1>1
<1> QED BY <1>2

-------------------------------------------------------------------------------
(* The memory of the workloads. *)

\* core_init_matrix finds a dimension, and the matrices have room in the block.
LEMMA DimensionFits ==
  ASSUME NEW size \in Nat \ {0}
  PROVE  Dimension(size) \in Nat /\ 8 * (Dimension(size) * Dimension(size)) < size
<1> DEFINE Beyond == {n \in Nat : (n + 1) * (n + 1) * 8 >= size}
<1>1. size \in Beyond
  <2>1. (size + 1) * (size + 1) >= size + 1
    <3>1. 1 <= size + 1 /\ size + 1 \in Nat
      OBVIOUS
    <3> QED BY <3>1, MoreTimes
  <2>2. (size + 1) * (size + 1) \in Int
    OBVIOUS
  <2> QED BY <2>1, <2>2
<1>2. PICK n \in Beyond : n - 1 \notin Beyond /\ \A k \in Beyond : n <= k
  <2>1. Beyond \in SUBSET Nat /\ Beyond # {}
    BY <1>1
  <2> HIDE DEF Beyond
  <2> QED BY <2>1, LeastOf
<1>3. n \in Nat /\ n <= size /\ (n + 1) * (n + 1) * 8 >= size
  <2>1. n \in Nat /\ (n + 1) * (n + 1) * 8 >= size
    OBVIOUS
  <2>2. ~(size < n)
    BY <1>1, <1>2, <2>1
  <2> QED BY <2>1, <2>2
<1>4. n * n * 8 < size
  <2>1. CASE n = 0
    BY <2>1
  <2>2. CASE n # 0
    <3>1. n - 1 \in Nat
      BY <1>3, <2>2
    <3>2. n - 1 \notin Beyond
      BY <1>2
    <3>3. ~((n - 1 + 1) * (n - 1 + 1) * 8 >= size)
      BY <3>1, <3>2
    <3>4. n - 1 + 1 = n
      BY <1>3
    <3>5. n * n * 8 \in Int
      BY <1>3
    <3> QED BY <3>3, <3>4, <3>5
  <2> QED BY <2>1, <2>2
<1> DEFINE N == Dimension(size)
<1>5. N \in 0 .. size /\ N * N * 8 < size
  <2>1. \E m \in 0 .. size : m * m * 8 < size /\ (m + 1) * (m + 1) * 8 >= size
    BY <1>3, <1>4
  <2> QED BY <2>1 DEF Dimension
<1> HIDE DEF N
<1>6. N * N * 8 = 8 * (N * N)
  BY <1>5
<1> QED BY <1>5, <1>6 DEF N

\* A block of the matrices ends eight bytes an element behind its aligned start.
LEMMA MatricesInLayout ==
  ASSUME NEW size \in Nat \ {0}, NEW from \in Nat
  PROVE  LET m == MatrixLayout(size, from)
             N == Dimension(size)
         IN  /\ m.A = align_mem(from) /\ m.A \in Int /\ from <= m.A
             /\ m.end = m.A + 8 * (N * N)
<1> DEFINE N == Dimension(size)
           q == (from - 1) \div 4
<1>1. N \in Nat
  BY DimensionFits
<1> HIDE DEF N
<1>2. align_mem(from) = 4 + q * 4 /\ q \in Int /\ from <= 4 + q * 4
  BY DEF align_mem
<1> HIDE DEF q
<1>3. PICK s \in Nat : s = N * N
  BY <1>1
<1>4. 2 * N * N = 2 * s /\ 4 * N * N = 4 * s
  BY <1>1, <1>3
<1>5. align_mem(4 + q * 4 + 2 * s + 2 * s) = 4 + q * 4 + 4 * s
  <2>1. (4 + q * 4 + 2 * s + 2 * s - 1) \div 4 = q + s
    BY <1>2
  <2> QED BY <1>2, <2>1 DEF align_mem
<1>6. MatrixLayout(size, from).end = 4 + q * 4 + 4 * s + 4 * s
  BY <1>2, <1>4, <1>5 DEF MatrixLayout, N
<1>7. MatrixLayout(size, from).A = 4 + q * 4
  BY <1>2 DEF MatrixLayout
<1> QED BY <1>2, <1>3, <1>6, <1>7 DEF N

\* The selected algorithms have places of their own.
Before(a) == CASE a = "list" -> {} [] a = "matrix" -> {"list"} [] a = "state" -> {"list", "matrix"}
LEMMA Places ==
  ASSUME NEW execs \in SUBSET ALL_ALGORITHMS_MASK
  PROVE  /\ IsFiniteSet(execs) /\ Cardinality(execs) \in Nat
         /\ execs # {} => Cardinality(execs) > 0
         /\ \A a \in execs :
              /\ Cardinality(Before(a) \intersect execs) \in Nat
              /\ Cardinality(Before(a) \intersect execs) < Cardinality(execs)
         /\ \A a, b \in execs :
              a # b => \/ Cardinality(Before(a) \intersect execs) < Cardinality(Before(b) \intersect execs)
                       \/ Cardinality(Before(b) \intersect execs) < Cardinality(Before(a) \intersect execs)
<1>f. IsFiniteSet(ALL_ALGORITHMS_MASK)
  <2>1. IsFiniteSet({"list"} \cup {"matrix"} \cup {"state"})
    BY FS_Singleton, FS_Union
  <2>2. ALL_ALGORITHMS_MASK = {"list"} \cup {"matrix"} \cup {"state"}
    BY DEF ALL_ALGORITHMS_MASK
  <2> QED BY <2>1, <2>2
<1>1. ASSUME NEW S \in SUBSET execs
      PROVE  /\ IsFiniteSet(S) /\ Cardinality(S) \in Nat /\ Cardinality(S) <= Cardinality(execs)
             /\ S # {} => Cardinality(S) > 0
  <2>1. IsFiniteSet(execs)
    BY <1>f, FS_Subset
  <2>2. IsFiniteSet(S) /\ Cardinality(S) <= Cardinality(execs)
    BY <2>1, FS_Subset
  <2>3. Cardinality(S) \in Nat
    BY <2>2, FS_CardinalityType
  <2>4. S # {} => Cardinality(S) # 0
    BY <2>2, FS_EmptySet
  <2> QED BY <2>2, <2>3, <2>4
\* The places before a are fewer than those of any set that has them and a.
<1>2. ASSUME NEW a \in execs, NEW S \in SUBSET execs, Before(a) \intersect execs \subseteq S, a \in S
      PROVE  Cardinality(Before(a) \intersect execs) < Cardinality(S)
  <2> DEFINE T == Before(a) \intersect execs
  <2>1. T \in SUBSET S /\ a \notin T
    BY <1>2 DEF Before, ALL_ALGORITHMS_MASK
  <2>2. IsFiniteSet(S) /\ Cardinality(S) \in Nat /\ Cardinality(T) \in Nat
    BY <1>1
  <2>3. Cardinality(T) <= Cardinality(S) /\ Cardinality(T) # Cardinality(S)
    <3> HIDE DEF T
    <3> QED BY <1>2, <2>1, <2>2, FS_Subset
  <2> QED BY <2>2, <2>3
<1>3. ASSUME NEW a \in execs, NEW b \in execs, a \in Before(b)
      PROVE  Cardinality(Before(a) \intersect execs) < Cardinality(Before(b) \intersect execs)
  <2>1. Before(a) \intersect execs \subseteq Before(b) \intersect execs
    BY <1>3 DEF Before, ALL_ALGORITHMS_MASK
  <2> QED BY <1>2, <1>3, <2>1
<1>4. \A a, b \in execs : a # b => a \in Before(b) \/ b \in Before(a)
  BY DEF Before, ALL_ALGORITHMS_MASK
<1>5. \A a \in execs : Cardinality(Before(a) \intersect execs) < Cardinality(execs)
  BY <1>2
<1> QED BY <1>1, <1>3, <1>4, <1>5

\* Blocks of one size, so many in the memory of each of so many contexts: a block that
\* starts at its place ends before the next place.
LEMMA SideBySide ==
  ASSUME NEW total \in Int, NEW size \in Nat, NEW n \in Nat, size * n <= total,
         NEW contextsOf \in Nat, NEW k \in 0 .. contextsOf - 1, NEW j \in 0 .. contextsOf - 1,
         NEW p \in Nat, NEW r \in Nat, p < n, r < n
  PROVE  /\ k * total + size * p \in Nat
         /\ k * total + size * p + size <= contextsOf * total
         /\ k < j \/ (k = j /\ p < r) =>
              k * total + size * p + size <= j * total + size * r
<1>1. total \in Nat /\ k * total \in Nat /\ size * p \in Nat
  <2>1. size * n \in Nat
    OBVIOUS
  <2>2. total \in Nat
    BY <2>1
  <2> QED BY <2>2
<1>2. size * p + size = (p + 1) * size
  OBVIOUS
<1>3. (p + 1) * size <= n * size /\ n * size = size * n
  BY MoreTimes
<1>4. k * total + size * p + size <= (k + 1) * total
  <2>1. (k + 1) * total = k * total + total
    BY <1>1
  <2> QED BY <1>1, <1>2, <1>3, <2>1
<1>5. \A m \in Nat : k < m => (k + 1) * total <= m * total
  BY <1>1, MoreTimes
<1>6. k < j => (k + 1) * total <= j * total /\ j * total \in Nat /\ size * r \in Nat
  BY <1>1, <1>5
<1>7. k = j /\ p < r => size * p + size <= size * r
  <2>1. p < r => (p + 1) * size <= r * size /\ r * size = size * r
    BY MoreTimes
  <2> QED BY <1>2, <2>1
<1>8. (k + 1) * total <= contextsOf * total /\ (k + 1) * total \in Int /\ contextsOf * total \in Int
  BY <1>1, <1>5
<1>9. k < j => k * total + size * p + size <= j * total + size * r
  <2>1. k < j => j * total \in Int /\ size * r \in Nat
    BY <1>6
  <2> QED BY <1>1, <1>4, <1>6, <1>8, <2>1
<1> QED BY <1>1, <1>4, <1>7, <1>8, <1>9

\* Where a block is.
LEMMA PlaceOf ==
  ASSUME TypeOK, Divided, pc \in {"calibrate", "benchmark"}, Roomy,
         NEW k \in 0 .. MULTITHREAD - 1, NEW a \in results0.execs
  PROVE  LET p == Cardinality(Before(a) \intersect results0.execs)
         IN  /\ p \in Nat /\ p < Cardinality(results0.execs)
             /\ Memblock(k, a) = results0.memblock + (k * results0.total + results0.size * p)
             /\ Memblock(k, a) \in Nat
             /\ Cardinality(results0.execs) \in Nat
             /\ results0.size * Cardinality(results0.execs) <= results0.total
<1> DEFINE p == Cardinality(Before(a) \intersect results0.execs)
           n == Cardinality(results0.execs)
<1>1. /\ results0.execs \in SUBSET ALL_ALGORITHMS_MASK /\ results0.memblock \in Nat
      /\ results0.total \in Int /\ results0.size \in Nat /\ results0.size >= 60
      /\ MULTITHREAD \in Nat
  BY SizesAssumption DEF TypeOK, CoreResults, Roomy
<1>2. p \in Nat /\ p < n /\ n \in Nat /\ n > 0
  BY <1>1, Places
<1>3. Memblock(k, a) = results0.memblock + k * results0.total + results0.size * p
  BY DEF Memblock, Before
<1>4. results0.size = results0.total \div n
  BY DEF Divided
<1> HIDE DEF p, n
<1>5. results0.size * n <= results0.total
  BY <1>1, <1>2, <1>4
<1>6. k * results0.total + results0.size * p \in Nat
  <2>1. results0.size * n \in Nat /\ results0.size * p \in Nat /\ k \in Nat
    BY <1>1, <1>2
  <2>2. results0.total \in Nat
    BY <1>1, <1>5, <2>1
  <2> QED BY <2>1, <2>2
<1>7. k * results0.total \in Int /\ results0.size * p \in Int
  BY <1>1, <1>2
<1>8. Memblock(k, a) = results0.memblock + (k * results0.total + results0.size * p)
  BY <1>1, <1>3, <1>7
<1> QED BY <1>1, <1>2, <1>5, <1>6, <1>8 DEF p, n

\* core_main.c: no context's workload writes outside of its block.
LEMMA ExtentInBlock ==
  ASSUME TypeOK, Divided, pc \in {"calibrate", "benchmark"}, Roomy, ~Tight,
         NEW k \in 0 .. MULTITHREAD - 1, NEW a \in results0.execs
  PROVE  /\ Extent(k, a).from \in Int /\ Extent(k, a).to \in Int
         /\ Memblock(k, a) <= Extent(k, a).from
         /\ Extent(k, a).to <= Memblock(k, a) + results0.size
<1> DEFINE size == results0.size
           from == Memblock(k, a)
<1>1. size \in Nat \ {0} /\ size >= 60 /\ from \in Nat
  <2>1. size \in Nat \ {0} /\ size >= 60
    BY DEF TypeOK, CoreResults, Roomy
  <2>2. from \in Nat
    BY PlaceOf
  <2> QED BY <2>1, <2>2
<1> HIDE DEF size, from
<1>3. CASE a = "list"
  <2>1. Extent(k, a) = [from |-> from, to |-> from + ListSize(size) * (2 * sizes.pointer + 4)]
    BY <1>3 DEF Extent, from, size
  <2>2. ListSize(size) * (2 * sizes.pointer + 4) \in Int /\ ListSize(size) * (2 * sizes.pointer + 4) <= size
    <3>1. sizes.pointer = 4 \/ sizes.pointer = 8
      BY DEF TypeOK
    <3> QED BY <1>1, <3>1 DEF ListSize
  <2> QED BY <1>1, <2>1, <2>2 DEF from, size
<1>4. CASE a = "matrix"
  <2> DEFINE m == MatrixLayout(size, from)
             N == Dimension(size)
  <2>1. Extent(k, a) = [from |-> m.A, to |-> m.end]
    BY <1>4 DEF Extent, from, size
  <2>2. m.A = align_mem(from) /\ m.A \in Int /\ from <= m.A /\ m.end = m.A + 8 * (N * N)
    BY <1>1, MatricesInLayout
  <2>3. N \in Nat /\ N * N \in Nat
    <3>1. N \in Nat
      BY <1>1, DimensionFits
    <3> HIDE DEF N
    <3> QED BY <3>1
  <2>4. ~(size - 8 * (N * N) < align_mem(from) - from)
    BY <1>4 DEF Tight, from, size
  <2> HIDE DEF m, N
  <2> QED BY <1>1, <2>1, <2>2, <2>3, <2>4 DEF from, size
<1>5. CASE a = "state"
  <2>1. Extent(k, a) = [from |-> from, to |-> from + size]
    BY <1>5 DEF Extent, from, size
  <2> QED BY <1>1, <2>1 DEF from, size
<1> QED BY <1>3, <1>4, <1>5 DEF TypeOK, CoreResults, ALL_ALGORITHMS_MASK

LEMMA DividedIsApart == TypeOK /\ Divided => BlocksApart
<1> SUFFICES ASSUME TypeOK, Divided, pc \in {"calibrate", "benchmark"}, Roomy, ~Tight
             PROVE  LET Uses == (0 .. MULTITHREAD - 1) \X results0.execs
                        e    == [u \in Uses |-> Extent(u[1], u[2])]
                    IN  \A u \in Uses :
                          /\ e[u].from >= results0.memblock
                          /\ e[u].to <= results0.memblock + MULTITHREAD * results0.total
                          /\ \A v \in Uses \ {u} : e[u].to <= e[v].from \/ e[v].to <= e[u].from
  BY DEF BlocksApart
<1> DEFINE Uses == (0 .. MULTITHREAD - 1) \X results0.execs
           e    == [u \in Uses |-> Extent(u[1], u[2])]
           place(a) == Cardinality(Before(a) \intersect results0.execs)
           n == Cardinality(results0.execs)
<1>1. /\ results0.execs \in SUBSET ALL_ALGORITHMS_MASK /\ results0.memblock \in Nat
      /\ results0.total \in Int /\ results0.size \in Nat /\ MULTITHREAD \in Nat
  BY SizesAssumption DEF TypeOK, CoreResults, Roomy
<1>2. ASSUME NEW k \in 0 .. MULTITHREAD - 1, NEW a \in results0.execs
      PROVE  /\ place(a) \in Nat /\ place(a) < n
             /\ Memblock(k, a) = results0.memblock + (k * results0.total + results0.size * place(a))
             /\ n \in Nat /\ results0.size * n <= results0.total
  BY PlaceOf
<1>3. ASSUME NEW k \in 0 .. MULTITHREAD - 1, NEW a \in results0.execs
      PROVE  /\ Extent(k, a).from \in Int /\ Extent(k, a).to \in Int
             /\ results0.memblock <= Extent(k, a).from
             /\ Extent(k, a).to <= results0.memblock + MULTITHREAD * results0.total
  <2>1. /\ k * results0.total + results0.size * place(a) \in Nat
        /\ k * results0.total + results0.size * place(a) + results0.size <= MULTITHREAD * results0.total
    <3> HIDE DEF place, n
    <3> QED BY <1>1, <1>2, SideBySide
  <2>2. MULTITHREAD * results0.total \in Int
    BY <1>1
  <2> HIDE DEF place, n
  <2> QED BY <1>1, <1>2, <2>1, <2>2, ExtentInBlock
\* One of two blocks is in front of the other.
<1>4. ASSUME NEW k \in 0 .. MULTITHREAD - 1, NEW a \in results0.execs,
             NEW j \in 0 .. MULTITHREAD - 1, NEW b \in results0.execs,
             k < j \/ (k = j /\ place(a) < place(b))
      PROVE  Extent(k, a).to <= Extent(j, b).from
  <2>1. k * results0.total + results0.size * place(a) + results0.size
          <= j * results0.total + results0.size * place(b)
    <3> HIDE DEF place, n
    <3> QED BY <1>1, <1>2, <1>4, SideBySide
  <2>2. /\ Extent(k, a).to \in Int /\ Extent(k, a).to <= Memblock(k, a) + results0.size
        /\ Extent(j, b).from \in Int /\ Memblock(j, b) <= Extent(j, b).from
    BY ExtentInBlock
  <2> DEFINE x == k * results0.total + results0.size * place(a)
             y == j * results0.total + results0.size * place(b)
  <2>3. x \in Int /\ y \in Int
    <3> HIDE DEF place, n
    <3> QED BY <1>1, <1>2
  <2>4. Memblock(k, a) = results0.memblock + x /\ Memblock(j, b) = results0.memblock + y
    BY <1>2
  <2>5. x + results0.size <= y
    BY <2>1
  <2> HIDE DEF x, y, place, n
  <2> QED BY <1>1, <2>2, <2>3, <2>4, <2>5
<1>5. ASSUME NEW u \in Uses
      PROVE  /\ e[u].from >= results0.memblock
             /\ e[u].to <= results0.memblock + MULTITHREAD * results0.total
  <2>1. u[1] \in 0 .. MULTITHREAD - 1 /\ u[2] \in results0.execs /\ e[u] = Extent(u[1], u[2])
    OBVIOUS
  <2> QED BY <1>1, <1>3, <2>1
<1>6. ASSUME NEW u \in Uses, NEW v \in Uses, u # v
      PROVE  e[u].to <= e[v].from \/ e[v].to <= e[u].from
  <2>1. /\ u[1] \in 0 .. MULTITHREAD - 1 /\ u[2] \in results0.execs /\ e[u] = Extent(u[1], u[2])
        /\ v[1] \in 0 .. MULTITHREAD - 1 /\ v[2] \in results0.execs /\ e[v] = Extent(v[1], v[2])
    OBVIOUS
  <2>2. u[1] # v[1] \/ u[2] # v[2]
    BY <1>6
  <2>3. u[1] = v[1] => place(u[2]) < place(v[2]) \/ place(v[2]) < place(u[2])
    BY <1>1, <2>1, <2>2, Places
  <2>4. u[1] < v[1] \/ v[1] < u[1] \/ u[1] = v[1]
    BY <1>1, <2>1
  <2> HIDE DEF place, e
  <2> QED BY <1>4, <2>1, <2>3, <2>4
<1> QED BY <1>5, <1>6

-------------------------------------------------------------------------------
(* Words: what parseval makes of them. *)

\* A digit is a number.
LEMMA DigitTypes == \A c \in Int : Digit(c) \in Int
BY DEF Digit, IsDecimal

\* retval, the value of so many digits, is a number.
Reads(f, s, from, to, base) ==
  f = [k \in from .. to |-> IF k = from THEN 0 ELSE f[k - 1] * base + Digit(s[k - 1])]

\* There is such a function for any digits: the least number of digits without one would
\* take the function of one digit less and a step of the loop.
LEMMA SomeReads ==
  ASSUME NEW s \in Seq(Int), NEW from \in Nat \ {0}, NEW to \in from .. Len(s) + 1, NEW base \in Int
  PROVE  \E f : Reads(f, s, from, to, base)
<1> DEFINE Without == {n \in Nat : from <= n /\ n <= to /\ ~ \E f : Reads(f, s, from, n, base)}
<1>1. SUFFICES ASSUME Without # {} PROVE FALSE
  <2>1. to \in Nat /\ from <= to
    OBVIOUS
  <2>2. to \in Without \/ \E f : Reads(f, s, from, to, base)
    BY <2>1
  <2> HIDE DEF Without
  <2> QED BY <2>2
<1>2. PICK n \in Without : n - 1 \notin Without
  <2>1. Without \in SUBSET Nat
    OBVIOUS
  <2> HIDE DEF Without
  <2> QED BY <1>1, <2>1, LeastOf
<1>3. n \in Nat /\ from <= n /\ n <= to /\ ~ \E f : Reads(f, s, from, n, base)
  OBVIOUS
<1>4. n # from
  <2> SUFFICES ASSUME n = from PROVE FALSE
    OBVIOUS
  <2> DEFINE f == [k \in from .. n |-> 0]
  <2>1. \A k \in from .. n : k = from
    OBVIOUS
  <2>2. f = [k \in from .. n |-> IF k = from THEN 0 ELSE f[k - 1] * base + Digit(s[k - 1])]
    BY <2>1
  <2> HIDE DEF f
  <2> QED BY <1>3, <2>2 DEF Reads
<1>5. PICK g : Reads(g, s, from, n - 1, base)
  BY <1>2, <1>3, <1>4
<1> DEFINE f == [k \in from .. n |-> IF k = from THEN 0 ELSE g[k - 1] * base + Digit(s[k - 1])]
<1>6. \A k \in from .. n - 1 : f[k] = g[k]
  <2>1. \A k \in from .. n - 1 : k \in from .. n
    BY <1>3
  <2> QED BY <1>5, <2>1 DEF Reads
<1>7. f = [k \in from .. n |-> IF k = from THEN 0 ELSE f[k - 1] * base + Digit(s[k - 1])]
  <2>1. \A k \in from .. n : k # from => k - 1 \in from .. n - 1
    BY <1>3
  <2>2. \A k \in from .. n : k # from => f[k - 1] = g[k - 1]
    <3> HIDE DEF f
    <3> QED BY <1>6, <2>1
  <2> HIDE DEF f
  <2>3. f = [k \in from .. n |-> IF k = from THEN 0 ELSE g[k - 1] * base + Digit(s[k - 1])]
    BY DEF f
  <2> QED BY <2>2, <2>3
<1> HIDE DEF f
<1> QED BY <1>3, <1>7 DEF Reads

\* Its values are numbers, by the least that is none.
LEMMA ReadsNumbers ==
  ASSUME NEW s \in Seq(Int), NEW from \in Nat \ {0}, NEW to \in from .. Len(s) + 1, NEW base \in Int,
         NEW f, Reads(f, s, from, to, base)
  PROVE  f[to] \in Int
<1> DEFINE NoNumber == {n \in Nat : from <= n /\ n <= to /\ f[n] \notin Int}
<1>1. SUFFICES ASSUME NoNumber # {} PROVE FALSE
  <2>1. to \in Nat /\ from <= to
    OBVIOUS
  <2> QED BY <2>1
<1>2. PICK n \in NoNumber : n - 1 \notin NoNumber
  <2>1. NoNumber \in SUBSET Nat
    OBVIOUS
  <2> HIDE DEF NoNumber
  <2> QED BY <1>1, <2>1, LeastOf
<1>3. n \in Nat /\ from <= n /\ n <= to /\ f[n] \notin Int
  OBVIOUS
<1>4. f[n] = IF n = from THEN 0 ELSE f[n - 1] * base + Digit(s[n - 1])
  BY <1>3 DEF Reads
<1>5. n # from
  BY <1>3, <1>4
<1>6. n - 1 \in from .. to /\ n - 1 \in 1 .. Len(s) /\ n - 1 \in Nat
  BY <1>3, <1>5
<1>7. f[n - 1] \in Int /\ Digit(s[n - 1]) \in Int
  <2>1. s[n - 1] \in Int
    BY <1>6
  <2>2. f[n - 1] \in Int
    <3>1. from <= n - 1 /\ n - 1 <= to
      BY <1>6
    <3> QED BY <1>2, <1>6, <3>1
  <2> QED BY <2>1, <2>2, DigitTypes, Zenon
<1>8. \A x, d \in Int : x * base + d \in Int
  OBVIOUS
<1>9. f[n - 1] * base + Digit(s[n - 1]) \in Int
  BY <1>7, <1>8, Zenon
<1> QED BY <1>3, <1>4, <1>5, <1>9, Zenon

\* The loops over digits end, and leave a number.
LEMMA ReadDigitsTypes ==
  ASSUME NEW s \in Seq(Int), NEW from \in 1 .. Len(s) + 1, NEW hexmode \in BOOLEAN
  PROVE  ReadDigits(s, from, hexmode)[1] \in Int
<1> DEFINE IsOne(c) == IF hexmode THEN IsHex(c) ELSE IsDecimal(c)
           Ends(k) == /\ \A j \in from .. k - 1 : IsOne(s[j])
                      /\ k <= Len(s) => ~IsOne(s[k])
           end == CHOOSE k \in from .. Len(s) + 1 : Ends(k)
           base == IF hexmode THEN 16 ELSE 10
           retval == CHOOSE f : Reads(f, s, from, end, base)
<1>1. end \in from .. Len(s) + 1
  <2> DEFINE Stops == {k \in from .. Len(s) + 1 : k <= Len(s) => ~IsOne(s[k])}
  <2>1. Stops \in SUBSET Nat /\ Stops # {}
    <3>1. Len(s) + 1 \in Stops
      OBVIOUS
    <3> QED BY <3>1
  <2>2. PICK k \in Stops : \A j \in Stops : k <= j
    <3> HIDE DEF Stops
    <3> QED BY <2>1, LeastOf
  <2>3. \A j \in from .. k - 1 : IsOne(s[j])
    <3> SUFFICES ASSUME NEW j \in from .. k - 1 PROVE IsOne(s[j])
      OBVIOUS
    <3>1. j \notin Stops /\ j \in from .. Len(s) + 1
      BY <2>2
    <3> QED BY <3>1
  <2>4. Ends(k) /\ k \in from .. Len(s) + 1
    BY <2>2, <2>3
  <2> HIDE DEF Ends
  <2> QED BY <2>4
<1>2. base \in Int
  OBVIOUS
<1>3. Reads(retval, s, from, end, base)
  <2> HIDE DEF end, base
  <2>1. \E f : Reads(f, s, from, end, base)
    BY <1>1, <1>2, SomeReads
  <2> QED BY <2>1
<1>4. retval[end] \in Int
  <2> HIDE DEF end, base, retval
  <2> QED BY <1>1, <1>2, <1>3, ReadsNumbers
<1>5. ReadDigits(s, from, hexmode) = <<retval[end], end>>
  BY DEF ReadDigits, Reads
<1> HIDE DEF retval, end
<1> QED BY <1>4, <1>5

\* parseval makes a number of every word.
LEMMA ParsevalTypes == ASSUME NEW s \in Seq(Int) PROVE parseval(s) \in Int
<1> DEFINE At(k)   == IF k <= Len(s) THEN s[k] ELSE 0
           sign    == IF At(1) = MINUS THEN 1 ELSE 0
           hexmode == At(sign + 1) = 48 /\ At(sign + 2) = EX
           read    == ReadDigits(s, IF hexmode THEN sign + 3 ELSE sign + 1, hexmode)
           scale   == CASE At(read[2]) = KILO -> 1024
                        [] At(read[2]) = MEGA -> 1024 * 1024
                        [] OTHER              -> 1
<1>1. (IF hexmode THEN sign + 3 ELSE sign + 1) \in 1 .. Len(s) + 1
  <2>1. sign \in {0, 1} /\ (sign = 1 => Len(s) >= 1) /\ Len(s) \in Nat
    BY DEF MINUS
  <2>2. hexmode => sign + 2 <= Len(s)
    BY DEF EX
  <2> HIDE DEF sign, hexmode
  <2> QED BY <2>1, <2>2
<1>2. hexmode \in BOOLEAN
  OBVIOUS
<1>3. read[1] \in Int
  <2> HIDE DEF hexmode, sign
  <2> QED BY <1>1, <1>2, ReadDigitsTypes
<1>4. scale \in Int
  <2> HIDE DEF read, At
  <2> QED OBVIOUS
<1>5. (IF sign = 1 THEN -1 ELSE 1) \in Int
  OBVIOUS
<1>6. parseval(s) = (IF sign = 1 THEN -1 ELSE 1) * read[1] * scale
  BY DEF parseval
<1> HIDE DEF read, scale, sign
<1>7. (IF sign = 1 THEN -1 ELSE 1) * read[1] \in Int
  BY <1>3, <1>5
<1>8. \A x, y \in Int : x * y \in Int
  OBVIOUS
<1> QED BY <1>4, <1>6, <1>7, <1>8

-------------------------------------------------------------------------------
(* Types. *)

\* What main makes of seven numbers, the fourth of them not negative.
LEMMA ResultsTypes ==
  ASSUME NEW seed, \A i \in 1 .. 7 : seed[i] \in Int, seed[4] \in Nat, NEW total \in Nat, NEW base \in Nat
  PROVE  Results(seed, total, base) \in CoreResults
<1> DEFINE s == Defaults(seed[1], seed[2], seed[3])
<1>1. s[1] \in Int /\ s[2] \in Int /\ s[3] \in Int
  BY DEF Defaults
<1>2. Selected(seed[5]) \in SUBSET ALL_ALGORITHMS_MASK
  BY DEF Selected
<1>3. (IF seed[7] # 0 THEN seed[7] ELSE total) \in Int
  OBVIOUS
<1> HIDE DEF s
<1>4. [seed1 |-> s[1], seed2 |-> s[2], seed3 |-> s[3], iterations |-> seed[4],
       execs |-> Selected(seed[5]), memblock |-> base,
       total |-> IF seed[7] # 0 THEN seed[7] ELSE total, size |-> 0] \in CoreResults
  BY <1>1, <1>2, <1>3 DEF CoreResults
<1> QED BY <1>4 DEF Results, s

\* portable_init of the linux port: no more contexts than there is memory for, and not
\* less than none.
LEMMA ContextsInRange ==
  ASSUME NEW words \in CommandLines
  PROVE  contexts(words) \in 0 .. MULTITHREAD
<1>1. MULTITHREAD \in Nat \ {0}
  BY SizesAssumption
<1>2. HasContexts(words) => parseval(Tail(words[1])) \in Int
  <2> SUFFICES ASSUME HasContexts(words) PROVE parseval(Tail(words[1])) \in Int
    OBVIOUS
  <2>1. words[1] \in Seq(Int) /\ words[1] # <<>>
    <3>1. words \in Seq(Seq(Int))
      BY CommandLineAssumption
    <3>2. words # <<>> /\ words[1] # <<>>
      BY DEF HasContexts
    <3> QED BY <3>1, <3>2
  <2>2. Tail(words[1]) \in Seq(Int)
    BY <2>1
  <2> QED BY <2>2, ParsevalTypes
<1> QED BY <1>1, <1>2 DEF contexts

\* Every argument is a number, and a missing one is 0.
LEMMA SeedsAreNumbers ==
  ASSUME NEW words \in CommandLines, NEW i \in 1 .. 7
  PROVE  get_seed_args(i, Shifted(words)) \in Int
<1> DEFINE args == Shifted(words)
<1>1. words \in Seq(Seq(Int))
  BY CommandLineAssumption
<1>2. args \in Seq(Seq(Int))
  <2>1. HasContexts(words) => words # <<>>
    BY DEF HasContexts
  <2>2. words # <<>> => Tail(words) \in Seq(Seq(Int))
    BY <1>1
  <2> QED BY <1>1, <2>1, <2>2 DEF Shifted
<1> HIDE DEF args
<1>3. CASE Len(args) >= i
  <2>1. args[i] \in Seq(Int)
    BY <1>2, <1>3
  <2>2. parseval(args[i]) \in Int
    BY <2>1, ParsevalTypes
  <2> QED BY <1>3, <2>2 DEF get_seed_args, args
<1>4. CASE ~(Len(args) >= i)
  BY <1>4 DEF get_seed_args, args
<1> QED BY <1>3, <1>4 DEF args

\* Any machine, any command line and any build give a state of these types.
LEMMA InitTypes == Init => TypeOK
<1> SUFFICES ASSUME Init PROVE TypeOK
  OBVIOUS
<1>1. PICK m \in Machines :
        /\ cost = m.cost /\ CORE_TICKS = m.ticks /\ sizes = m.sizes
        /\ \/ /\ m.seeds = "SEED_ARG" /\ argv \in CommandLines
              /\ results0 = Results(SeedsOfWords(Shifted(argv)), TOTAL_DATA_SIZE, m.base)
              /\ default_num_contexts = contexts(argv)
           \/ /\ m.seeds = "SEED_VOLATILE" /\ argv = <<>>
              /\ \E b \in Builds : results0 = Results([i \in 1 .. 7 |-> get_seed_volatile(i, b)], b.size, m.base)
              /\ default_num_contexts = 1
  BY Zenon DEF Init
<1>2. m.cost \in Nat /\ m.ticks \in Nat \ {0} /\ m.base \in Nat /\ m.sizes.pointer \in {4, 8}
  BY MachineAssumption
<1>3. ASSUME NEW words \in CommandLines
      PROVE  /\ \A i \in 1 .. 7 : SeedsOfWords(Shifted(words))[i] \in Int
             /\ SeedsOfWords(Shifted(words))[4] \in Nat
  <2>1. /\ \A i \in 1 .. 7 : get_seed_args(i, Shifted(words)) \in Int
        /\ get_seed_32(4, Shifted(words)) \in Nat
    BY CommandLineAssumption, SeedsAreNumbers
  <2>2. \A i \in 1 .. 7 : get_seed(i, Shifted(words)) \in Int /\ get_seed_32(i, Shifted(words)) \in Int
    BY <2>1 DEF get_seed, get_seed_32, ee_s16
  <2> QED BY <2>1, <2>2 DEF SeedsOfWords
<1>4. ASSUME NEW b \in Builds
      PROVE  /\ \A i \in 1 .. 7 : get_seed_volatile(i, b) \in Int
             /\ get_seed_volatile(4, b) \in Nat
  <2>1. RunOf(b.flags, b.size) \in {"VALIDATION_RUN", "PERFORMANCE_RUN", "PROFILE_RUN"}
    BY SizesAssumption DEF RunOf
  <2>2. \A run \in {"VALIDATION_RUN", "PERFORMANCE_RUN", "PROFILE_RUN"} :
          seed_volatile(run, b.iterations) \in Nat \X Nat \X Nat \X Nat \X Nat
    BY SizesAssumption DEF seed_volatile
  <2>3. \A i \in 1 .. 5 : seed_volatile(RunOf(b.flags, b.size), b.iterations)[i] \in Nat
    BY <2>1, <2>2
  <2>4. \A i \in 1 .. 7 : get_seed_volatile(i, b) \in Nat
    BY <2>3 DEF get_seed_volatile
  <2> QED BY <2>4
<1>5. /\ results0 \in CoreResults
      /\ default_num_contexts \in 0 .. MULTITHREAD
  <2>1. CASE argv \in CommandLines /\ default_num_contexts = contexts(argv)
             /\ results0 = Results(SeedsOfWords(Shifted(argv)), TOTAL_DATA_SIZE, m.base)
    <3>1. contexts(argv) \in 0 .. MULTITHREAD /\ TOTAL_DATA_SIZE \in Nat
      BY <2>1, ContextsInRange, SizesAssumption
    <3> QED BY <1>2, <1>3, <2>1, <3>1, ResultsTypes
  <2>2. ASSUME NEW b \in Builds, default_num_contexts = 1,
               results0 = Results([i \in 1 .. 7 |-> get_seed_volatile(i, b)], b.size, m.base)
        PROVE  /\ results0 \in CoreResults
               /\ default_num_contexts \in 0 .. MULTITHREAD
    <3>1. b.size \in Nat /\ 1 \in 0 .. MULTITHREAD
      BY SizesAssumption
    <3> DEFINE seed == [i \in 1 .. 7 |-> get_seed_volatile(i, b)]
    <3>2. (\A i \in 1 .. 7 : seed[i] \in Int) /\ seed[4] \in Nat
      BY <1>4
    <3> HIDE DEF seed
    <3>3. Results(seed, b.size, m.base) \in CoreResults
      BY <1>2, <3>1, <3>2, ResultsTypes
    <3> QED BY <2>2, <3>1, <3>3 DEF seed
  <2> QED BY <1>1, <2>1, <2>2
<1>6. CORE_TICKS \in Nat \ {0} /\ 0 \in 0 .. CORE_TICKS - 1
  BY <1>1, <1>2
<1> QED BY <1>1, <1>2, <1>5, <1>6 DEF Init, TypeOK

\* Seconds are a number, and so is the number of iterations found from them.
LEMMA SecondsTypes ==
  ASSUME NEW ticks \in Nat
  PROVE  time_in_secs(ticks) \in Nat
BY ClockAssumption, Quotient DEF time_in_secs

\* A test for less than ten whole seconds is one for less than the ticks of ten seconds.
LEMMA WithinTenSeconds ==
  ASSUME NEW t \in Nat
  PROVE  time_in_secs(t) < 10 <=> t < 10 * EE_TICKS_PER_SEC
<1> DEFINE d == t \div EE_TICKS_PER_SEC
<1>1. EE_TICKS_PER_SEC \in Nat \ {0}
  BY ClockAssumption
<1>2. d \in Nat /\ d * EE_TICKS_PER_SEC <= t /\ t < d * EE_TICKS_PER_SEC + EE_TICKS_PER_SEC
  BY <1>1, Quotient
<1>3. time_in_secs(t) = d
  BY DEF time_in_secs
<1> HIDE DEF d
<1>4. d >= 10 => t >= 10 * EE_TICKS_PER_SEC
  <2>1. d >= 10 => 10 * EE_TICKS_PER_SEC <= d * EE_TICKS_PER_SEC
    BY <1>1, <1>2, MoreTimes
  <2>2. d * EE_TICKS_PER_SEC \in Int
    BY <1>1, <1>2
  <2> QED BY <1>1, <1>2, <2>1, <2>2
<1>5. d < 10 => t < 10 * EE_TICKS_PER_SEC
  <2>1. d < 10 => (d + 1) * EE_TICKS_PER_SEC <= 10 * EE_TICKS_PER_SEC
    BY <1>1, <1>2, MoreTimes
  <2>2. (d + 1) * EE_TICKS_PER_SEC = d * EE_TICKS_PER_SEC + EE_TICKS_PER_SEC
    BY <1>1, <1>2
  <2>3. d * EE_TICKS_PER_SEC \in Int
    BY <1>1, <1>2
  <2> QED BY <1>1, <1>2, <2>1, <2>2, <2>3
<1> QED BY <1>1, <1>2, <1>3, <1>4, <1>5

LEMMA IterationsTypes ==
  ASSUME NEW n \in Nat, NEW secs \in Nat, secs >= 1
  PROVE  FinalIterations(n, secs) \in Nat
<1>1. 10 \div secs \in Nat
  BY Quotient
<1>2. \A q \in Nat : n * (1 + q) \in Nat
  OBVIOUS
<1> QED BY <1>1, <1>2 DEF FinalIterations

\* The contexts asked for are never more than there is memory for.
LEMMA CappedIs ==
  ASSUME NEW n \in 0 .. MULTITHREAD
  PROVE  Capped(n) = n
<1>1. n \in {n, MULTITHREAD} /\ \A y \in {n, MULTITHREAD} : n <= y
  BY SizesAssumption
<1>2. \A x \in {n, MULTITHREAD} : (\A y \in {n, MULTITHREAD} : x <= y) => x = n
  BY SizesAssumption
<1> QED BY <1>1, <1>2 DEF Capped, Min

\* What the timer holds after so many ticks.
LEMMA TimerTypes ==
  ASSUME TypeOK, NEW ticks \in Nat, Timed(ticks)
  PROVE  /\ start_time_val' \in 0 .. CORE_TICKS - 1 /\ stop_time_val' \in 0 .. CORE_TICKS - 1
         /\ ran' = ticks
         /\ Elapsed(start_time_val', stop_time_val') \in 0 .. ticks
         /\ ticks < CORE_TICKS => Elapsed(start_time_val', stop_time_val') = ticks
<1>1. /\ CORE_TICKS \in Nat \ {0} /\ stop_time_val \in 0 .. CORE_TICKS - 1
      /\ start_time_val' = stop_time_val /\ stop_time_val' = (stop_time_val + ticks) % CORE_TICKS
      /\ ran' = ticks
  BY DEF TypeOK, Timed
<1>2. /\ (stop_time_val + ticks) % CORE_TICKS \in 0 .. CORE_TICKS - 1
      /\ (((stop_time_val + ticks) % CORE_TICKS) - stop_time_val) % CORE_TICKS \in 0 .. ticks
      /\ ticks < CORE_TICKS => (((stop_time_val + ticks) % CORE_TICKS) - stop_time_val) % CORE_TICKS = ticks
  BY <1>1, AcrossTheWrap
<1> QED BY <1>1, <1>2 DEF Elapsed

\* No step changes the machine.
LEMMA MachineKept ==
  ASSUME [Next]_vars
  PROVE  cost' = cost /\ CORE_TICKS' = CORE_TICKS /\ sizes' = sizes
BY DEF Next, DivideMemory, Calibrate, Benchmark, Identify, Check, Report, vars, machine

\* How long a run of so much work takes is a number of ticks.
LEMMA DurationsTypes ==
  ASSUME NEW w \in Nat
  PROVE  Durations(w) \subseteq Nat
<1>1. w - w \div 12 \in Nat
  OBVIOUS
<1> QED BY <1>1 DEF Durations

\* total_errors grows by one for each workload of each context that ran with other
\* than the known checksum.
LEMMA ErrorsCounted ==
  ASSUME TypeOK
  PROVE  /\ Errors \in Nat
         /\ Errors = 0 <=> \A k \in 1 .. default_num_contexts : wrong[k] \intersect results0.execs = {}
<1> DEFINE All == (1 .. default_num_contexts) \X results0.execs
           Bad == {e \in All : e[2] \in wrong[e[1]]}
<1>1. results0.execs \in SUBSET ALL_ALGORITHMS_MASK /\ default_num_contexts \in Nat
  BY SizesAssumption DEF TypeOK, CoreResults
<1>2. IsFiniteSet(All)
  <2>1. IsFiniteSet(1 .. default_num_contexts)
    BY <1>1, FS_Interval
  <2>2. IsFiniteSet(results0.execs)
    BY <1>1, Places
  <2> QED BY <2>1, <2>2, FS_Product
<1>3. IsFiniteSet(Bad)
  BY <1>2, FS_Subset
<1>4. Cardinality(Bad) \in Nat /\ (Cardinality(Bad) = 0 <=> Bad = {})
  BY <1>3, FS_CardinalityType, FS_EmptySet
<1>5. Bad = {} <=> \A k \in 1 .. default_num_contexts : wrong[k] \intersect results0.execs = {}
  <2>1. ASSUME NEW k \in 1 .. default_num_contexts, NEW a \in wrong[k] \intersect results0.execs
        PROVE  <<k, a>> \in Bad
    OBVIOUS
  <2>2. ASSUME NEW e \in Bad
        PROVE  e[1] \in 1 .. default_num_contexts /\ e[2] \in wrong[e[1]] \intersect results0.execs
    OBVIOUS
  <2> HIDE DEF Bad
  <2> QED BY <2>1, <2>2
<1> QED BY <1>4, <1>5 DEF Errors

\* check_data_types counts the types of another size than they should have.
LEMMA TypesCounted ==
  /\ check_data_types \in Nat
  /\ check_data_types = 0 <=> \A t \in DOMAIN Sizes : sizes[t] = Sizes[t]
<1> DEFINE Bad == {t \in DOMAIN Sizes : sizes[t] # Sizes[t]}
<1>1. IsFiniteSet(DOMAIN Sizes)
  <2>1. DOMAIN Sizes = {"ee_u8", "ee_u16", "ee_s16", "ee_s32", "ee_u32", "ee_ptr_int"}
    BY DEF Sizes
  <2>2. \A S : IsFiniteSet(S) => \A x : IsFiniteSet(S \cup {x})
    BY FS_AddElement
  <2>3. IsFiniteSet({"ee_u8"} \cup {"ee_u16"} \cup {"ee_s16"} \cup {"ee_s32"} \cup {"ee_u32"} \cup {"ee_ptr_int"})
    BY <2>2, FS_Singleton, Zenon
  <2>4. {"ee_u8"} \cup {"ee_u16"} \cup {"ee_s16"} \cup {"ee_s32"} \cup {"ee_u32"} \cup {"ee_ptr_int"}
          = {"ee_u8", "ee_u16", "ee_s16", "ee_s32", "ee_u32", "ee_ptr_int"}
    OBVIOUS
  <2> QED BY <2>1, <2>3, <2>4
<1>2. IsFiniteSet(Bad)
  BY <1>1, FS_Subset
<1>3. Cardinality(Bad) \in Nat /\ (Cardinality(Bad) = 0 <=> Bad = {})
  BY <1>2, FS_CardinalityType, FS_EmptySet
<1> QED BY <1>3 DEF check_data_types

LEMMA StepTypes == TypeOK /\ [Next]_vars => TypeOK'
<1> SUFFICES ASSUME TypeOK, [Next]_vars PROVE TypeOK'
  OBVIOUS
<1> USE DEF CoreResults
<1>r. results0 \in CoreResults /\ cost \in Nat
  BY DEF TypeOK
<1>i. \A n \in Nat : [results0 EXCEPT !.iterations = n] \in CoreResults
  BY <1>r
<1>1. CASE DivideMemory
  <2>1. CASE results0.execs = {}
    BY <1>1, <2>1 DEF DivideMemory, TypeOK, machine, timing
  <2>2. CASE results0.execs # {}
    <3>1. results0.total \div Cardinality(results0.execs) \in Int
      <4>1. results0.execs \in SUBSET ALL_ALGORITHMS_MASK /\ results0.total \in Int
        BY <1>r
      <4>2. Cardinality(results0.execs) \in Nat /\ Cardinality(results0.execs) > 0
        BY <2>2, <4>1, Places
      <4> QED BY <4>1, <4>2
    <3>2. (IF results0.iterations = 0 THEN 1 ELSE results0.iterations) \in Nat
      BY <1>r
    <3>3. results0' \in CoreResults
      <4> DEFINE size == results0.total \div Cardinality(results0.execs)
                 iterations == IF results0.iterations = 0 THEN 1 ELSE results0.iterations
      <4>1. results0' = [results0 EXCEPT !.size = size, !.iterations = iterations]
        BY <1>1, <2>2 DEF DivideMemory
      <4>2. size \in Int /\ iterations \in Nat
        BY <3>1, <3>2
      <4> HIDE DEF size, iterations
      <4> QED BY <1>r, <4>1, <4>2
    <3>4. pc' \in {"calibrate", "benchmark"}
      BY <1>1, <2>2 DEF DivideMemory
    <3> QED BY <1>1, <3>3, <3>4 DEF DivideMemory, TypeOK, machine, timing
  <2> QED BY <2>1, <2>2
<1>2. CASE Calibrate
  <2> DEFINE iterations == results0.iterations * 10
             secs == time_in_secs(Elapsed(start_time_val', stop_time_val'))
  <2>1. iterations \in Nat /\ iterations * cost \in Nat /\ Timed(iterations * cost)
    BY <1>2, <1>r DEF Calibrate
  <2>2. /\ start_time_val' \in 0 .. CORE_TICKS - 1 /\ stop_time_val' \in 0 .. CORE_TICKS - 1
        /\ ran' \in Nat /\ Elapsed(start_time_val', stop_time_val') \in Nat
    <3> HIDE DEF iterations
    <3> QED BY <2>1, TimerTypes
  <2>3. secs \in Nat
    BY <2>2, SecondsTypes
  <2>4. results0' \in CoreResults /\ pc' \in {"calibrate", "benchmark"}
    <3>1. CASE secs < 1
      <4>1. results0' = [results0 EXCEPT !.iterations = iterations] /\ pc' = "calibrate"
        BY <1>2, <3>1 DEF Calibrate
      <4> QED BY <1>i, <2>1, <4>1
    <3>2. CASE secs >= 1
      <4>1. results0' = [results0 EXCEPT !.iterations = FinalIterations(iterations, secs)] /\ pc' = "benchmark"
        BY <1>2, <2>3, <3>2 DEF Calibrate
      <4>2. FinalIterations(iterations, secs) \in Nat
        BY <2>1, <2>3, <3>2, IterationsTypes
      <4> QED BY <1>i, <4>1, <4>2
    <3> QED BY <2>3, <3>1, <3>2
  <2> HIDE DEF iterations, secs
  <2> QED BY <1>2, <2>2, <2>4 DEF Calibrate, TypeOK, machine
<1>3. CASE Benchmark
  <2>1. default_num_contexts' \in 0 .. MULTITHREAD
    BY <1>3, CappedIs DEF Benchmark, TypeOK
  <2>2. PICK ticks \in Nat : Timed(ticks)
    <3>1. results0.iterations * cost \in Nat
      BY <1>r
    <3>2. Durations(results0.iterations * cost) \subseteq Nat
      BY <3>1, DurationsTypes
    <3> QED BY <1>3, <3>2 DEF Benchmark
  <2>3. /\ start_time_val' \in 0 .. CORE_TICKS - 1 /\ stop_time_val' \in 0 .. CORE_TICKS - 1
        /\ ran' \in Nat
    BY <2>2, TimerTypes
  <2>4. wrong' \in [1 .. MULTITHREAD -> SUBSET ALL_ALGORITHMS_MASK]
    <3>1. wrong' \in [1 .. MULTITHREAD -> {{}, {"list"}, {"matrix", "state"}}]
      BY <1>3 DEF Benchmark
    <3>2. {{}, {"list"}, {"matrix", "state"}} \subseteq SUBSET ALL_ALGORITHMS_MASK
      BY DEF ALL_ALGORITHMS_MASK
    <3> QED BY <3>1, <3>2
  <2> QED BY <1>3, <2>1, <2>3, <2>4 DEF Benchmark, TypeOK, machine
<1>4. CASE Identify
  <2>1. \A crc : KnownRun(crc) \in -1 .. 4
    BY DEF KnownRun
  <2>2. known_id' \in -1 .. 4 /\ total_errors' \in Int
    BY <1>4, <2>1 DEF Identify
  <2> QED BY <1>4, <2>2 DEF Identify, TypeOK, machine, timing
<1>5. CASE Check
  <2>1. Errors \in Nat /\ check_data_types \in Nat
    BY ErrorsCounted, TypesCounted
  <2>2. total_errors' \in Int
    BY <1>5, <2>1 DEF Check, TypeOK
  <2> QED BY <1>5, <2>2 DEF Check, TypeOK, machine, timing
<1>6. CASE Report
  <2>1. total_errors' \in Int
    BY <1>6 DEF Report, Short, TypeOK
  <2>2. printed' \subseteq {"short", "validated", "score", "errors", "unknown"}
    BY <1>6 DEF Report
  <2> QED BY <1>6, <2>1, <2>2 DEF Report, TypeOK, machine, timing
<1>7. CASE UNCHANGED vars
  BY <1>7 DEF vars, machine, timing, TypeOK
<1> QED BY <1>1, <1>2, <1>3, <1>4, <1>5, <1>6, <1>7 DEF Next

\* main of core_main.c: its variables hold what their types say, whatever the command
\* line, the build and the machine.
THEOREM TypeCorrect == Spec => []TypeOK
BY InitTypes, StepTypes, PTL DEF Spec

-------------------------------------------------------------------------------
(* The invariant, one part at a time. *)

LEMMA InitInv == Init => MainInv
<1> SUFFICES ASSUME Init PROVE MainInv
  OBVIOUS
<1>1. pc = "divide" /\ start_time_val = 0 /\ stop_time_val = 0 /\ ran = 0
  BY Zenon DEF Init
<1>2. 0 % CORE_TICKS = 0
  BY InitTypes DEF TypeOK
<1> QED BY <1>1, <1>2 DEF MainInv, Divided, ClockTells, Calibrated, Counted, Elapsed

\* size=size/num_algorithms, and no more is done to the size and the algorithms.
LEMMA StepDivided == TypeOK /\ Divided /\ [Next]_vars => Divided'
<1> SUFFICES ASSUME TypeOK, Divided, [Next]_vars PROVE Divided'
  OBVIOUS
<1> USE DEF CoreResults
<1>r. results0 \in CoreResults
  BY DEF TypeOK
<1>1. CASE DivideMemory
  <2>1. CASE results0.execs = {}
    BY <1>1, <2>1 DEF DivideMemory, Divided
  <2>2. CASE results0.execs # {}
    <3> DEFINE share == results0.total \div Cardinality(results0.execs)
    <3>1. results0' = [results0 EXCEPT !.size = share, !.iterations = IF @ = 0 THEN 1 ELSE @]
      BY <1>1, <2>2 DEF DivideMemory
    <3> HIDE DEF share
    <3>2. results0'.execs = results0.execs /\ results0'.total = results0.total /\ results0'.size = share
      BY <1>r, <3>1
    <3> QED BY <2>2, <3>2 DEF Divided, share
  <2> QED BY <2>1, <2>2
<1>2. CASE Calibrate
  <2>1. PICK n : results0' = [results0 EXCEPT !.iterations = n]
    BY <1>2 DEF Calibrate
  <2>2. results0'.execs = results0.execs /\ results0'.total = results0.total /\ results0'.size = results0.size
    BY <1>r, <2>1
  <2>3. pc = "calibrate"
    BY <1>2 DEF Calibrate
  <2> QED BY <2>2, <2>3 DEF Divided
<1>3. CASE Benchmark \/ Identify \/ Check \/ Report
  BY <1>3 DEF Benchmark, Identify, Check, Report, Divided
<1>4. CASE UNCHANGED vars
  BY <1>4 DEF vars, Divided
<1> QED BY <1>1, <1>2, <1>3, <1>4 DEF Next

\* start_time and stop_time go on from one reading of the counter.
LEMMA StepClock == TypeOK /\ ClockTells /\ [Next]_vars => ClockTells'
<1> SUFFICES ASSUME TypeOK, ClockTells, [Next]_vars PROVE ClockTells'
  OBVIOUS
<1>1. CASE Calibrate \/ Benchmark
  <2>1. PICK ticks \in Nat : Timed(ticks)
    <3>1. CASE Calibrate
      <4>1. results0.iterations \in Nat /\ cost \in Nat
        BY DEF TypeOK, CoreResults
      <4>2. (results0.iterations * 10) * cost \in Nat
        BY <4>1
      <4> QED BY <3>1, <4>2 DEF Calibrate
    <3>2. CASE Benchmark
      <4>1. results0.iterations * cost \in Nat
        BY DEF TypeOK, CoreResults
      <4>2. Durations(results0.iterations * cost) \subseteq Nat
        BY <4>1, DurationsTypes
      <4> QED BY <3>2, <4>2 DEF Benchmark
    <3> QED BY <1>1, <3>1, <3>2
  <2>2. /\ ran' = ticks
        /\ Elapsed(start_time_val', stop_time_val') \in 0 .. ticks
        /\ ticks < CORE_TICKS => Elapsed(start_time_val', stop_time_val') = ticks
    BY <2>1, TimerTypes
  <2>3. CORE_TICKS' = CORE_TICKS
    BY MachineKept
  <2>4. Elapsed(start_time_val', stop_time_val') = Elapsed(start_time_val, stop_time_val)'
    BY <2>3 DEF Elapsed
  <2> QED BY <2>2, <2>3, <2>4 DEF ClockTells
<1>2. CASE DivideMemory \/ Identify \/ Check \/ Report
  BY <1>2 DEF DivideMemory, Identify, Check, Report, timing, machine, ClockTells, Elapsed
<1>3. CASE UNCHANGED vars
  BY <1>3 DEF vars, timing, machine, ClockTells, Elapsed
<1> QED BY <1>1, <1>2, <1>3 DEF Next

\* The rounds of "automatically determine number of iterations" lead to a number that
\* was found from a round of at least a second, if the counter did not turn in it.
LEMMA StepCalibrated == TypeOK /\ Calibrated /\ [Next]_vars => Calibrated'
<1> SUFFICES ASSUME TypeOK, Calibrated, [Next]_vars PROVE Calibrated'
  OBVIOUS
<1> USE DEF CoreResults
<1>r. /\ results0 \in CoreResults /\ cost \in Nat /\ ran \in Nat
      /\ EE_TICKS_PER_SEC \in Nat \ {0} /\ CORE_TICKS \in Nat
  BY ClockAssumption DEF TypeOK
<1>c. cost' = cost /\ CORE_TICKS' = CORE_TICKS
  BY MachineKept
<1>f. FastEnough' <=> FastEnough
  BY <1>c DEF FastEnough
<1>1. CASE DivideMemory
  <2>1. pc = "divide" /\ ran' = ran /\ pc' \in {"trapped", "calibrate", "benchmark"}
    BY <1>1 DEF DivideMemory, timing
  <2>2. pc' = "calibrate" => results0'.iterations = 1
    <3>1. CASE results0.execs = {}
      BY <1>1, <3>1 DEF DivideMemory
    <3>2. CASE results0.execs # {}
      <4> DEFINE share == results0.total \div Cardinality(results0.execs)
      <4>1. results0' = [results0 EXCEPT !.size = share, !.iterations = IF @ = 0 THEN 1 ELSE @]
        BY <1>1, <3>2 DEF DivideMemory
      <4>2. pc' = "calibrate" => results0.iterations = 0
        BY <1>1, <3>2 DEF DivideMemory
      <4> HIDE DEF share
      <4> QED BY <1>r, <4>1, <4>2
    <3> QED BY <3>1, <3>2
  <2> QED BY <1>r, <2>1, <2>2 DEF Calibrated, Automatic
<1>2. CASE Calibrate
  <2> DEFINE iterations == results0.iterations * 10
             work == iterations * cost
             elapsed == Elapsed(start_time_val', stop_time_val')
             secs == time_in_secs(elapsed)
  <2>1. iterations \in Nat /\ work \in Nat /\ Timed(work) /\ pc = "calibrate"
    BY <1>2, <1>r DEF Calibrate
  <2>2. /\ ran' = work /\ elapsed \in Nat
        /\ ran' < CORE_TICKS => elapsed = ran'
    <3> HIDE DEF work
    <3> QED BY <2>1, TimerTypes
  <2>3. /\ secs \in Nat
        /\ secs * EE_TICKS_PER_SEC <= elapsed /\ elapsed < secs * EE_TICKS_PER_SEC + EE_TICKS_PER_SEC
    <3> HIDE DEF elapsed
    <3> QED BY <1>r, <2>2, Quotient DEF time_in_secs
\* The round before was shorter than a second, so this one is shorter than ten, and the
\* first is shorter than 45 on a machine that is fast enough.
  <2>4. ASSUME ran' < CORE_TICKS, FastEnough PROVE ran' < 45 * EE_TICKS_PER_SEC
    <3>1. CASE ran = 0 /\ results0.iterations = 1
      BY <1>r, <2>2, <2>4, <3>1 DEF FastEnough
    <3>2. CASE ran = results0.iterations * cost
      <4>1. ran' = 10 * ran
        BY <1>r, <2>2, <3>2, TenfoldWork
      <4>2. ran < CORE_TICKS
        BY <1>r, <2>4, <4>1
      <4>3. ran < EE_TICKS_PER_SEC
        BY <2>1, <4>2 DEF Calibrated
      <4> QED BY <1>r, <4>1, <4>3
    <3> QED BY <2>1, <3>1, <3>2 DEF Calibrated
  <2>6. CASE secs < 1
    <3>1. results0' = [results0 EXCEPT !.iterations = iterations] /\ pc' = "calibrate"
      BY <1>2, <2>1, <2>6 DEF Calibrate
    <3>2. results0'.iterations = iterations
      BY <1>r, <3>1
    <3>3. secs = 0
      <4> HIDE DEF secs
      <4> QED BY <2>3, <2>6
    <3>4. elapsed < EE_TICKS_PER_SEC
      <4> HIDE DEF secs, elapsed
      <4>1. secs * EE_TICKS_PER_SEC = 0
        BY <1>r, <3>3
      <4>2. elapsed < 0 + EE_TICKS_PER_SEC
        BY <2>3, <4>1, Zenon
      <4> QED BY <1>r, <2>2, <4>2
    <3>5. ran' < CORE_TICKS' => ran' < EE_TICKS_PER_SEC
      <4> HIDE DEF elapsed
      <4> QED BY <1>c, <2>2, <3>4
    <3>6. ran' = results0'.iterations * cost'
      BY <1>c, <2>2, <3>2
    <3> QED BY <3>1, <3>5, <3>6 DEF Calibrated
  <2>7. CASE secs >= 1
    <3> DEFINE found == FinalIterations(iterations, secs)
    <3>1. results0' = [results0 EXCEPT !.iterations = found] /\ pc' = "benchmark"
      BY <1>2, <2>3, <2>7 DEF Calibrate
    <3>2. results0'.iterations = found
      <4> HIDE DEF found
      <4> QED BY <1>r, <3>1
    <3>3. EE_TICKS_PER_SEC <= elapsed
      <4> HIDE DEF secs, elapsed
      <4>1. EE_TICKS_PER_SEC <= secs * EE_TICKS_PER_SEC
        BY <1>r, <2>3, <2>7, AtLeastOnce
      <4>2. PICK whole \in Nat : whole = secs * EE_TICKS_PER_SEC
        BY <1>r, <2>3, <2>7, AtLeastOnce
      <4>3. EE_TICKS_PER_SEC <= whole /\ whole <= elapsed
        BY <2>3, <4>1, <4>2, Zenon
      <4> QED BY <1>r, <2>2, <4>2, <4>3
    <3>4. found * cost = work * (1 + 10 \div secs)
      <4>1. 10 \div secs \in Nat
        <5> HIDE DEF secs
        <5> QED BY <2>3, <2>7, Quotient
      <4>2. 1 + 10 \div secs \in Nat
        BY <4>1
      <4> HIDE DEF secs, iterations
      <4> QED BY <1>r, <2>1, <4>2, ScaledWork DEF FinalIterations
    <3>5. ASSUME ran' < CORE_TICKS'
          PROVE  /\ EE_TICKS_PER_SEC <= ran' /\ (FastEnough' => ran' < 45 * EE_TICKS_PER_SEC)
                 /\ results0'.iterations * cost' = ran' * (1 + 10 \div time_in_secs(ran'))
      <4>1. ran' < CORE_TICKS
        BY <1>c, <3>5
      <4>2. elapsed = ran' /\ secs = time_in_secs(ran')
        <5>1. elapsed = ran'
          BY <2>2, <4>1
        <5> HIDE DEF elapsed
        <5> QED BY <5>1
      <4> HIDE DEF elapsed, secs, found, work, iterations
      <4> QED BY <1>c, <1>f, <2>2, <2>4, <3>2, <3>3, <3>4, <4>1, <4>2
    <3>6. time_in_secs(ran)' = time_in_secs(ran')
      BY DEF time_in_secs
    <3> HIDE DEF elapsed, secs, found, work, iterations
    <3> QED BY <3>1, <3>5, <3>6 DEF Calibrated
  <2> HIDE DEF secs
  <2> QED BY <2>3, <2>6, <2>7
<1>3. CASE Benchmark \/ Identify \/ Check \/ Report
  BY <1>3 DEF Benchmark, Identify, Check, Report, Calibrated
<1>4. CASE UNCHANGED vars
  <2>1. pc' = pc /\ ran' = ran /\ results0' = results0
    BY <1>4 DEF vars, timing
  <2>2. time_in_secs(ran)' = time_in_secs(ran)
    BY <2>1 DEF time_in_secs
  <2>3. Automatic' <=> Automatic
    BY <2>1 DEF Automatic
  <2> QED BY <1>c, <1>f, <2>1, <2>2, <2>3 DEF Calibrated
<1> QED BY <1>1, <1>2, <1>3, <1>4 DEF Next

\* What Report prints of a run whose errors are all in total_errors.
LEMMA ReportIsHonest ==
  ASSUME TypeOK, ClockTells, Counted, Report
  PROVE  HonestVerdict'
<1> DEFINE short == Short(Elapsed(start_time_val, stop_time_val))
<1>1. /\ pc = "report" /\ known_id' = known_id /\ ran' = ran /\ wrong' = wrong /\ sizes' = sizes
      /\ results0' = results0 /\ default_num_contexts' = default_num_contexts
      /\ printed' = {m \in {"short", "validated", "score", "errors", "unknown"} :
                       \/ m = "short" /\ short = 1
                       \/ m = "validated" /\ total_errors + short = 0
                       \/ m = "score" /\ Scored(total_errors + short)
                       \/ m = "errors" /\ total_errors + short > 0
                       \/ m = "unknown" /\ total_errors + short < 0}
  BY DEF Report, timing, machine
<1>t. CORE_TICKS' = CORE_TICKS
  BY DEF Report, machine
<1>2. /\ short \in {0, 1}
      /\ short = 0 => ran >= 10 * EE_TICKS_PER_SEC
      /\ ran >= 10 * EE_TICKS_PER_SEC /\ ran < CORE_TICKS => short = 0
  <2> DEFINE elapsed == Elapsed(start_time_val, stop_time_val)
  <2>1. /\ ran \in Nat /\ EE_TICKS_PER_SEC \in Nat \ {0}
        /\ elapsed \in 0 .. ran /\ (ran < CORE_TICKS => elapsed = ran)
    BY ClockAssumption DEF TypeOK, ClockTells
  <2>2. short = IF time_in_secs(elapsed) < 10 THEN 1 ELSE 0
    BY DEF Short
  <2> HIDE DEF elapsed, short
  <2>3. time_in_secs(elapsed) < 10 <=> elapsed < 10 * EE_TICKS_PER_SEC
    BY <2>1, WithinTenSeconds
  <2>4. short = IF elapsed < 10 * EE_TICKS_PER_SEC THEN 1 ELSE 0
    BY <2>2, <2>3, Zenon
  <2> QED BY <2>1, <2>4
<1>3. known_id >= 0 => total_errors = Errors + check_data_types
  BY <1>1 DEF Counted
<1>4. /\ Errors \in Nat /\ check_data_types \in Nat
      /\ Errors = 0 <=> \A k \in 1 .. default_num_contexts : wrong[k] \intersect results0.execs = {}
      /\ check_data_types = 0 <=> \A t \in DOMAIN Sizes : sizes[t] = Sizes[t]
  BY ErrorsCounted, TypesCounted
<1> HIDE DEF short
<1>5. known_id >= 0 =>
        (total_errors + short = 0 <=> Errors = 0 /\ check_data_types = 0 /\ short = 0)
  BY <1>2, <1>3, <1>4
<1>6. /\ "validated" \in printed' <=> total_errors + short = 0
      /\ "score" \in printed' => total_errors + short = 0 /\ known_id = 3
      /\ "short" \in printed' => short = 1
  BY <1>1 DEF Scored
<1>7. known_id >= 0 =>
        LET Right == /\ \A k \in 1 .. default_num_contexts : wrong[k] \intersect results0.execs = {}
                     /\ \A t \in DOMAIN Sizes : sizes[t] = Sizes[t]
                     /\ ran >= 10 * EE_TICKS_PER_SEC
        IN  /\ "validated" \in printed' => Right
            /\ ran < CORE_TICKS /\ Right => "validated" \in printed'
  BY <1>2, <1>4, <1>5, <1>6
<1>8. "short" \in printed' => ran < 10 * EE_TICKS_PER_SEC \/ ran >= CORE_TICKS
  <2>1. ran \in Nat /\ EE_TICKS_PER_SEC \in Nat /\ CORE_TICKS \in Nat
    BY ClockAssumption DEF TypeOK
  <2> QED BY <1>2, <1>6, <2>1
<1>9. Sizes' = Sizes
  BY <1>1 DEF Sizes
<1> QED BY <1>1, <1>t, <1>6, <1>7, <1>8, <1>9 DEF HonestVerdict

\* The errors are counted from zero, once each.
LEMMA StepCounted == TypeOK /\ ClockTells /\ Counted /\ [Next]_vars => Counted'
<1> SUFFICES ASSUME TypeOK, ClockTells, Counted, [Next]_vars PROVE Counted'
  OBVIOUS
<1>1. CASE DivideMemory \/ Calibrate \/ Benchmark
  <2>1. pc' \in {"trapped", "calibrate", "benchmark", "identify"}
    BY <1>1 DEF DivideMemory, Calibrate, Benchmark
  <2> QED BY <2>1 DEF Counted
<1>2. CASE Identify
  <2>1. known_id' \in -1 .. 4
    BY StepTypes DEF TypeOK
  <2> QED BY <1>2, <2>1 DEF Identify, Counted
<1>3. CASE Check
  <2>1. Errors' = Errors /\ check_data_types' = check_data_types /\ pc' = "report"
    BY <1>3 DEF Check, Errors, check_data_types, Sizes, machine
  <2>2. known_id' >= 0 => total_errors' = 0 + Errors + check_data_types
    BY <1>3 DEF Check, Counted
  <2>3. Errors \in Nat /\ check_data_types \in Nat
    BY ErrorsCounted, TypesCounted
  <2> QED BY <2>1, <2>2, <2>3 DEF Counted
<1>4. CASE Report
  <2>1. pc' = "done"
    BY <1>4 DEF Report
  <2>2. HonestVerdict'
    BY <1>4, ReportIsHonest
  <2> QED BY <2>1, <2>2 DEF Counted
<1>5. CASE UNCHANGED vars
  <2>1. (Errors' = Errors) /\ (check_data_types' = check_data_types) /\ (HonestVerdict' <=> HonestVerdict)
    BY <1>5 DEF vars, machine, timing, Errors, check_data_types, Sizes, HonestVerdict
  <2> QED BY <1>5, <2>1 DEF vars, timing, Counted
<1> QED BY <1>1, <1>2, <1>3, <1>4, <1>5 DEF Next

\* core_main.c, from the division of the memory to the verdict: the memory of an
\* algorithm is its share, the clock tells the time up to a whole turn and never more than
\* went by, the calibration finds its number of iterations from a round of at least a
\* second unless the counter turned in it, and the errors are those of the contexts and
\* the data types.
THEOREM MainSafe == Spec => []MainInv
<1>1. TypeOK /\ MainInv /\ [Next]_vars => MainInv'
  BY StepDivided, StepClock, StepCalibrated, StepCounted DEF MainInv
<1> QED BY <1>1, InitInv, TypeCorrect, PTL DEF Spec

-------------------------------------------------------------------------------
(* What follows from it. *)

\* The memory main gives to the workloads (results[i].memblock): for every size of
\* the memory, selection of algorithms and number of contexts, no workload of a context
\* writes to another's memory or outside of what there is, if the matrices' alignment
\* has room and a list has a cell of its own.
THEOREM BlocksAreApart == Spec => []BlocksApart
<1>1. TypeOK /\ MainInv => BlocksApart
  BY DividedIsApart DEF MainInv
<1> QED BY <1>1, TypeCorrect, MainSafe, PTL

\* The verdict at the end of main: a known run is validated only if all checksums are
\* right, the data types are right and it took ten seconds, whatever the tick counter
\* holds; all of that is enough, and no run of ten seconds is called short, if the counter
\* did not turn in the run proper.
THEOREM VerdictIsHonest == Spec => [](pc = "done" => HonestVerdict)
<1>1. MainInv => (pc = "done" => HonestVerdict)
  BY DEF MainInv, Counted
<1> QED BY <1>1, MainSafe, PTL

\* "Automatically determined such that the benchmark will run between 10 to 100 secs":
\* 1+10/divisor gives that for every machine that needs less than 45 seconds for ten
\* iterations, every rate of the clock and every range of its counter, if the counter did
\* not turn in the round the number was found from; in the run proper it may.
THEOREM RunsTenToHundredSecs == Spec => [][TenToHundredSecs]_vars
<1>1. ASSUME TypeOK, MainInv, [Next]_vars PROVE [TenToHundredSecs]_vars
  <2> SUFFICES ASSUME pc = "benchmark", pc' = "identify", default_num_contexts' > 0,
                      Automatic, FastEnough, ran < CORE_TICKS
               PROVE  ran' >= 10 * EE_TICKS_PER_SEC /\ ran' <= 100 * EE_TICKS_PER_SEC
    BY DEF TenToHundredSecs
  <2>1. Benchmark
    BY <1>1 DEF Next, DivideMemory, Calibrate, Identify, Check, Report, vars
  <2> DEFINE w == ran * (1 + 10 \div time_in_secs(ran))
  <2>2. /\ EE_TICKS_PER_SEC <= ran /\ ran < 45 * EE_TICKS_PER_SEC
        /\ results0.iterations * cost = w
    BY <1>1 DEF MainInv, Calibrated
  <2>3. EE_TICKS_PER_SEC \in Nat \ {0} /\ ran \in Nat
    BY <1>1, ClockAssumption DEF TypeOK
  <2>4. w \in Nat /\ w >= 11 * EE_TICKS_PER_SEC /\ w <= 50 * EE_TICKS_PER_SEC
    BY <2>2, <2>3, ElevenSecondsOrMore DEF time_in_secs
  <2> HIDE DEF w
  <2>5. ran' \in Durations(w)
    <3>1. Capped(default_num_contexts) # 0
      BY <2>1 DEF Benchmark
    <3> QED BY <2>1, <2>2, <3>1 DEF Benchmark, Timed
  <2>6. ran' \in {w - w \div 12, w, 2 * w}
    BY <2>5 DEF Durations
  <2> QED BY <2>3, <2>4, <2>6
<1> QED BY <1>1, TypeCorrect, MainSafe, PTL DEF Spec

-------------------------------------------------------------------------------
(* The search for the number of iterations ends. *)

\* A bound for the steps main still has to take: each round of the calibration that is
\* not the last takes up more of the second it has to stay within.
StepsLeft ==
  CASE pc = "divide"    -> EE_TICKS_PER_SEC + 5
    [] pc = "calibrate" -> EE_TICKS_PER_SEC - ran + 4
    [] pc = "benchmark" -> 4
    [] pc = "identify"  -> 3
    [] pc = "check"     -> 2
    [] pc = "report"    -> 1
    [] OTHER            -> 0

\* "iterations*=10" starts from one iteration, and main traps only in the division.
Searching ==
  /\ pc = "calibrate" => results0.iterations >= 1
  /\ pc = "trapped" => results0.execs = {}

\* The search works where an iteration takes some time, as long as no round outlasts the
\* counter and is taken for less than a second.
Steady == cost > 0 /\ ~Misread

LEMMA StepSearching == TypeOK /\ Searching /\ [Next]_vars => Searching'
<1> SUFFICES ASSUME TypeOK, Searching, [Next]_vars PROVE Searching'
  OBVIOUS
<1>r. results0 \in CoreResults
  BY DEF TypeOK
<1>1. CASE DivideMemory
  <2>1. CASE results0.execs = {}
    BY <1>1, <2>1 DEF DivideMemory, Searching
  <2>2. CASE results0.execs # {}
    <3> DEFINE share == results0.total \div Cardinality(results0.execs)
    <3>1. results0' = [results0 EXCEPT !.size = share, !.iterations = IF @ = 0 THEN 1 ELSE @]
      BY <1>1, <2>2 DEF DivideMemory
    <3>2. pc' = IF results0.iterations = 0 THEN "calibrate" ELSE "benchmark"
      BY <1>1, <2>2 DEF DivideMemory
    <3> HIDE DEF share
    <3>3. pc' = "calibrate" => results0'.iterations = 1
      BY <1>r, <3>1, <3>2 DEF CoreResults
    <3> QED BY <3>2, <3>3 DEF Searching
  <2> QED BY <2>1, <2>2
<1>2. CASE Calibrate
  <2>1. pc = "calibrate" /\ pc' \in {"calibrate", "benchmark"}
    BY <1>2 DEF Calibrate
  <2>2. pc' = "calibrate" => results0' = [results0 EXCEPT !.iterations = results0.iterations * 10]
    BY <1>2 DEF Calibrate
  <2>3. pc' = "calibrate" => results0'.iterations >= 1
    <3>1. results0.iterations \in Nat /\ results0.iterations >= 1
      BY <1>r, <2>1 DEF CoreResults, Searching
    <3> QED BY <1>r, <2>2, <3>1 DEF CoreResults
  <2> QED BY <2>1, <2>3 DEF Searching
<1>3. CASE Benchmark \/ Identify \/ Check \/ Report
  BY <1>3 DEF Benchmark, Identify, Check, Report, Searching
<1>4. CASE UNCHANGED vars
  BY <1>4 DEF vars, Searching
<1> QED BY <1>1, <1>2, <1>3, <1>4 DEF Next

\* Of the steps there is a bound, and none is left where main has come to an end.
LEMMA StepsLeftBounded ==
  ASSUME TypeOK, Calibrated, Steady
  PROVE  /\ StepsLeft \in 0 .. EE_TICKS_PER_SEC + 5
         /\ StepsLeft = 0 <=> pc \in {"trapped", "done"}
         /\ pc = "calibrate" => StepsLeft > 4
<1>1. EE_TICKS_PER_SEC \in Nat \ {0} /\ ran \in Nat
  BY ClockAssumption DEF TypeOK
<1>2. pc = "calibrate" => ran < EE_TICKS_PER_SEC
  <2>1. pc = "calibrate" => ran < CORE_TICKS
    BY DEF Steady, Misread, TypeOK
  <2> QED BY <2>1 DEF Calibrated
<1>3. pc \in {"divide", "trapped", "calibrate", "benchmark", "identify", "check", "report", "done"}
  BY DEF TypeOK
<1> QED BY ONLY <1>1, <1>2, <1>3 DEF StepsLeft

\* Every step of main leaves fewer.
LEMMA StepsGetFewer ==
  ASSUME TypeOK, Calibrated, Calibrated', TypeOK', Searching, Steady, Steady', Next
  PROVE  StepsLeft' < StepsLeft
<1>1. EE_TICKS_PER_SEC \in Nat \ {0} /\ ran \in Nat /\ ran' \in Nat /\ cost \in Nat
      /\ results0.iterations \in Nat
  BY ClockAssumption DEF TypeOK, CoreResults
<1>3. CASE DivideMemory
  <2>1. pc = "divide" /\ pc' \in {"trapped", "calibrate", "benchmark"} /\ ran' = ran
    BY <1>3 DEF DivideMemory, timing
  <2> QED BY <1>1, <2>1 DEF StepsLeft
<1>4. CASE Calibrate
  <2>1. pc = "calibrate" /\ pc' \in {"calibrate", "benchmark"}
    BY <1>4 DEF Calibrate
  <2>2. CASE pc' = "benchmark"
    BY <2>1, <2>2, StepsLeftBounded DEF StepsLeft
  <2>3. CASE pc' = "calibrate"
    <3>1. ran' = (results0.iterations * 10) * cost
      BY <1>4 DEF Calibrate, Timed
    <3>2. ran' = 10 * (results0.iterations * cost)
      BY <1>1, <3>1, TenfoldWork
    <3>3. PICK work \in Nat : work = results0.iterations * cost
      BY <1>1, TenfoldWork
    <3>4. work > 0
      <4>1. results0.iterations >= 1 /\ cost > 0
        BY <2>1 DEF Searching, Steady
      <4>2. cost <= results0.iterations * cost
        BY <1>1, <4>1, AtLeastOnce
      <4> QED BY <1>1, <3>3, <4>1, <4>2
    <3>5. ran = 0 \/ ran = work
      BY <2>1, <3>3 DEF Calibrated, Steady
    <3>6. ran < ran' /\ ran' < EE_TICKS_PER_SEC
      <4>1. ran' < EE_TICKS_PER_SEC
        <5>1. (ran < CORE_TICKS)'
          BY <2>3 DEF Steady, Misread, TypeOK
        <5> QED BY <2>3, <5>1 DEF Calibrated
      <4>2. ran' = 10 * work
        BY <3>2, <3>3
      <4> QED BY ONLY <1>1, <3>4, <3>5, <4>1, <4>2
    <3>7. StepsLeft = EE_TICKS_PER_SEC - ran + 4 /\ StepsLeft' = EE_TICKS_PER_SEC - ran' + 4
      BY <2>1, <2>3 DEF StepsLeft
    <3>8. EE_TICKS_PER_SEC - ran' + 4 < EE_TICKS_PER_SEC - ran + 4
      <4>1. \A s, a, b \in Nat : a < b => s - b + 4 < s - a + 4
        OBVIOUS
      <4> QED BY <1>1, <3>6, <4>1
    <3> QED BY <3>7, <3>8, Zenon
  <2> QED BY <2>1, <2>2, <2>3
<1>5. CASE Benchmark
  BY <1>5 DEF Benchmark, StepsLeft
<1>6. CASE Identify
  BY <1>6 DEF Identify, StepsLeft
<1>7. CASE Check
  BY <1>7 DEF Check, StepsLeft
<1>8. CASE Report
  BY <1>8 DEF Report, StepsLeft
<1> QED BY <1>3, <1>4, <1>5, <1>6, <1>7, <1>8 DEF Next

\* "while (secs_passed < (secs_ret)1)": on a machine that takes some time for an
\* iteration, every step of main, each round of the search among them, brings down a
\* number that is 0 only where main has come to its end, until a round outlasts the
\* counter and is taken for less than a second; the end is the verdict unless no algorithm
\* is selected, where the division traps.
THEOREM SearchEnds ==
  Spec => /\ [](Steady => /\ StepsLeft \in 0 .. EE_TICKS_PER_SEC + 5
                          /\ StepsLeft = 0 <=> pc = "done" \/ (pc = "trapped" /\ results0.execs = {}))
          /\ [][Steady /\ Steady' => StepsLeft' < StepsLeft]_vars
<1>1. Init => Searching
  BY Zenon DEF Init, Searching
<1>2. Spec => []Searching
  BY <1>1, StepSearching, TypeCorrect, PTL DEF Spec
<1>3. TypeOK /\ MainInv /\ Searching =>
        (Steady => /\ StepsLeft \in 0 .. EE_TICKS_PER_SEC + 5
                   /\ StepsLeft = 0 <=> pc = "done" \/ (pc = "trapped" /\ results0.execs = {}))
  BY StepsLeftBounded DEF MainInv, Searching
<1>4. /\ TypeOK /\ TypeOK' /\ MainInv /\ MainInv' /\ Searching /\ [Next]_vars
      => [Steady /\ Steady' => StepsLeft' < StepsLeft]_vars
  BY StepsGetFewer DEF MainInv
<1> QED BY <1>2, <1>3, <1>4, TypeCorrect, MainSafe, PTL DEF Spec

-------------------------------------------------------------------------------
(* The verdict on seeds that are not known. *)

\* total_errors starts from -1 and goes up by one for each data type of another size,
\* and none of the checksums is looked at.
CountedFromMinusOne ==
  /\ pc = "check" /\ known_id < 0 => total_errors = -1
  /\ pc = "report" /\ known_id < 0 => total_errors = check_data_types - 1

\* The errors of a run with unknown seeds: the data types, and less than ten seconds.
OwnErrors == check_data_types + IF ran < 10 * EE_TICKS_PER_SEC THEN 1 ELSE 0
UnknownVerdict ==
  /\ "unknown" \in printed <=> OwnErrors = 0
  /\ "validated" \in printed <=> OwnErrors = 1
  /\ "errors" \in printed <=> OwnErrors > 1
  /\ "score" \notin printed
UnknownJudged == pc = "done" /\ known_id < 0 /\ ran < CORE_TICKS => UnknownVerdict
LEMMA StepCountedFromMinusOne ==
  TypeOK /\ CountedFromMinusOne /\ [Next]_vars => CountedFromMinusOne'
<1> SUFFICES ASSUME TypeOK, CountedFromMinusOne, [Next]_vars PROVE CountedFromMinusOne'
  OBVIOUS
<1>1. CASE DivideMemory \/ Calibrate \/ Benchmark \/ Report
  <2>1. pc' \in {"trapped", "calibrate", "benchmark", "identify", "done"}
    BY <1>1 DEF DivideMemory, Calibrate, Benchmark, Report
  <2> QED BY <2>1 DEF CountedFromMinusOne
<1>2. CASE Identify
  BY <1>2 DEF Identify, CountedFromMinusOne
<1>3. CASE Check
  <2>1. check_data_types' = check_data_types /\ pc' = "report" /\ known_id' = known_id
    BY <1>3 DEF Check, check_data_types, Sizes, machine
  <2>2. known_id \in -1 .. 4 /\ check_data_types \in Nat
    BY TypesCounted DEF TypeOK
  <2>3. known_id < 0 => total_errors' = -1 + 0 + check_data_types
    BY <1>3, <2>2 DEF Check, CountedFromMinusOne
  <2> QED BY <2>1, <2>2, <2>3 DEF CountedFromMinusOne
<1>4. CASE UNCHANGED vars
  <2>1. check_data_types' = check_data_types
    BY <1>4 DEF vars, machine, check_data_types, Sizes
  <2> QED BY <1>4, <2>1 DEF vars, CountedFromMinusOne
<1> QED BY <1>1, <1>2, <1>3, <1>4 DEF Next

\* What Report makes of them.
LEMMA ReportOnUnknown ==
  ASSUME TypeOK, ClockTells, CountedFromMinusOne, Report, known_id < 0, ran < CORE_TICKS
  PROVE  UnknownVerdict'
<1> DEFINE short == Short(Elapsed(start_time_val, stop_time_val))
           errors == total_errors + short
<1>1. /\ pc = "report" /\ known_id' = known_id /\ ran' = ran /\ sizes' = sizes
      /\ printed' = {m \in {"short", "validated", "score", "errors", "unknown"} :
                       \/ m = "short" /\ short = 1
                       \/ m = "validated" /\ errors = 0
                       \/ m = "score" /\ Scored(errors)
                       \/ m = "errors" /\ errors > 0
                       \/ m = "unknown" /\ errors < 0}
  BY DEF Report, timing, machine
<1>2. short = IF ran < 10 * EE_TICKS_PER_SEC THEN 1 ELSE 0
  <2>1. short = IF time_in_secs(ran) < 10 THEN 1 ELSE 0
    <3>1. Elapsed(start_time_val, stop_time_val) = ran
      BY DEF ClockTells
    <3> QED BY <3>1 DEF Short
  <2>2. time_in_secs(ran) < 10 <=> ran < 10 * EE_TICKS_PER_SEC
    BY WithinTenSeconds DEF TypeOK
  <2> QED BY <2>1, <2>2
<1>3. total_errors = check_data_types - 1 /\ check_data_types \in Nat
  BY <1>1, TypesCounted DEF CountedFromMinusOne
<1>4. OwnErrors' = OwnErrors
  BY <1>1 DEF OwnErrors, check_data_types, Sizes
<1>5. OwnErrors \in Nat /\ errors = OwnErrors - 1
  <2>1. OwnErrors = check_data_types + short
    BY <1>2 DEF OwnErrors
  <2>2. short \in {0, 1}
    BY <1>2
  <2> HIDE DEF short
  <2> QED BY <1>3, <2>1, <2>2
<1>6. ~Scored(errors)
  BY DEF Scored
<1> HIDE DEF short, errors
<1>7. /\ errors = 0 <=> OwnErrors = 1
      /\ errors > 0 <=> OwnErrors > 1
      /\ errors < 0 <=> OwnErrors = 0
  BY <1>5
<1> QED BY <1>1, <1>4, <1>6, <1>7 DEF UnknownVerdict

\* core_main.c, "total_errors=-1": where the seeds are not known, main says so, and that it
\* cannot validate, only if the data types are right and the run took ten seconds; with
\* exactly one error of these it says that the operation is validated, and with more it
\* reports errors.  Such a run is never scored.
THEOREM UnknownSeedsVerdict == Spec => []UnknownJudged
<1>1. Init => CountedFromMinusOne /\ UnknownJudged
  <2>1. Init => pc = "divide"
    BY Zenon DEF Init
  <2> QED BY <2>1 DEF CountedFromMinusOne, UnknownJudged
<1>2. Spec => []CountedFromMinusOne
  BY <1>1, StepCountedFromMinusOne, TypeCorrect, PTL DEF Spec
<1>3. TypeOK /\ MainInv /\ CountedFromMinusOne /\ UnknownJudged /\ [Next]_vars => UnknownJudged'
  <2> SUFFICES ASSUME TypeOK, MainInv, CountedFromMinusOne, UnknownJudged, [Next]_vars,
                      pc' = "done", known_id' < 0, ran' < CORE_TICKS'
               PROVE  UnknownVerdict'
    BY DEF UnknownJudged
  <2>1. CASE Report
    BY <2>1, ReportOnUnknown DEF Report, timing, machine, MainInv
  <2>2. CASE DivideMemory \/ Calibrate \/ Benchmark \/ Identify \/ Check
    BY <2>2 DEF DivideMemory, Calibrate, Benchmark, Identify, Check
  <2>3. CASE UNCHANGED vars
    <3>1. UnknownVerdict
      BY <2>3 DEF vars, timing, machine, UnknownJudged
    <3>2. OwnErrors' = OwnErrors /\ printed' = printed
      BY <2>3 DEF vars, timing, machine, OwnErrors, check_data_types, Sizes
    <3> QED BY <3>1, <3>2 DEF UnknownVerdict
  <2> QED BY <2>1, <2>2, <2>3 DEF Next
<1> QED BY <1>1, <1>2, <1>3, TypeCorrect, MainSafe, PTL DEF Spec
=============================================================================
