--------------------------- MODULE SumOfMultiples ---------------------------
(***************************************************************************)
(* The second competition program (comp2.c): the least common multiples of *)
(* the rows of a matrix of pseudo-random numbers, and their weighted sum.  *)
(* A long long is the pair of its bits from 16 on and its low 16 bits; an  *)
(* int is an integer.                                                      *)
(***************************************************************************)
EXTENDS Integers, FiniteSetsExt

N   == 12
M   == 7
INC == 29
MOD == 41

\* nums, row by row.
nums == LET at[i \in 0 .. N * N - 1] == IF i = 0 THEN 60 ELSE (M * at[i - 1] + INC) % MOD
        IN  at

Low == 65536
Long(x)      == [hi |-> x \div Low, lo |-> x % Low]
Plus(x, y)   == [hi |-> x.hi + y.hi + ((x.lo + y.lo) \div Low), lo |-> (x.lo + y.lo) % Low]
Scaled(x, n) == [hi |-> x.hi * n + ((x.lo * n) \div Low), lo |-> (x.lo * n) % Low]
\* What an int parameter takes of a long long.
Narrow(x) == (((x.hi + 32768) % Low) - 32768) * Low + x.lo
EXPECTED == [hi |-> 1180815, lo |-> 24480]

VARIABLES pc,
          row, i,    \* the loops of main and of iter
          curr,      \* iter's
          given,     \* the arguments of gcd
          a, b,      \* its variables
          lcms, sum, status
vars == <<pc, row, i, curr, given, a, b, lcms, sum, status>>

arr(k) == nums[row * N + k]

Init ==
  /\ pc = "iter" /\ row = 0 /\ i = 1 /\ curr = Long(nums[0])
  /\ given = <<0, 0>> /\ a = 0 /\ b = 0
  /\ lcms = [r \in 0 .. N - 1 |-> Long(0)] /\ sum = Long(0) /\ status = "DEFFDEFF"

\* lcm(curr, arr[i]) calls gcd, which first puts the larger number in a.
CallGcd ==
  LET x == Narrow(curr)
      y == arr(i)
  IN  /\ pc = "iter" /\ i < N
      /\ given' = <<x, y>>
      /\ a' = IF x < y THEN y ELSE x
      /\ b' = IF x < y THEN x ELSE y
      /\ pc' = "gcd"
      /\ UNCHANGED <<row, i, curr, lcms, sum, status>>

Euclid ==
  /\ pc = "gcd" /\ a # 0 /\ b # 0
  /\ a' = b /\ b' = a % b
  /\ UNCHANGED <<pc, row, i, curr, given, lcms, sum, status>>

gcd == IF given = <<0, 0>> THEN 1 ELSE IF a # 0 THEN a ELSE b

\* Fault: the product without the division.
Multiply ==
  /\ pc = "gcd" /\ (a = 0 \/ b = 0)
  /\ curr' = Scaled(Long(given[1]), given[2])
  /\ i' = i + 1 /\ pc' = "iter"
  /\ UNCHANGED <<row, given, a, b, lcms, sum, status>>
\* (long long)a * (b / gcd(a, b)).
Lcm ==
  /\ pc = "gcd" /\ (a = 0 \/ b = 0)
  /\ curr' = Scaled(Long(given[1]), given[2] \div gcd)
  /\ i' = i + 1 /\ pc' = "iter"
  /\ UNCHANGED <<row, given, a, b, lcms, sum, status>>

RowDone ==
  /\ pc = "iter" /\ i = N
  /\ lcms' = [lcms EXCEPT ![row] = curr]
  /\ IF row < N - 1 THEN row' = row + 1 /\ i' = 1 /\ curr' = Long(nums[(row + 1) * N]) /\ UNCHANGED pc
     ELSE pc' = "sum" /\ i' = 0 /\ UNCHANGED <<row, curr>>
  /\ UNCHANGED <<given, a, b, sum, status>>

Add ==
  /\ pc = "sum" /\ i < N
  /\ sum' = Plus(sum, Scaled(lcms[i], i + 1))
  /\ i' = i + 1
  /\ UNCHANGED <<pc, row, curr, given, a, b, lcms, status>>

Finish ==
  /\ pc = "sum" /\ i = N
  /\ status' = IF sum = EXPECTED THEN "600D600D" ELSE "0BADC0DE"
  /\ pc' = "done"
  /\ UNCHANGED <<row, i, curr, given, a, b, lcms, sum>>

Next == CallGcd \/ Euclid \/ Lcm \/ RowDone \/ Add \/ Finish
Spec == Init /\ [][Next]_vars

-----------------------------------------------------------------------------
Divides(d, x) == IF d = 0 THEN x = Long(0) ELSE (((x.hi % d) * Low) + x.lo) % d = 0
Primes == {p \in 2 .. 60 : \A d \in 2 .. p - 1 : p % d # 0}
\* The highest power of p that divides a number of the row before the i-th.
PowersOf(p) == {q \in 1 .. 60 : \A r \in Primes \ {p} : q % r # 0}
PowerOf(p) == Max({q \in PowersOf(p) : \E k \in 0 .. i - 1 : arr(k) % q = 0})

\* curr is the least common multiple of the numbers of the row so far: each divides
\* it, and no prime is in it more often than in one of them.  Zero makes it zero.
CurrIsLcm ==
  pc = "iter" =>
    IF \E k \in 0 .. i - 1 : arr(k) = 0 THEN curr = Long(0)
    ELSE /\ \A k \in 0 .. i - 1 : Divides(arr(k), curr)
         /\ \A p \in Primes : ~Divides(p * PowerOf(p), curr)

\* A long long is given to lcm, which takes an int: no value loses bits on the way,
\* although a later one needs more than 32.
NothingNarrowed == pc = "iter" /\ i < N => curr.hi < 32768

\* What the loop of gcd is at has the common divisors of what gcd was given.
DivisorsKept ==
  pc = "gcd" => \A d \in 1 .. 60 : (a % d = 0 /\ b % d = 0) <=> (given[1] % d = 0 /\ given[2] % d = 0)
=============================================================================
