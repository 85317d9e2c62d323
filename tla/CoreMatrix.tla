----------------------------- MODULE CoreMatrix -----------------------------
(***************************************************************************)
(* The matrix workload of CoreMark (core_matrix.c).  A matrix of dimension *)
(* N is a function from 0 .. N*N-1, as the code indexes it.  A and B hold  *)
(* 16-bit values (MATDAT), C 32-bit results (MATRES).                      *)
(***************************************************************************)
EXTENDS CTypes, Sequences

Elements(N) == 0 .. N * N - 1

\* Sum of term[k] for k below n.
SumBelow(n, term) ==
  LET sum[k \in 0 .. n, acc \in Int] == IF k = n THEN acc ELSE sum[k + 1, acc + term[k]]
  IN  sum[0, 0]

\* Bits from .. from+to-1 of x, the shift being arithmetic.
bit_extract(x, from, to) == (x \div 2^from) % 2^to

\* 0xf000 | x, as a 16-bit value.
matrix_big(x) == ee_s16(61440 + (ee_u16(x) % 4096))

matrix_mul_const(N, A, val) == [e \in Elements(N) |-> A[e] * val]

matrix_add_const(N, A, val) == [e \in Elements(N) |-> ee_s16(A[e] + val)]

\* The product fills the first N elements of C and leaves the others.
matrix_mul_vect(N, C, A, B) ==
  [e \in Elements(N) |->
     IF e < N THEN SumBelow(N, [j \in 0 .. N - 1 |-> A[e * N + j] * B[j]]) ELSE C[e]]

matrix_mul_matrix(N, A, B) ==
  [e \in Elements(N) |->
     SumBelow(N, [k \in 0 .. N - 1 |-> A[(e \div N) * N + k] * B[(k * N) + (e % N)]])]

matrix_mul_matrix_bitextract(N, A, B) ==
  [e \in Elements(N) |->
     SumBelow(N, [k \in 0 .. N - 1 |->
       LET tmp == A[(e \div N) * N + k] * B[(k * N) + (e % N)]
       IN  bit_extract(tmp, 2, 4) * bit_extract(tmp, 5, 7)])]

\* One value that depends on every element: the accumulator tmp starts over
\* when it passes clipval.
matrix_sum(N, C, clipval) ==
  LET sum[e \in 0 .. N * N, tmp \in Int, prev \in Int, ret \in Int] ==
        IF e = N * N THEN ret
        ELSE LET cur == C[e] IN
             IF tmp + cur > clipval
             THEN sum[e + 1, 0, cur, ee_s16(ret + 10)]
             ELSE sum[e + 1, tmp + cur, cur, ee_s16(ret + (IF cur > prev THEN 1 ELSE 0))]
  IN  sum[0, 0, 0, 0]

\* The checksum matrix_test folds its four products of A and B into.
MatrixCrc(N, A, B, val) ==
  LET clipval == matrix_big(val)
      C1 == matrix_mul_const(N, A, val)
      C2 == matrix_mul_vect(N, C1, A, B)
      C3 == matrix_mul_matrix(N, A, B)
      C4 == matrix_mul_matrix_bitextract(N, A, B)
      Folded(C, crc) == crc16(matrix_sum(N, C, clipval), crc)
  IN  ee_s16(Folded(C4, Folded(C3, Folded(C2, Folded(C1, 0)))))

\* matrix_test: A is changed, used by the four products and changed back.
matrix_test(N, A, B, val) ==
  LET A1 == matrix_add_const(N, A, val)
  IN  [A |-> matrix_add_const(N, A1, -val), ret |-> MatrixCrc(N, A1, B, val)]

core_bench_matrix(mat, seed, crc) ==
  LET t == matrix_test(mat.N, mat.A, mat.B, ee_s16(seed))
  IN  [mat |-> [mat EXCEPT !.A = t.A], crc |-> crc16(t.ret, crc)]

-----------------------------------------------------------------------------
\* core_init_matrix: the contents of A and B; order is one more than the index.
core_init_matrix(blksize, seed) ==
  LET N == Dimension(blksize)
      next(s, order) == CRem(order * s, 65536)
      val(s, order)  == ee_s16(s + order)
      \* elements below e filled; s is the running seed
      fill[e \in Nat, s \in Int, A \in Seq(Int), B \in Seq(Int)] ==
        IF e = N * N THEN [A |-> A, B |-> B]
        ELSE LET s2 == next(s, e + 1)
                 b  == val(s2, e + 1)
             IN  fill[e + 1, s2, Append(A, ee_s16(b + e + 1) % 256), Append(B, b)]
      f == fill[0, IF seed = 0 THEN 1 ELSE seed, <<>>, <<>>]
  IN  [N |-> N,
       A |-> [e \in Elements(N) |-> f.A[e + 1]],
       B |-> [e \in Elements(N) |-> f.B[e + 1]]]
=============================================================================
