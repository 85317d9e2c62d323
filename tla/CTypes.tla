------------------------------- MODULE CTypes -------------------------------
(***************************************************************************)
(* What the modules of CoreMark share: the integer types of the port mp4   *)
(* builds, the bit operations its workloads use, the checksum CoreMark     *)
(* folds all of its results into (core_util.c), and what a workload takes  *)
(* of its block of memory.  TLA+ integers have no width, so a definition   *)
(* that stores into a C variable says which of these types it goes         *)
(* through.                                                                *)
(***************************************************************************)
EXTENDS Integers

ee_u8(x)  == x % 256
ee_u16(x) == x % 65536
ee_s16(x) == ((x + 32768) % 65536) - 32768

\* The bit of weight w (a power of two) of x in two's complement, and x with
\* that bit inverted.
Bit(x, w)  == (x \div w) % 2
Flip(x, w) == IF Bit(x, w) = 1 THEN x - w ELSE x + w

\* Exclusive or of two bytes, and of two 16-bit words.
Xor8(a, b) ==
  LET d(w) == w * ((Bit(a, w) + Bit(b, w)) % 2)
  IN  d(1) + d(2) + d(4) + d(8) + d(16) + d(32) + d(64) + d(128)
Xor16(a, b) == Xor8(a, b) + 256 * Xor8(a \div 256, b \div 256)

\* Inclusive or of two bytes.
Or8(a, b) ==
  LET d(w) == IF Bit(a, w) + Bit(b, w) > 0 THEN w ELSE 0
  IN  d(1) + d(2) + d(4) + d(8) + d(16) + d(32) + d(64) + d(128)

\* The remainder of C: it takes the sign of the dividend.
CRem(a, b) == IF a >= 0 THEN a % b ELSE -((-a) % b)

-----------------------------------------------------------------------------

\* One round of crcu8: the lowest bits of data and crc are compared, and crc
\* is shifted right with the polynomial folded in when they differ.
CrcRound(data, crc) ==
  IF data % 2 # crc % 2
  THEN Flip(Flip(crc, 2), 16384) \div 2 + 32768
  ELSE crc \div 2

crcu8(data, crc) ==
  LET round[i \in 0 .. 8, c \in Nat] ==
        IF i = 8 THEN c ELSE round[i + 1, CrcRound(data \div 2^i, c)]
  IN  round[0, crc]

crcu16(newval, crc) ==
  crcu8(ee_u8(newval \div 256), crcu8(ee_u8(newval), crc))

crc16(newval, crc) == crcu16(ee_u16(newval), crc)

crcu32(newval, crc) ==
  crc16(ee_s16(newval \div 65536), crc16(ee_s16(newval), crc))

-----------------------------------------------------------------------------

\* The cells of the list, and its items; each has 16 bytes and its data to itself, so
\* that a list has as many with 32-bit as with 64-bit pointers.
ListSize(blksize) == (blksize \div 20) - 2

\* The dimension core_init_matrix chooses: the last i before i*i*8 reaches
\* blksize.
Dimension(blksize) ==
  CHOOSE n \in 0 .. blksize : n * n * 8 < blksize /\ (n + 1) * (n + 1) * 8 >= blksize

\* align_mem: the next multiple of four, in bytes.
align_mem(x) == 4 + ((x - 1) \div 4) * 4

\* Where core_init_matrix puts A, B and C (byte addresses) in a block at memblk.
MatrixLayout(blksize, memblk) ==
  LET N == Dimension(blksize)
      a == align_mem(memblk)
      b == a + 2 * N * N
      c == align_mem(b + 2 * N * N)
  IN  [A |-> a, B |-> b, C |-> c, end |-> c + 4 * N * N]
=============================================================================
