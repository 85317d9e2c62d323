----------------------------- MODULE MCCoreMain -----------------------------
(***************************************************************************)
(* CoreMain for TLC: a second is 100 ticks, and ten iterations take from a *)
(* tenth of a second to 45 seconds.  The counter of the bare-metal port    *)
(* turns every 4.29 seconds, that of the linux port after all runs.        *)
(***************************************************************************)
EXTENDS CoreMain

\* The word for n.
Decimal(n) ==
  LET digits[k \in 0 .. n] == IF k < 10 THEN <<48 + k>> ELSE Append(digits[k \div 10], 48 + (k % 10))
  IN  digits[n]
Words(numbers) == [i \in DOMAIN numbers |-> Decimal(numbers[i])]

\* Words of up to two characters: -, 0, 1, a, x, K, M; and 0x66, 0x3415, -0x3a, 12xM, 64K.
ShortWords == UNION {[1 .. n -> {45, 48, 49, 97, 120, 75, 77}] : n \in 0 .. 2}
LongWords  == {<<48, 120, 54, 54>>, <<48, 120, 51, 52, 49, 53>>, <<45, 48, 120, 51, 97>>,
               <<49, 50, 120, 77>>, <<54, 52, 75>>}
\* M3, M0, M-1.
Leading == {<<77, 51>>, <<77, 48>>, <<77, 45, 49>>}

\* The known runs, other seeds, and a choice of algorithms, one of them that there is not.
Runs == {Words(<<1>>), Words(<<0>>), Words(<<8, 8, 8, 0, 0, 0, 1200>>), Words(<<0, 0, 102, 0, 7, 0, 6000>>),
         Words(<<1, 0, 0, 0, 0, 0, 6000>>), Words(<<5, 5, 102, 0>>), Words(<<0, 0, 102, 0, 1, 0, 666>>),
         Words(<<0, 0, 102, 0, 8>>), Words(<<0, 0, 102, 10>>)}
\* Sizes of the memory of a context.
MemorySizes == 300 .. 330 \union 600 .. 620
MCCommandLines ==
  {<<w>> : w \in ShortWords \union LongWords}
    \union Runs \union {<<m>> \o r : m \in Leading, r \in Runs}
    \union {Words(<<5, 5, 5, 10, mask, 0, n>>) : mask \in {3, 6, 7}, n \in MemorySizes}
MCBuilds == [flags : {"VALIDATION_RUN", "PERFORMANCE_RUN", "none"}, iterations : {0, 1, 2}, size : {1200, 2000}]

RightSizes == [ee_u8 |-> 1, ee_u16 |-> 2, ee_s16 |-> 2, ee_s32 |-> 4, ee_u32 |-> 4, ee_ptr_int |-> 4, pointer |-> 4]
\* With ee_s32 a long of a 64-bit machine.
LongSizes == [RightSizes EXCEPT !.ee_s32 = 8, !.ee_ptr_int = 8, !.pointer = 8]
Wide == 12000
Turn == 429
\* An iteration of the bare-metal machines takes one tick, so that the search ends within
\* a turn, nearly half a second, so that a round outlasts one, or six seconds.
MCMachines ==
  {[seeds |-> "SEED_ARG", cost |-> t[1], ticks |-> Wide, base |-> t[2], sizes |-> t[3]] :
     t \in {<<1, 0, RightSizes>>, <<9, 1, RightSizes>>, <<35, 6, RightSizes>>, <<450, 0, RightSizes>>,
            <<110, 0, LongSizes>>, <<450, 1, LongSizes>>, <<1, 6, LongSizes>>}}
  \union
  {[seeds |-> "SEED_VOLATILE", cost |-> c, ticks |-> Turn, base |-> 0, sizes |-> RightSizes] : c \in {1, 45, 600}}
=============================================================================
