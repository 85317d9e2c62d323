------------------------------ MODULE CoreMain ------------------------------
(***************************************************************************)
(* main of CoreMark (core_main.c) around the workloads: the seeds and      *)
(* their defaults, the memory of the algorithms, the automatic number of   *)
(* iterations, the timed run, and the verdict.  The seeds come from the    *)
(* command line (SEED_ARG, the linux port) or from variables               *)
(* (SEED_VOLATILE, the riscv-baremetal port mp4 builds).  What iterate     *)
(* computes is abstracted to which checksums differ from the known ones of *)
(* the run.  The clock counts ticks and turns over at what a tick counter  *)
(* holds: with 10^9 ticks a second and 32 bits, as the bare-metal port     *)
(* has it, that is every 4.29 seconds; the linux port's does not turn.     *)
(***************************************************************************)
EXTENDS Seeds, FiniteSetsExt

CONSTANTS TOTAL_DATA_SIZE,
          CommandLines,      \* the words main may be given
          Builds,            \* builds with seeds in variables: the run asked for, ITERATIONS
                             \* and TOTAL_DATA_SIZE
          Machines,          \* where the seeds come from (seeds), the ticks an iteration takes
                             \* (cost), the values a tick counter has (ticks), the address of
                             \* the memory of the first context (base) and the sizes of the
                             \* data types
          EE_TICKS_PER_SEC,
          HAS_FLOAT

\* A machine has pointers of 32 or 64 bits.  A word is characters, and nobody asks for
\* less than no iterations.
ASSUME MachineAssumption ==
  \A m \in Machines :
    m.cost \in Nat /\ m.ticks \in Nat \ {0} /\ m.base \in Nat /\ m.sizes.pointer \in {4, 8}
ASSUME ClockAssumption == EE_TICKS_PER_SEC \in Nat \ {0}
ASSUME SizesAssumption ==
  /\ MULTITHREAD \in Nat \ {0}
  /\ TOTAL_DATA_SIZE \in Nat
  /\ \A b \in Builds :
       /\ b.size \in Nat /\ b.iterations \in Nat
       /\ b.flags \in {"VALIDATION_RUN", "PERFORMANCE_RUN", "PROFILE_RUN", "none"}
ASSUME CommandLineAssumption ==
  \A words \in CommandLines : words \in Seq(Seq(Int)) /\ get_seed_32(4, Shifted(words)) \in Nat

ALL_ALGORITHMS_MASK == {"list", "matrix", "state"}

VARIABLES pc,
          argv,                 \* the words, until main has read them
          results0,             \* results[0]: seeds, execs, iterations, memory and what
                                \* an algorithm gets of it
          default_num_contexts,
          cost,                 \* ticks of an iteration on this machine
          CORE_TICKS,           \* values of its tick counter
          start_time_val, stop_time_val,
          ran,                  \* ticks the last timed part really took
          wrong,                \* the algorithms of a context with other than the known checksums
          sizes,                \* of the data types in this build
          known_id, total_errors,
          printed
timing == <<start_time_val, stop_time_val, ran>>
machine == <<cost, CORE_TICKS, sizes>>
vars == <<pc, argv, results0, default_num_contexts, machine, timing, wrong, known_id,
          total_errors, printed>>

\* What a build without arguments is run for, and its seeds.
seed_volatile(run, iterations) ==
  CASE run = "VALIDATION_RUN"  -> <<13333, 13333, 102, iterations, 0>>
    [] run = "PERFORMANCE_RUN" -> <<0, 0, 102, iterations, 0>>
    [] run = "PROFILE_RUN"     -> <<8, 8, 8, iterations, 0>>
RunOf(flags, size) == IF flags # "none" THEN flags ELSE IF size = 1200 THEN "PROFILE_RUN" ELSE "PERFORMANCE_RUN"
get_seed_volatile(i, build) ==
  IF i \in 1 .. 5 THEN seed_volatile(RunOf(build.flags, build.size), build.iterations)[i] ELSE 0

\* The seven numbers of a run: numbers 4 and 5 keep 32 bits.
SeedsOfWords(words) ==
  [i \in 1 .. 7 |-> IF i \in {4, 5} THEN get_seed_32(i, words) ELSE get_seed(i, words)]

\* The default values "based on one seed only".
Defaults(s1, s2, s3) ==
  IF s2 = 0 /\ s3 = 0 /\ s1 = 0 THEN <<0, 0, 102>>
  ELSE IF s2 = 0 /\ s3 = 0 /\ s1 = 1 THEN <<13333, 13333, 102>>
  ELSE <<s1, s2, s3>>

\* The algorithms of a mask: ID_LIST, ID_MATRIX, ID_STATE and bits that mean nothing.
Selected(mask) ==
  IF mask = 0 THEN ALL_ALGORITHMS_MASK
  ELSE {a \in ALL_ALGORITHMS_MASK : Bit(mask, CASE a = "list" -> 1 [] a = "matrix" -> 2 [] a = "state" -> 4) = 1}

\* results[0] from the seeds, in memory of so many bytes.
Results(seed, total, base) ==
  LET s == Defaults(seed[1], seed[2], seed[3])
  IN  [seed1 |-> s[1], seed2 |-> s[2], seed3 |-> s[3], iterations |-> seed[4],
       execs |-> Selected(seed[5]), memblock |-> base,
       total |-> IF seed[7] # 0 THEN seed[7] ELSE total, size |-> 0]

Init ==
  /\ pc = "divide"
  /\ \E m \in Machines :
       /\ cost = m.cost /\ CORE_TICKS = m.ticks /\ sizes = m.sizes
       /\ \/ /\ m.seeds = "SEED_ARG" /\ argv \in CommandLines
             /\ results0 = Results(SeedsOfWords(Shifted(argv)), TOTAL_DATA_SIZE, m.base)
             /\ default_num_contexts = contexts(argv)
          \/ /\ m.seeds = "SEED_VOLATILE" /\ argv = <<>>
             /\ \E b \in Builds : results0 = Results([i \in 1 .. 7 |-> get_seed_volatile(i, b)], b.size, m.base)
             /\ default_num_contexts = 1
  /\ start_time_val = 0 /\ stop_time_val = 0 /\ ran = 0
  /\ wrong = [k \in 1 .. MULTITHREAD |-> {}]
  /\ known_id = -1 /\ total_errors = 0 /\ printed = {}

\* Fault: the algorithms that are not selected are counted, too.
MemblockOfAll(ctx, a) ==
  results0.memblock + ctx * results0.total
    + results0.size * CASE a = "list" -> 0 [] a = "matrix" -> 1 [] a = "state" -> 2
\* results[ctx].memblock[i+1], of an algorithm that has j selected ones before it, the
\* memory of the contexts lying side by side.
Memblock(ctx, a) ==
  LET before == CASE a = "list" -> {} [] a = "matrix" -> {"list"} [] a = "state" -> {"list", "matrix"}
  IN  results0.memblock + ctx * results0.total
        + results0.size * Cardinality(before \intersect results0.execs)

\* The bytes that core_list_init, core_init_matrix and core_init_state use.
Extent(ctx, a) ==
  LET from == Memblock(ctx, a)
  IN  CASE a = "list"   -> [from |-> from, to |-> from + ListSize(results0.size) * (2 * sizes.pointer + 4)]
        [] a = "matrix" -> LET m == MatrixLayout(results0.size, from) IN [from |-> m.A, to |-> m.end]
        [] a = "state"  -> [from |-> from, to |-> from + results0.size]

\* size=size/num_algorithms, which traps when none is selected.
DivideMemory ==
  /\ pc = "divide"
  /\ IF results0.execs = {} THEN pc' = "trapped" /\ UNCHANGED results0
     ELSE /\ results0' = [results0 EXCEPT !.size = results0.total \div Cardinality(results0.execs),
                                          !.iterations = IF @ = 0 THEN 1 ELSE @]
          /\ pc' = IF results0.iterations = 0 THEN "calibrate" ELSE "benchmark"
  /\ argv' = <<>>
  /\ UNCHANGED <<default_num_contexts, machine, timing, wrong, known_id, total_errors, printed>>

\* start_time, the work, stop_time: the counter goes on where it was.
Timed(ticks) ==
  /\ start_time_val' = stop_time_val
  /\ stop_time_val' = (stop_time_val + ticks) % CORE_TICKS
  /\ ran' = ticks
\* get_time(), of the values that Timed leaves.
Elapsed(start, stop) == (stop - start) % CORE_TICKS
\* (ee_u32)time_in_secs(): a test for less than a whole number of seconds is the
\* same with and without a fraction.
time_in_secs(ticks) == ticks \div EE_TICKS_PER_SEC

\* iterations*=1+10/divisor.
FinalIterations(iterations, secs) == iterations * (1 + 10 \div secs)

\* Fault: iterations=10 for iterations*=10.
CalibrateTen ==
  /\ pc = "calibrate"
  /\ Timed(10 * cost)
  /\ LET secs == time_in_secs(Elapsed(start_time_val', stop_time_val'))
     IN  IF secs < 1
         THEN pc' = pc /\ results0' = [results0 EXCEPT !.iterations = 10]
         ELSE /\ pc' = "benchmark"
              /\ results0' = [results0 EXCEPT !.iterations = FinalIterations(10, secs)]
  /\ UNCHANGED <<argv, default_num_contexts, machine, wrong, known_id, total_errors, printed>>
\* A round of "automatically determine number of iterations", and the number of
\* iterations set when it took at least a second.
Calibrate ==
  /\ pc = "calibrate"
  /\ LET iterations == results0.iterations * 10
     IN  /\ Timed(iterations * cost)
         /\ LET secs == time_in_secs(Elapsed(start_time_val', stop_time_val'))
            IN  IF secs < 1
                THEN pc' = pc /\ results0' = [results0 EXCEPT !.iterations = iterations]
                ELSE /\ pc' = "benchmark"
                     /\ results0' = [results0 EXCEPT !.iterations = FinalIterations(iterations, secs)]
  /\ UNCHANGED <<argv, default_num_contexts, machine, wrong, known_id, total_errors, printed>>

\* The run proper may be a twelfth faster than the calibration, or half as fast.
Durations(work) == {work - work \div 12, work, 2 * work}

\* "if (default_num_contexts>MULTITHREAD)": no more contexts than there is memory for.
Capped(n) == Min({n, MULTITHREAD})

\* Contexts run in parallel; no more than MULTITHREAD, maybe none.
Benchmark ==
  LET running == Capped(default_num_contexts)
  IN  /\ pc = "benchmark"
      /\ default_num_contexts' = running
      /\ \E ticks \in IF running = 0 THEN {0} ELSE Durations(results0.iterations * cost) : Timed(ticks)
      /\ wrong' \in [1 .. MULTITHREAD -> {{}, {"list"}, {"matrix", "state"}}]
      /\ \A k \in 1 .. MULTITHREAD : k > running => wrong'[k] = {}
      /\ pc' = "identify"
      /\ UNCHANGED <<argv, results0, machine, known_id, total_errors, printed>>

\* "Get a function of the input to report."
seedcrc == crc16(results0.size, crc16(results0.seed3, crc16(results0.seed2, crc16(results0.seed1, 0))))
KnownRun(crc) == CASE crc = 35330 -> 0  [] crc = 31493 -> 1 [] crc = 20143 -> 2
                   [] crc = 59893 -> 3  [] crc = 6386 -> 4  [] OTHER -> -1
Identify ==
  /\ pc = "identify"
  /\ known_id' = KnownRun(seedcrc)
  /\ total_errors' = IF known_id' < 0 THEN -1 ELSE 0
  /\ pc' = "check"
  /\ UNCHANGED <<argv, results0, default_num_contexts, machine, timing, wrong, printed>>

\* Fault: only the first context is looked at.
ErrorsOfFirst == Cardinality(wrong[1] \intersect results0.execs)
\* The sum of results[i].err over the contexts that ran.
Errors == Cardinality({e \in (1 .. default_num_contexts) \X results0.execs : e[2] \in wrong[e[1]]})
\* What the sizes should be, and how many are not.
Sizes == [ee_u8 |-> 1, ee_u16 |-> 2, ee_s16 |-> 2, ee_s32 |-> 4, ee_u32 |-> 4, ee_ptr_int |-> sizes.pointer]
check_data_types == Cardinality({t \in DOMAIN Sizes : sizes[t] # Sizes[t]})

\* The checksums of known seeds, and the data types.
Check ==
  /\ pc = "check"
  /\ total_errors' = total_errors + (IF known_id >= 0 THEN Errors ELSE 0) + check_data_types
  /\ pc' = "report"
  /\ UNCHANGED <<argv, results0, default_num_contexts, machine, timing, wrong, known_id, printed>>

\* "Must execute for at least 10 secs for a valid result."
Short(total_time) == IF time_in_secs(total_time) < 10 THEN 1 ELSE 0
Scored(errors) == HAS_FLOAT /\ errors = 0 /\ known_id = 3
Report ==
  LET short  == Short(Elapsed(start_time_val, stop_time_val))
      errors == total_errors + short
  IN  /\ pc = "report"
      /\ total_errors' = errors
      /\ printed' = {m \in {"short", "validated", "score", "errors", "unknown"} :
                       \/ m = "short" /\ short = 1
                       \/ m = "validated" /\ errors = 0
                       \/ m = "score" /\ Scored(errors)
                       \/ m = "errors" /\ errors > 0
                       \/ m = "unknown" /\ errors < 0}
      /\ pc' = "done"
      /\ UNCHANGED <<argv, results0, default_num_contexts, machine, timing, wrong, known_id>>

Next == DivideMemory \/ Calibrate \/ Benchmark \/ Identify \/ Check \/ Report
Spec == Init /\ [][Next]_vars /\ WF_vars(Next)

-----------------------------------------------------------------------------
\* The number a word stands for: a sign, the longest run of digits of its base,
\* most significant first, and the unit behind them.
Sign(t)     == IF t # <<>> /\ t[1] = MINUS THEN <<MINUS>> ELSE <<>>
Prefix(t)   == IF IsPrefix(Sign(t) \o <<48, EX>>, t) THEN <<48, EX>> ELSE <<>>
Rest(t)     == SubSeq(t, Len(Sign(t)) + Len(Prefix(t)) + 1, Len(t))
IsDigit(t, d) == IF Prefix(t) = <<>> THEN d \in 48 .. 57 ELSE d \in 48 .. 57 \union 97 .. 102
Run(t)      == Max({n \in 0 .. Len(Rest(t)) : \A k \in 1 .. n : IsDigit(t, Rest(t)[k])})
Place(t, k) == (IF Prefix(t) = <<>> THEN 10 ELSE 16) ^ (Run(t) - k)
Weight(w)   == CHOOSE d \in 0 .. 15 : w = IF d < 10 THEN 48 + d ELSE 87 + d
Unit(t)     == IF Run(t) = Len(Rest(t)) THEN 1
               ELSE CASE Rest(t)[Run(t) + 1] = KILO -> 2 ^ 10
                      [] Rest(t)[Run(t) + 1] = MEGA -> 2 ^ 20
                      [] OTHER -> 1
Meaning(t) == (IF Sign(t) = <<>> THEN 1 ELSE -1) * Unit(t)
                * MapThenSumSet(LAMBDA k : Place(t, k) * Weight(Rest(t)[k]), 1 .. Run(t))

\* The numbers the words behind M<n> ask for.
Asked(i) ==
  LET given == IF argv[1] # <<>> /\ argv[1][1] = MEGA THEN Tail(argv) ELSE argv
  IN  IF i <= Len(given) THEN Meaning(given[i]) ELSE 0

\* parseval, the shift of the arguments and the casts of main give each seed the
\* number its word stands for, where 16 bits hold them and no default takes their
\* place; contexts asked for in front of the seeds are never more than there are.
SeededAsAsked ==
  pc = "divide" /\ argv # <<>> =>
    LET asked == [i \in 1 .. 3 |-> Asked(i)]
    IN  /\ (\A i \in 1 .. 3 : asked[i] \in -32768 .. 32767) /\ asked \notin {<<0, 0, 0>>, <<1, 0, 0>>} =>
             asked = <<results0.seed1, results0.seed2, results0.seed3>>
        /\ results0.iterations = Asked(4)
        /\ default_num_contexts \in 0 .. MULTITHREAD

\* The alignment of A pushes the matrices out of a block that they fill.
Tight ==
  "matrix" \in results0.execs /\ \E k \in 0 .. MULTITHREAD - 1 :
    LET N == Dimension(results0.size)
    IN  results0.size - 8 * (N * N) < align_mem(Memblock(k, "matrix")) - Memblock(k, "matrix")

\* With less than this a list has no cell, not even for its head, or their number wraps.
Roomy == results0.size >= 60

\* Algorithms and contexts do not write to each other's memory, nor outside of
\* what there is, with 32-bit or 64-bit pointers in the list, unless the matrices
\* fill their block and it is not aligned.
BlocksApart ==
  pc \in {"calibrate", "benchmark"} /\ Roomy /\ ~Tight =>
    LET Uses  == (0 .. MULTITHREAD - 1) \X results0.execs
        e     == [u \in Uses |-> Extent(u[1], u[2])]
    IN  \A u \in Uses :
          /\ e[u].from >= results0.memblock /\ e[u].to <= results0.memblock + MULTITHREAD * results0.total
          /\ \A v \in Uses \ {u} : e[u].to <= e[v].from \/ e[v].to <= e[u].from

\* The comments at the known checksums of the seeds name the seeds and the size.
KnownAsSaid ==
  <<results0.seed1, results0.seed2, results0.seed3, results0.size>> =
    CASE known_id = 0 -> <<0, 0, 102, 2000>>
      [] known_id = 1 -> <<13333, 13333, 102, 2000>>
      [] known_id = 2 -> <<8, 8, 8, 400>>
      [] known_id = 3 -> <<0, 0, 102, 666>>
      [] known_id = 4 -> <<13333, 13333, 102, 666>>

\* A known run is validated only when the checksums of all its contexts are the known
\* ones, the types are right and it took ten seconds, and always then if the counter did
\* not turn; nothing else is scored, and a run of ten seconds is not called short, if the
\* counter did not turn.
HonestVerdict ==
  /\ known_id >= 0 =>
       LET Right == /\ \A k \in 1 .. default_num_contexts : wrong[k] \intersect results0.execs = {}
                    /\ \A t \in DOMAIN Sizes : sizes[t] = Sizes[t]
                    /\ ran >= 10 * EE_TICKS_PER_SEC
       IN  /\ "validated" \in printed => Right
           /\ ran < CORE_TICKS /\ Right => "validated" \in printed
  /\ "score" \in printed => known_id = 3 /\ "validated" \in printed
  /\ "short" \in printed => ran < 10 * EE_TICKS_PER_SEC \/ ran >= CORE_TICKS

\* The verdict is honest, and about the run that was asked for: a run is taken for a
\* known one only if it has its seeds and its size.
VerdictRight ==
  pc = "done" => HonestVerdict /\ (known_id >= 0 => KnownAsSaid)

\* "Must execute for at least 10 secs for a valid result!": that is not said of a run
\* that did.
TenSecsSuffice == "short" \in printed => ran < 10 * EE_TICKS_PER_SEC

\* "Automatically determined such that the benchmark will run between 10 to 100
\* secs", on a machine that is not slower than ten iterations in 45 seconds, if the
\* counter did not turn in the round the number of iterations was found from.
Automatic == ran > 0
FastEnough == 10 * cost < 45 * EE_TICKS_PER_SEC
TenToHundredSecs ==
  pc = "benchmark" /\ pc' = "identify" /\ default_num_contexts' > 0
    /\ Automatic /\ FastEnough /\ ran < CORE_TICKS
  => ran' >= 10 * EE_TICKS_PER_SEC /\ ran' <= 100 * EE_TICKS_PER_SEC

\* A round of the search outlasted the counter and was taken for less than a second.
Misread == pc = "calibrate" /\ ran >= CORE_TICKS

\* The search for the number of iterations ends, and main reaches its verdict unless
\* no algorithm is selected, or the counter turned in a round of the search; and the
\* number it finds is right.
Conclusive ==
  /\ <>(pc = "done" \/ results0.execs = {} \/ Misread)
  /\ [][TenToHundredSecs]_vars

-----------------------------------------------------------------------------
\* The inductive invariant.  The values are what their C types hold; from the division
\* on, the memory of an algorithm is its share of the whole.
CoreResults ==
  [seed1 : Int, seed2 : Int, seed3 : Int, iterations : Nat, memblock : Nat,
   execs : SUBSET ALL_ALGORITHMS_MASK, total : Int, size : Int]
TypeOK ==
  /\ pc \in {"divide", "trapped", "calibrate", "benchmark", "identify", "check", "report", "done"}
  /\ results0 \in CoreResults
  /\ default_num_contexts \in 0 .. MULTITHREAD
  /\ cost \in Nat /\ CORE_TICKS \in Nat \ {0} /\ sizes.pointer \in {4, 8}
  /\ start_time_val \in 0 .. CORE_TICKS - 1 /\ stop_time_val \in 0 .. CORE_TICKS - 1 /\ ran \in Nat
  /\ wrong \in [1 .. MULTITHREAD -> SUBSET ALL_ALGORITHMS_MASK]
  /\ known_id \in -1 .. 4 /\ total_errors \in Int
  /\ printed \subseteq {"short", "validated", "score", "errors", "unknown"}

Divided ==
  pc \notin {"divide", "trapped"} =>
    /\ results0.execs # {}
    /\ results0.size = results0.total \div Cardinality(results0.execs)

\* Up to a whole turn of the counter the clock tells the time that went by, and never
\* more.
ClockTells ==
  LET elapsed == Elapsed(start_time_val, stop_time_val)
  IN  elapsed \in 0 .. ran /\ (ran < CORE_TICKS => elapsed = ran)

\* Up to a turn of the counter the rounds of calibration are each ten times the last, none
\* but the last as long as a second, and the last is what the number of iterations is
\* computed from.
Calibrated ==
  /\ pc = "divide" => ran = 0
  /\ pc = "calibrate" =>
       /\ ran < CORE_TICKS => ran < EE_TICKS_PER_SEC
       /\ (ran = 0 /\ results0.iterations = 1) \/ ran = results0.iterations * cost
  /\ pc = "benchmark" /\ Automatic /\ ran < CORE_TICKS =>
       /\ EE_TICKS_PER_SEC <= ran /\ (FastEnough => ran < 45 * EE_TICKS_PER_SEC)
       /\ results0.iterations * cost = ran * (1 + 10 \div time_in_secs(ran))

\* The errors of a known run are counted, and all of them.
Counted ==
  /\ pc = "check" /\ known_id >= 0 => total_errors = 0
  /\ pc = "report" /\ known_id >= 0 => total_errors = Errors + check_data_types
  /\ pc = "done" => HonestVerdict

MainInv == Divided /\ ClockTells /\ Calibrated /\ Counted
=============================================================================
