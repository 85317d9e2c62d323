-------------------------------- MODULE Seeds --------------------------------
(***************************************************************************)
(* How a run gets its numbers: parseval and get_seed_args (core_util.c),   *)
(* the argument M<n> that portable_init takes away (core_portme.c of       *)
(* linux), and the widths in which main keeps them (core_main.c).  A word  *)
(* is a sequence of character codes.                                       *)
(***************************************************************************)
EXTENDS SequencesExt, CTypes

CONSTANT MULTITHREAD

MINUS == 45  \* '-'
EX    == 120 \* 'x'
KILO  == 75  \* 'K'
MEGA  == 77  \* 'M'
IsDecimal(c) == c \in 48 .. 57
IsHex(c)     == IsDecimal(c) \/ c \in 97 .. 102

\* Fault: a letter counts from 0.
DigitOfA(c) == IF IsDecimal(c) THEN c - 48 ELSE c - 97
Digit(c)    == IF IsDecimal(c) THEN c - 48 ELSE 10 + c - 97

\* The two loops over digits: the value and where valstring is left, which is at the
\* first character that is no digit.
ReadDigits(s, from, hexmode) ==
  LET base == IF hexmode THEN 16 ELSE 10
      IsDigit(c) == IF hexmode THEN IsHex(c) ELSE IsDecimal(c)
      end == CHOOSE k \in from .. Len(s) + 1 :
               /\ \A j \in from .. k - 1 : IsDigit(s[j])
               /\ k <= Len(s) => ~IsDigit(s[k])
      retval[k \in from .. end] == IF k = from THEN 0 ELSE retval[k - 1] * base + Digit(s[k - 1])
  IN  <<retval[end], end>>

\* The whole of parseval, the word without its terminating zero.
parseval(s) ==
  LET At(k)   == IF k <= Len(s) THEN s[k] ELSE 0
      sign    == IF At(1) = MINUS THEN 1 ELSE 0
      hexmode == At(sign + 1) = 48 /\ At(sign + 2) = EX
      read    == ReadDigits(s, IF hexmode THEN sign + 3 ELSE sign + 1, hexmode)
      scale   == CASE At(read[2]) = KILO -> 1024
                   [] At(read[2]) = MEGA -> 1024 * 1024
                   [] OTHER              -> 1
  IN  (IF sign = 1 THEN -1 ELSE 1) * read[1] * scale

\* get_seed_args(i, argc, argv), of the words behind the name of the program.
get_seed_args(i, argv) == IF Len(argv) >= i THEN parseval(argv[i]) ELSE 0
get_seed_32(i, argv)   == get_seed_args(i, argv)
get_seed(i, argv)      == ee_s16(get_seed_args(i, argv))

HasContexts(argv) == argv # <<>> /\ argv[1] # <<>> /\ argv[1][1] = MEGA
\* "Shift args since first arg is directed to the portable part."
Shifted(argv) == IF HasContexts(argv) THEN Tail(argv) ELSE argv

\* default_num_contexts, an ee_u32.
contexts(argv) ==
  IF ~HasContexts(argv) THEN MULTITHREAD
  ELSE LET n == parseval(Tail(argv[1]))
       IN  IF n < 0 \/ n > MULTITHREAD THEN MULTITHREAD ELSE n
=============================================================================
