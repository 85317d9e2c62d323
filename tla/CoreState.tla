----------------------------- MODULE CoreState -----------------------------
(***************************************************************************)
(* The state machine workload of CoreMark (core_state.c): a recogniser of  *)
(* numbers, run over a block of comma separated tokens.  A character is    *)
(* its code, because the benchmark corrupts characters with exclusive or;  *)
(* the block is a function from offsets to characters.                     *)
(***************************************************************************)
EXTENDS CTypes, Sequences

NUL == 0
COMMA == 44

NUM_CORE_STATES ==
  <<"START", "INVALID", "S1", "S2", "INT", "FLOAT", "EXPONENT", "SCIENTIFIC">>
CORE_STATE == {NUM_CORE_STATES[i] : i \in DOMAIN NUM_CORE_STATES}

ee_isdigit(c) == c \in 48 .. 57
IsSign(c) == c \in {43, 45}
IsPoint(c) == c = 46
IsExp(c) == c \in {69, 101}

\* Fault: an exponent may follow an integer.
NextStateLax(state, c) ==
  CASE state = "START" /\ ee_isdigit(c)                     -> "INT"
    [] state = "START" /\ IsSign(c)                         -> "S1"
    [] state \in {"START", "S1", "INT"} /\ IsPoint(c)       -> "FLOAT"
    [] state \in {"S1", "INT"} /\ ee_isdigit(c)             -> "INT"
    [] state = "FLOAT" /\ ee_isdigit(c)                     -> "FLOAT"
    [] state \in {"INT", "FLOAT"} /\ IsExp(c)               -> "S2"
    [] state = "S2" /\ IsSign(c)                            -> "EXPONENT"
    [] state \in {"EXPONENT", "SCIENTIFIC"} /\ ee_isdigit(c) -> "SCIENTIFIC"
    [] OTHER                                                -> "INVALID"

\* The switch of core_state_transition: where a character leads.
NextState(state, c) ==
  CASE state = "START" /\ ee_isdigit(c)                     -> "INT"
    [] state = "START" /\ IsSign(c)                         -> "S1"
    [] state \in {"START", "S1", "INT"} /\ IsPoint(c)       -> "FLOAT"
    [] state \in {"S1", "INT"} /\ ee_isdigit(c)             -> "INT"
    [] state = "FLOAT" /\ ee_isdigit(c)                     -> "FLOAT"
    [] state = "FLOAT" /\ IsExp(c)                          -> "S2"
    [] state = "S2" /\ IsSign(c)                            -> "EXPONENT"
    [] state \in {"EXPONENT", "SCIENTIFIC"} /\ ee_isdigit(c) -> "SCIENTIFIC"
    [] OTHER                                                -> "INVALID"

\* The counters of transition_count that the same step increments.  A step
\* that leaves SCIENTIFIC counts as INVALID, and one that leaves START for
\* INVALID counts as both.
Counted(state, c) ==
  LET to == NextState(state, c) IN
  CASE state = "START" -> {"START"} \cup (IF to = "INVALID" THEN {to} ELSE {})
    [] state \in {"S1", "S2", "EXPONENT"} -> {state}
    [] state \in {"INT", "FLOAT"} -> IF to = state THEN {} ELSE {state}
    [] state = "SCIENTIFIC" -> IF to = state THEN {} ELSE {"INVALID"}

Counters == [CORE_STATE -> Nat]
NoCounts == [s \in CORE_STATE |-> 0]

\* The character at offset p; past the block there is nothing to scan.
CharAt(bytes, p) == IF p \in DOMAIN bytes THEN bytes[p] ELSE NUL

-----------------------------------------------------------------------------

\* core_state_transition: scan one token from p on; the result carries the
\* updated instruction pointer, the final state and the transition counts.
core_state_transition(bytes, p, track) ==
  LET scan[q \in Nat, state \in CORE_STATE, count \in Counters] ==
        LET c == CharAt(bytes, q) IN
        IF c = NUL \/ state = "INVALID" THEN [p |-> q, state |-> state, track |-> count]
        ELSE IF c = COMMA THEN [p |-> q + 1, state |-> state, track |-> count]
        ELSE scan[q + 1, NextState(state, c),
                  [s \in CORE_STATE |-> count[s] + (IF s \in Counted(state, c) THEN 1 ELSE 0)]]
  IN  scan[p, "START", track]

\* "Insert some corruption": every step-th byte that is not a comma.
Corrupt(bytes, seed, step) ==
  [i \in DOMAIN bytes |-> IF i % step = 0 /\ bytes[i] # COMMA
                          THEN Xor8(bytes[i], ee_u8(seed)) ELSE bytes[i]]

\* Fault: the commas are not passed over.
UndoAll(bytes, seed, step) ==
  [i \in DOMAIN bytes |-> IF i % step = 0 THEN Xor8(bytes[i], ee_u8(seed)) ELSE bytes[i]]
\* "Undo corruption is seed1 and seed2 are equal": the same loop once more.
Undo(bytes, seed, step) == Corrupt(bytes, seed, step)

\* while (*p!=0): scan token after token, counting final states and transitions.
ScanAll(bytes, final, track) ==
  LET scan[p \in Nat, f \in Counters, t \in Counters] ==
        IF CharAt(bytes, p) = NUL THEN [final |-> f, track |-> t]
        ELSE LET r == core_state_transition(bytes, p, t)
             IN  scan[r.p, [f EXCEPT ![r.state] = @ + 1], r.track]
  IN  scan[0, final, track]

\* The counters folded into the checksum, state by state.
CountsCrc(final, track, crc) ==
  LET n == Len(NUM_CORE_STATES)
      fold[i \in 1 .. n + 1, c \in Nat] ==
        IF i > n THEN c
        ELSE fold[i + 1, crcu32(track[NUM_CORE_STATES[i]], crcu32(final[NUM_CORE_STATES[i]], c))]
  IN  fold[1, crc]

core_bench_state(bytes, seed1, seed2, step, crc) ==
  LET first     == ScanAll(bytes, NoCounts, NoCounts)
      corrupted == Corrupt(bytes, seed1, step)
      second    == ScanAll(corrupted, first.final, first.track)
  IN  [bytes |-> Undo(corrupted, seed2, step),
       crc   |-> CountsCrc(second.final, second.track, crc)]

-----------------------------------------------------------------------------
intpat == << <<53, 48, 49, 50>>, <<49, 50, 51, 52>>, <<45, 56, 55, 52>>, <<43, 49, 50, 50>> >>
floatpat == << <<51, 53, 46, 53, 52, 52, 48, 48>>, <<46, 49, 50, 51, 52, 53, 48, 48>>,
               <<45, 49, 49, 48, 46, 55, 48, 48>>, <<43, 48, 46, 54, 52, 52, 48, 48>> >>
scipat == << <<53, 46, 53, 48, 48, 101, 43, 51>>, <<45, 46, 49, 50, 51, 101, 45, 50>>,
             <<45, 56, 55, 101, 43, 56, 51, 50>>, <<43, 48, 46, 54, 101, 45, 49, 50>> >>
errpat == << <<84, 48, 46, 51, 101, 45, 49, 70>>, <<45, 84, 46, 84, 43, 43, 84, 113>>,
             <<49, 84, 51, 46, 52, 101, 52, 122>>, <<51, 52, 46, 48, 101, 45, 84, 94>> >>

\* The switch of core_init_state: the pattern a seed selects.
PatternOf(seed) ==
  LET n == ((seed \div 8) % 4) + 1 IN
  CASE seed % 8 \in 0 .. 2 -> intpat[n]
    [] seed % 8 \in 3 .. 4 -> floatpat[n]
    [] seed % 8 \in 5 .. 6 -> scipat[n]
    [] seed % 8 = 7        -> errpat[n]

\* The loop of core_init_state: the text written so far, the pattern selected
\* in the last round, and the seed.  size is the block size less one.
FillTokens(size, seed) ==
  LET fill[text \in Seq(Nat), buf \in Seq(Nat), s \in Int] ==
        IF Len(text) + Len(buf) + 1 >= size THEN text
        ELSE fill[IF buf = <<>> THEN text ELSE text \o buf \o <<COMMA>>,
                  PatternOf(ee_s16(s + 1)), ee_s16(s + 1)]
  IN  fill[<<>>, <<>>, seed]

core_init_state(size, seed) ==
  LET text == FillTokens(size - 1, seed)
  IN  [i \in 0 .. size - 1 |-> IF i < Len(text) THEN text[i + 1] ELSE NUL]
=============================================================================
