----------------------------- MODULE LineTypes -----------------------------
(***************************************************************************)
(* The vocabulary the memory-side modules share: a line of BURST_LEN beats *)
(* (four 64-bit beats of a 256-bit line in the code) and an address, which *)
(* is a line and an offset inside it.                                      *)
(***************************************************************************)
EXTENDS Naturals

CONSTANTS Lines,        \* the cache lines of the address space
          Words,        \* what one beat can carry
          BURST_LEN     \* beats of one line

ASSUME BurstAssumption == BURST_LEN \in Nat /\ BURST_LEN > 1
ASSUME WordsAssumption == Words # {}
ASSUME LinesAssumption == Lines # {}

Beats == 0 .. BURST_LEN - 1
LineValue == [Beats -> Words]
Addr == [line : Lines, off : Beats]

AnyAddr == CHOOSE a \in Addr : TRUE      \* on a port that carries no request
=============================================================================
