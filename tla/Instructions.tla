---------------------------- MODULE Instructions ----------------------------
(* What the pipeline and the sequential machine share: words, registers,    *)
(* instructions by class.  An instruction is decoded into fields once and   *)
(* for all; a class stands for the opcodes that the control ROM treats      *)
(* alike.  Addresses count words, so that pc + 4 is the next address.       *)
EXTENDS Integers

CONSTANTS
  WordCount,     \* words are 0 .. WordCount - 1: values, data and code addresses
  RegisterCount, \* registers are 0 .. RegisterCount - 1
  Programs       \* the programs that may be in memory

Word == 0 .. WordCount - 1
Registers == 0 .. RegisterCount - 1

Jumps == {"jal", "jalr"}
Classes == {"auipc", "lui", "imm", "reg", "load", "store", "br", "csr"} \cup Jumps

\* rd, rs1 and rs2 are fields of the word whatever the class makes of them.
Fields == [fn : {"add", "eq", "ltu"}, rd : Registers, rs1 : Registers, rs2 : Registers, imm : Word, op : Classes]

\* The word that a reset of a stage register leaves: opcode 0, no class.
Bubble == [fn |-> "add", rd |-> 0, rs1 |-> 0, rs2 |-> 0, imm |-> 0, op |-> "none"]

\* The address the program counter starts with, half way up.
StartPc == WordCount \div 2

\* A branch at address 0 would hit the empty entries of the target buffer.
ASSUME ProgramAssumption ==
  /\ WordCount \in Nat \ {0}
  /\ RegisterCount \in Nat \ {0}
  /\ \A p \in Programs : p \in [Word -> Fields] /\ p[0].op # "br"

\* The adders drop their carry.
Plus(a, b) == (a + b) % WordCount

\* The comparisons that are modelled; an "add" compares nothing.
Compare(fn, a, b) == \/ fn = "eq" /\ a = b
                     \/ fn = "ltu" /\ a < b
=============================================================================
