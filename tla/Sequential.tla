----------------------------- MODULE Sequential -----------------------------
(* The instruction set, one instruction at a time, as the RVFI monitor of    *)
(* the test bench states it.  It knows nothing of stages.                   *)
EXTENDS Instructions

VARIABLES program, spc, regs, mem

isaVars == <<program, spc, regs, mem>>

IsaTypeOK ==
  /\ program \in Programs
  /\ spc \in Word
  /\ regs \in [Registers -> Word]
  /\ mem \in [Word -> Word]

IsaInit ==
  /\ program \in Programs
  /\ spc = StartPc
  /\ regs = [r \in Registers |-> 0]
  /\ mem = [a \in Word |-> 0]

Write(r, v) == regs' = [regs EXCEPT ![r] = IF r = 0 THEN 0 ELSE v]

Next4 == spc' = Plus(spc, 1)

Result(i) ==
  LET second == IF i.op = "imm" THEN i.imm ELSE regs[i.rs2]
  IN CASE i.op = "lui" -> i.imm
       [] i.op = "auipc" -> Plus(spc, i.imm)
       [] i.op \in {"imm", "reg"} /\ i.fn = "ltu" -> IF regs[i.rs1] < second THEN 1 ELSE 0
       [] OTHER -> Plus(regs[i.rs1], second)

Compute(i) ==
  /\ i.op \in {"imm", "reg", "lui", "auipc"}
  /\ Write(i.rd, Result(i))
  /\ Next4
  /\ UNCHANGED mem

Load(i) ==
  /\ i.op = "load"
  /\ Write(i.rd, mem[Plus(regs[i.rs1], i.imm)])
  /\ Next4
  /\ UNCHANGED mem

Store(i) ==
  /\ i.op = "store"
  /\ mem' = [mem EXCEPT ![Plus(regs[i.rs1], i.imm)] = regs[i.rs2]]
  /\ Next4
  /\ UNCHANGED regs

Branch(i) ==
  /\ i.op = "br"
  /\ spc' = Plus(spc, IF Compare(i.fn, regs[i.rs1], regs[i.rs2]) THEN i.imm ELSE 1)
  /\ UNCHANGED <<regs, mem>>

Jump(i) ==
  /\ i.op \in Jumps
  /\ spc' = Plus(IF i.op = "jal" THEN spc ELSE regs[i.rs1], i.imm)
  /\ Write(i.rd, Plus(spc, 1))
  /\ UNCHANGED mem

Step ==
  /\ LET i == program[spc] IN Compute(i) \/ Load(i) \/ Store(i) \/ Branch(i) \/ Jump(i)
  /\ UNCHANGED program

IsaSafety == IsaInit /\ [][Step]_isaVars
IsaProgress == WF_isaVars(Step)
=============================================================================
