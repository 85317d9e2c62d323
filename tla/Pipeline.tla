------------------------------ MODULE Pipeline ------------------------------
(* cpu/datapath.sv with its hazard and forwarding units: five stages, one    *)
(* step per clock edge.  The caches are two response bits per edge and a     *)
(* data memory that is read and written in the cycle of the response; the    *)
(* direction predictor is free to say anything of a branch.                  *)
EXTENDS BranchTargetBuffer

VARIABLES
  program, \* the instruction memory; no program stores into itself
  pc,      \* PC
  if_id, id_ex, ex_mem, mem_wb,
  data,    \* the register file
  dmem     \* what the data port reads and writes

stages == <<pc, if_id, id_ex, ex_mem, mem_wb>>
vars == <<program, stages, data, dmem, btbVars>>

-----------------------------------------------------------------------------
(* Control words: control_rom.sv by class. *)

load_regfile(i) == i.op \in {"auipc", "lui", "imm", "reg", "load", "csr"} \cup Jumps
mem_read(i) == i.op \in {"load", "csr"}
mem_write(i) == i.op = "store"
alumux1_pc(i) == i.op \in {"auipc", "br", "jal"}
alumux2_imm(i) == i.op \notin {"reg", "lui", "none"}
cmpmux_imm(i) == i.op = "imm"
exdatamux_br_en(i) == i.op \in {"imm", "reg"} /\ i.fn = "ltu"
regfilemux_mem(i) == i.op \in {"load", "csr"}

-----------------------------------------------------------------------------
(* Stage registers; a reset clears every field. *)

IfId == [pc : Word, instr : Fields \cup {Bubble}, ismiss : BOOLEAN, predict : BOOLEAN]
IdEx == [pc : Word, instr : Fields \cup {Bubble}, ismiss : BOOLEAN, predict : BOOLEAN,
         rs1_out : Word, rs2_out : Word]
ExMem == [pc : Word, instr : Fields \cup {Bubble}, ismiss : BOOLEAN, predict : BOOLEAN,
          ex_data_out : Word, alu_out : Word, rs2_out : Word, br_en : BOOLEAN]
MemWb == [instr : Fields \cup {Bubble}, ex_data_out : Word, mem_rdata : Word]

IfIdReset == [pc |-> 0, instr |-> Bubble, ismiss |-> FALSE, predict |-> FALSE]
IdExReset == [pc |-> 0, instr |-> Bubble, ismiss |-> FALSE, predict |-> FALSE, rs1_out |-> 0, rs2_out |-> 0]
ExMemReset == [pc |-> 0, instr |-> Bubble, ismiss |-> FALSE, predict |-> FALSE,
               ex_data_out |-> 0, alu_out |-> 0, rs2_out |-> 0, br_en |-> FALSE]
MemWbReset == [instr |-> Bubble, ex_data_out |-> 0, mem_rdata |-> 0]

Init ==
  /\ program \in Programs
  /\ pc = StartPc
  /\ if_id = IfIdReset /\ id_ex = IdExReset /\ ex_mem = ExMemReset /\ mem_wb = MemWbReset
  /\ data = [r \in Registers |-> 0]
  /\ dmem = [a \in Word |-> 0]
  /\ BtbInit

-----------------------------------------------------------------------------
(* WB and the register file, which shows the value being written. *)

rd_data_in == IF regfilemux_mem(mem_wb.instr) THEN mem_wb.mem_rdata ELSE mem_wb.ex_data_out
Writing(r) == load_regfile(mem_wb.instr) /\ mem_wb.instr.rd = r /\ r # 0
RegfileOut(r) == IF r = 0 THEN 0 ELSE IF Writing(r) THEN rd_data_in ELSE data[r]
RegfileEdge == data' = [r \in Registers |-> IF Writing(r) THEN rd_data_in ELSE data[r]]

-----------------------------------------------------------------------------
(* MEM *)

data_read == mem_read(ex_mem.instr)
data_write == mem_write(ex_mem.instr)

\* The port answers a store by taking it; held by a stall, it takes it again.
DataPortEdge(data_resp) ==
  dmem' = IF data_write /\ data_resp THEN [dmem EXCEPT ![ex_mem.ex_data_out] = ex_mem.rs2_out] ELSE dmem

ex_mem_bren == \/ ex_mem.instr.op = "br" /\ ex_mem.br_en
               \/ ex_mem.instr.op \in Jumps

MissedTaken == ex_mem.ismiss /\ ex_mem_bren
NotTaken == ~ex_mem.ismiss /\ ~ex_mem_bren /\ ex_mem.predict
NotPredicted == ~ex_mem.ismiss /\ ~ex_mem.predict /\ ex_mem_bren
\* The stage behind a jump holds what was fetched after it.
WrongTarget == ex_mem.instr.op \in Jumps /\ id_ex.pc # ex_mem.alu_out

branch_rst == MissedTaken \/ NotTaken \/ NotPredicted \/ WrongTarget
RedirectPc == IF ~MissedTaken /\ NotTaken THEN Plus(ex_mem.pc, 1) ELSE ex_mem.alu_out

MemWbIn == [instr |-> ex_mem.instr, ex_data_out |-> ex_mem.ex_data_out,
            mem_rdata |-> IF data_read THEN dmem[ex_mem.ex_data_out] ELSE 0]

-----------------------------------------------------------------------------
(* EX: forwarding.sv, then the multiplexers. *)

\* Fault: the older value wins.
ForwardOldest(rs, rs_out) ==
  IF rs # 0 /\ load_regfile(mem_wb.instr) /\ mem_wb.instr.rd = rs THEN rd_data_in
  ELSE IF rs # 0 /\ load_regfile(ex_mem.instr) /\ ex_mem.instr.rd = rs THEN ex_mem.ex_data_out
  ELSE rs_out

\* Fault: register zero is forwarded.
ForwardZero(rs, rs_out) ==
  IF load_regfile(ex_mem.instr) /\ ex_mem.instr.rd = rs THEN ex_mem.ex_data_out
  ELSE IF load_regfile(mem_wb.instr) /\ mem_wb.instr.rd = rs THEN rd_data_in
  ELSE rs_out

Forward(rs, rs_out) ==
  IF rs # 0 /\ load_regfile(ex_mem.instr) /\ ex_mem.instr.rd = rs THEN ex_mem.ex_data_out
  ELSE IF rs # 0 /\ load_regfile(mem_wb.instr) /\ mem_wb.instr.rd = rs THEN rd_data_in
  ELSE rs_out

rs1_out_forward == Forward(id_ex.instr.rs1, id_ex.rs1_out)
rs2_out_forward == Forward(id_ex.instr.rs2, id_ex.rs2_out)

alu_out == Plus(IF alumux1_pc(id_ex.instr) THEN id_ex.pc ELSE rs1_out_forward,
                IF alumux2_imm(id_ex.instr) THEN id_ex.instr.imm ELSE rs2_out_forward)
br_en == Compare(id_ex.instr.fn, rs1_out_forward,
                 IF cmpmux_imm(id_ex.instr) THEN id_ex.instr.imm ELSE rs2_out_forward)
ex_data_out == CASE exdatamux_br_en(id_ex.instr) -> IF br_en THEN 1 ELSE 0
                 [] id_ex.instr.op = "lui" -> id_ex.instr.imm
                 [] id_ex.instr.op \in Jumps -> Plus(id_ex.pc, 1)
                 [] OTHER -> alu_out

ExMemIn == [pc |-> id_ex.pc, instr |-> id_ex.instr, ismiss |-> id_ex.ismiss, predict |-> id_ex.predict,
            ex_data_out |-> ex_data_out, alu_out |-> alu_out, rs2_out |-> rs2_out_forward, br_en |-> br_en]

-----------------------------------------------------------------------------
(* ID: the register file and hazard_detection.sv. *)

IdExIn == [pc |-> if_id.pc, instr |-> if_id.instr, ismiss |-> if_id.ismiss, predict |-> if_id.predict,
           rs1_out |-> RegfileOut(if_id.instr.rs1), rs2_out |-> RegfileOut(if_id.instr.rs2)]

sr1_used == if_id.instr.op \notin {"auipc", "lui", "jal"}
sr2_used == if_id.instr.op \notin {"load", "imm"} /\ sr1_used

\* Fault: every instruction that writes a register is taken for a load.
LoadUseAny ==
  /\ load_regfile(id_ex.instr)
  /\ id_ex.instr.rd # 0
  /\ \/ id_ex.instr.rd = if_id.instr.rs1 /\ sr1_used
     \/ id_ex.instr.rd = if_id.instr.rs2 /\ sr2_used

\* Fault: the load is looked for in the register of its own stage.
LoadUseOfItself ==
  /\ if_id.instr.op = "load"
  /\ if_id.instr.rd # 0
  /\ \/ if_id.instr.rd = if_id.instr.rs1 /\ sr1_used
     \/ if_id.instr.rd = if_id.instr.rs2 /\ sr2_used

LoadUse ==
  /\ id_ex.instr.op = "load"
  /\ id_ex.instr.rd # 0
  /\ \/ id_ex.instr.rd = if_id.instr.rs1 /\ sr1_used
     \/ id_ex.instr.rd = if_id.instr.rs2 /\ sr2_used

-----------------------------------------------------------------------------
(* IF: dir is what the direction predictor says unless it sees a jump. *)

predict(dir) == program[pc].op \in Jumps \/ dir
PredictedPc(dir) == IF predict(dir) THEN BTB_out(pc) ELSE Plus(pc, 1)
IfIdIn(dir) == [pc |-> pc, instr |-> program[pc], ismiss |-> isMiss(pc), predict |-> predict(dir)]

-----------------------------------------------------------------------------
(* One edge. *)

pipeline_stall(instr_resp, data_resp) == ~instr_resp \/ (~data_resp /\ (data_read \/ data_write))

Stalled == UNCHANGED stages

Flush ==
  /\ branch_rst
  /\ pc' = RedirectPc
  /\ if_id' = IfIdReset /\ id_ex' = IdExReset /\ ex_mem' = ExMemReset
  /\ mem_wb' = MemWbIn

InsertBubble ==
  /\ ~branch_rst /\ LoadUse
  /\ UNCHANGED <<pc, if_id>>
  /\ id_ex' = IdExReset
  /\ ex_mem' = ExMemIn
  /\ mem_wb' = MemWbIn

Advance(dir) ==
  /\ ~branch_rst /\ ~LoadUse
  /\ pc' = PredictedPc(dir)
  /\ if_id' = IfIdIn(dir)
  /\ id_ex' = IdExIn
  /\ ex_mem' = ExMemIn
  /\ mem_wb' = MemWbIn

Edge(instr_resp, data_resp) ==
  /\ IF pipeline_stall(instr_resp, data_resp) THEN Stalled
     ELSE Flush \/ InsertBubble \/ \E dir \in BOOLEAN : Advance(dir)
  /\ RegfileEdge
  /\ DataPortEdge(data_resp)
  /\ \E evict \in Entries : BtbEdge(ex_mem, ex_mem_bren, evict)
  /\ UNCHANGED program

Next == \E instr_resp \in BOOLEAN, data_resp \in BOOLEAN : Edge(instr_resp, data_resp)

\* The clock ticks, and both caches answer in one cycle again and again.
Spec == Init /\ [][Next]_vars /\ WF_vars(Edge(TRUE, TRUE))

-----------------------------------------------------------------------------
TypeOK ==
  /\ program \in Programs
  /\ pc \in Word
  /\ if_id \in IfId /\ id_ex \in IdEx /\ ex_mem \in ExMem /\ mem_wb \in MemWb
  /\ data \in [Registers -> Word]
  /\ dmem \in [Word -> Word]
  /\ BtbTypeOK

(* What the program would see if the instructions in MEM and WB, and none    *)
(* behind them, were finished.                                              *)
Written(file, i, v) == IF load_regfile(i) /\ i.rd # 0 THEN [file EXCEPT ![i.rd] = v] ELSE file
ArchRegs == Written(Written(data, mem_wb.instr, rd_data_in), ex_mem.instr,
                    IF regfilemux_mem(ex_mem.instr) THEN dmem[ex_mem.ex_data_out] ELSE ex_mem.ex_data_out)
ArchMem == IF data_write THEN [dmem EXCEPT ![ex_mem.ex_data_out] = ex_mem.rs2_out] ELSE dmem
ArchPc == CASE branch_rst -> RedirectPc
            [] ~branch_rst /\ id_ex.instr # Bubble -> id_ex.pc
            [] ~branch_rst /\ id_ex.instr = Bubble /\ if_id.instr # Bubble -> if_id.pc
            [] OTHER -> pc

ISA == INSTANCE Sequential WITH spc <- ArchPc, regs <- ArchRegs, mem <- ArchMem

\* Whatever is predicted, stalled, forwarded and thrown away: the instructions that
\* reach MEM are those of the program, in order, each with the results it has when
\* executed alone.
ImplementsSequential == ISA!IsaSafety

\* And they keep coming: no hazard holds an instruction back for good.
KeepsExecuting == ISA!IsaProgress

\* The operands that EX uses are those of all older instructions finished, unless
\* the instruction is about to be thrown away: forwarding takes the youngest writer
\* and hazard detection has kept away what MEM cannot deliver yet.
OperandsAreArchitectural ==
  id_ex.instr # Bubble /\ ~branch_rst =>
    /\ id_ex.instr.op \notin {"auipc", "lui", "jal"} => rs1_out_forward = ArchRegs[id_ex.instr.rs1]
    /\ id_ex.instr.op \in {"reg", "store", "br"} => rs2_out_forward = ArchRegs[id_ex.instr.rs2]

\* A branch that hits is compared by direction only, its target is never corrected:
\* it must be right from the allocation on.  (Address 0 is the tag of an empty entry.)
BranchTargetsRight ==
  \A e \in Entries : program[tag[e]].op = "br" => target[e] = Plus(tag[e], program[tag[e]].imm)

\* The target of a jump is checked against the program counter in EX, which is what
\* was fetched behind the jump only if no bubble can come between them.
NoBubbleBehindJump ==
  ex_mem.instr.op \in Jumps => id_ex.instr # Bubble

\* The worst a prediction and a hazard can cost is three bubbles in a row: once
\* started, the pipeline always has an instruction in one of its registers.
NeverDrained ==
  \/ pc = StartPc
  \/ \E i \in {if_id.instr, id_ex.instr, ex_mem.instr, mem_wb.instr} : i # Bubble

(* What the invariants and the refinement rest on. *)
Live(x) == x.instr # Bubble

\* What was fetched behind an instruction is where its own flags say it was looked
\* for: behind a miss and a branch predicted not taken the next address, behind a
\* branch predicted taken the branch's target.  What is behind any other that was
\* predicted taken is checked, or thrown away, in MEM.
Follows(x, next) ==
  Live(x) =>
    /\ x.instr = program[x.pc]
    /\ x.instr.op \in Jumps => x.predict
    /\ x.ismiss \/ ~x.predict => next = Plus(x.pc, 1)
    /\ ~x.ismiss /\ x.predict /\ x.instr.op = "br" => next = Plus(x.pc, x.instr.imm)

\* The stages hold consecutive instructions of one path, with one bubble at most
\* among them, behind a load.
PathInOrder ==
  /\ \A x \in {if_id, id_ex, ex_mem} : ~Live(x) => ~x.ismiss /\ ~x.predict
  /\ Live(id_ex) \/ Live(ex_mem) => Live(if_id)
  /\ Live(ex_mem) => Live(id_ex) \/ ex_mem.instr.op = "load"
  /\ Follows(if_id, pc)
  /\ Follows(id_ex, if_id.pc)
  /\ Follows(ex_mem, IF Live(id_ex) THEN id_ex.pc ELSE if_id.pc)
  /\ ex_mem.instr.op = "br" => ex_mem.alu_out = Plus(ex_mem.pc, ex_mem.instr.imm)

\* What ID has read is what the register file holds, unless WB is about to change
\* it; and no load is right ahead of a reader of its register.
OperandsHeld ==
  /\ data[0] = 0
  /\ ~Writing(id_ex.instr.rs1) => id_ex.rs1_out = data[id_ex.instr.rs1]
  /\ ~Writing(id_ex.instr.rs2) => id_ex.rs2_out = data[id_ex.instr.rs2]
  /\ ex_mem.instr.op = "load" /\ ex_mem.instr.rd # 0 /\ Live(id_ex) =>
       /\ id_ex.instr.op \notin {"auipc", "lui", "jal"} => id_ex.instr.rs1 # ex_mem.instr.rd
       /\ id_ex.instr.op \in {"reg", "store", "br"} => id_ex.instr.rs2 # ex_mem.instr.rd

\* A miss is a miss until the instruction itself allocates, in MEM; the younger ones
\* are thrown away then, whatever they found.
MissStands ==
  /\ ex_mem.ismiss => \A e \in Entries : tag[e] = ex_mem.pc => target[e] = ex_mem.alu_out
  /\ ~MissedTaken => \A x \in {if_id, id_ex} : x.ismiss => isMiss(x.pc)

PipelineInv ==
  /\ PathInOrder /\ OperandsHeld /\ MissStands
  /\ BranchTargetsRight /\ DuplicatesAgree /\ NeverDrained

\* rdcycle is not among the instructions (its result is forwarded too early).
CounterUnread == \A p \in Programs : \A a \in Word : p[a].op # "csr"
=============================================================================
