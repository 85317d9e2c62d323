--------------------------- MODULE PipelineProofs ---------------------------
(***************************************************************************)
(* The pipeline and its target buffer, for every width of the words, every *)
(* number of registers and of entries, every set of programs, and whatever *)
(* the caches and the direction predictor answer.                          *)
(***************************************************************************)
EXTENDS Pipeline, WellFoundedInduction, TLAPS

-------------------------------------------------------------------------------
(* Lemmas about the operators. *)

\* Sums of addresses are addresses.
LEMMA PlusInWord == ASSUME NEW a \in Word, NEW b \in Word PROVE Plus(a, b) \in Word
BY ProgramAssumption DEF Word, Plus

\* Every non-empty set of entries has a last one, so a hit finds an entry that matches.
LEMMA LastMatch ==
  ASSUME NEW p, ~isMiss(p)
  PROVE  Max(Matches(p)) \in Matches(p)
<1> DEFINE Mirror == {EntryCount - e : e \in Matches(p)}
           Less == {ss \in Nat \X Nat : ss[1] < ss[2]}
<1>1. Matches(p) \subseteq Entries /\ Matches(p) # {}
  BY DEF Matches, isMiss
<1>2. Mirror \subseteq Nat /\ Mirror # {}
  BY <1>1, EntryAssumption DEF Entries
<1>w. IsWellFoundedOn(Less, Nat)
  BY NatLessThanWellFounded, Zenon DEF OpToRel
<1>3. PICK m \in Mirror : \A y \in Mirror : ~(<<y, m>> \in Less)
  <2> HIDE DEF Mirror, Less
  <2> QED
    BY <1>2, <1>w, WFMin
<1>4. ASSUME NEW y \in Mirror PROVE m <= y
  <2> HIDE DEF Mirror
  <2>1. m \in Nat /\ y \in Nat /\ ~(<<y, m>> \in Less)
    BY <1>2, <1>3
  <2> QED
    BY <2>1
<1>5. PICK e \in Matches(p) : m = EntryCount - e
  OBVIOUS
<1>6. ASSUME NEW f \in Matches(p) PROVE e >= f
  <2>1. EntryCount - e <= EntryCount - f
    BY <1>4, <1>5
  <2>2. e \in Int /\ f \in Int /\ EntryCount \in Int
    BY <1>1, EntryAssumption DEF Entries
  <2> QED
    BY <2>1, <2>2
<1> QED
  BY <1>5, <1>6 DEF Max

\* The address a lookup gives is the next one, or the target of an entry for it.
LEMMA LookUp ==
  ASSUME NEW p
  PROVE  \/ isMiss(p) /\ BTB_out(p) = Plus(p, 1)
         \/ ~isMiss(p) /\ \E e \in Entries : tag[e] = p /\ BTB_out(p) = target[e]
<1>1. CASE isMiss(p)
  BY <1>1 DEF BTB_out
<1>2. CASE ~isMiss(p)
  <2>1. Max(Matches(p)) \in Entries /\ tag[Max(Matches(p))] = p
    BY <1>2, LastMatch DEF Matches
  <2> QED
    BY <1>2, <2>1 DEF BTB_out
<1> QED
  BY <1>1, <1>2

\* Instructions, and what a register holds of one.
LEMMA InstructionTypes ==
  ASSUME NEW i \in Fields \cup {Bubble}
  PROVE  /\ i.rd \in Registers /\ i.rs1 \in Registers /\ i.rs2 \in Registers /\ i.imm \in Word
         /\ i # Bubble <=> i.op # "none"
         /\ i # Bubble => i \in Fields
BY ProgramAssumption DEF Fields, Bubble, Registers, Word, Classes, Jumps

-------------------------------------------------------------------------------
(* Types. *)

\* What the multiplexers of one cycle put out.
LEMMA DatapathTypes ==
  ASSUME TypeOK
  PROVE  /\ rd_data_in \in Word
         /\ \A r \in Registers : RegfileOut(r) \in Word
         /\ rs1_out_forward \in Word /\ rs2_out_forward \in Word
         /\ alu_out \in Word /\ ex_data_out \in Word /\ br_en \in BOOLEAN
         /\ RedirectPc \in Word
<1> USE DEF TypeOK
<1>w. 0 \in Word /\ \A a \in Word : Plus(a, 1) \in Word
  BY ProgramAssumption DEF Word, Plus
<1>i. /\ id_ex.instr \in Fields \cup {Bubble} /\ ex_mem.instr \in Fields \cup {Bubble}
      /\ mem_wb.instr \in Fields \cup {Bubble}
      /\ id_ex.pc \in Word /\ id_ex.rs1_out \in Word /\ id_ex.rs2_out \in Word
      /\ ex_mem.pc \in Word /\ ex_mem.ex_data_out \in Word /\ ex_mem.alu_out \in Word
      /\ mem_wb.ex_data_out \in Word /\ mem_wb.mem_rdata \in Word
  BY DEF IdEx, ExMem, MemWb
<1>m. id_ex.instr.imm \in Word /\ id_ex.instr.rs1 \in Registers /\ id_ex.instr.rs2 \in Registers
  BY <1>i, InstructionTypes
<1>1. rd_data_in \in Word
  BY <1>i DEF rd_data_in
<1>2. \A r \in Registers : RegfileOut(r) \in Word
  BY <1>1, <1>w DEF RegfileOut
<1>3. rs1_out_forward \in Word /\ rs2_out_forward \in Word
  BY <1>1, <1>i DEF rs1_out_forward, rs2_out_forward, Forward
<1>4. alu_out \in Word
  BY <1>3, <1>i, <1>m, PlusInWord DEF alu_out
<1>5. br_en \in BOOLEAN
  BY DEF br_en, Compare
<1>6. ex_data_out \in Word
  <2>1. 1 \in Word \/ WordCount = 1
    BY ProgramAssumption DEF Word
  <2>2. WordCount = 1 /\ exdatamux_br_en(id_ex.instr) => ~br_en
    BY <1>3, <1>m DEF exdatamux_br_en, br_en, Compare, Word
  <2> QED
    BY <2>1, <2>2, <1>4, <1>i, <1>m, <1>w DEF ex_data_out
<1>7. RedirectPc \in Word
  BY <1>i, <1>w DEF RedirectPc
<1> QED
  BY <1>1, <1>2, <1>3, <1>4, <1>5, <1>6, <1>7

\* What the stage registers take.
LEMMA StageTypes ==
  ASSUME TypeOK
  PROVE  /\ MemWbIn \in MemWb /\ ExMemIn \in ExMem /\ IdExIn \in IdEx
         /\ IfIdReset \in IfId /\ IdExReset \in IdEx /\ ExMemReset \in ExMem /\ MemWbReset \in MemWb
         /\ \A dir \in BOOLEAN : PredictedPc(dir) \in Word /\ IfIdIn(dir) \in IfId
<1> USE DEF TypeOK
<1>1. MemWbIn \in MemWb
  <2>1. ex_mem.instr \in Fields \cup {Bubble} /\ ex_mem.ex_data_out \in Word
    BY DEF ExMem
  <2>2. 0 \in Word
    BY ProgramAssumption DEF Word
  <2> QED
    BY <2>1, <2>2 DEF MemWbIn, MemWb
<1>2. ExMemIn \in ExMem
  BY DatapathTypes DEF ExMemIn, ExMem, IdEx
<1>3. IdExIn \in IdEx
  <2>1. if_id.instr \in Fields \cup {Bubble}
    BY DEF IfId
  <2>2. if_id.instr.rs1 \in Registers /\ if_id.instr.rs2 \in Registers
    BY <2>1, InstructionTypes
  <2> QED
    BY <2>2, DatapathTypes DEF IdExIn, IdEx, IfId
<1>4. IfIdReset \in IfId /\ IdExReset \in IdEx /\ ExMemReset \in ExMem /\ MemWbReset \in MemWb
  <2>1. 0 \in Word
    BY ProgramAssumption DEF Word
  <2> QED
    BY <2>1 DEF IfIdReset, IdExReset, ExMemReset, MemWbReset, IfId, IdEx, ExMem, MemWb
<1>5. ASSUME NEW dir \in BOOLEAN PROVE PredictedPc(dir) \in Word /\ IfIdIn(dir) \in IfId
  <2>1. Plus(pc, 1) \in Word
    BY ProgramAssumption DEF Word, Plus
  <2>2. BTB_out(pc) \in Word
    BY <2>1, LookUp DEF BtbTypeOK
  <2>3. program[pc] \in Fields
    BY ProgramAssumption
  <2>4. predict(dir) \in BOOLEAN /\ isMiss(pc) \in BOOLEAN
    BY DEF predict, isMiss
  <2> QED
    BY <2>1, <2>2, <2>3, <2>4 DEF PredictedPc, IfIdIn, IfId
<1> QED
  BY <1>1, <1>2, <1>3, <1>4, <1>5

\* What one edge does to the stages: the four things of which an edge does one.
LEMMA EdgeCases ==
  ASSUME Next
  PROVE  /\ RegfileEdge /\ UNCHANGED program
         /\ \E data_resp \in BOOLEAN : DataPortEdge(data_resp)
         /\ \E evict \in Entries : BtbEdge(ex_mem, ex_mem_bren, evict)
         /\ \/ Stalled
            \/ /\ DataPortEdge(TRUE) \/ (~data_write /\ dmem' = dmem)
               /\ Flush \/ InsertBubble \/ \E dir \in BOOLEAN : Advance(dir)
<1> PICK instr_resp \in BOOLEAN, data_resp \in BOOLEAN : Edge(instr_resp, data_resp)
  BY DEF Next
<1>1. RegfileEdge /\ UNCHANGED program /\ DataPortEdge(data_resp)
      /\ \E evict \in Entries : BtbEdge(ex_mem, ex_mem_bren, evict)
  BY DEF Edge
<1>2. CASE pipeline_stall(instr_resp, data_resp)
  BY <1>1, <1>2 DEF Edge
<1>3. CASE ~pipeline_stall(instr_resp, data_resp)
  <2>1. Flush \/ InsertBubble \/ \E dir \in BOOLEAN : Advance(dir)
    BY <1>3 DEF Edge
  <2>2. data_resp = TRUE \/ ~data_write
    BY <1>3 DEF pipeline_stall
  <2>3. DataPortEdge(TRUE) \/ (~data_write /\ dmem' = dmem)
    <3>1. CASE ~data_write
      BY <1>1, <3>1 DEF DataPortEdge
    <3>2. CASE data_resp = TRUE
      BY <1>1, <3>2
    <3> QED
      BY <2>2, <3>1, <3>2
  <2> QED
    BY <1>1, <2>1, <2>3
<1> QED
  BY <1>2, <1>3

LEMMA InitTypes == Init => TypeOK
<1> SUFFICES ASSUME Init PROVE TypeOK
  OBVIOUS
<1>1. 0 \in Word /\ StartPc \in Word
  BY ProgramAssumption DEF Word, StartPc
<1>2. IfIdReset \in IfId /\ IdExReset \in IdEx /\ ExMemReset \in ExMem /\ MemWbReset \in MemWb
  BY <1>1 DEF IfIdReset, IdExReset, ExMemReset, MemWbReset, IfId, IdEx, ExMem, MemWb
<1> QED
  BY <1>1, <1>2 DEF Init, TypeOK, BtbInit, BtbTypeOK

\* Every edge leaves the registers, the memory and the target buffer in range.
LEMMA EdgeKeepsTypes == ASSUME TypeOK, Next PROVE TypeOK'
<1> USE DEF TypeOK
<1>0. /\ RegfileEdge /\ UNCHANGED program
      /\ \E data_resp \in BOOLEAN : DataPortEdge(data_resp)
      /\ \E evict \in Entries : BtbEdge(ex_mem, ex_mem_bren, evict)
  BY EdgeCases
<1>m. ex_mem.pc \in Word /\ ex_mem.alu_out \in Word /\ ex_mem.ex_data_out \in Word /\ ex_mem.rs2_out \in Word
  BY DEF ExMem
<1>1. data' \in [Registers -> Word]
  BY <1>0, DatapathTypes DEF RegfileEdge
<1>2. dmem' \in [Word -> Word]
  BY <1>0, <1>m DEF DataPortEdge
<1>3. BtbTypeOK'
  BY <1>0, <1>m DEF BtbEdge, BtbTypeOK, btbVars
<1>4. /\ pc' \in Word
      /\ if_id' \in IfId /\ id_ex' \in IdEx /\ ex_mem' \in ExMem /\ mem_wb' \in MemWb
  <2>1. CASE Stalled
    BY <2>1 DEF Stalled, stages
  <2>2. CASE Flush
    BY <2>2, DatapathTypes, StageTypes DEF Flush
  <2>3. CASE InsertBubble
    BY <2>3, StageTypes DEF InsertBubble
  <2>4. ASSUME NEW dir \in BOOLEAN, Advance(dir)
        PROVE  /\ pc' \in Word
               /\ if_id' \in IfId /\ id_ex' \in IdEx /\ ex_mem' \in ExMem /\ mem_wb' \in MemWb
    BY <2>4, StageTypes DEF Advance
  <2> QED
    BY <2>1, <2>2, <2>3, <2>4, EdgeCases
<1> QED
  BY <1>0, <1>1, <1>2, <1>3, <1>4

\* datapath.sv: every register of the pipeline stays in range.
THEOREM TypeCorrect == Spec => []TypeOK
<1>1. TypeOK /\ [Next]_vars => TypeOK'
  <2>1. TypeOK /\ UNCHANGED vars => TypeOK'
    BY DEF TypeOK, vars, stages, btbVars, BtbTypeOK
  <2> QED
    BY <2>1, EdgeKeepsTypes
<1> QED
  BY <1>1, InitTypes, PTL DEF Spec

-------------------------------------------------------------------------------
(* The path. *)

\* A bubble is no instruction of any class.
LEMMA BubbleIsNone == ASSUME NEW x PROVE ~Live(x) => x.instr.op = "none" /\ x.instr.rd = 0
BY DEF Live, Bubble

\* Instructions in the stages, given the types: live ones have a class.
LEMMA StageInstructions ==
  ASSUME TypeOK
  PROVE  \A x \in {if_id, id_ex, ex_mem, mem_wb} :
           /\ Live(x) <=> x.instr.op # "none"
           /\ x.instr.rd \in Registers /\ x.instr.rs1 \in Registers /\ x.instr.rs2 \in Registers
           /\ x.instr.imm \in Word
<1>1. \A x \in {if_id, id_ex, ex_mem, mem_wb} : x.instr \in Fields \cup {Bubble}
  BY DEF TypeOK, IfId, IdEx, ExMem, MemWb
<1> QED
  BY <1>1, InstructionTypes DEF Live

\* A load never waits for a bubble.
LEMMA LoadUseIsLive == ASSUME TypeOK, PathInOrder, LoadUse PROVE Live(id_ex) /\ Live(if_id)
<1>1. Live(id_ex)
  BY BubbleIsNone DEF LoadUse
<1> QED
  BY <1>1 DEF PathInOrder

\* Only an instruction asks for a redirect.
LEMMA RedirectIsLive == ASSUME TypeOK, PathInOrder, branch_rst PROVE Live(ex_mem)
BY BubbleIsNone DEF PathInOrder, branch_rst, MissedTaken, NotTaken, NotPredicted, WrongTarget,
   ex_mem_bren, Jumps

\* What IF has looked up for a branch is where the branch goes.
LEMMA FetchFollows ==
  ASSUME TypeOK, BranchTargetsRight, NEW dir \in BOOLEAN
  PROVE  /\ program[pc].op \in Jumps => predict(dir)
         /\ isMiss(pc) \/ ~predict(dir) => PredictedPc(dir) = Plus(pc, 1)
         /\ ~isMiss(pc) /\ predict(dir) /\ program[pc].op = "br" => PredictedPc(dir) = Plus(pc, program[pc].imm)
<1>1. program[pc].op \in Jumps => predict(dir)
  BY DEF predict
<1>2. isMiss(pc) \/ ~predict(dir) => PredictedPc(dir) = Plus(pc, 1)
  BY LookUp DEF PredictedPc
<1>3. ~isMiss(pc) /\ predict(dir) /\ program[pc].op = "br" => PredictedPc(dir) = Plus(pc, program[pc].imm)
  BY LookUp DEF PredictedPc, BranchTargetsRight
<1> QED
  BY <1>1, <1>2, <1>3

\* Every edge keeps the stages on one path.
LEMMA EdgeKeepsPath ==
  ASSUME TypeOK, PathInOrder, BranchTargetsRight, Next
  PROVE  PathInOrder'
<1>0. UNCHANGED program
  BY EdgeCases
<1>b. /\ ~Live(IfIdReset) /\ ~Live(IdExReset) /\ ~Live(ExMemReset)
      /\ ~IfIdReset.ismiss /\ ~IfIdReset.predict /\ ~IdExReset.ismiss /\ ~IdExReset.predict
      /\ ~ExMemReset.ismiss /\ ~ExMemReset.predict /\ ExMemReset.instr.op = "none"
  BY DEF Live, IfIdReset, IdExReset, ExMemReset, Bubble
<1>l. /\ \A x \in {if_id, id_ex, ex_mem} : ~Live(x) => ~x.ismiss /\ ~x.predict
      /\ Live(id_ex) \/ Live(ex_mem) => Live(if_id)
      /\ Live(ex_mem) => Live(id_ex) \/ ex_mem.instr.op = "load"
      /\ Follows(if_id, pc) /\ Follows(id_ex, if_id.pc)
      /\ Follows(ex_mem, IF Live(id_ex) THEN id_ex.pc ELSE if_id.pc)
  BY DEF PathInOrder
<1>e. /\ ExMemIn.pc = id_ex.pc /\ ExMemIn.instr = id_ex.instr /\ ExMemIn.ismiss = id_ex.ismiss
      /\ ExMemIn.predict = id_ex.predict
      /\ ExMemIn.instr.op = "br" => ExMemIn.alu_out = Plus(id_ex.pc, id_ex.instr.imm)
  BY DEF ExMemIn, alu_out, alumux1_pc, alumux2_imm
<1>1. CASE Stalled
  BY <1>0, <1>1 DEF Stalled, stages, PathInOrder, Follows, Live
<1>2. CASE Flush
  BY <1>2, <1>b DEF Flush, PathInOrder, Follows
<1>3. CASE InsertBubble
  <2>1. /\ pc' = pc /\ if_id' = if_id /\ id_ex' = IdExReset /\ ex_mem' = ExMemIn
        /\ Live(id_ex) /\ Live(if_id) /\ id_ex.instr.op = "load"
    BY <1>3, LoadUseIsLive DEF InsertBubble, LoadUse
  <2>2. Live(if_id)' /\ ~Live(id_ex)' /\ Live(ex_mem)' /\ ex_mem'.instr.op = "load"
    BY <2>1, <1>b, <1>e DEF Live
  <2>3. \A x \in {if_id, id_ex, ex_mem}' : ~Live(x)' => ~x.ismiss /\ ~x.predict
    BY <2>1, <2>2, <1>b DEF Live
  <2>4. Follows(if_id, pc)'
    BY <1>0, <1>l, <2>1 DEF Follows, Live
  <2>5. Follows(ex_mem, if_id.pc)'
    BY <1>0, <1>l, <1>e, <2>1 DEF Follows, Live
  <2>6. Follows(id_ex, if_id.pc)'
    BY <2>2 DEF Follows
  <2> QED
    BY <2>2, <2>3, <2>4, <2>5, <2>6 DEF PathInOrder
<1>4. ASSUME NEW dir \in BOOLEAN, Advance(dir) PROVE PathInOrder'
  <2>1. pc' = PredictedPc(dir) /\ if_id' = IfIdIn(dir) /\ id_ex' = IdExIn /\ ex_mem' = ExMemIn /\ ~LoadUse
    BY <1>4 DEF Advance
  <2>2. Live(if_id)' /\ if_id'.instr = program[pc] /\ if_id'.pc = pc
        /\ if_id'.ismiss = isMiss(pc) /\ if_id'.predict = predict(dir)
    <3>1. program[pc] \in Fields
      BY ProgramAssumption DEF TypeOK
    <3> QED
      BY <2>1, <3>1, InstructionTypes DEF IfIdIn, Live, Fields, Bubble, Classes, Jumps
  <2>3. /\ id_ex'.pc = if_id.pc /\ id_ex'.instr = if_id.instr /\ id_ex'.ismiss = if_id.ismiss
        /\ id_ex'.predict = if_id.predict
    BY <2>1 DEF IdExIn
  <2>4. (Live(id_ex)' <=> Live(if_id)) /\ (Live(ex_mem)' <=> Live(id_ex))
    BY <2>1, <2>3, <1>e DEF Live
  <2>5. Follows(if_id, pc)'
    BY <1>0, <2>1, <2>2, FetchFollows DEF Follows
  <2>6. Follows(id_ex, if_id.pc)'
    BY <1>0, <1>l, <2>2, <2>3, <2>4 DEF Follows
  <2>7. Follows(ex_mem, id_ex.pc)'
    BY <1>0, <1>l, <1>e, <2>1, <2>3, <2>4 DEF Follows
  <2>8. Live(ex_mem)' => Live(id_ex)'
    BY <1>l, <2>4
  <2>9. \A x \in {if_id, id_ex, ex_mem}' : ~Live(x)' => ~x.ismiss /\ ~x.predict
    BY <1>l, <1>e, <2>1, <2>2, <2>3, <2>4
  <2> QED
    BY <2>1, <2>2, <2>5, <2>6, <2>7, <2>8, <2>9, <1>e DEF PathInOrder, Follows
<1> QED
  BY <1>1, <1>2, <1>3, <1>4, EdgeCases

-------------------------------------------------------------------------------
(* The target buffer. *)

\* What MEM allocates for a branch is where the branch goes, and a branch is never
\* taken for a jump.
LEMMA EdgeKeepsTargets ==
  ASSUME TypeOK, PathInOrder, BranchTargetsRight, Next
  PROVE  BranchTargetsRight'
<1>0. UNCHANGED program /\ program \in Programs
  BY EdgeCases DEF TypeOK
<1> PICK evict \in Entries : BtbEdge(ex_mem, ex_mem_bren, evict)
  BY EdgeCases
<1>t. tag \in [Entries -> Word] /\ target \in [Entries -> Word]
  BY DEF TypeOK, BtbTypeOK
<1>x. Live(ex_mem) => ex_mem.instr = program[ex_mem.pc]
  BY DEF PathInOrder, Follows
<1>y. ex_mem.instr.op = "br" => ex_mem.alu_out = Plus(ex_mem.pc, ex_mem.instr.imm)
  BY DEF PathInOrder
<1>z. ex_mem.ismiss \/ ex_mem.instr.op \in Jumps => Live(ex_mem)
  BY BubbleIsNone DEF PathInOrder, Jumps
<1>1. CASE /\ ex_mem.ismiss /\ ex_mem_bren
           /\ tag' = [tag EXCEPT ![evict] = ex_mem.pc]
           /\ target' = [target EXCEPT ![evict] = ex_mem.alu_out]
  BY <1>0, <1>t, <1>x, <1>y, <1>z, <1>1 DEF BranchTargetsRight
<1>2. CASE /\ ~ex_mem.ismiss /\ ex_mem.instr.op \in Jumps
           /\ target' = [e \in Entries |-> IF tag[e] = ex_mem.pc THEN ex_mem.alu_out ELSE target[e]]
           /\ UNCHANGED tag
  BY <1>0, <1>t, <1>x, <1>z, <1>2 DEF BranchTargetsRight, Jumps
<1>3. CASE UNCHANGED btbVars
  BY <1>0, <1>3 DEF BranchTargetsRight, btbVars
<1> QED
  BY <1>1, <1>2, <1>3 DEF BtbEdge

\* What an edge does to the tags: only the allocation of a taken miss changes one,
\* and during a miss nothing else touches the targets.
LEMMA OnlyTakenMissAllocates ==
  ASSUME Next
  PROVE  \/ /\ ~MissedTaken
            /\ UNCHANGED tag
            /\ ex_mem.ismiss => UNCHANGED target
         \/ /\ MissedTaken
            /\ \E evict \in Entries : /\ tag' = [tag EXCEPT ![evict] = ex_mem.pc]
                                      /\ target' = [target EXCEPT ![evict] = ex_mem.alu_out]
BY EdgeCases DEF BtbEdge, btbVars, MissedTaken

\* A miss found in IF is still one when the instruction gets to MEM: who allocates
\* ahead of it has it thrown away.
LEMMA EdgeKeepsMisses ==
  ASSUME TypeOK, PathInOrder, MissStands, Next
  PROVE  MissStands'
<1>b. ~IfIdReset.ismiss /\ ~IdExReset.ismiss /\ ~ExMemReset.ismiss
  BY DEF IfIdReset, IdExReset, ExMemReset
<1>t. tag \in [Entries -> Word] /\ target \in [Entries -> Word]
  BY DEF TypeOK, BtbTypeOK
<1>m. /\ ex_mem.ismiss => \A e \in Entries : tag[e] = ex_mem.pc => target[e] = ex_mem.alu_out
      /\ ~MissedTaken => \A x \in {if_id, id_ex} : x.ismiss => isMiss(x.pc)
  BY DEF MissStands
<1>1. CASE Stalled
  <2>1. if_id' = if_id /\ id_ex' = id_ex /\ ex_mem' = ex_mem
    BY <1>1 DEF Stalled, stages
  <2>2. ex_mem'.ismiss => \A e \in Entries : tag'[e] = ex_mem'.pc => target'[e] = ex_mem'.alu_out
    <3>1. CASE UNCHANGED tag /\ (ex_mem.ismiss => UNCHANGED target)
      BY <3>1, <2>1, <1>m
    <3>2. ASSUME NEW evict \in Entries,
                 tag' = [tag EXCEPT ![evict] = ex_mem.pc], target' = [target EXCEPT ![evict] = ex_mem.alu_out]
          PROVE  ex_mem'.ismiss => \A e \in Entries : tag'[e] = ex_mem'.pc => target'[e] = ex_mem'.alu_out
      BY <3>2, <2>1, <1>m, <1>t
    <3> QED
      BY <3>1, <3>2, OnlyTakenMissAllocates
  <2>3. MissedTaken' <=> MissedTaken
    BY <2>1 DEF MissedTaken, ex_mem_bren
  <2>4. ~MissedTaken => UNCHANGED tag
    BY OnlyTakenMissAllocates
  <2>5. ASSUME ~MissedTaken', NEW x \in {if_id, id_ex}', x.ismiss PROVE isMiss(x.pc)'
    BY <2>1, <2>3, <2>4, <2>5, <1>m DEF isMiss, Matches
  <2> QED
    BY <2>2, <2>5 DEF MissStands
<1>2. CASE Flush
  BY <1>2, <1>b DEF Flush, MissStands
<1>3. ASSUME ~branch_rst, ex_mem' = ExMemIn,
             \/ if_id' = if_id /\ id_ex' = IdExReset
             \/ id_ex' = IdExIn /\ \E dir \in BOOLEAN : if_id' = IfIdIn(dir)
      PROVE  MissStands'
  <2>1. UNCHANGED tag /\ ~MissedTaken
    BY <1>3, OnlyTakenMissAllocates DEF branch_rst
  <2>2. isMiss(id_ex.pc) \/ ~id_ex.ismiss
    BY <2>1, <1>m
  <2>3. ex_mem'.ismiss => \A e \in Entries : tag'[e] # ex_mem'.pc
    BY <1>3, <2>1, <2>2 DEF ExMemIn, isMiss, Matches
  <2>4. if_id'.ismiss => \A e \in Entries : tag[e] # if_id'.pc
    <3>1. CASE if_id' = if_id
      BY <3>1, <2>1, <1>m DEF isMiss, Matches
    <3>2. ASSUME NEW dir \in BOOLEAN, if_id' = IfIdIn(dir)
          PROVE  if_id'.ismiss => \A e \in Entries : tag[e] # if_id'.pc
      <4>1. if_id'.ismiss = isMiss(pc) /\ if_id'.pc = pc
        BY <3>2 DEF IfIdIn
      <4> QED
        BY <4>1 DEF isMiss, Matches
    <3> QED
      BY <1>3, <3>1, <3>2
  <2>5. id_ex'.ismiss => \A e \in Entries : tag[e] # id_ex'.pc
    BY <1>3, <2>1, <1>m, <1>b DEF IdExIn, isMiss, Matches
  <2>6. \A x \in {if_id, id_ex}' : x.ismiss => isMiss(x.pc)'
    <3>1. \A x : isMiss(x.pc)' <=> \A e \in Entries : tag[e] # x.pc
      BY <2>1 DEF isMiss, Matches
    <3> QED
      BY <3>1, <2>4, <2>5
  <2> QED
    BY <2>3, <2>6 DEF MissStands
<1> QED
  BY <1>1, <1>2, <1>3, EdgeCases DEF InsertBubble, Advance

\* Entries for one address have one target: the second comes from the instruction
\* that allocated the first, and a jump corrects all of them.
LEMMA EdgeKeepsDuplicates ==
  ASSUME TypeOK, MissStands, DuplicatesAgree, Next
  PROVE  DuplicatesAgree'
<1> PICK evict \in Entries : BtbEdge(ex_mem, ex_mem_bren, evict)
  BY EdgeCases
<1>t. tag \in [Entries -> Word] /\ target \in [Entries -> Word]
  BY DEF TypeOK, BtbTypeOK
<1>1. CASE /\ ex_mem.ismiss /\ ex_mem_bren
           /\ tag' = [tag EXCEPT ![evict] = ex_mem.pc]
           /\ target' = [target EXCEPT ![evict] = ex_mem.alu_out]
  <2>1. \A e \in Entries : tag[e] = ex_mem.pc => target[e] = ex_mem.alu_out
    BY <1>1 DEF MissStands
  <2> QED
    BY <1>1, <1>t, <2>1 DEF DuplicatesAgree
<1>2. CASE /\ ~ex_mem.ismiss /\ ex_mem.instr.op \in Jumps
           /\ target' = [e \in Entries |-> IF tag[e] = ex_mem.pc THEN ex_mem.alu_out ELSE target[e]]
           /\ UNCHANGED tag
  BY <1>2, <1>t DEF DuplicatesAgree
<1>3. CASE UNCHANGED btbVars
  BY <1>3 DEF DuplicatesAgree, btbVars
<1> QED
  BY <1>1, <1>2, <1>3 DEF BtbEdge

-------------------------------------------------------------------------------
(* Operands. *)

\* Registers after an edge, and what ID reads in the same cycle.
LEMMA RegistersRead ==
  ASSUME TypeOK, OperandsHeld, RegfileEdge
  PROVE  /\ data'[0] = 0
         /\ \A r \in Registers : RegfileOut(r) = data'[r]
         /\ \A r \in Registers : ~Writing(r) => data'[r] = data[r]
<1>1. 0 \in Registers /\ ~Writing(0)
  BY ProgramAssumption DEF Registers, Writing
<1>2. data[0] = 0
  BY DEF OperandsHeld
<1>3. \A r \in Registers : data'[r] = IF Writing(r) THEN rd_data_in ELSE data[r]
  BY DEF RegfileEdge
<1> QED
  BY <1>1, <1>2, <1>3 DEF RegfileOut

\* Every edge keeps what ID has read right, and loads away from their readers.
LEMMA EdgeKeepsOperands ==
  ASSUME TypeOK, PathInOrder, OperandsHeld, Next
  PROVE  OperandsHeld'
<1>r. /\ data'[0] = 0
      /\ \A r \in Registers : RegfileOut(r) = data'[r]
      /\ \A r \in Registers : ~Writing(r) => data'[r] = data[r]
  BY EdgeCases, RegistersRead
<1>o. /\ ~Writing(id_ex.instr.rs1) => id_ex.rs1_out = data[id_ex.instr.rs1]
      /\ ~Writing(id_ex.instr.rs2) => id_ex.rs2_out = data[id_ex.instr.rs2]
      /\ ex_mem.instr.op = "load" /\ ex_mem.instr.rd # 0 /\ Live(id_ex) =>
           /\ id_ex.instr.op \notin {"auipc", "lui", "jal"} => id_ex.instr.rs1 # ex_mem.instr.rd
           /\ id_ex.instr.op \in {"reg", "store", "br"} => id_ex.instr.rs2 # ex_mem.instr.rd
  BY DEF OperandsHeld
<1>i. \A x \in {if_id, id_ex} : x.instr.rs1 \in Registers /\ x.instr.rs2 \in Registers
  BY StageInstructions
<1>b. /\ IdExReset.instr.rs1 = 0 /\ IdExReset.instr.rs2 = 0
      /\ IdExReset.rs1_out = 0 /\ IdExReset.rs2_out = 0 /\ ~Live(IdExReset)
  BY DEF IdExReset, Bubble, Live
<1>1. CASE Stalled
  <2>1. id_ex' = id_ex /\ ex_mem' = ex_mem /\ mem_wb' = mem_wb
    BY <1>1 DEF Stalled, stages
  <2>2. \A r \in Registers : Writing(r)' <=> Writing(r)
    BY <2>1 DEF Writing
  <2> QED
    BY <2>1, <2>2, <1>r, <1>o, <1>i DEF OperandsHeld, Live
<1>2. CASE id_ex' = IdExReset
  BY <1>2, <1>b, <1>r DEF OperandsHeld, Live
<1>3. CASE id_ex' = IdExIn /\ ex_mem' = ExMemIn /\ ~LoadUse
  <2>1. id_ex'.rs1_out = data'[id_ex'.instr.rs1] /\ id_ex'.rs2_out = data'[id_ex'.instr.rs2]
    BY <1>3, <1>r, <1>i DEF IdExIn
  <2>2. id_ex'.instr = if_id.instr /\ ex_mem'.instr = id_ex.instr
    BY <1>3 DEF IdExIn, ExMemIn
  <2>3. id_ex.instr.op = "load" /\ id_ex.instr.rd # 0 =>
          /\ if_id.instr.op \notin {"auipc", "lui", "jal"} => if_id.instr.rs1 # id_ex.instr.rd
          /\ if_id.instr.op \in {"reg", "store", "br"} => if_id.instr.rs2 # id_ex.instr.rd
    BY <1>3 DEF LoadUse, sr1_used, sr2_used
  <2> QED
    BY <2>1, <2>2, <2>3, <1>r DEF OperandsHeld
<1> QED
  BY <1>1, <1>2, <1>3, EdgeCases DEF Flush, InsertBubble, Advance

\* After the start there is an instruction in IF/ID, or the redirecting one in WB.
LEMMA EdgeKeepsLive ==
  ASSUME TypeOK, PathInOrder, NeverDrained, Next
  PROVE  NeverDrained'
<1>1. pc = StartPc \/ Live(if_id) \/ Live(mem_wb)
  BY DEF NeverDrained, PathInOrder, Live
<1>2. CASE Stalled
  BY <1>2 DEF Stalled, stages, NeverDrained
<1>3. CASE Flush
  BY <1>3, RedirectIsLive DEF Flush, MemWbIn, NeverDrained, Live
<1>4. CASE InsertBubble
  BY <1>4, LoadUseIsLive DEF InsertBubble, NeverDrained, Live
<1>5. ASSUME NEW dir \in BOOLEAN, Advance(dir) PROVE NeverDrained'
  <2>1. program[pc] \in Fields
    BY ProgramAssumption DEF TypeOK
  <2>2. if_id'.instr # Bubble
    BY <1>5, <2>1, InstructionTypes DEF Advance, IfIdIn, Fields, Classes, Jumps
  <2> QED
    BY <2>2 DEF NeverDrained
<1> QED
  BY <1>2, <1>3, <1>4, <1>5, EdgeCases

-------------------------------------------------------------------------------
(* The invariant. *)

LEMMA InitInv == Init => PipelineInv
<1> SUFFICES ASSUME Init PROVE PipelineInv
  OBVIOUS
<1>1. /\ if_id = IfIdReset /\ id_ex = IdExReset /\ ex_mem = ExMemReset /\ mem_wb = MemWbReset
      /\ data = [r \in Registers |-> 0] /\ pc = StartPc /\ program \in Programs
      /\ tag = [e \in Entries |-> 0] /\ target = [e \in Entries |-> 0]
  BY DEF Init, BtbInit
<1>2. 0 \in Registers /\ 0 \in Word
  BY ProgramAssumption DEF Registers, Word
<1>3. PathInOrder
  BY <1>1 DEF PathInOrder, Follows, Live, IfIdReset, IdExReset, ExMemReset, Bubble
<1>4. OperandsHeld
  BY <1>1, <1>2 DEF OperandsHeld, Live, IdExReset, ExMemReset, Bubble
<1>5. MissStands
  BY <1>1 DEF MissStands, IfIdReset, IdExReset, ExMemReset
<1>6. BranchTargetsRight
  BY <1>1, ProgramAssumption DEF BranchTargetsRight
<1>7. DuplicatesAgree /\ NeverDrained
  BY <1>1 DEF DuplicatesAgree, NeverDrained
<1> QED
  BY <1>3, <1>4, <1>5, <1>6, <1>7 DEF PipelineInv

\* Between any two edges: one path, right operands, right targets, something to do.
THEOREM PipelineSafe == Spec => []PipelineInv
<1>1. TypeOK /\ PipelineInv /\ [Next]_vars => PipelineInv'
  <2>1. ASSUME TypeOK, PipelineInv, Next PROVE PipelineInv'
    BY <2>1, EdgeKeepsPath, EdgeKeepsOperands, EdgeKeepsMisses, EdgeKeepsTargets, EdgeKeepsDuplicates,
       EdgeKeepsLive DEF PipelineInv
  <2>2. PipelineInv /\ UNCHANGED vars => PipelineInv'
    BY DEF vars, stages, btbVars, PipelineInv, PathInOrder, Follows, Live, OperandsHeld, Writing,
       MissStands, MissedTaken, ex_mem_bren, isMiss, Matches, BranchTargetsRight, DuplicatesAgree,
       NeverDrained
  <2> QED
    BY <2>1, <2>2
<1> QED
  BY <1>1, InitInv, TypeCorrect, PTL DEF Spec

\* branch_target_buffer.sv: an entry for a branch has the branch's target, so a branch
\* that hits needs no comparison of targets.
THEOREM TargetsRight == Spec => []BranchTargetsRight
<1>1. PipelineInv => BranchTargetsRight
  BY DEF PipelineInv
<1> QED
  BY <1>1, PipelineSafe, PTL

\* branch_target_buffer.sv: it does not matter which of several entries a lookup takes.
THEOREM EntriesAgree == Spec => []DuplicatesAgree
<1>1. PipelineInv => DuplicatesAgree
  BY DEF PipelineInv
<1> QED
  BY <1>1, PipelineSafe, PTL

\* datapath.sv: what EX holds while a jump is in MEM is what was fetched behind it.
THEOREM JumpIsFollowed == Spec => []NoBubbleBehindJump
<1>1. TypeOK /\ PipelineInv => NoBubbleBehindJump
  <2> SUFFICES ASSUME TypeOK, PipelineInv, ex_mem.instr.op \in Jumps PROVE id_ex.instr # Bubble
    BY DEF NoBubbleBehindJump
  <2>1. Live(ex_mem)
    BY BubbleIsNone DEF Jumps
  <2> QED
    BY <2>1 DEF PipelineInv, PathInOrder, Live, Jumps
<1> QED
  BY <1>1, PipelineSafe, TypeCorrect, PTL

\* datapath.sv: flushes and bubbles never empty the pipeline.
THEOREM SomethingInFlight == Spec => []NeverDrained
<1>1. PipelineInv => NeverDrained
  BY DEF PipelineInv
<1> QED
  BY <1>1, PipelineSafe, PTL

-------------------------------------------------------------------------------
(* The registers and the memory of the sequential machine. *)

\* What MEM holds for its destination register.
MemValue == IF regfilemux_mem(ex_mem.instr) THEN dmem[ex_mem.ex_data_out] ELSE ex_mem.ex_data_out

\* The mapped registers, one by one.
LEMMA ArchRegsAt ==
  TypeOK /\ PipelineInv =>
    /\ ArchRegs \in [Registers -> Word]
    /\ \A r \in Registers :
         ArchRegs[r] = IF load_regfile(ex_mem.instr) /\ ex_mem.instr.rd = r /\ r # 0
                         THEN MemValue ELSE RegfileOut(r)
<1> SUFFICES ASSUME TypeOK, PipelineInv
             PROVE  /\ ArchRegs \in [Registers -> Word]
                    /\ \A r \in Registers :
                         ArchRegs[r] = IF load_regfile(ex_mem.instr) /\ ex_mem.instr.rd = r /\ r # 0
                                         THEN MemValue ELSE RegfileOut(r)
  OBVIOUS
<1> DEFINE wb == Written(data, mem_wb.instr, rd_data_in)
<1>1. data \in [Registers -> Word] /\ data[0] = 0
  BY DEF TypeOK, PipelineInv, OperandsHeld
<1>2. rd_data_in \in Word /\ MemValue \in Word
  BY DatapathTypes DEF MemValue, TypeOK, ExMem
<1>3. wb \in [Registers -> Word] /\ \A r \in Registers : wb[r] = RegfileOut(r)
  BY <1>1, <1>2, StageInstructions DEF Written, RegfileOut, Writing
<1>4. ArchRegs = Written(wb, ex_mem.instr, MemValue)
  BY DEF ArchRegs, MemValue
<1> HIDE DEF wb
<1> QED
  BY <1>2, <1>3, <1>4, StageInstructions DEF Written

\* The operands after forwarding.
LEMMA ForwardedAreArchitectural ==
  ASSUME TypeOK, PipelineInv, CounterUnread, Live(id_ex)
  PROVE  /\ id_ex.instr.op \notin {"auipc", "lui", "jal"} => rs1_out_forward = ArchRegs[id_ex.instr.rs1]
         /\ id_ex.instr.op \in {"reg", "store", "br"} => rs2_out_forward = ArchRegs[id_ex.instr.rs2]
<1>1. \A r \in Registers :
        ArchRegs[r] = IF load_regfile(ex_mem.instr) /\ ex_mem.instr.rd = r /\ r # 0
                        THEN MemValue ELSE RegfileOut(r)
  BY ArchRegsAt
<1>2. id_ex.instr.rs1 \in Registers /\ id_ex.instr.rs2 \in Registers
  BY StageInstructions
<1>3. ex_mem.instr.op # "csr"
  <2>1. Live(ex_mem) => ex_mem.instr.op # "csr"
    BY DEF PipelineInv, PathInOrder, Follows, CounterUnread, TypeOK, ExMem
  <2> QED
    BY <2>1, BubbleIsNone
<1>4. ex_mem.instr.op # "load" => MemValue = ex_mem.ex_data_out
  BY <1>3 DEF MemValue, regfilemux_mem
<1>5. /\ ex_mem.instr.op = "load" /\ ex_mem.instr.rd # 0 =>
           /\ id_ex.instr.op \notin {"auipc", "lui", "jal"} => id_ex.instr.rs1 # ex_mem.instr.rd
           /\ id_ex.instr.op \in {"reg", "store", "br"} => id_ex.instr.rs2 # ex_mem.instr.rd
      /\ ~Writing(id_ex.instr.rs1) => id_ex.rs1_out = data[id_ex.instr.rs1]
      /\ ~Writing(id_ex.instr.rs2) => id_ex.rs2_out = data[id_ex.instr.rs2]
      /\ data[0] = 0
  BY DEF PipelineInv, OperandsHeld
<1>6. ~Writing(0)
  BY DEF Writing
<1>7. ASSUME NEW rs \in Registers, NEW out, ~Writing(rs) => out = data[rs],
             ex_mem.instr.op = "load" /\ ex_mem.instr.rd # 0 => rs # ex_mem.instr.rd
      PROVE  Forward(rs, out) = ArchRegs[rs]
  BY <1>1, <1>4, <1>5, <1>6, <1>7 DEF Forward, RegfileOut, Writing
<1> QED
  BY <1>2, <1>5, <1>7 DEF rs1_out_forward, rs2_out_forward

\* forwarding.sv and hazard_detection.sv: EX computes with what all older instructions
\* leave, in programs that do not read the cycle counter.
THEOREM OperandsRight == ASSUME CounterUnread PROVE Spec => []OperandsAreArchitectural
<1>1. TypeOK /\ PipelineInv => OperandsAreArchitectural
  BY ForwardedAreArchitectural DEF OperandsAreArchitectural, Live
<1> QED
  BY <1>1, PipelineSafe, TypeCorrect, PTL

-------------------------------------------------------------------------------
(* The program counter of the sequential machine. *)

\* Whatever was predicted of the instruction in MEM, what the sequential machine goes
\* on with is its successor: the redirect corrects exactly the wrong predictions.
LEMMA SuccessorOfMem ==
  TypeOK /\ PathInOrder /\ Live(ex_mem) =>
    ArchPc = IF ex_mem_bren THEN ex_mem.alu_out ELSE Plus(ex_mem.pc, 1)
<1> SUFFICES ASSUME TypeOK, PathInOrder, Live(ex_mem)
             PROVE  ArchPc = IF ex_mem_bren THEN ex_mem.alu_out ELSE Plus(ex_mem.pc, 1)
  OBVIOUS
<1> DEFINE next == IF Live(id_ex) THEN id_ex.pc ELSE if_id.pc
<1>1. ~branch_rst => ArchPc = next
  BY DEF ArchPc, PathInOrder, Live
<1>2. branch_rst => ArchPc = RedirectPc
  BY DEF ArchPc
<1>3. /\ ex_mem.instr.op \in Jumps => ex_mem.predict
      /\ ex_mem.ismiss \/ ~ex_mem.predict => next = Plus(ex_mem.pc, 1)
      /\ ~ex_mem.ismiss /\ ex_mem.predict /\ ex_mem.instr.op = "br" => next = Plus(ex_mem.pc, ex_mem.instr.imm)
      /\ ex_mem.instr.op = "br" => ex_mem.alu_out = Plus(ex_mem.pc, ex_mem.instr.imm)
  BY DEF PathInOrder, Follows
<1>4. ex_mem.instr.op \in Jumps => next = id_ex.pc
  BY DEF PathInOrder, Jumps
<1> HIDE DEF next
<1>5. CASE ex_mem.instr.op \in Jumps
  <2>1. ex_mem_bren /\ ex_mem.predict
    BY <1>3, <1>5 DEF ex_mem_bren
  <2>2. branch_rst \/ next = ex_mem.alu_out
    BY <1>4, <1>5 DEF branch_rst, WrongTarget
  <2>3. ~NotTaken
    BY <2>1 DEF NotTaken
  <2> QED
    BY <1>1, <1>2, <2>1, <2>2, <2>3 DEF RedirectPc
<1>6. CASE ex_mem.instr.op \notin Jumps /\ ex_mem_bren
  <2>1. ex_mem.instr.op = "br" /\ ~NotTaken
    BY <1>6 DEF ex_mem_bren, NotTaken
  <2>2. branch_rst \/ next = ex_mem.alu_out
    BY <1>3, <1>6, <2>1 DEF branch_rst, MissedTaken, NotPredicted
  <2> QED
    BY <1>1, <1>2, <1>6, <2>1, <2>2 DEF RedirectPc
<1>7. CASE ~ex_mem_bren
  <2>1. branch_rst => NotTaken /\ ~MissedTaken
    BY <1>7 DEF branch_rst, MissedTaken, NotPredicted, WrongTarget, ex_mem_bren
  <2>2. branch_rst \/ next = Plus(ex_mem.pc, 1)
    BY <1>3, <1>7 DEF branch_rst, NotTaken
  <2> QED
    BY <1>1, <1>2, <1>7, <2>1, <2>2 DEF RedirectPc
<1> QED
  BY <1>5, <1>6, <1>7

-------------------------------------------------------------------------------
(* The refinement, edge by edge. *)

\* On an edge without a stall, what MEM holds gets to WB, and so into the mapped
\* registers and memory of the next cycle, under whatever gets to MEM.
LEMMA MemGoesOn ==
  ASSUME TypeOK, PipelineInv, Next, mem_wb' = MemWbIn,
         DataPortEdge(TRUE) \/ (~data_write /\ dmem' = dmem)
  PROVE  /\ \A r \in Registers : RegfileOut(r)' = ArchRegs[r]
         /\ dmem' = ArchMem
<1>1. /\ data'[0] = 0
      /\ \A r \in Registers : RegfileOut(r) = data'[r]
  BY EdgeCases, RegistersRead DEF PipelineInv
<1>2. mem_wb'.instr = ex_mem.instr /\ rd_data_in' = MemValue
  BY DEF MemWbIn, rd_data_in, MemValue, regfilemux_mem, data_read, mem_read
<1>3. \A r \in Registers :
        RegfileOut(r)' = IF r = 0 THEN 0
                         ELSE IF load_regfile(ex_mem.instr) /\ ex_mem.instr.rd = r THEN MemValue ELSE data'[r]
  BY <1>2 DEF RegfileOut, Writing, load_regfile
<1>4. 0 \in Registers
  BY ProgramAssumption DEF Registers
<1>5. \A r \in Registers : RegfileOut(r)' = ArchRegs[r]
  BY <1>1, <1>3, <1>4, ArchRegsAt
<1>6. dmem' = ArchMem
  BY DEF DataPortEdge, ArchMem
<1> QED
  BY <1>5, <1>6

\* Nothing that is in MEM and WB now changes the mapping of an edge that brings no
\* instruction into MEM.
LEMMA QuietEdge ==
  ASSUME TypeOK, PipelineInv, TypeOK', PipelineInv', Next, mem_wb' = MemWbIn, ~Live(ex_mem)',
         DataPortEdge(TRUE) \/ (~data_write /\ dmem' = dmem)
  PROVE  UNCHANGED <<ArchRegs, ArchMem>>
<1>1. ~load_regfile(ex_mem.instr)' /\ ~data_write'
  BY BubbleIsNone DEF Live, Bubble, load_regfile, Jumps, data_write, mem_write
<1>2. /\ \A r \in Registers : RegfileOut(r)' = ArchRegs[r]
      /\ dmem' = ArchMem
  BY MemGoesOn
<1>3. /\ ArchRegs' \in [Registers -> Word]
      /\ \A r \in Registers : ArchRegs'[r] = RegfileOut(r)'
  <2>1. (TypeOK /\ PipelineInv =>
          /\ ArchRegs \in [Registers -> Word]
          /\ \A r \in Registers :
               ArchRegs[r] = IF load_regfile(ex_mem.instr) /\ ex_mem.instr.rd = r /\ r # 0
                               THEN MemValue ELSE RegfileOut(r))'
    BY ArchRegsAt, PTL
  <2> QED
    BY <1>1, <2>1
<1>4. ArchRegs \in [Registers -> Word]
  BY ArchRegsAt
<1>5. ArchMem' = dmem'
  BY <1>1 DEF ArchMem
<1> QED
  BY <1>2, <1>3, <1>4, <1>5

\* A stall repeats the write of WB and the store in MEM, which changes nothing.
LEMMA StalledEdge ==
  ASSUME TypeOK, PipelineInv, TypeOK', PipelineInv', Next, Stalled
  PROVE  UNCHANGED <<ArchPc, ArchRegs, ArchMem>>
<1>1. /\ if_id' = if_id /\ id_ex' = id_ex /\ ex_mem' = ex_mem /\ mem_wb' = mem_wb /\ pc' = pc
  BY DEF Stalled, stages
<1>2. ArchPc' = ArchPc
  BY <1>1 DEF ArchPc, branch_rst, RedirectPc, MissedTaken, NotTaken, NotPredicted, WrongTarget, ex_mem_bren
<1> PICK data_resp \in BOOLEAN : DataPortEdge(data_resp)
  BY EdgeCases
<1>3. ArchMem' = ArchMem
  <2>1. data_write' <=> data_write
    BY <1>1 DEF data_write
  <2>2. CASE ~data_write
    BY <2>1, <2>2 DEF ArchMem, DataPortEdge
  <2>3. CASE data_write
    <3>1. dmem \in [Word -> Word] /\ ex_mem.ex_data_out \in Word /\ ex_mem.rs2_out \in Word
      BY DEF TypeOK, ExMem
    <3>2. [[dmem EXCEPT ![ex_mem.ex_data_out] = ex_mem.rs2_out] EXCEPT ![ex_mem.ex_data_out] = ex_mem.rs2_out]
            = [dmem EXCEPT ![ex_mem.ex_data_out] = ex_mem.rs2_out]
      BY <3>1
    <3> QED
      BY <1>1, <2>1, <2>3, <3>2 DEF ArchMem, DataPortEdge
  <2> QED
    BY <2>2, <2>3
<1>4. ArchRegs' = ArchRegs
  <2>1. /\ data'[0] = 0
        /\ \A r \in Registers : RegfileOut(r) = data'[r]
    BY EdgeCases, RegistersRead DEF PipelineInv
  <2>2. rd_data_in' = rd_data_in /\ \A r : Writing(r)' <=> Writing(r)
    BY <1>1 DEF rd_data_in, Writing
  <2>3. ASSUME NEW r \in Registers PROVE RegfileOut(r)' = RegfileOut(r)
    BY <2>1, <2>2 DEF RegfileOut
  <2>4. MemValue' = MemValue
    <3>1. regfilemux_mem(ex_mem.instr) => dmem' = dmem
      BY DEF regfilemux_mem, DataPortEdge, data_write, mem_write
    <3> QED
      BY <1>1, <3>1 DEF MemValue
  <2>5. (TypeOK /\ PipelineInv =>
          /\ ArchRegs \in [Registers -> Word]
          /\ \A r \in Registers :
               ArchRegs[r] = IF load_regfile(ex_mem.instr) /\ ex_mem.instr.rd = r /\ r # 0
                               THEN MemValue ELSE RegfileOut(r))'
    BY ArchRegsAt, PTL
  <2>6. \A r \in Registers : ArchRegs'[r] = ArchRegs[r]
    BY <1>1, <2>3, <2>4, <2>5, ArchRegsAt
  <2> QED
    BY <2>5, <2>6, ArchRegsAt
<1> QED
  BY <1>2, <1>3, <1>4

\* A flush leaves the redirected program counter, and nothing else, to go on with.
LEMMA FlushEdge ==
  ASSUME TypeOK, PipelineInv, TypeOK', PipelineInv', Next, Flush,
         DataPortEdge(TRUE) \/ (~data_write /\ dmem' = dmem)
  PROVE  UNCHANGED <<ArchPc, ArchRegs, ArchMem>>
<1>1. /\ pc' = RedirectPc /\ mem_wb' = MemWbIn /\ branch_rst
      /\ if_id' = IfIdReset /\ id_ex' = IdExReset /\ ex_mem' = ExMemReset
  BY DEF Flush
<1>2. ~Live(ex_mem)' /\ id_ex'.instr = Bubble /\ if_id'.instr = Bubble
  BY <1>1 DEF Live, IfIdReset, IdExReset, ExMemReset
<1>3. ~branch_rst'
  BY <1>1 DEF branch_rst, MissedTaken, NotTaken, NotPredicted, WrongTarget, ex_mem_bren, ExMemReset,
     Bubble, Jumps
<1>4. ArchPc' = ArchPc
  BY <1>1, <1>2, <1>3 DEF ArchPc
<1> QED
  BY <1>1, <1>2, <1>4, QuietEdge

\* A bubble that moves into MEM is no step of the sequential machine.
LEMMA BubbleEdge ==
  ASSUME TypeOK, PipelineInv, TypeOK', PipelineInv', Next, NEW dir \in BOOLEAN, Advance(dir), ~Live(id_ex),
         DataPortEdge(TRUE) \/ (~data_write /\ dmem' = dmem)
  PROVE  UNCHANGED <<ArchPc, ArchRegs, ArchMem>>
<1>1. /\ if_id' = IfIdIn(dir) /\ id_ex' = IdExIn /\ ex_mem' = ExMemIn /\ mem_wb' = MemWbIn /\ ~branch_rst
  BY DEF Advance
<1>2. ~Live(ex_mem)'
  BY <1>1 DEF ExMemIn, Live
<1>3. ~branch_rst'
  <2>1. (TypeOK /\ PathInOrder /\ branch_rst => Live(ex_mem))'
    BY RedirectIsLive, PTL
  <2> QED
    BY <2>1, <1>2 DEF PipelineInv
<1>4. ArchPc' = ArchPc
  <2>1. id_ex'.instr = if_id.instr /\ id_ex'.pc = if_id.pc
    BY <1>1 DEF IdExIn
  <2>2. if_id'.instr # Bubble /\ if_id'.pc = pc
    <3>1. program[pc] \in Fields
      BY ProgramAssumption DEF TypeOK
    <3> QED
      BY <1>1, <3>1, InstructionTypes DEF IfIdIn, Fields, Classes, Jumps
  <2> QED
    BY <1>1, <1>3, <2>1, <2>2 DEF ArchPc, Live
<1> QED
  BY <1>1, <1>2, <1>4, QuietEdge

\* An instruction that moves from EX to MEM is executed by the sequential machine.
LEMMA CommitEdge ==
  ASSUME CounterUnread, TypeOK, PipelineInv, TypeOK', PipelineInv', Next,
         ~branch_rst, Live(id_ex), ex_mem' = ExMemIn, mem_wb' = MemWbIn,
         DataPortEdge(TRUE) \/ (~data_write /\ dmem' = dmem)
  PROVE  ISA!Step
<1> DEFINE i == id_ex.instr
<1>1. /\ ArchPc = id_ex.pc /\ program[ArchPc] = i /\ program' = program
      /\ id_ex.pc \in Word /\ i \in Fields /\ i.op # "csr"
  <2>1. ArchPc = id_ex.pc /\ i = program[id_ex.pc]
    BY DEF ArchPc, Live, PipelineInv, PathInOrder, Follows
  <2>2. id_ex.pc \in Word /\ program \in Programs
    BY DEF TypeOK, IdEx
  <2> QED
    BY <2>1, <2>2, EdgeCases, ProgramAssumption DEF CounterUnread
<1>2. /\ i.rd \in Registers /\ i.rs1 \in Registers /\ i.rs2 \in Registers /\ i.imm \in Word
      /\ i.op \in Classes /\ i.fn \in {"add", "eq", "ltu"}
  BY <1>1 DEF Fields
<1>3. /\ i.op \notin {"auipc", "lui", "jal"} => rs1_out_forward = ArchRegs[i.rs1]
      /\ i.op \in {"reg", "store", "br"} => rs2_out_forward = ArchRegs[i.rs2]
  BY ForwardedAreArchitectural
<1>4. /\ ex_mem'.instr = i /\ ex_mem'.pc = id_ex.pc /\ ex_mem'.ex_data_out = ex_data_out
      /\ ex_mem'.alu_out = alu_out /\ ex_mem'.rs2_out = rs2_out_forward /\ ex_mem'.br_en = br_en
      /\ Live(ex_mem)'
  BY DEF ExMemIn, Live
<1>5. /\ \A r \in Registers : RegfileOut(r)' = ArchRegs[r]
      /\ dmem' = ArchMem
  BY MemGoesOn
<1>6. /\ ArchRegs' \in [Registers -> Word] /\ ArchRegs \in [Registers -> Word]
      /\ \A r \in Registers :
           ArchRegs'[r] = IF load_regfile(i) /\ i.rd = r /\ r # 0 THEN MemValue' ELSE ArchRegs[r]
  <2>1. (TypeOK /\ PipelineInv =>
          /\ ArchRegs \in [Registers -> Word]
          /\ \A r \in Registers :
               ArchRegs[r] = IF load_regfile(ex_mem.instr) /\ ex_mem.instr.rd = r /\ r # 0
                               THEN MemValue ELSE RegfileOut(r))'
    BY ArchRegsAt, PTL
  <2> QED
    BY <1>4, <1>5, <2>1, ArchRegsAt DEF load_regfile
<1>7. MemValue' = IF i.op = "load" THEN ArchMem[ex_data_out] ELSE ex_data_out
  BY <1>1, <1>4, <1>5 DEF MemValue, regfilemux_mem
<1>8. ArchMem' = IF i.op = "store" THEN [ArchMem EXCEPT ![ex_data_out] = rs2_out_forward] ELSE ArchMem
  BY <1>4, <1>5 DEF ArchMem, data_write, mem_write
<1>9. ArchPc' = IF (i.op = "br" /\ br_en) \/ i.op \in Jumps THEN alu_out ELSE Plus(id_ex.pc, 1)
  <2>1. (TypeOK /\ PathInOrder /\ Live(ex_mem) =>
          ArchPc = IF ex_mem_bren THEN ex_mem.alu_out ELSE Plus(ex_mem.pc, 1))'
    BY SuccessorOfMem, PTL
  <2> QED
    BY <1>4, <2>1 DEF PipelineInv, ex_mem_bren
<1>z. ArchRegs[0] = 0
  <2>1. 0 \in Registers /\ RegfileOut(0) = 0
    BY ProgramAssumption DEF Registers, RegfileOut
  <2> QED
    BY <2>1, ArchRegsAt
<1>w. ASSUME load_regfile(i), NEW v, MemValue' = v PROVE ISA!Write(i.rd, v)
  <2>1. [ArchRegs EXCEPT ![i.rd] = IF i.rd = 0 THEN 0 ELSE v] \in [Registers -> Word \cup {v}]
    BY <1>6, <1>z, ProgramAssumption DEF Word
  <2>2. \A r \in Registers : ArchRegs'[r] = [ArchRegs EXCEPT ![i.rd] = IF i.rd = 0 THEN 0 ELSE v][r]
    BY <1>2, <1>6, <1>w, <1>z
  <2> QED
    BY <1>6, <2>1, <2>2 DEF ISA!Write
<1>r. ~load_regfile(i) => ArchRegs' = ArchRegs
  BY <1>6
<1>n. i.op \notin Jumps \cup {"br"} => ISA!Next4
  BY <1>1, <1>9 DEF ISA!Next4, ISA!Plus, Plus
<1>10. CASE i.op \in {"imm", "reg", "lui", "auipc"}
  <2>1. ex_data_out = ISA!Result(i)
    <3> DEFINE second == IF i.op = "imm" THEN i.imm ELSE ArchRegs[i.rs2]
    <3>1. CASE i.op \in {"lui", "auipc"}
      BY <1>1, <3>1 DEF ISA!Result, ISA!Plus, Plus, ex_data_out, exdatamux_br_en, alu_out, alumux1_pc,
         alumux2_imm, Jumps
    <3>2. CASE i.op \in {"imm", "reg"} /\ i.fn = "ltu"
      <4>1. br_en <=> ArchRegs[i.rs1] < second
        BY <1>3, <3>2 DEF br_en, Compare, cmpmux_imm
      <4>2. ISA!Result(i) = IF ArchRegs[i.rs1] < second THEN 1 ELSE 0
        BY <3>2 DEF ISA!Result
      <4>3. ex_data_out = IF br_en THEN 1 ELSE 0
        BY <3>2 DEF ex_data_out, exdatamux_br_en, Jumps
      <4> QED
        BY <4>1, <4>2, <4>3
    <3>3. CASE i.op \in {"imm", "reg"} /\ i.fn # "ltu"
      <4>1. ISA!Result(i) = ISA!Plus(ArchRegs[i.rs1], second)
        BY <3>3 DEF ISA!Result
      <4>2. ex_data_out = alu_out
        BY <3>3 DEF ex_data_out, exdatamux_br_en, Jumps
      <4>3. alu_out = Plus(ArchRegs[i.rs1], second)
        BY <1>3, <3>3 DEF alu_out, alumux1_pc, alumux2_imm
      <4> QED
        BY <4>1, <4>2, <4>3 DEF ISA!Plus, Plus
    <3> QED
      BY <1>10, <3>1, <3>2, <3>3
  <2>2. ISA!Write(i.rd, ISA!Result(i)) /\ ArchMem' = ArchMem
    BY <1>7, <1>8, <1>w, <1>10, <2>1 DEF load_regfile
  <2> QED
    BY <1>1, <1>n, <1>10, <2>2 DEF ISA!Step, ISA!Compute, Jumps
<1>11. CASE i.op = "load"
  <2>1. ex_data_out = ISA!Plus(ArchRegs[i.rs1], i.imm)
    BY <1>3, <1>11 DEF ISA!Plus, Plus, ex_data_out, exdatamux_br_en, alu_out, alumux1_pc, alumux2_imm, Jumps
  <2>2. ISA!Write(i.rd, ArchMem[ISA!Plus(ArchRegs[i.rs1], i.imm)]) /\ ArchMem' = ArchMem
    BY <1>7, <1>8, <1>w, <1>11, <2>1 DEF load_regfile
  <2> QED
    BY <1>1, <1>n, <1>11, <2>2 DEF ISA!Step, ISA!Load, Jumps
<1>12. CASE i.op = "store"
  <2>1. ex_data_out = ISA!Plus(ArchRegs[i.rs1], i.imm) /\ rs2_out_forward = ArchRegs[i.rs2]
    BY <1>3, <1>12 DEF ISA!Plus, Plus, ex_data_out, exdatamux_br_en, alu_out, alumux1_pc, alumux2_imm, Jumps
  <2>2. ArchRegs' = ArchRegs
    BY <1>r, <1>12 DEF load_regfile, Jumps
  <2> QED
    BY <1>1, <1>n, <1>8, <1>12, <2>1, <2>2 DEF ISA!Step, ISA!Store, Jumps
<1>13. CASE i.op = "br"
  <2>1. br_en = ISA!Compare(i.fn, ArchRegs[i.rs1], ArchRegs[i.rs2])
    BY <1>3, <1>13 DEF ISA!Compare, Compare, br_en, cmpmux_imm
  <2>2. alu_out = Plus(id_ex.pc, i.imm)
    BY <1>13 DEF alu_out, alumux1_pc, alumux2_imm
  <2>3. ArchPc' = ISA!Plus(ArchPc, IF ISA!Compare(i.fn, ArchRegs[i.rs1], ArchRegs[i.rs2]) THEN i.imm ELSE 1)
    BY <1>1, <1>9, <1>13, <2>1, <2>2 DEF ISA!Plus, Plus, Jumps
  <2>4. ArchRegs' = ArchRegs /\ ArchMem' = ArchMem
    BY <1>r, <1>8, <1>13 DEF load_regfile, Jumps
  <2> QED
    BY <1>1, <1>13, <2>3, <2>4 DEF ISA!Step, ISA!Branch
<1>14. CASE i.op \in Jumps
  <2>1. alu_out = ISA!Plus(IF i.op = "jal" THEN ArchPc ELSE ArchRegs[i.rs1], i.imm)
    BY <1>1, <1>3, <1>14 DEF ISA!Plus, Plus, alu_out, alumux1_pc, alumux2_imm, Jumps
  <2>2. ex_data_out = ISA!Plus(ArchPc, 1)
    BY <1>1, <1>14 DEF ISA!Plus, Plus, ex_data_out, exdatamux_br_en, Jumps
  <2>3. ISA!Write(i.rd, ISA!Plus(ArchPc, 1)) /\ ArchMem' = ArchMem
    BY <1>7, <1>8, <1>w, <1>14, <2>2 DEF load_regfile, Jumps
  <2> QED
    BY <1>1, <1>9, <1>14, <2>1, <2>3 DEF ISA!Step, ISA!Jump, ISA!Jumps, Jumps
<1> QED
  BY <1>1, <1>2, <1>10, <1>11, <1>12, <1>13, <1>14 DEF Classes

\* Every edge is a step of the sequential machine, or none.
LEMMA EdgeRefines ==
  ASSUME CounterUnread, TypeOK, PipelineInv, TypeOK', PipelineInv', [Next]_vars
  PROVE  [ISA!Step]_(ISA!isaVars)
<1>1. CASE UNCHANGED vars
  BY <1>1 DEF vars, stages, btbVars, ISA!isaVars, ArchPc, ArchRegs, ArchMem, branch_rst, RedirectPc, MissedTaken,
     NotTaken, NotPredicted, WrongTarget, ex_mem_bren, data_write, rd_data_in
<1>2. CASE Next
  <2>1. CASE Stalled
    BY <1>2, <2>1, StalledEdge, EdgeCases DEF ISA!isaVars
  <2>2. CASE DataPortEdge(TRUE) \/ (~data_write /\ dmem' = dmem)
    <3>1. CASE Flush
      BY <1>2, <2>2, <3>1, FlushEdge, EdgeCases DEF ISA!isaVars
    <3>2. CASE InsertBubble
      BY <1>2, <2>2, <3>2, LoadUseIsLive, CommitEdge DEF InsertBubble, PipelineInv
    <3>3. ASSUME NEW dir \in BOOLEAN, Advance(dir) PROVE [ISA!Step]_(ISA!isaVars)
      <4>1. CASE Live(id_ex)
        BY <1>2, <2>2, <3>3, <4>1, CommitEdge DEF Advance
      <4>2. CASE ~Live(id_ex)
        BY <1>2, <2>2, <3>3, <4>2, BubbleEdge, EdgeCases DEF ISA!isaVars
      <4> QED
        BY <4>1, <4>2
    <3> QED
      BY <1>2, <2>1, <3>1, <3>2, <3>3, EdgeCases
  <2> QED
    BY <1>2, <2>1, <2>2, EdgeCases
<1> QED
  BY <1>1, <1>2

\* After reset the mapped machine is in its initial state.
LEMMA InitRefines == Init => ISA!IsaInit
<1> SUFFICES ASSUME Init PROVE ISA!IsaInit
  OBVIOUS
<1>1. /\ if_id = IfIdReset /\ id_ex = IdExReset /\ ex_mem = ExMemReset /\ mem_wb = MemWbReset
      /\ data = [r \in Registers |-> 0] /\ pc = StartPc /\ program \in Programs /\ dmem = [a \in Word |-> 0]
  BY DEF Init
<1>2. ~load_regfile(ex_mem.instr) /\ ~load_regfile(mem_wb.instr) /\ ~data_write
  BY <1>1 DEF ExMemReset, MemWbReset, Bubble, load_regfile, Jumps, data_write, mem_write
<1>3. ~branch_rst
  BY <1>1 DEF branch_rst, MissedTaken, NotTaken, NotPredicted, WrongTarget, ex_mem_bren, ExMemReset, Bubble, Jumps
<1>4. ArchRegs = data /\ ArchMem = dmem
  BY <1>2 DEF ArchRegs, ArchMem, Written
<1>5. ArchPc = StartPc
  BY <1>1, <1>3 DEF ArchPc, IfIdReset, IdExReset
<1> QED
  BY <1>1, <1>4, <1>5 DEF ISA!IsaInit, ISA!StartPc, StartPc, ISA!Registers, Registers, ISA!Word, Word

\* datapath.sv: with every prediction, stall, forwarding, bubble and flush, what reaches
\* MEM is the program, one instruction after the other, if it does not read the cycle
\* counter.
THEOREM PipelineRefinesSequential == ASSUME CounterUnread PROVE Spec => ImplementsSequential
<1>1. TypeOK /\ PipelineInv /\ TypeOK' /\ PipelineInv' /\ [Next]_vars => [ISA!Step]_(ISA!isaVars)
  BY EdgeRefines
<1> QED
  BY <1>1, InitRefines, PipelineSafe, TypeCorrect, PTL DEF Spec, ImplementsSequential, ISA!IsaSafety
-------------------------------------------------------------------------------
(* How long the next instruction takes.  KeepsExecuting is a liveness property; *)
(* what carries it is a number of edges that every edge without a stall brings  *)
(* down, or that ends with an instruction in MEM.                               *)

\* The edges without a stall to the next instruction in MEM, that edge included: one
\* for a flush, one for each empty stage, one for the instruction in EX.
EdgesToCommit ==
  IF branch_rst THEN 4 ELSE IF Live(id_ex) THEN 1 ELSE IF Live(if_id) THEN 2 ELSE 3

\* A stage that shows a bubble to MEM shows no redirect.
LEMMA BubbleNextIsQuiet ==
  ASSUME TypeOK', PipelineInv', ~Live(ex_mem)'
  PROVE  ~branch_rst'
<1>1. (TypeOK /\ PathInOrder /\ branch_rst => Live(ex_mem))'
  BY RedirectIsLive, PTL
<1> QED
  BY <1>1 DEF PipelineInv

\* An edge of the pipeline that is not stalled.
LEMMA EdgeCounts ==
  ASSUME CounterUnread, TypeOK, PipelineInv, TypeOK', PipelineInv',
         NEW i \in BOOLEAN, NEW d \in BOOLEAN, Edge(i, d), ~pipeline_stall(i, d)
  PROVE  ISA!Step \/ EdgesToCommit' < EdgesToCommit
<1>0. Next
  BY DEF Next
<1>1. Flush \/ InsertBubble \/ \E dir \in BOOLEAN : Advance(dir)
  BY DEF Edge
<1>2. DataPortEdge(TRUE) \/ (~data_write /\ dmem' = dmem)
  <2>1. DataPortEdge(d) /\ (d = TRUE \/ ~data_write)
    BY DEF Edge, pipeline_stall
  <2> QED
    BY <2>1 DEF DataPortEdge
<1>b. ~Live(IfIdReset) /\ ~Live(IdExReset) /\ ~Live(ExMemReset)
  BY DEF Live, IfIdReset, IdExReset, ExMemReset
<1>3. CASE Flush
  <2>1. ~Live(ex_mem)' /\ ~Live(id_ex)' /\ ~Live(if_id)'
    BY <1>3, <1>b DEF Flush, Live
  <2> QED
    BY <1>3, <2>1, BubbleNextIsQuiet DEF Flush, EdgesToCommit
<1>4. CASE InsertBubble
  BY <1>0, <1>2, <1>4, LoadUseIsLive, CommitEdge DEF InsertBubble, PipelineInv
<1>5. ASSUME NEW dir \in BOOLEAN, Advance(dir) PROVE ISA!Step \/ EdgesToCommit' < EdgesToCommit
  <2>1. CASE Live(id_ex)
    BY <1>0, <1>2, <1>5, <2>1, CommitEdge DEF Advance
  <2>2. CASE ~Live(id_ex)
    <3>1. ~Live(ex_mem)' /\ (Live(id_ex)' <=> Live(if_id))
      BY <1>5, <2>2 DEF Advance, ExMemIn, IdExIn, Live
    <3>2. Live(if_id)'
      <4>1. program[pc] \in Fields
        BY ProgramAssumption DEF TypeOK
      <4> QED
        BY <1>5, <4>1, InstructionTypes DEF Advance, IfIdIn, Live, Fields, Classes, Jumps
    <3> QED
      BY <1>5, <2>2, <3>1, <3>2, BubbleNextIsQuiet DEF Advance, EdgesToCommit
  <2> QED
    BY <2>1, <2>2
<1> QED
  BY <1>1, <1>3, <1>4, <1>5

\* datapath.sv: of four edges in a row without a stall one at least moves an instruction
\* into MEM, as the sequential machine executes it, and a stall takes nothing back: no
\* flush, bubble or wrong prediction holds the program for longer.
THEOREM CommitsKeepComing ==
  ASSUME CounterUnread
  PROVE  Spec =>
           /\ [](EdgesToCommit \in 1 .. 4)
           /\ [][\A i, d \in BOOLEAN : Edge(i, d) =>
                   IF pipeline_stall(i, d) THEN EdgesToCommit' = EdgesToCommit
                   ELSE ISA!Step \/ EdgesToCommit' < EdgesToCommit]_vars
<1>1. EdgesToCommit \in 1 .. 4
  BY DEF EdgesToCommit
<1>2. TypeOK /\ PipelineInv /\ TypeOK' /\ PipelineInv' /\ [Next]_vars =>
        [\A i, d \in BOOLEAN : Edge(i, d) =>
           IF pipeline_stall(i, d) THEN EdgesToCommit' = EdgesToCommit
           ELSE ISA!Step \/ EdgesToCommit' < EdgesToCommit]_vars
  <2> SUFFICES ASSUME TypeOK, PipelineInv, TypeOK', PipelineInv',
                      NEW i \in BOOLEAN, NEW d \in BOOLEAN, Edge(i, d)
               PROVE  IF pipeline_stall(i, d) THEN EdgesToCommit' = EdgesToCommit
                      ELSE ISA!Step \/ EdgesToCommit' < EdgesToCommit
    OBVIOUS
  <2>1. CASE pipeline_stall(i, d)
    BY <2>1 DEF Edge, Stalled, stages, EdgesToCommit, branch_rst, MissedTaken, NotTaken, NotPredicted,
       WrongTarget, ex_mem_bren, Live
  <2>2. CASE ~pipeline_stall(i, d)
    BY <2>2, EdgeCounts
  <2> QED
    BY <2>1, <2>2
<1> QED
  BY <1>1, <1>2, PipelineSafe, TypeCorrect, PTL DEF Spec
=============================================================================
