----------------------------- MODULE MCPipeline -----------------------------
(* Pipeline on words of two bits, so that code and data are four words each, *)
(* three registers and two target entries; programs of four instructions.    *)
EXTENDS Pipeline, TLC

I(op, fn, rd, rs1, rs2, imm) == [op |-> op, fn |-> fn, rd |-> rd, rs1 |-> rs1, rs2 |-> rs2, imm |-> imm]

Addi(rd, rs1, imm) == I("imm", "add", rd, rs1, 1, imm)
Add(rd, rs1, rs2) == I("reg", "add", rd, rs1, rs2, 0)
Sltu(rd, rs1, rs2) == I("reg", "ltu", rd, rs1, rs2, 0)
Lw(rd, rs1, imm) == I("load", "add", rd, rs1, 1, imm)
Sw(rs1, rs2, imm) == I("store", "add", 1, rs1, rs2, imm)
Beq(rs1, rs2, imm) == I("br", "eq", 1, rs1, rs2, imm)
Bltu(rs1, rs2, imm) == I("br", "ltu", 1, rs1, rs2, imm)
Jal(rd, imm) == I("jal", "add", rd, 1, 1, imm)
Jalr(rd, rs1, imm) == I("jalr", "add", rd, rs1, 1, imm)
Lui(rd, imm) == I("lui", "add", rd, 1, 1, imm)
Auipc(rd, imm) == I("auipc", "add", rd, 1, 1, imm)
Csr(rd) == I("csr", "add", rd, 0, 0, 3)

\* Execution starts at 2 and wraps around: a, b, c, d, over and over.  In the words
\* a and b every class meets every class, and each other over the loop.
Body == {Addi(1, 1, 1), Addi(0, 1, 1), Add(1, 1, 2), Sltu(2, 1, 2), Lw(1, 2, 1), Lw(2, 0, 1), Sw(1, 2, 0),
         Jalr(2, 1, 0), Beq(1, 2, 2)}
MCPrograms ==
  {(0 :> c @@ 1 :> d @@ 2 :> a @@ 3 :> b) :
     a \in Body, b \in Body, c \in {Addi(2, 1, 1), Lw(1, 1, 0)}, d \in {Bltu(1, 2, 1), Jal(0, 2)}}
  \cup {(0 :> Lui(1, 3) @@ 1 :> Jalr(0, 2, 1) @@ 2 :> Auipc(2, 1) @@ 3 :> Add(1, 2, 1))}

\* rdcycle x1 (the number of the cycle register is its immediate), then a reader of x1.
MCCsrPrograms == {(0 :> Jal(0, 2) @@ 1 :> Addi(0, 0, 0) @@ 2 :> Csr(1) @@ 3 :> Addi(2, 1, 0))}
=============================================================================
