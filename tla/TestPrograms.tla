---------------------------- MODULE TestPrograms ----------------------------
(***************************************************************************)
(* The competition programs mp4 is run with: the memory image holds one of *)
(* them, and it leaves its verdict on itself in register s10 (status).     *)
(***************************************************************************)
EXTENDS Integers

VARIABLES program,                          \* the one that is loaded
          status,                           \* register s10
          pc, test, error,                  \* of comp1, and pc of comp2
          row, i, curr, given, a, b, lcms, sum,  \* of comp2, and i of comp3
          message_start, s                  \* of comp3
vars1 == <<test, error>>
vars2 == <<row, curr, given, a, b, lcms, sum>>
vars3 == <<message_start, s>>
vars == <<program, status, pc, i, vars1, vars2, vars3>>

comp1 == INSTANCE BranchKernels
comp2 == INSTANCE SumOfMultiples
comp3 == INSTANCE ExecutionTable

\* What the other programs do not use holds nothing.
Unused == 0
Unused1 == test = Unused /\ error = Unused
Unused2 == /\ row = Unused /\ curr = Unused /\ given = Unused /\ a = Unused /\ b = Unused
           /\ lcms = Unused /\ sum = Unused
Unused3 == message_start = Unused /\ s = Unused

Init ==
  \/ program = "comp1" /\ comp1!Init /\ i = Unused /\ Unused2 /\ Unused3
  \/ program = "comp2" /\ comp2!Init /\ Unused1 /\ Unused3
  \/ program = "comp3" /\ comp3!Init /\ pc = Unused /\ Unused1 /\ Unused2

RunComp1 == program = "comp1" /\ comp1!Next /\ UNCHANGED <<program, i, vars2, vars3>>
RunComp2 == program = "comp2" /\ comp2!Next /\ UNCHANGED <<program, vars1, vars3>>
RunComp3 == program = "comp3" /\ comp3!Next /\ UNCHANGED <<program, pc, vars1, vars2>>

Next == RunComp1 \/ RunComp2 \/ RunComp3
Spec == Init /\ [][Next]_vars /\ WF_vars(Next)

-----------------------------------------------------------------------------
\* Whatever path the program has taken so far, what it has computed is right: the
\* branch kernels and the expression they are compared with are functions of the
\* trailing ones of a byte; every intermediate value is the least common multiple of
\* the numbers so far, and fits the int it is passed in; the counters are the sums
\* over the log that was read.
ComputesRight ==
  /\ program = "comp1" => comp1!KernelsRight
  /\ program = "comp2" => comp2!CurrIsLcm /\ comp2!NothingNarrowed /\ comp2!DivisorsKept
  /\ program = "comp3" => comp3!CountersOfLog

\* Every program ends, and with the status of success.
Passes == <>(status = "600D600D")
=============================================================================
