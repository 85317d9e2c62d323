---------------------------- MODULE BranchKernels ----------------------------
(***************************************************************************)
(* The first competition program (comp1.c): loops over kernels of eight    *)
(* branches, meant for branch predictors, that check their own results,    *)
(* and recursive calls.  A state is a point of a test loop.                *)
(***************************************************************************)
EXTENDS FiniteSetsExt, CTypes

PASS == "600D600D"
FAIL == "00BADBAD"
Powers == {2 ^ k : k \in 0 .. 7}

And8(a, b) == a + b - Or8(a, b)

\* Eight branches, each on a bit of its own.
uncorrelated_branches_kernel(test) ==
  MapThenSumSet(LAMBDA w : IF Bit(test, w) = 1 THEN w ELSE 0, Powers)

\* Eight branches, each on the bits of the one before and one more.
correlated_branches_kernel(test) ==
  LET branch[k \in 1 .. 9, out \in 0 .. 255] ==
        IF k = 9 THEN out
        ELSE branch[k + 1, IF test % 2 ^ k = 2 ^ k - 1 THEN Or8(out, 2 ^ k - 1) ELSE out]
  IN  branch[1, 0]

\* golden = ~test & (test + 1); golden--, of unsigned char.
golden(test) == ee_u8(And8(255 - test, ee_u8(test + 1)) - 1)

VARIABLES pc, test, error, status
vars == <<pc, test, error, status>>

Init == pc = "uncorrelated" /\ test = 0 /\ error = FALSE /\ status = "DEFFDEFF"

\* The order of the tests in main.
After == [uncorrelated |-> "correlated", correlated |-> "mixed", mixed |-> "function_call"]
SanityCheck ==
  /\ pc \in {"uncorrelated", "mixed"} => uncorrelated_branches_kernel(test) = test
  /\ pc \in {"correlated", "mixed"} => correlated_branches_kernel(test) = golden(test)

\* A round of a loop "for (test = 0; test < 255; test ++)", which a failed check leaves.
TestLoop ==
  /\ pc \in DOMAIN After
  /\ IF test < 255 /\ SanityCheck
     THEN test' = test + 1 /\ UNCHANGED <<pc, error>>
     ELSE /\ error' = (error \/ test < 255)
          /\ pc' = After[pc] /\ test' = 0
  /\ UNCHANGED status

\* test_function_call computes fib(12), drops it and returns 0; then main sets its status.
FunctionCall ==
  /\ pc = "function_call"
  /\ status' = IF error THEN FAIL ELSE PASS
  /\ pc' = "done"
  /\ UNCHANGED <<test, error>>

Next == TestLoop \/ FunctionCall
Spec == Init /\ [][Next]_vars

-----------------------------------------------------------------------------
\* For every byte, also the 255 that no loop reaches: the kernels copy the byte, and
\* mask its trailing ones, as does the expression main compares with.
TrailingOnes(t) == Max({k \in 0 .. 8 : t % 2 ^ k = 2 ^ k - 1})
KernelsRight == /\ uncorrelated_branches_kernel(test) = test
                /\ correlated_branches_kernel(test) = 2 ^ TrailingOnes(test) - 1
                /\ golden(test) = 2 ^ TrailingOnes(test) - 1
=============================================================================
