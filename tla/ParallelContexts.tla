-------------------------- MODULE ParallelContexts --------------------------
(***************************************************************************)
(* What main expects of core_start_parallel and core_stop_parallel         *)
(* (core_main.c): the contexts it starts run iterate, each for itself, and *)
(* to stop a context is to wait for it and "gather the results".           *)
(***************************************************************************)
CONSTANT Contexts

VARIABLES phase,   \* what main has done about a context
          results  \* the context whose checksums main has for it, 0 for none
vars == <<phase, results>>

Init == phase = [i \in Contexts |-> "idle"] /\ results = [i \in Contexts |-> 0]

Start(i) ==
  /\ phase[i] = "idle"
  /\ phase' = [phase EXCEPT ![i] = "running"]
  /\ UNCHANGED results

Gather(i) ==
  /\ phase[i] = "running"
  /\ phase' = [phase EXCEPT ![i] = "gathered"]
  /\ results' = [results EXCEPT ![i] = i]

Next == \E i \in Contexts : Start(i) \/ Gather(i)
SafetySpec == Init /\ [][Next]_vars
Spec == SafetySpec /\ \A i \in Contexts : WF_vars(Start(i)) /\ WF_vars(Gather(i))
=============================================================================
