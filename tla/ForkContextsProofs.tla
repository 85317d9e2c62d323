------------------------- MODULE ForkContextsProofs -------------------------
(***************************************************************************)
(* The forked contexts, for every number of them and every mixture of      *)
(* faults.                                                                 *)
(***************************************************************************)
EXTENDS ForkContexts, TLAPS

\* The next round of a loop, or the next loop.
LEMMA Advances ==
  ASSUME TypeOK, NEW stage, Advance(stage)
  PROVE  /\ i' \in Contexts
         /\ i < MULTITHREAD => i' = i + 1 /\ pc' = stage
         /\ ~(i < MULTITHREAD) =>
              i = MULTITHREAD /\ i' = 1 /\ pc' = IF stage = "fork" THEN "waitpid" ELSE "done"
  BY ForkAssumption DEF TypeOK, Contexts, Advance

\* In the second loop, to advance is to pass the context.
LEMMA Passes ==
  ASSUME TypeOK, Advance("waitpid"), pc \in {"waitpid", "shmat"}
  PROVE  /\ i' \in Contexts /\ pc' \in {"waitpid", "done"}
         /\ i \in Contexts /\ ~Gathered(i)
         /\ \A k \in Contexts : Gathered(k)' <=> Gathered(k) \/ k = i
<1>1. i \in Contexts /\ ~Gathered(i)
  BY ForkAssumption DEF TypeOK, Gathered, Contexts
<1>2. CASE i < MULTITHREAD
  BY <1>1, <1>2, Advances, ForkAssumption DEF TypeOK, Gathered, Contexts
<1>3. CASE ~(i < MULTITHREAD)
  BY <1>1, <1>3, Advances, ForkAssumption DEF TypeOK, Gathered, Contexts
<1> QED
  BY <1>1, <1>2, <1>3

\* shmget makes a segment that was not there, or finds it, or fails.
LEMMA Attaches ==
  ASSUME TypeOK, NEW side \in {"parent", "child"}, NEW k \in Contexts, Shmget(side, k)
  PROVE  /\ attached' \subseteq {"parent", "child"} \X Contexts
         /\ attached \subseteq attached' /\ attached' \subseteq attached \union {<<side, k>>}
         /\ shm' \in [Contexts -> Contexts \union {Absent, Stale, Zero}]
         /\ \A l \in Contexts : shm'[l] # shm[l] => l = k /\ shm[l] = Absent
         /\ <<side, k>> \in attached' \ attached => shm'[k] # Absent
<1>1. CASE /\ shm' = [shm EXCEPT ![Key(k)] = IF @ = Absent THEN Zero ELSE @]
           /\ attached' = attached \union {<<side, k>>}
  BY <1>1 DEF TypeOK, Key, Zero, Absent
<1>2. CASE UNCHANGED <<shm, attached>>
  BY <1>2 DEF TypeOK
<1> QED
  BY <1>1, <1>2 DEF Shmget

\* Nothing has been forked, and the segments hold what they held.
LEMMA InitEstablishes == Init => IInv
<1> SUFFICES ASSUME Init PROVE IInv
  OBVIOUS
<1> USE ForkAssumption DEF Init, Contexts
<1>1. TypeOK
  BY DEF TypeOK
<1>2. InOrder /\ AtRest /\ FreshResults
  BY DEF InOrder, AtRest, FreshResults, Gathered
<1>3. PassedWaited /\ Written
  BY DEF PassedWaited, Written, Gathered
<1> QED
  BY <1>1, <1>2, <1>3 DEF IInv

\* The parent forks a child, or fails to.
LEMMA ForkKeeps == ASSUME IInv, Fork PROVE IInv'
<1>a. /\ pc = "fork" /\ pc' = "shmget" /\ i \in Contexts /\ child[i] = "none"
      /\ UNCHANGED <<faults, i, waited, attached, shm, results>>
      /\ \E s \in {"shmget", "failed"} : child' = [child EXCEPT ![i] = s]
  BY DEF Fork, IInv, TypeOK, InOrder, Contexts
<1>b. \A k \in Contexts : ~Gathered(k) /\ ~Gathered(k)'
  BY <1>a DEF Gathered
<1> USE DEF IInv
<1>1. TypeOK'
  BY <1>a DEF TypeOK
<1>2. InOrder'
  BY <1>a DEF InOrder, TypeOK, Contexts
<1>3. AtRest' /\ Written'
  BY <1>a DEF AtRest, Written, TypeOK
<1>4. FreshResults'
  BY <1>b DEF FreshResults
<1>5. PassedWaited'
  <2>1. NoneFailed' => NoneFailed
    BY <1>a DEF NoneFailed, TypeOK
  <2> QED
    BY <1>a, <1>b, <2>1 DEF PassedWaited
<1> QED
  BY <1>1, <1>2, <1>3, <1>4, <1>5

\* The parent gets the segment, or fails to.
LEMMA ParentShmgetKeeps == ASSUME IInv, ParentShmget PROVE IInv'
<1>a. /\ i' \in Contexts /\ i \in Contexts
      /\ i < MULTITHREAD => i' = i + 1 /\ pc' = "fork"
      /\ ~(i < MULTITHREAD) => i = MULTITHREAD /\ i' = 1 /\ pc' = "waitpid"
  BY Advances DEF ParentShmget, IInv, TypeOK
<1>b. \A k \in Contexts : ~Gathered(k) /\ ~Gathered(k)'
  BY <1>a DEF Gathered, ParentShmget, Contexts
<1>c. /\ pc = "shmget" /\ UNCHANGED <<faults, child, waited, results>>
      /\ Shmget("parent", i)
  BY DEF ParentShmget
<1>d. /\ attached' \subseteq {"parent", "child"} \X Contexts
      /\ attached' \subseteq attached \union {<<"parent", i>>}
      /\ shm' \in [Contexts -> Contexts \union {Absent, Stale, Zero}]
      /\ \A l \in Contexts : shm'[l] # shm[l] => l = i /\ shm[l] = Absent
      /\ <<"parent", i>> \in attached' \ attached => shm'[i] # Absent
  BY <1>a, <1>c, Attaches DEF IInv
<1> USE DEF IInv
<1>1. TypeOK'
  BY <1>a, <1>c, <1>d DEF TypeOK
<1>2. InOrder'
  BY <1>a, <1>c DEF InOrder, TypeOK, Contexts
<1>3. AtRest'
  BY <1>a, <1>c DEF AtRest
<1>4. FreshResults'
  BY <1>b DEF FreshResults
<1>5. PassedWaited'
  BY <1>a, <1>b, <1>c DEF PassedWaited, NoneFailed
<1>6. Written'
  <2> SUFFICES ASSUME NEW k \in Contexts
               PROVE  /\ child'[k] = "exited" /\ <<"child", k>> \in attached' => shm'[k] = k
                      /\ <<"parent", k>> \in attached' => shm'[k] # Absent
    BY DEF Written
  <2>1. k # Absent
    BY DEF Contexts, Absent
  <2> QED
    BY <1>c, <1>d, <2>1 DEF Written
<1> QED
  BY <1>1, <1>2, <1>3, <1>4, <1>5, <1>6

\* waitpid returns a child that is at rest, or main goes on without.
LEMMA WaitKeeps == ASSUME IInv, WaitForChild PROVE IInv'
<1> USE DEF IInv
<1>a. pc = "waitpid" /\ i \in Contexts /\ child[i] # "failed"
      /\ UNCHANGED <<faults, child, attached, shm, results>>
  BY DEF WaitForChild, TypeOK
<1>1. CASE Reportable(i) /\ waited' = [waited EXCEPT ![i] = TRUE] /\ pc' = "shmat" /\ i' = i
  <2>1. child[i] \in {"exited", "killed", "stopped"}
    BY <1>1 DEF Reportable, Terminated
  <2>2. \A k \in Contexts : Gathered(k)' <=> Gathered(k)
    BY <1>a, <1>1 DEF Gathered
  <2>3. TypeOK'
    BY <1>a, <1>1 DEF TypeOK
  <2>4. InOrder' /\ AtRest'
    BY <1>a, <1>1, <2>1 DEF InOrder, AtRest, TypeOK
  <2>5. PassedWaited'
    BY <1>a, <1>1, <2>2 DEF PassedWaited, NoneFailed, TypeOK
  <2>6. Written' /\ FreshResults'
    BY <1>a, <2>2 DEF Written, FreshResults
  <2> QED
    BY <2>3, <2>4, <2>5, <2>6
<1>2. CASE Reaped(i) /\ UNCHANGED waited /\ Advance("waitpid")
  <2>1. /\ i' \in Contexts /\ pc' \in {"waitpid", "done"} /\ ~Gathered(i)
        /\ \A k \in Contexts : Gathered(k)' <=> Gathered(k) \/ k = i
    BY <1>a, <1>2, Passes
  <2>2. ~NoneFailed
    BY <1>a, <1>2, <2>1 DEF PassedWaited, Reaped
  <2>3. TypeOK' /\ AtRest' /\ Written'
    BY <1>a, <1>2, <2>1 DEF TypeOK, AtRest, Written
  <2>4. InOrder'
    BY <1>a, <2>1 DEF InOrder
  <2>5. PassedWaited' /\ FreshResults'
    BY <1>a, <2>2 DEF PassedWaited, NoneFailed, FreshResults
  <2> QED
    BY <2>3, <2>4, <2>5
<1> QED
  BY <1>1, <1>2 DEF WaitForChild

\* After a failed fork waitpid takes any child, or main goes on to the segment.
LEMMA WaitAnyKeeps == ASSUME IInv, WaitForAny PROVE IInv'
<1> USE DEF IInv
<1>a. /\ pc = "waitpid" /\ i \in Contexts /\ child[i] = "failed"
      /\ UNCHANGED <<faults, child, attached, shm, results>>
      /\ i' \in Contexts /\ pc' \in {"waitpid", "shmat", "done"}
      /\ pc' = "shmat" => i' = i
  BY Passes DEF WaitForAny, TypeOK
<1>b. \/ \E k \in Contexts : Reportable(k) /\ waited' = [waited EXCEPT ![k] = TRUE]
      \/ UNCHANGED waited
  BY DEF WaitForAny
<1>c. ~NoneFailed /\ ~NoneFailed'
  BY <1>a DEF NoneFailed
<1>1. TypeOK'
  <2>1. child' \in [Contexts -> {"none", "failed", "shmget", "iterate", "memcpy",
                                "exited", "killed", "stopped"}]
    BY <1>a DEF TypeOK
  <2> QED
    BY <1>a, <1>b, <2>1 DEF TypeOK
<1>2. InOrder'
  BY <1>a DEF InOrder
<1>3. AtRest'
  BY <1>a, <1>b DEF AtRest, Reportable, Terminated, TypeOK
<1>4. PassedWaited' /\ Written' /\ FreshResults'
  BY <1>a, <1>c DEF PassedWaited, Written, FreshResults, NoneFailed
<1> QED
  BY <1>1, <1>2, <1>3, <1>4

\* The parent reads the segment of a child that is at rest.
LEMMA CopyKeeps == ASSUME IInv, CopyResults PROVE IInv'
<1> USE DEF IInv
<1>a. /\ pc = "shmat" /\ i \in Contexts /\ UNCHANGED <<faults, child, waited, attached, shm>>
      /\ results' = [results EXCEPT ![i] = IF <<"parent", i>> \in attached THEN shm[i] ELSE @]
      /\ i' \in Contexts /\ pc' \in {"waitpid", "done"} /\ ~Gathered(i)
      /\ \A k \in Contexts : Gathered(k)' <=> Gathered(k) \/ k = i
  BY Passes DEF CopyResults, Key
<1>1. TypeOK'
  BY <1>a DEF TypeOK, Written
<1>2. InOrder' /\ AtRest' /\ Written'
  BY <1>a DEF InOrder, AtRest, Written
<1>3. PassedWaited'
  BY <1>a DEF PassedWaited, NoneFailed
<1>4. FreshResults'
  BY <1>a DEF FreshResults, Written, TypeOK
<1> QED
  BY <1>1, <1>2, <1>3, <1>4

\* A child goes on, copies its checksums, or is hit by a signal; one that has been
\* waited for does none of it.
LEMMA ChildKeeps == ASSUME IInv, NEW k \in Contexts, Child(k) \/ Signal(k) PROVE IInv'
<1> USE DEF IInv
<1>a. /\ child[k] \in {"shmget", "iterate", "memcpy"} /\ UNCHANGED <<faults, pc, i, waited, results>>
      /\ \E s \in {"iterate", "memcpy", "exited", "killed", "stopped"} : child' = [child EXCEPT ![k] = s]
  BY DEF Child, ChildShmget, ChildIterate, ChildCopy, Signal, Running
<1>b. /\ attached' \subseteq {"parent", "child"} \X Contexts
      /\ attached \subseteq attached' /\ attached' \subseteq attached \union {<<"child", k>>}
      /\ shm' \in [Contexts -> Contexts \union {Absent, Stale, Zero}]
      /\ \A l \in Contexts : l # k => shm'[l] = shm[l]
      /\ shm'[k] # shm[k] => shm[k] = Absent \/ shm'[k] = k
      /\ child'[k] = "exited" /\ <<"child", k>> \in attached' => shm'[k] = k
  <2>1. CASE ChildShmget(k)
    BY <2>1, Attaches DEF ChildShmget, TypeOK
  <2>2. CASE ChildCopy(k)
    BY <2>2 DEF ChildCopy, Key, TypeOK
  <2>3. CASE ChildIterate(k) \/ Signal(k)
    BY <2>3 DEF ChildIterate, Signal, TypeOK
  <2> QED
    BY <2>1, <2>2, <2>3 DEF Child
<1>d. ~waited[k]
  BY <1>a DEF AtRest
<1>1. TypeOK'
  BY <1>a, <1>b DEF TypeOK
<1>2. InOrder'
  BY <1>a DEF InOrder, TypeOK
<1>3. AtRest'
  BY <1>a, <1>d DEF AtRest, TypeOK
<1>4. NoneFailed' => NoneFailed
  BY <1>a DEF NoneFailed, TypeOK
<1>5. \A l \in Contexts : Gathered(l)' <=> Gathered(l)
  BY <1>a DEF Gathered
<1>6. PassedWaited'
  BY <1>a, <1>4, <1>5 DEF PassedWaited
<1>7. Written'
  <2> SUFFICES ASSUME NEW l \in Contexts
               PROVE  /\ child'[l] = "exited" /\ <<"child", l>> \in attached' => shm'[l] = l
                      /\ <<"parent", l>> \in attached' => shm'[l] # Absent
    BY DEF Written
  <2>1. k # Absent
    BY DEF Contexts, Absent
  <2> QED
    BY <1>a, <1>b, <2>1 DEF Written, TypeOK
<1>8. FreshResults'
  <2>1. NoneFailed' => ~Gathered(k)'
    BY <1>d, <1>4, <1>5 DEF PassedWaited
  <2> QED
    BY <1>a, <1>b, <1>4, <1>5, <2>1 DEF FreshResults, NoneFailed, TypeOK
<1> QED
  BY <1>1, <1>2, <1>3, <1>6, <1>7, <1>8

\* Every step of the parent, of a child, and of what goes wrong.
LEMMA StepKeeps == IInv /\ [Next]_vars => IInv'
<1> SUFFICES ASSUME IInv, [Next]_vars PROVE IInv'
  OBVIOUS
<1>1. CASE Next
  BY <1>1, ForkKeeps, ParentShmgetKeeps, WaitKeeps, WaitAnyKeeps, CopyKeeps, ChildKeeps
  DEF Next, Parent
<1>2. CASE UNCHANGED vars
  BY <1>2 DEF vars, IInv, TypeOK, InOrder, AtRest, PassedWaited, NoneFailed, Written, FreshResults,
     Gathered
<1> QED
  BY <1>1, <1>2

\* Forks, waits and segments stay in step, whatever fails.
THEOREM Invariance == Spec => []IInv
<1> QED
  BY InitEstablishes, StepKeeps, PTL DEF Spec

\* The loops of main stay within the contexts, and results never come from no segment.
THEOREM TypeCorrect == Spec => []TypeOK
<1>1. IInv => TypeOK
  BY DEF IInv
<1> QED
  BY <1>1, Invariance, PTL

\* core_stop_parallel takes from a child that ran to its end what it computed, unless a
\* fork has failed.
THEOREM GathersFresh == Spec => []FreshResults
<1>1. IInv => FreshResults
  BY DEF IInv
<1> QED
  BY <1>1, Invariance, PTL

\* waitpid returns no child that still runs.
THEOREM WaitsForRest == Spec => []WaitedAtRest
<1>1. IInv => WaitedAtRest
  BY DEF IInv, AtRest, WaitedAtRest, Running
<1> QED
  BY <1>1, Invariance, PTL

\* With no faults, both sides have their segment in time.
LEMMA FaultlessInit == Init => Faultless
  BY DEF Init, Faultless

LEMMA FaultlessStep == IInv /\ Faultless /\ [Next]_vars => Faultless'
<1>f. [Next]_vars => UNCHANGED faults
  BY DEF vars, Next, Parent, Fork, ParentShmget, WaitForChild, WaitForAny, CopyResults,
     Child, ChildShmget, ChildIterate, ChildCopy, Signal
<1> SUFFICES ASSUME IInv, Faultless, [Next]_vars, faults = {} PROVE Faultless'
  BY <1>f DEF Faultless
<1>t. i \in Contexts /\ \A k \in Contexts : k \in Nat
  BY DEF IInv, TypeOK, Contexts
<1>1. CASE Fork
  <2>1. /\ pc = "fork" /\ pc' = "shmget" /\ UNCHANGED <<i, attached>>
        /\ child[i] = "none" /\ child' = [child EXCEPT ![i] = "shmget"]
    BY <1>1, <1>t DEF Fork, IInv, InOrder
  <2>2. \A k \in Contexts :
          /\ child'[k] \notin {"failed", "killed", "stopped"}
          /\ child'[k] \notin {"none", "shmget"} => <<"child", k>> \in attached
          /\ <<"parent", k>> \in attached <=> child'[k] # "none" /\ k # i
    BY <2>1, <1>t DEF Faultless, IInv, TypeOK
  <2> QED
    BY <2>1, <2>2 DEF Faultless
<1>2. CASE ParentShmget
  <2>1. attached' = attached \union {<<"parent", i>>} /\ pc = "shmget"
        /\ UNCHANGED <<faults, child>> /\ child[i] # "none"
    BY <1>2, <1>t DEF ParentShmget, Shmget, Faultless, IInv, InOrder
  <2>2. pc' # "shmget"
    BY <1>2, Advances DEF ParentShmget, IInv
  <2> QED
    BY <2>1, <2>2 DEF Faultless
<1>3. CASE WaitForChild
  BY <1>3, <1>t, Passes DEF WaitForChild, Faultless, IInv
<1>4. CASE WaitForAny
  BY <1>4, <1>t DEF WaitForAny, Faultless
<1>5. CASE CopyResults
  BY <1>5, <1>t, Passes DEF CopyResults, Faultless, IInv
<1>6. ASSUME NEW k \in Contexts, Child(k) \/ Signal(k) PROVE Faultless'
  <2>1. CASE ChildShmget(k)
    <3>1. /\ attached' = attached \union {<<"child", k>>} /\ UNCHANGED <<faults, pc, i>>
          /\ child[k] = "shmget" /\ child' = [child EXCEPT ![k] = "iterate"]
      BY <2>1 DEF ChildShmget, Shmget, Faultless
    <3> QED
      BY <3>1 DEF Faultless, IInv, TypeOK
  <2>2. CASE ChildIterate(k)
    BY <2>2 DEF ChildIterate, Faultless, IInv, TypeOK
  <2>3. CASE ChildCopy(k)
    BY <2>3 DEF ChildCopy, Faultless, IInv, TypeOK
  <2>4. ~Signal(k)
    BY DEF Signal, Faultless
  <2> QED
    BY <1>6, <2>1, <2>2, <2>3, <2>4 DEF Child
<1>7. CASE UNCHANGED vars
  BY <1>7 DEF vars, Faultless
<1> QED
  BY <1>1, <1>2, <1>3, <1>4, <1>5, <1>6, <1>7 DEF Next, Parent

\* With nothing going wrong core_stop_parallel does what main expects: each context is
\* gathered once, after it was started, and with its own checksums.
THEOREM FaultlessImplements == Spec => ImplementsParallelContexts
<1>1. Init => (faults = {} => Abstract!Init)
  BY DEF Init, Abstract!Init, phaseBar, resultsBar, Gathered
<1>2. IInv /\ Faultless /\ [Next]_vars => [faults = {} => [Abstract!Next]_(Abstract!vars)]_vars
  <2> SUFFICES ASSUME IInv, Faultless, [Next]_vars, faults = {}
               PROVE  [Abstract!Next]_(Abstract!vars)
    OBVIOUS
  <2> USE DEF IInv, TypeOK
  <2>1. CASE Fork
    <3>1. i \in Contexts /\ phaseBar[i] = "idle"
      BY <2>1 DEF Fork, phaseBar, InOrder, Contexts
    <3>2. \A k \in Contexts : ~Gathered(k) /\ ~Gathered(k)'
      BY <2>1 DEF Fork, Gathered
    <3>3. phaseBar' = [phaseBar EXCEPT ![i] = "running"]
      BY <2>1, <3>1, <3>2 DEF Fork, phaseBar
    <3>4. resultsBar' = resultsBar
      BY <3>2 DEF resultsBar
    <3> QED
      BY <3>1, <3>3, <3>4 DEF Abstract!Next, Abstract!Start
  <2>2. CASE ParentShmget
    <3>1. \A k \in Contexts : ~Gathered(k) /\ ~Gathered(k)'
      BY <2>2, Advances DEF ParentShmget, Gathered, Contexts
    <3> QED
      BY <2>2, <3>1 DEF ParentShmget, Abstract!vars, phaseBar, resultsBar
  <2>3. CASE WaitForChild
    <3>1. ~waited[i] \/ ~Advance("waitpid")
      BY <2>3, Passes DEF WaitForChild, PassedWaited, NoneFailed, Faultless
    <3>2. pc = "waitpid" /\ pc' = "shmat" /\ i' = i /\ UNCHANGED <<child, results>>
      BY <2>3, <3>1 DEF WaitForChild, Reaped
    <3> QED
      BY <3>2 DEF Abstract!vars, phaseBar, resultsBar, Gathered
  <2>4. CASE WaitForAny
    BY <2>4 DEF WaitForAny, Faultless
  <2>5. CASE CopyResults
    <3>1. /\ i \in Contexts /\ child[i] = "exited" /\ shm[i] = i /\ <<"parent", i>> \in attached
          /\ \A k \in Contexts : child[k] # "none"
      BY <2>5 DEF CopyResults, AtRest, Faultless, Written, InOrder
    <3>2. results' = [results EXCEPT ![i] = i] /\ child' = child
      BY <2>5, <3>1 DEF CopyResults, Key
    <3>3. ~Gathered(i) /\ \A k \in Contexts : Gathered(k)' <=> Gathered(k) \/ k = i
      BY <2>5, Passes DEF CopyResults
    <3>4. phaseBar[i] = "running" /\ phaseBar' = [phaseBar EXCEPT ![i] = "gathered"]
      BY <3>1, <3>2, <3>3 DEF phaseBar
    <3>5. resultsBar' = [resultsBar EXCEPT ![i] = i]
      BY <3>1, <3>2, <3>3 DEF resultsBar
    <3> QED
      BY <3>1, <3>4, <3>5 DEF Abstract!Next, Abstract!Gather
  <2>6. ASSUME NEW k \in Contexts, Child(k) \/ Signal(k) PROVE UNCHANGED Abstract!vars
    <3>1. /\ child[k] # "none" /\ child'[k] # "none" /\ UNCHANGED <<pc, i, results>>
          /\ \A l \in Contexts \ {k} : child'[l] = child[l]
      BY <2>6 DEF Child, ChildShmget, ChildIterate, ChildCopy, Signal, Running
    <3> QED
      BY <3>1 DEF Abstract!vars, phaseBar, resultsBar, Gathered
  <2>7. CASE UNCHANGED vars
    BY <2>7 DEF vars, Abstract!vars, phaseBar, resultsBar, Gathered
  <2> QED
    BY <2>1, <2>2, <2>3, <2>4, <2>5, <2>6, <2>7 DEF Next, Parent
<1>3. Init => Faultless
  BY FaultlessInit
<1> QED
  BY <1>1, <1>2, <1>3, FaultlessStep, Invariance, PTL DEF Spec, ImplementsParallelContexts
-------------------------------------------------------------------------------
(* Main comes out of its loops. *)

\* The system calls main has ahead of it, two for a context in each loop, and the steps
\* a child has.
StepsOfMain ==
  CASE pc = "fork"    -> 2 * MULTITHREAD + 2 * (MULTITHREAD - i) + 2
    [] pc = "shmget"  -> 2 * MULTITHREAD + 2 * (MULTITHREAD - i) + 1
    [] pc = "waitpid" -> 2 * (MULTITHREAD - i) + 2
    [] pc = "shmat"   -> 2 * (MULTITHREAD - i) + 1
    [] OTHER          -> 0
StepsOfChild(k) ==
  CASE child[k] = "none"    -> 4
    [] child[k] = "shmget"  -> 3
    [] child[k] = "iterate" -> 2
    [] child[k] = "memcpy"  -> 1
    [] OTHER                -> 0

\* A step takes nobody further from the end, and somebody nearer: main by its own
\* steps, and a child by its own.
Nearer ==
  /\ StepsOfMain' <= StepsOfMain
  /\ \A k \in Contexts : StepsOfChild(k)' <= StepsOfChild(k)
  /\ Parent => StepsOfMain' < StepsOfMain
  /\ \A k \in Contexts : Child(k) \/ Signal(k) => StepsOfChild(k)' < StepsOfChild(k)
  /\ StepsOfMain' < StepsOfMain \/ \E k \in Contexts : StepsOfChild(k)' < StepsOfChild(k)

\* The system call main is at does not block.
ParentReady ==
  \/ pc \in {"fork", "shmget", "shmat"}
  \/ pc = "waitpid" /\ ((\E k \in Awaited : Reportable(k)) \/ \A k \in Awaited : Reaped(k))

\* Main blocks while a child it waits for runs, or when the stop of one has been taken by
\* a waitpid after a failed fork; and it has come out when it has no steps left.
NotStuck ==
  /\ pc # "done" => ParentReady \/ (\E k \in Awaited : Running(k)) \/ StopTaken
  /\ StepsOfMain \in 0 .. 4 * MULTITHREAD /\ (StepsOfMain = 0 <=> pc = "done")
  /\ \A k \in Contexts : StepsOfChild(k) \in 0 .. 4 /\ (Running(k) => StepsOfChild(k) > 0)

LEMMA NobodyStuck == IInv => NotStuck
<1> SUFFICES ASSUME IInv PROVE NotStuck
  OBVIOUS
<1> USE DEF IInv
<1>1. ASSUME pc = "waitpid", ~ParentReady, ~\E k \in Awaited : Running(k) PROVE StopTaken
  <2>1. /\ i \in Contexts /\ \A k \in Contexts : child[k] # "none"
        /\ Awaited \subseteq Contexts /\ \A k \in Awaited : child[k] # "failed"
    BY <1>1 DEF TypeOK, InOrder, Awaited
  <2>2. \A k \in Awaited : waited[k]
    BY <1>1, <2>1 DEF TypeOK, Running, Reportable, Terminated, ParentReady
  <2>3. \E k \in Awaited : child[k] = "stopped"
    BY <1>1, <2>1, <2>2 DEF ParentReady, Reaped, Terminated, AtRest
  <2>4. ~NoneFailed
    <3>1. CASE child[i] = "failed"
      BY <2>1, <3>1 DEF NoneFailed
    <3>2. CASE child[i] # "failed"
      <4>1. waited[i] /\ ~Gathered(i)
        BY <1>1, <2>1, <2>2, <3>2, ForkAssumption DEF Awaited, Gathered, Contexts
      <4> QED BY <1>1, <2>1, <4>1 DEF PassedWaited
    <3> QED BY <3>1, <3>2
  <2> QED BY <1>1, <2>2, <2>3, <2>4 DEF StopTaken, NoneFailed
<1>2. pc # "done" => ParentReady \/ (\E k \in Awaited : Running(k)) \/ StopTaken
  BY <1>1 DEF TypeOK, ParentReady
<1>3. StepsOfMain \in 0 .. 4 * MULTITHREAD /\ (StepsOfMain = 0 <=> pc = "done")
  <2>1. i \in 1 .. MULTITHREAD /\ pc \in {"fork", "shmget", "waitpid", "shmat", "done"}
    BY DEF TypeOK, Contexts
  <2> HIDE DEF IInv
  <2> QED BY <2>1, ForkAssumption DEF StepsOfMain
<1>4. \A k \in Contexts : StepsOfChild(k) \in 0 .. 4 /\ (Running(k) => StepsOfChild(k) > 0)
  BY DEF StepsOfChild, Running
<1> QED BY <1>2, <1>3, <1>4 DEF NotStuck

LEMMA StepsAreNumbers ==
  /\ IInv => StepsOfMain \in Nat
  /\ \A k \in Contexts : StepsOfChild(k) \in Nat /\ StepsOfChild(k)' \in Nat
<1>1. IInv => StepsOfMain \in Nat
  BY NobodyStuck DEF NotStuck
<1>2. \A k \in Contexts : StepsOfChild(k) \in Nat /\ StepsOfChild(k)' \in Nat
  BY DEF StepsOfChild
<1> QED BY <1>1, <1>2

\* Every system call of main is one of those counted.
LEMMA MainNearer == ASSUME IInv, Parent PROVE StepsOfMain' < StepsOfMain
<1>1. TypeOK /\ MULTITHREAD \in Nat \ {0} /\ i \in 1 .. MULTITHREAD
  BY ForkAssumption DEF IInv, TypeOK, Contexts
<1>2. CASE Fork
  BY <1>1, <1>2 DEF Fork, StepsOfMain
<1>3. CASE ParentShmget
  <2>1. /\ pc = "shmget"
        /\ i < MULTITHREAD => i' = i + 1 /\ pc' = "fork"
        /\ ~(i < MULTITHREAD) => i = MULTITHREAD /\ i' = 1 /\ pc' = "waitpid"
    BY <1>1, <1>3, Advances DEF ParentShmget
  <2> QED BY <1>1, <2>1 DEF StepsOfMain
<1>4. CASE /\ pc \in {"waitpid", "shmat"} /\ Advance("waitpid")
  <2>1. /\ i < MULTITHREAD => i' = i + 1 /\ pc' = "waitpid"
        /\ ~(i < MULTITHREAD) => i = MULTITHREAD /\ i' = 1 /\ pc' = "done"
    BY <1>1, <1>4, Advances
  <2> QED BY <1>1, <1>4, <2>1 DEF StepsOfMain
<1>5. CASE pc = "waitpid" /\ pc' = "shmat" /\ i' = i
  BY <1>1, <1>5 DEF StepsOfMain
<1>6. CASE WaitForChild \/ WaitForAny \/ CopyResults
  BY <1>4, <1>5, <1>6 DEF WaitForChild, WaitForAny, CopyResults
<1> QED BY <1>2, <1>3, <1>6 DEF Parent

\* fork is what makes a child run; nothing else main does moves one.
LEMMA MainMovesNoChild ==
  ASSUME IInv, Parent PROVE \A k \in Contexts : StepsOfChild(k)' <= StepsOfChild(k)
<1>1. CASE Fork
  <2>1. child \in [Contexts -> {"none", "failed", "shmget", "iterate", "memcpy",
                                "exited", "killed", "stopped"}]
        /\ i \in Contexts /\ child[i] = "none"
    BY <1>1 DEF Fork, IInv, TypeOK, InOrder, Contexts
  <2>2. \A k \in Contexts : child'[k] = child[k] \/ (child[k] = "none" /\ child'[k] \in {"shmget", "failed"})
    BY <1>1, <2>1 DEF Fork
  <2> QED BY <2>2 DEF StepsOfChild
<1>2. CASE ParentShmget \/ WaitForChild \/ WaitForAny \/ CopyResults
  <2>1. child' = child
    BY <1>2 DEF ParentShmget, WaitForChild, WaitForAny, CopyResults
  <2> QED BY <2>1 DEF StepsOfChild
<1> QED BY <1>1, <1>2 DEF Parent

\* A child goes on or a signal ends it.
LEMMA ChildNearer ==
  ASSUME IInv, NEW k \in Contexts, Child(k) \/ Signal(k)
  PROVE  /\ StepsOfMain' = StepsOfMain /\ StepsOfChild(k)' < StepsOfChild(k)
         /\ \A l \in Contexts : StepsOfChild(l)' <= StepsOfChild(l)
<1>1. /\ child \in [Contexts -> {"none", "failed", "shmget", "iterate", "memcpy",
                                 "exited", "killed", "stopped"}]
      /\ pc' = pc /\ i' = i
      /\ \/ child[k] = "shmget" /\ child' = [child EXCEPT ![k] = "iterate"]
         \/ child[k] = "iterate" /\ child' = [child EXCEPT ![k] = "memcpy"]
         \/ child[k] = "memcpy" /\ child' = [child EXCEPT ![k] = "exited"]
         \/ /\ child[k] \in {"shmget", "iterate", "memcpy"}
            /\ \E s \in {"killed", "stopped"} : child' = [child EXCEPT ![k] = s]
  BY DEF IInv, TypeOK, Child, ChildShmget, ChildIterate, ChildCopy, Signal, Running
<1>2. StepsOfMain' = StepsOfMain
  BY <1>1 DEF StepsOfMain
<1>3. \A l \in Contexts : l # k => child'[l] = child[l]
  BY <1>1
<1>4. StepsOfChild(k)' < StepsOfChild(k)
  BY <1>1 DEF StepsOfChild
<1>5. \A l \in Contexts : l # k => StepsOfChild(l)' <= StepsOfChild(l)
  BY <1>3 DEF StepsOfChild
<1> QED BY <1>2, <1>4, <1>5, StepsAreNumbers

\* A stop that has been taken is taken for good: main has no step left then, and a child
\* that is stopped or has ended none either.
LEMMA StopTakenForGood == IInv /\ StopTaken /\ [Next]_vars => StopTaken'
<1> SUFFICES ASSUME IInv, StopTaken, [Next]_vars PROVE StopTaken'
  OBVIOUS
<1> USE DEF IInv, TypeOK
<1>1. /\ pc = "waitpid" /\ i \in Contexts /\ Awaited \subseteq Contexts
      /\ \A k \in Awaited : waited[k]
      /\ \E k \in Awaited : child[k] = "stopped"
      /\ \E k \in Contexts : child[k] = "failed"
  BY DEF StopTaken, Awaited
<1>2. ~Parent
  <2>1. \A k \in Awaited : ~Reportable(k)
    BY <1>1 DEF Reportable
  <2>2. \E k \in Awaited : ~Reaped(k) /\ child[k] # "failed"
    BY <1>1 DEF Reaped, Terminated
  <2>3. child[i] # "failed" => Awaited = {i}
    BY DEF Awaited
  <2>4. child[i] = "failed" => \A k \in Contexts : child[k] # "failed" => k \in Awaited
    BY DEF Awaited
  <2>5. \A k \in Contexts : Reportable(k) => child[k] # "failed"
    BY DEF Reportable, Terminated
  <2> QED
    BY <1>1, <2>1, <2>2, <2>3, <2>4, <2>5
    DEF Parent, Fork, ParentShmget, WaitForChild, WaitForAny, CopyResults
<1>3. ASSUME NEW l \in Contexts, Child(l) \/ Signal(l) PROVE StopTaken'
  <2>1. /\ child[l] \in {"shmget", "iterate", "memcpy"} /\ UNCHANGED <<pc, i, waited>>
        /\ \E c \in {"iterate", "memcpy", "exited", "killed", "stopped"} :
             child' = [child EXCEPT ![l] = c]
    BY <1>3 DEF Child, ChildShmget, ChildIterate, ChildCopy, Signal, Running
  <2>2. ~waited[l]
    BY <2>1 DEF AtRest
  <2>3. l \notin Awaited
    BY <1>1, <2>2
  <2>4. \A k \in Contexts : k # l => child'[k] = child[k]
    BY <2>1
  <2>5. Awaited' = Awaited
    <3>1. child[i] # "failed"
      BY <2>1, <2>3 DEF Awaited
    <3>2. child'[i] # "failed"
      BY <1>1, <2>1, <3>1
    <3> QED BY <2>1, <3>1, <3>2 DEF Awaited
  <2>6. \A k \in Awaited : child'[k] = child[k]
    BY <1>1, <2>3, <2>4
  <2> QED BY <1>1, <2>1, <2>4, <2>5, <2>6 DEF StopTaken
<1>4. CASE UNCHANGED vars
  BY <1>4 DEF vars, StopTaken, Awaited
<1> QED BY <1>2, <1>3, <1>4 DEF Next

\* What goes wrong does not keep main in its loops, but for a stop that a waitpid after a
\* failed fork has taken, and that does for good: otherwise it blocks in waitpid only while
\* a child it waits for runs, each of its calls and of the children's steps is one fewer
\* to come, and none takes another back.
THEOREM MainComesOut ==
  Spec => []NotStuck /\ [][Nearer]_vars /\ [](StopTaken => []StopTaken)
<1>1. IInv /\ [Next]_vars => [Nearer]_vars
  <2> SUFFICES ASSUME IInv, Next PROVE Nearer
    OBVIOUS
  <2>1. Parent => StepsOfMain' < StepsOfMain /\ \A k \in Contexts : StepsOfChild(k)' <= StepsOfChild(k)
    BY MainNearer, MainMovesNoChild
  <2>2. \A k \in Contexts : Child(k) \/ Signal(k) =>
          /\ StepsOfMain' = StepsOfMain /\ StepsOfChild(k)' < StepsOfChild(k)
          /\ \A l \in Contexts : StepsOfChild(l)' <= StepsOfChild(l)
    BY ChildNearer
  <2>3. StepsOfMain \in Nat /\ StepsOfMain' \in Nat
    <3>1. IInv' /\ (IInv => StepsOfMain \in Nat)'
      BY StepKeeps, StepsAreNumbers, PTL
    <3> QED BY <3>1, StepsAreNumbers
  <2>4. CASE Parent
    BY <2>1, <2>2, <2>3, <2>4 DEF Nearer
  <2>5. ASSUME NEW k \in Contexts, Child(k) \/ Signal(k) PROVE Nearer
    BY <2>1, <2>2, <2>3, <2>5 DEF Nearer
  <2> QED BY <2>4, <2>5 DEF Next
<1> QED BY <1>1, NobodyStuck, StopTakenForGood, Invariance, PTL DEF Spec
=============================================================================
