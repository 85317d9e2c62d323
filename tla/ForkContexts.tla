---------------------------- MODULE ForkContexts ----------------------------
(***************************************************************************)
(* The parallel benchmark with USE_FORK: core_start_parallel forks a child *)
(* for a context and core_stop_parallel waits for it and reads its         *)
(* checksums from a shared memory segment (core_portme.c), in the two      *)
(* loops of main.  Parent and children interleave at every system call.    *)
(* The keys of the segments are fixed and nothing removes a segment, so    *)
(* that a segment may hold what an earlier run of the program left in it.  *)
(***************************************************************************)
EXTENDS Integers

CONSTANTS MULTITHREAD,  \* contexts
          FaultSets     \* sets of things that may go wrong in one run: "fork" and
                        \* "shmget" fail, a child is hit by a "kill" or, for good, a "stop"

ASSUME ForkAssumption ==
  MULTITHREAD \in Nat \ {0} /\ FaultSets \subseteq SUBSET {"fork", "shmget", "kill", "stop"}

Contexts == 1 .. MULTITHREAD
\* Contents that are no context's checksums.
Zero == 0
Stale == -1
Initial == -2
Absent == -3

VARIABLES faults,   \* the set this run is subject to
          pc, i,    \* the system call the parent is at, and its context
          child,    \* how far the child of a context is
          waited,   \* waitpid has returned the child
          attached, \* the sides, "parent" and "child", of a context whose shmget has succeeded
          shm,      \* the segment of a key: the context whose checksums it holds, or else
          results   \* the checksums in the parent's core_results, the same way
vars == <<faults, pc, i, child, waited, attached, shm, results>>

Init ==
  /\ faults \in FaultSets
  /\ pc = "fork" /\ i = 1
  /\ child = [k \in Contexts |-> "none"]
  /\ waited = [k \in Contexts |-> FALSE]
  /\ attached = {}
  /\ shm \in [Contexts -> {Absent, Stale}]
  /\ results = [k \in Contexts |-> Initial]

Running(k) == child[k] \in {"shmget", "iterate", "memcpy"}
Terminated(k) == child[k] \in {"exited", "killed"}
\* Fault: waitpid that does not wait, WNOHANG.
ReportableEarly(k) == ~waited[k] /\ child[k] # "none"
\* Fault: waitpid without WUNTRACED.
ReportableEnded(k) == ~waited[k] /\ Terminated(k)
\* waitpid(...,WUNTRACED) has something to report of the child.
Reportable(k) == ~waited[k] /\ (Terminated(k) \/ child[k] = "stopped")
\* Its end has been returned: it is no child any more.
Reaped(k) == waited[k] /\ Terminated(k)

\* Fault: key_id is not counted up.
SameKey(k) == 1
\* key=4321+key_id; key_id++: the contexts are started in their order.
Key(k) == k

\* The next round of the loop main is in.
Advance(stage) ==
  IF i < MULTITHREAD THEN i' = i + 1 /\ pc' = stage
  ELSE i' = 1 /\ pc' = IF stage = "fork" THEN "waitpid" ELSE "done"

\* res->port.pid=fork(): a failure is not looked at.
Fork ==
  /\ pc = "fork"
  /\ \/ child' = [child EXCEPT ![i] = "shmget"]
     \/ "fork" \in faults /\ child' = [child EXCEPT ![i] = "failed"]
  /\ pc' = "shmget"
  /\ UNCHANGED <<faults, i, waited, attached, shm, results>>

\* shmget(key, 8, IPC_CREAT | 0666), called on both sides of the fork.
Shmget(side, k) ==
  \/ /\ shm' = [shm EXCEPT ![Key(k)] = IF @ = Absent THEN Zero ELSE @]
     /\ attached' = attached \union {<<side, k>>}
  \/ "shmget" \in faults /\ UNCHANGED <<shm, attached>>

ParentShmget ==
  /\ pc = "shmget"
  /\ Shmget("parent", i)
  /\ Advance("fork")
  /\ UNCHANGED <<faults, child, waited, results>>

ChildShmget(k) ==
  /\ child[k] = "shmget"
  /\ Shmget("child", k)
  /\ child' = [child EXCEPT ![k] = "iterate"]
  /\ UNCHANGED <<faults, pc, i, waited, results>>

ChildIterate(k) ==
  /\ child[k] = "iterate"
  /\ child' = [child EXCEPT ![k] = "memcpy"]
  /\ UNCHANGED <<faults, pc, i, waited, attached, shm, results>>

\* "Copy the validation values to the shared memory area and quit."
ChildCopy(k) ==
  /\ child[k] = "memcpy"
  /\ shm' = [shm EXCEPT ![Key(k)] = IF <<"child", k>> \in attached THEN k ELSE @]
  /\ child' = [child EXCEPT ![k] = "exited"]
  /\ UNCHANGED <<faults, pc, i, waited, attached, results>>

Signal(k) ==
  /\ Running(k)
  /\ \/ "kill" \in faults /\ child' = [child EXCEPT ![k] = "killed"]
     \/ "stop" \in faults /\ child' = [child EXCEPT ![k] = "stopped"]
  /\ UNCHANGED <<faults, pc, i, waited, attached, shm, results>>

\* waitpid of a child that exists, or whose end has been returned already: ECHILD.
WaitForChild ==
  /\ pc = "waitpid" /\ child[i] # "failed"
  /\ \/ /\ Reportable(i)
        /\ waited' = [waited EXCEPT ![i] = TRUE]
        /\ pc' = "shmat" /\ i' = i
     \/ Reaped(i) /\ UNCHANGED waited /\ Advance("waitpid")
  /\ UNCHANGED <<faults, child, attached, shm, results>>

\* After a failed fork the pid is -1, which is any child: the pid of one is not -1, and
\* the -1 that says there is none left is taken for it.
WaitForAny ==
  /\ pc = "waitpid" /\ child[i] = "failed"
  /\ \/ /\ \E k \in Contexts : Reportable(k) /\ waited' = [waited EXCEPT ![k] = TRUE]
        /\ Advance("waitpid")
     \/ /\ \A k \in Contexts : Reaped(k) \/ child[k] = "failed"
        /\ UNCHANGED waited /\ pc' = "shmat" /\ i' = i
  /\ UNCHANGED <<faults, child, attached, shm, results>>

\* "After process is done, get the values from the shared memory area."
CopyResults ==
  /\ pc = "shmat"
  /\ results' = [results EXCEPT ![i] = IF <<"parent", i>> \in attached THEN shm[Key(i)] ELSE @]
  /\ Advance("waitpid")
  /\ UNCHANGED <<faults, child, waited, attached, shm>>

Parent == Fork \/ ParentShmget \/ WaitForChild \/ WaitForAny \/ CopyResults
Child(k) == ChildShmget(k) \/ ChildIterate(k) \/ ChildCopy(k)
Next == Parent \/ \E k \in Contexts : Child(k) \/ Signal(k)

\* The parent and every child that is not stopped get to run.
Spec == Init /\ [][Next]_vars /\ WF_vars(Parent) /\ \A k \in Contexts : WF_vars(Child(k))

-----------------------------------------------------------------------------
\* Main has gone past core_stop_parallel of the context.
Gathered(k) == pc = "done" \/ (pc \in {"waitpid", "shmat"} /\ k < i)

\* Type invariant.
TypeOK ==
  /\ pc \in {"fork", "shmget", "waitpid", "shmat", "done"} /\ i \in Contexts
  /\ child \in [Contexts -> {"none", "failed", "shmget", "iterate", "memcpy",
                             "exited", "killed", "stopped"}]
  /\ waited \in [Contexts -> BOOLEAN]
  /\ attached \subseteq {"parent", "child"} \X Contexts
  /\ shm \in [Contexts -> Contexts \union {Absent, Stale, Zero}]
  /\ results \in [Contexts -> Contexts \union {Initial, Stale, Zero}]

\* A context whose child ran to its end and got the shared memory, on both sides,
\* is gathered with what this child computed, never with an earlier run's values,
\* unless a failed fork had waitpid take another context's child.
FreshResults ==
  \A k \in Contexts :
    Gathered(k) /\ child[k] = "exited" /\ <<"parent", k>> \in attached /\ <<"child", k>> \in attached
      /\ (\A j \in Contexts : child[j] # "failed") => results[k] = k

\* The results are taken from a context's child once: no child is waited for
\* that has not come to a rest.
WaitedAtRest == \A k \in Contexts : waited[k] => ~Running(k)

\* A fork has failed, and of the children main waits for, its context's or any, each has
\* been returned to a waitpid before, one of them when it was stopped, not at its end.
Awaited == IF child[i] = "failed" THEN {k \in Contexts : child[k] # "failed"} ELSE {i}
StopTaken ==
  /\ pc = "waitpid" /\ \E k \in Contexts : child[k] = "failed"
  /\ \A k \in Awaited : waited[k]
  /\ \E k \in Awaited : child[k] = "stopped"

\* Whatever fails, main comes out of its two loops, unless a failed fork has had it take
\* the stop of another context's child: then it waits for that child for good.
MainEnds == <>(pc = "done") \/ <>[]StopTaken

\* With nothing going wrong this is what main expects of parallel contexts: each is
\* gathered once, after it was started, and with its own checksums.
phaseBar == [k \in Contexts |-> IF child[k] = "none" THEN "idle"
                                ELSE IF Gathered(k) THEN "gathered" ELSE "running"]
resultsBar == [k \in Contexts |-> IF Gathered(k) THEN results[k] ELSE 0]
Abstract == INSTANCE ParallelContexts WITH phase <- phaseBar, results <- resultsBar
ImplementsParallelContexts ==
  /\ faults = {} => Abstract!Init
  /\ [][faults = {} => [Abstract!Next]_(Abstract!vars)]_vars

-----------------------------------------------------------------------------
\* The inductive invariant: children are forked in the order of the contexts; who has
\* been waited for is at rest; without a failed fork these are the contexts main has
\* passed; and a child that has exited has left its checksums in its segment.
InOrder ==
  \A k \in Contexts :
    child[k] = "none" <=> (pc = "fork" /\ k >= i) \/ (pc = "shmget" /\ k > i)
AtRest ==
  /\ \A k \in Contexts : waited[k] => child[k] \in {"exited", "killed", "stopped"}
  /\ pc = "shmat" => waited[i] \/ child[i] = "failed"
NoneFailed == \A k \in Contexts : child[k] # "failed"
PassedWaited ==
  NoneFailed => \A k \in Contexts : waited[k] <=> Gathered(k) \/ (pc = "shmat" /\ k = i)
Written ==
  \A k \in Contexts :
    /\ child[k] = "exited" /\ <<"child", k>> \in attached => shm[k] = k
    /\ <<"parent", k>> \in attached => shm[k] # Absent
IInv == TypeOK /\ InOrder /\ AtRest /\ PassedWaited /\ Written /\ FreshResults

\* With no faults, moreover, both sides have the segment, and every child ends.
Faultless ==
  faults = {} =>
    \A k \in Contexts :
      /\ child[k] \notin {"failed", "killed", "stopped"}
      /\ child[k] \notin {"none", "shmget"} => <<"child", k>> \in attached
      /\ <<"parent", k>> \in attached <=> child[k] # "none" /\ ~(pc = "shmget" /\ k = i)
=============================================================================
