------------------------ MODULE SocketContextsProofs ------------------------
(***************************************************************************)
(* The contexts that report over sockets, for every number of them and     *)
(* every mixture of faults.                                                *)
(***************************************************************************)
EXTENDS SocketContexts, TLAPS

\* Nothing has been forked, sent or received.
LEMMA InitEstablishes == Init => IInv
  BY SocketAssumption
  DEF Init, IInv, TypeOK, Contexts, InOrder, OwnDatagrams, InTurn, OwnChecksums, Gathered

\* The next round of a loop, or the next loop.
LEMMA Advances ==
  ASSUME TypeOK, NEW stage, Advance(stage)
  PROVE  /\ i' \in Contexts
         /\ i < MULTITHREAD => i' = i + 1 /\ pc' = stage
         /\ ~(i < MULTITHREAD) =>
              i = MULTITHREAD /\ i' = 1 /\ pc' = IF stage = "fork" THEN "recvfrom" ELSE "done"
  BY SocketAssumption DEF TypeOK, Contexts, Advance

\* In the second loop, to advance is to pass the context.
LEMMA Passes ==
  ASSUME TypeOK, Advance("recvfrom"), pc \in {"recvfrom", "waitpid"}
  PROVE  /\ i' \in Contexts /\ pc' \in {"recvfrom", "done"}
         /\ i \in Contexts /\ ~Gathered(i)
         /\ \A k \in Contexts : Gathered(k)' <=> Gathered(k) \/ k = i
<1>1. i \in Contexts /\ ~Gathered(i)
  BY SocketAssumption DEF TypeOK, Gathered, Contexts
<1>2. CASE i < MULTITHREAD
  BY <1>1, <1>2, Advances, SocketAssumption DEF TypeOK, Gathered, Contexts
<1>3. CASE ~(i < MULTITHREAD)
  BY <1>1, <1>3, Advances, SocketAssumption DEF TypeOK, Gathered, Contexts
<1> QED
  BY <1>1, <1>2, <1>3

\* The parent forks a child.
LEMMA ForkKeeps == ASSUME IInv, Fork PROVE IInv'
<1> USE SocketAssumption DEF IInv, TypeOK, Contexts
<1>1. TypeOK'
  BY DEF Fork
<1>2. InOrder'
  BY DEF Fork, InOrder
<1>3. OwnDatagrams'
  BY DEF Fork, OwnDatagrams
<1>4. OwnChecksums'
  BY DEF Fork, OwnChecksums, Gathered
<1>5. InTurn'
  BY DEF Fork, InTurn, Gathered
<1> QED
  BY <1>1, <1>2, <1>3, <1>4, <1>5

\* The parent binds the port of the child, or fails to.
LEMMA BindKeeps == ASSUME IInv, Bind PROVE IInv'
<1>a. /\ i' \in Contexts
      /\ i < MULTITHREAD => i' = i + 1 /\ pc' = "fork"
      /\ ~(i < MULTITHREAD) => i = MULTITHREAD /\ i' = 1 /\ pc' = "recvfrom"
  BY Advances DEF Bind, IInv
<1> USE SocketAssumption DEF IInv, TypeOK, Contexts
<1>1. TypeOK'
  BY <1>a DEF Bind, Port
<1>2. InOrder'
  BY <1>a DEF Bind, InOrder
<1>3. OwnDatagrams'
  BY <1>a DEF Bind, OwnDatagrams
<1>4. OwnChecksums'
  BY <1>a DEF Bind, OwnChecksums, Gathered
<1>5. InTurn'
  BY <1>a DEF Bind, InTurn, Gathered
<1> QED
  BY <1>1, <1>2, <1>3, <1>4, <1>5

\* The parent takes a datagram: there is none at a port but that of its context.
LEMMA ReceiveKeeps == ASSUME IInv, Receive PROVE IInv'
<1>a. /\ pc = "recvfrom" /\ pc' = "waitpid" /\ UNCHANGED <<faults, i, child, open, bound, waited>>
      /\ i \in arrived[i]
      /\ arrived' = [arrived EXCEPT ![i] = @ \ {i}] /\ results' = [results EXCEPT ![i] = i]
  BY DEF Receive, Port, IInv, TypeOK, OwnDatagrams
<1>b. ~Gathered(i) /\ \A k \in Contexts : Gathered(k)' <=> Gathered(k)
  BY <1>a, SocketAssumption DEF Gathered, IInv, TypeOK, Contexts
<1> USE SocketAssumption DEF IInv, TypeOK, Contexts
<1>1. TypeOK'
  BY <1>a
<1>2. InOrder'
  BY <1>a DEF InOrder
<1>3. OwnDatagrams'
  BY <1>a DEF OwnDatagrams
<1>4. OwnChecksums'
  BY <1>a, <1>b DEF OwnChecksums, AtRest
<1>5. InTurn'
  BY <1>a, <1>b DEF InTurn
<1> QED
  BY <1>1, <1>2, <1>3, <1>4, <1>5

\* The parent passes a context it has heard nothing of.
LEMMA FailsKeeps == ASSUME IInv, ReceiveOfNone \/ ReceiveBroken PROVE IInv'
<1>a. /\ pc = "recvfrom" /\ UNCHANGED <<faults, child, open, bound, arrived, waited, results>>
      /\ i \notin open \/ "recvfrom" \in faults
      /\ Advance("recvfrom")
  BY DEF ReceiveOfNone, ReceiveBroken, ReceiveFails
<1>b. /\ i' \in Contexts /\ pc' \in {"recvfrom", "done"} /\ i \in Contexts /\ ~Gathered(i)
      /\ \A k \in Contexts : Gathered(k)' <=> Gathered(k) \/ k = i
  BY <1>a, Passes DEF IInv
<1> USE DEF IInv
<1>1. TypeOK'
  BY <1>a, <1>b DEF TypeOK
<1>2. InOrder'
  BY <1>a, <1>b DEF InOrder
<1>3. OwnDatagrams'
  BY <1>a, <1>b DEF OwnDatagrams
<1>4. OwnChecksums'
  <2>1. results[i] = 0 /\ ~waited[i]
    BY <1>a, <1>b DEF InTurn
  <2> QED
    BY <1>a, <1>b, <2>1 DEF OwnChecksums, AtRest
<1>5. InTurn'
  BY <1>a, <1>b DEF InTurn
<1> QED
  BY <1>1, <1>2, <1>3, <1>4, <1>5

\* The parent passes a context whose child is at rest.
LEMMA WaitKeeps == ASSUME IInv, WaitForChild PROVE IInv'
<1>a. /\ pc = "waitpid" /\ AtRest(i) /\ UNCHANGED <<faults, child, open, bound, arrived, results>>
      /\ waited' = [waited EXCEPT ![i] = TRUE]
      /\ Advance("recvfrom")
  BY DEF WaitForChild
<1>b. /\ i' \in Contexts /\ pc' \in {"recvfrom", "done"} /\ i \in Contexts /\ ~Gathered(i)
      /\ \A k \in Contexts : Gathered(k)' <=> Gathered(k) \/ k = i
  BY <1>a, Passes DEF IInv
<1> USE DEF IInv
<1>1. TypeOK'
  BY <1>a, <1>b DEF TypeOK
<1>2. InOrder'
  BY <1>a, <1>b DEF InOrder
<1>3. OwnDatagrams'
  BY <1>a, <1>b DEF OwnDatagrams
<1>4. OwnChecksums'
  BY <1>a, <1>b DEF OwnChecksums, OwnDatagrams, AtRest, TypeOK
<1>5. InTurn'
  BY <1>a, <1>b DEF InTurn, TypeOK
<1> QED
  BY <1>1, <1>2, <1>3, <1>4, <1>5

\* A child goes on, sends its own number, or is hit by a signal.
LEMMA ChildKeeps == ASSUME IInv, NEW k \in Contexts, Child(k) \/ Signal(k) PROVE IInv'
<1>a. /\ UNCHANGED <<faults, pc, i, open, bound, waited, results>>
      /\ child[k] \in {"iterate", "sendto", "exit"}
      /\ \E s \in {"sendto", "exit", "exited", "killed", "stopped"} : child' = [child EXCEPT ![k] = s]
      /\ \/ UNCHANGED arrived
         \/ arrived' = [arrived EXCEPT ![k] = IF k \in bound THEN @ \union {k} ELSE @]
  BY DEF Child, ChildIterate, ChildSend, ChildExit, Signal, Running, Port
<1>b. \A l \in Contexts : Gathered(l)' <=> Gathered(l)
  BY <1>a DEF Gathered
<1> USE DEF IInv, TypeOK
<1>1. TypeOK'
  BY <1>a
<1>2. InOrder'
  BY <1>a DEF InOrder
<1>3. OwnDatagrams'
  BY <1>a DEF OwnDatagrams
<1>4. OwnChecksums'
  BY <1>a, <1>b DEF OwnChecksums, AtRest
<1>5. InTurn'
  BY <1>a, <1>b DEF InTurn
<1> QED
  BY <1>1, <1>2, <1>3, <1>4, <1>5

\* Every step of the parent, of a child, and of what goes wrong.
LEMMA StepKeeps == IInv /\ [Next]_vars => IInv'
<1> SUFFICES ASSUME IInv, [Next]_vars PROVE IInv'
  OBVIOUS
<1>1. CASE Next
  BY <1>1, ForkKeeps, BindKeeps, ReceiveKeeps, FailsKeeps, WaitKeeps, ChildKeeps DEF Next, Parent
<1>2. CASE UNCHANGED vars
  BY <1>2 DEF vars, IInv, TypeOK, InOrder, OwnDatagrams, InTurn, OwnChecksums, Gathered, AtRest
<1> QED
  BY <1>1, <1>2

\* Ports, datagrams and children belong together, whatever fails.
THEOREM Invariance == Spec => []IInv
<1> QED
  BY InitEstablishes, StepKeeps, PTL DEF Spec

\* The loops of main stay within the contexts, and a port within its datagrams.
THEOREM TypeCorrect == Spec => []TypeOK
<1>1. IInv => TypeOK
  BY DEF IInv
<1> QED
  BY <1>1, Invariance, PTL

\* core_stop_parallel never gathers checksums of another context, nor any before the child
\* is at rest; the context it passes with none is one whose recvfrom had no socket or may
\* fail.
THEOREM GathersOwnChecksums == Spec => []OwnChecksums
<1>1. IInv => OwnChecksums
  BY DEF IInv
<1> QED
  BY <1>1, Invariance, PTL

\* The safety of what main expects of parallel contexts, under all faults, in every step
\* but that of a recvfrom that fails.
THEOREM ImplementsSafety == Spec => ImplementsParallelContexts
<1>1. Init => Abstract!Init
  BY DEF Init, Abstract!Init, phaseBar, resultsBar, Gathered
<1>2. IInv /\ [Next]_vars =>
        [ReceiveOfNone \/ ReceiveBroken \/ [Abstract!Next]_(Abstract!vars)]_vars
  <2> SUFFICES ASSUME IInv, [Next]_vars, ~ReceiveOfNone, ~ReceiveBroken
               PROVE  [Abstract!Next]_(Abstract!vars)
    OBVIOUS
  <2> USE SocketAssumption DEF IInv, TypeOK
  <2>1. CASE Fork
    <3>1. i \in Contexts /\ phaseBar[i] = "idle"
      BY <2>1 DEF Fork, phaseBar, InOrder, Contexts
    <3>2. \A k \in Contexts : ~Gathered(k) /\ ~Gathered(k)'
      BY <2>1 DEF Fork, Gathered
    <3>3. phaseBar' = [phaseBar EXCEPT ![i] = "running"]
      BY <2>1, <3>1, <3>2 DEF Fork, phaseBar
    <3>4. resultsBar' = resultsBar
      BY <3>2 DEF resultsBar
    <3> QED
      BY <3>1, <3>3, <3>4 DEF Abstract!Next, Abstract!Start
  <2>2. CASE Bind
    <3>1. \A k \in Contexts : ~Gathered(k) /\ ~Gathered(k)'
      BY <2>2, Advances DEF Bind, Gathered, Contexts
    <3> QED
      BY <2>2, <3>1 DEF Bind, Abstract!vars, phaseBar, resultsBar
  <2>3. CASE Receive
    <3>1. \A k \in Contexts : (Gathered(k)' <=> Gathered(k)) /\ (Gathered(k) => k # i)
      BY <2>3 DEF Receive, Gathered, Contexts
    <3>2. \A k \in Contexts : k # i => results'[k] = results[k]
      BY <2>3 DEF Receive
    <3> QED
      BY <2>3, <3>1, <3>2 DEF Receive, Abstract!vars, phaseBar, resultsBar
  <2>4. CASE WaitForChild
    <3>1. /\ i \in Contexts /\ child[i] # "none" /\ ~Gathered(i) /\ results[i] = i
          /\ UNCHANGED <<child, results>>
      BY <2>4, Passes DEF WaitForChild, AtRest, OwnDatagrams
    <3>2. \A k \in Contexts : Gathered(k)' <=> Gathered(k) \/ k = i
      BY <2>4, Passes DEF WaitForChild
    <3>3. phaseBar[i] = "running"
      BY <3>1 DEF phaseBar
    <3>4. phaseBar' = [phaseBar EXCEPT ![i] = "gathered"]
      <4>1. \A k \in Contexts : child[k] # "none"
        BY <2>4 DEF WaitForChild, InOrder
      <4> QED
        BY <3>1, <3>2, <4>1 DEF phaseBar
    <3>5. resultsBar' = [resultsBar EXCEPT ![i] = i]
      BY <3>1, <3>2 DEF resultsBar
    <3> QED
      BY <3>1, <3>3, <3>4, <3>5 DEF Abstract!Next, Abstract!Gather
  <2>5. ASSUME NEW k \in Contexts, Child(k) \/ Signal(k) PROVE UNCHANGED Abstract!vars
    <3>1. /\ child[k] # "none" /\ child'[k] # "none" /\ UNCHANGED <<pc, i, results>>
          /\ \A l \in Contexts \ {k} : child'[l] = child[l]
      BY <2>5 DEF Child, ChildIterate, ChildSend, ChildExit, Signal, Running
    <3> QED
      BY <3>1 DEF Abstract!vars, phaseBar, resultsBar, Gathered
  <2>6. CASE UNCHANGED vars
    BY <2>6 DEF vars, Abstract!vars, phaseBar, resultsBar, Gathered
  <2> QED
    BY <2>1, <2>2, <2>3, <2>4, <2>5, <2>6 DEF Next, Parent
<1> QED
  BY <1>1, <1>2, Invariance, PTL DEF Spec, ImplementsParallelContexts

\* If recvfrom waits rather than fails, a context whose datagram did not arrive at its
\* socket is never passed: recvfrom, which has no timeout, keeps main from its end.
THEOREM SilentForGood ==
  ASSUME NEW k \in Contexts
  PROVE  Spec => [](Silent(k) /\ "recvfrom" \notin faults => []~Gathered(k))
<1>1. IInv /\ Silent(k) /\ "recvfrom" \notin faults => ~Gathered(k)
  BY DEF IInv, OwnChecksums, Silent, Contexts
<1>2. IInv /\ [Next]_vars /\ Silent(k) /\ "recvfrom" \notin faults
        => (Silent(k) /\ "recvfrom" \notin faults)'
  <2> SUFFICES ASSUME IInv, [Next]_vars, Silent(k), "recvfrom" \notin faults
               PROVE  Silent(k)' /\ faults' = faults
    OBVIOUS
  <2> USE DEF IInv, TypeOK, Silent, Port
  <2>1. CASE Fork
    <3>1. i \in Contexts /\ child[i] = "none"
      BY <2>1, SocketAssumption DEF Fork, InOrder, Contexts
    <3> QED
      BY <2>1, <3>1 DEF Fork
  <2>2. CASE Bind
    BY <2>2 DEF Bind
  <2>3. CASE Receive
    <3>1. i # k
      BY <2>3 DEF Receive, OwnDatagrams
    <3> QED
      BY <2>3, <3>1 DEF Receive
  <2>4. CASE WaitForChild \/ ReceiveOfNone \/ ReceiveBroken
    BY <2>4 DEF WaitForChild, ReceiveOfNone, ReceiveBroken, ReceiveFails
  <2>5. ASSUME NEW l \in Contexts, Child(l) \/ Signal(l) PROVE Silent(k)' /\ faults' = faults
    BY <2>5 DEF Child, ChildIterate, ChildSend, ChildExit, Signal, Running
  <2>6. CASE UNCHANGED vars
    BY <2>6 DEF vars
  <2> QED
    BY <2>1, <2>2, <2>3, <2>4, <2>5, <2>6 DEF Next, Parent
<1> QED
  BY <1>1, <1>2, Invariance, PTL DEF Spec
-------------------------------------------------------------------------------
(* Main comes out of its loops if it hears of every context. *)

\* The system calls main has ahead of it, two for a context in each loop, and the steps
\* a child has.
StepsOfMain ==
  CASE pc = "fork"     -> 2 * MULTITHREAD + 2 * (MULTITHREAD - i) + 2
    [] pc = "bind"     -> 2 * MULTITHREAD + 2 * (MULTITHREAD - i) + 1
    [] pc = "recvfrom" -> 2 * (MULTITHREAD - i) + 2
    [] pc = "waitpid"  -> 2 * (MULTITHREAD - i) + 1
    [] OTHER           -> 0
StepsOfChild(k) ==
  CASE child[k] = "none"    -> 4
    [] child[k] = "iterate" -> 3
    [] child[k] = "sendto"  -> 2
    [] child[k] = "exit"    -> 1
    [] OTHER                -> 0

\* A step takes nobody further from the end, and somebody nearer: main by its own
\* steps, and a child by its own.
Nearer ==
  /\ StepsOfMain' <= StepsOfMain
  /\ \A k \in Contexts : StepsOfChild(k)' <= StepsOfChild(k)
  /\ Parent \/ ReceiveBroken => StepsOfMain' < StepsOfMain
  /\ \A k \in Contexts : Child(k) \/ Signal(k) => StepsOfChild(k)' < StepsOfChild(k)
  /\ StepsOfMain' < StepsOfMain \/ \E k \in Contexts : StepsOfChild(k)' < StepsOfChild(k)

\* The system call main is at does not block.
ParentReady ==
  \/ pc \in {"fork", "bind"}
  \/ pc = "recvfrom" /\ (i \notin open \/ arrived[Port(i)] # {})
  \/ pc = "waitpid" /\ AtRest(i)

\* Main blocks for the child of its context while that runs, or else in recvfrom for
\* a datagram that will not arrive; and it has come out when it has no steps left.
NotStuck ==
  /\ pc # "done" => ParentReady \/ Running(i) \/ (pc = "recvfrom" /\ Silent(i))
  /\ StepsOfMain \in 0 .. 4 * MULTITHREAD /\ (StepsOfMain = 0 <=> pc = "done")
  /\ \A k \in Contexts : StepsOfChild(k) \in 0 .. 4 /\ (Running(k) => StepsOfChild(k) > 0)

\* Only a child that has come to sendto has sent checksums.
Heard ==
  \A k \in Contexts :
    arrived[k] # {} \/ results[k] # 0 => child[k] \in {"exit", "exited", "killed", "stopped"}

LEMMA StepHeard == IInv /\ Heard /\ [Next]_vars => Heard'
<1> SUFFICES ASSUME IInv, Heard, [Next]_vars PROVE Heard'
  OBVIOUS
<1> USE DEF IInv, TypeOK
<1>1. CASE Fork
  <2>1. /\ UNCHANGED <<arrived, results>> /\ i \in Contexts /\ child[i] = "none"
        /\ \E s \in {"iterate", "failed"} : child' = [child EXCEPT ![i] = s]
    BY <1>1 DEF Fork, InOrder, Contexts
  <2> QED BY <2>1 DEF Heard
<1>2. CASE Bind \/ ReceiveOfNone \/ ReceiveBroken \/ WaitForChild
  BY <1>2 DEF Bind, ReceiveOfNone, ReceiveBroken, ReceiveFails, WaitForChild, Heard
<1>3. CASE Receive
  <2>1. /\ UNCHANGED child /\ i \in arrived[i]
        /\ arrived' = [arrived EXCEPT ![i] = @ \ {i}] /\ results' = [results EXCEPT ![i] = i]
    BY <1>3 DEF Receive, Port, OwnDatagrams
  <2> QED BY <2>1 DEF Heard
<1>4. ASSUME NEW k \in Contexts, Child(k) \/ Signal(k) PROVE Heard'
  <2>1. /\ results' = results
        /\ \E s \in {"sendto", "exit", "exited", "killed", "stopped"} :
             child' = [child EXCEPT ![k] = s]
        /\ \A l \in Contexts : l # k => arrived'[l] = arrived[l]
    BY <1>4 DEF Child, ChildIterate, ChildSend, ChildExit, Signal, Port
  <2>2. \/ child[k] = "iterate" /\ arrived' = arrived
        \/ child'[k] \in {"exit", "exited", "killed", "stopped"}
    BY <1>4 DEF Child, ChildIterate, ChildSend, ChildExit, Signal, Running
  <2> QED BY <2>1, <2>2 DEF Heard
<1>5. CASE UNCHANGED vars
  BY <1>5 DEF vars, Heard
<1> QED BY <1>1, <1>2, <1>3, <1>4, <1>5 DEF Next, Parent

LEMMA NobodyStuck == IInv /\ Heard => NotStuck
<1> SUFFICES ASSUME IInv, Heard PROVE NotStuck
  OBVIOUS
<1> USE DEF IInv
<1>1. i \in Contexts /\ MULTITHREAD \in Nat \ {0}
  BY SocketAssumption DEF TypeOK
<1>2. ASSUME pc = "recvfrom", ~ParentReady PROVE Running(i) \/ Silent(i)
  <2>1. i \in open /\ child[i] # "none" /\ arrived[Port(i)] = {}
    BY <1>1, <1>2 DEF InOrder, ParentReady
  <2>2. results[i] = 0
    BY <1>1, <1>2 DEF InTurn, Gathered, Contexts
  <2>3. child[i] \in {"failed", "iterate", "sendto", "exit", "exited", "killed", "stopped"}
    BY <1>1, <2>1 DEF TypeOK
  <2> QED BY <2>1, <2>2, <2>3 DEF Running, Silent
<1>3. ASSUME pc = "waitpid", ~ParentReady PROVE Running(i)
  <2>1. results[i] = i /\ i # 0
    BY <1>1, <1>3 DEF OwnDatagrams, Contexts
  <2>2. child[i] \in {"exit", "exited", "killed", "stopped"}
    BY <1>1, <2>1 DEF Heard
  <2> QED BY <1>3, <2>2 DEF ParentReady, Running, AtRest
<1>4. pc # "done" => ParentReady \/ Running(i) \/ (pc = "recvfrom" /\ Silent(i))
  BY <1>2, <1>3 DEF TypeOK, ParentReady
<1>5. StepsOfMain \in 0 .. 4 * MULTITHREAD /\ (StepsOfMain = 0 <=> pc = "done")
  <2>1. i \in 1 .. MULTITHREAD /\ pc \in {"fork", "bind", "recvfrom", "waitpid", "done"}
    BY DEF TypeOK, Contexts
  <2> HIDE DEF IInv
  <2> QED BY <1>1, <2>1 DEF StepsOfMain
<1>6. \A k \in Contexts : StepsOfChild(k) \in 0 .. 4 /\ (Running(k) => StepsOfChild(k) > 0)
  BY DEF StepsOfChild, Running
<1> QED BY <1>4, <1>5, <1>6 DEF NotStuck

LEMMA StepsAreNumbers ==
  /\ IInv => StepsOfMain \in Nat
  /\ \A k \in Contexts : StepsOfChild(k) \in Nat /\ StepsOfChild(k)' \in Nat
<1>1. IInv => StepsOfMain \in Nat
  BY SocketAssumption DEF IInv, TypeOK, Contexts, StepsOfMain
<1>2. \A k \in Contexts : StepsOfChild(k) \in Nat /\ StepsOfChild(k)' \in Nat
  BY DEF StepsOfChild
<1> QED BY <1>1, <1>2

\* Every system call of main is one of those counted.
LEMMA MainNearer == ASSUME IInv, Parent \/ ReceiveBroken PROVE StepsOfMain' < StepsOfMain
<1>1. TypeOK /\ MULTITHREAD \in Nat \ {0} /\ i \in 1 .. MULTITHREAD
  BY SocketAssumption DEF IInv, TypeOK, Contexts
<1>2. CASE Fork
  BY <1>1, <1>2 DEF Fork, StepsOfMain
<1>3. CASE Bind
  <2>1. /\ pc = "bind"
        /\ i < MULTITHREAD => i' = i + 1 /\ pc' = "fork"
        /\ ~(i < MULTITHREAD) => i = MULTITHREAD /\ i' = 1 /\ pc' = "recvfrom"
    BY <1>1, <1>3, Advances DEF Bind
  <2> QED BY <1>1, <2>1 DEF StepsOfMain
<1>4. CASE Receive
  BY <1>1, <1>4 DEF Receive, StepsOfMain
<1>5. CASE WaitForChild \/ ReceiveOfNone \/ ReceiveBroken
  <2>1. /\ pc \in {"recvfrom", "waitpid"}
        /\ i < MULTITHREAD => i' = i + 1 /\ pc' = "recvfrom"
        /\ ~(i < MULTITHREAD) => i = MULTITHREAD /\ i' = 1 /\ pc' = "done"
    BY <1>1, <1>5, Advances DEF WaitForChild, ReceiveOfNone, ReceiveBroken, ReceiveFails
  <2> QED BY <1>1, <2>1 DEF StepsOfMain
<1> QED BY <1>2, <1>3, <1>4, <1>5 DEF Parent

\* fork is what makes a child run; nothing else main does moves one.
LEMMA MainMovesNoChild ==
  ASSUME IInv, Parent \/ ReceiveBroken
  PROVE  \A k \in Contexts : StepsOfChild(k)' <= StepsOfChild(k)
<1>1. CASE Fork
  <2>1. child \in [Contexts -> {"none", "failed", "iterate", "sendto", "exit",
                             "exited", "killed", "stopped"}]
        /\ i \in Contexts /\ child[i] = "none"
    BY <1>1 DEF Fork, IInv, TypeOK, InOrder, Contexts
  <2>2. \A k \in Contexts : child'[k] = child[k] \/ (child[k] = "none" /\ child'[k] \in {"iterate", "failed"})
    BY <1>1, <2>1 DEF Fork
  <2> QED BY <2>2 DEF StepsOfChild
<1>2. CASE Bind \/ Receive \/ ReceiveOfNone \/ ReceiveBroken \/ WaitForChild
  <2>1. child' = child
    BY <1>2 DEF Bind, Receive, ReceiveOfNone, ReceiveBroken, ReceiveFails, WaitForChild
  <2> QED BY <2>1 DEF StepsOfChild
<1> QED BY <1>1, <1>2 DEF Parent

\* A child goes on or a signal ends it.
LEMMA ChildNearer ==
  ASSUME IInv, NEW k \in Contexts, Child(k) \/ Signal(k)
  PROVE  /\ StepsOfMain' = StepsOfMain /\ StepsOfChild(k)' < StepsOfChild(k)
         /\ \A l \in Contexts : StepsOfChild(l)' <= StepsOfChild(l)
<1>1. /\ child \in [Contexts -> {"none", "failed", "iterate", "sendto", "exit",
                             "exited", "killed", "stopped"}]
      /\ pc' = pc /\ i' = i
      /\ \/ child[k] = "iterate" /\ child' = [child EXCEPT ![k] = "sendto"]
         \/ child[k] = "sendto" /\ child' = [child EXCEPT ![k] = "exit"]
         \/ child[k] = "exit" /\ child' = [child EXCEPT ![k] = "exited"]
         \/ /\ child[k] \in {"iterate", "sendto", "exit"}
            /\ \E s \in {"killed", "stopped"} : child' = [child EXCEPT ![k] = s]
  BY DEF IInv, TypeOK, Child, ChildIterate, ChildSend, ChildExit, Signal, Running
<1>2. StepsOfMain' = StepsOfMain
  BY <1>1 DEF StepsOfMain
<1>3. \A l \in Contexts : l # k => child'[l] = child[l]
  BY <1>1
<1>4. StepsOfChild(k)' < StepsOfChild(k)
  BY <1>1 DEF StepsOfChild
<1>5. \A l \in Contexts : l # k => StepsOfChild(l)' <= StepsOfChild(l)
  BY <1>3 DEF StepsOfChild
<1> QED BY <1>2, <1>4, <1>5, StepsAreNumbers

\* Main gets on unless the datagram of the context it is at does not arrive: in all
\* other states a call of its own does not block or the child of that context runs, each
\* of its calls and of the children's steps is one fewer to come, and none takes another
\* back.
THEOREM StuckOnlyInSilence == Spec => []NotStuck /\ [][Nearer]_vars
<1>1. IInv /\ [Next]_vars => [Nearer]_vars
  <2> SUFFICES ASSUME IInv, Next PROVE Nearer
    OBVIOUS
  <2>1. Parent \/ ReceiveBroken =>
          StepsOfMain' < StepsOfMain /\ \A k \in Contexts : StepsOfChild(k)' <= StepsOfChild(k)
    BY MainNearer, MainMovesNoChild
  <2>2. \A k \in Contexts : Child(k) \/ Signal(k) =>
          /\ StepsOfMain' = StepsOfMain /\ StepsOfChild(k)' < StepsOfChild(k)
          /\ \A l \in Contexts : StepsOfChild(l)' <= StepsOfChild(l)
    BY ChildNearer
  <2>3. StepsOfMain \in Nat /\ StepsOfMain' \in Nat
    <3>1. IInv' /\ (IInv => StepsOfMain \in Nat)'
      BY StepKeeps, StepsAreNumbers, PTL
    <3> QED BY <3>1, StepsAreNumbers
  <2>4. CASE Parent \/ ReceiveBroken
    BY <2>1, <2>2, <2>3, <2>4 DEF Nearer
  <2>5. ASSUME NEW k \in Contexts, Child(k) \/ Signal(k) PROVE Nearer
    BY <2>1, <2>2, <2>3, <2>5 DEF Nearer
  <2> QED BY <2>4, <2>5 DEF Next
<1>2. Init => Heard
  BY DEF Init, Heard
<1>3. Spec => []Heard
  BY <1>2, StepHeard, Invariance, PTL DEF Spec
<1> QED BY <1>1, <1>3, NobodyStuck, Invariance, PTL DEF Spec
=============================================================================
