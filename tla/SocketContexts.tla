--------------------------- MODULE SocketContexts ---------------------------
(***************************************************************************)
(* The parallel benchmark with USE_SOCKET: core_start_parallel forks a     *)
(* child for a context, then opens and binds the socket that the child     *)
(* sends its checksums to; core_stop_parallel receives them and waits for  *)
(* the child (core_portme.c).  The datagram is not acknowledged, recvfrom  *)
(* has no timeout, and when it fails main goes on with the next context.   *)
(***************************************************************************)
EXTENDS Integers

CONSTANTS MULTITHREAD,  \* contexts
          FaultSets     \* sets of things that may go wrong in one run: "fork", the parent's
                        \* "socket", "bind" and "recvfrom" fail, a datagram gets "lost",
                        \* a child is hit by a "kill" or, for good, a "stop"

ASSUME SocketAssumption ==
  /\ MULTITHREAD \in Nat \ {0}
  /\ FaultSets \subseteq SUBSET {"fork", "socket", "bind", "recvfrom", "lost", "kill", "stop"}

Contexts == 1 .. MULTITHREAD

VARIABLES faults,   \* the set this run is subject to
          pc, i,    \* the system call the parent is at, and its context
          child,    \* how far the child of a context is
          open,     \* the contexts the parent has a socket for
          bound,    \* the contexts whose socket is bound to its port
          arrived,  \* the datagrams that wait at a port, by the context that sent them
          waited,   \* waitpid has returned the child
          results   \* the context whose checksums are in the parent's core_results
vars == <<faults, pc, i, child, open, bound, arrived, waited, results>>

Init ==
  /\ faults \in FaultSets
  /\ pc = "fork" /\ i = 1
  /\ child = [k \in Contexts |-> "none"]
  /\ open = {} /\ bound = {}
  /\ arrived = [k \in Contexts |-> {}]
  /\ waited = [k \in Contexts |-> FALSE]
  /\ results = [k \in Contexts |-> 0]

\* Fault: key_id is not counted up.
SamePort(k) == 1
\* sin_port = htons(7654+key_id); key_id++.
Port(k) == k

\* The next round of the loop main is in.
Advance(stage) ==
  IF i < MULTITHREAD THEN i' = i + 1 /\ pc' = stage
  ELSE i' = 1 /\ pc' = IF stage = "fork" THEN "recvfrom" ELSE "done"

Fork ==
  /\ pc = "fork"
  /\ \/ child' = [child EXCEPT ![i] = "iterate"]
     \/ "fork" \in faults /\ child' = [child EXCEPT ![i] = "failed"]
  /\ pc' = "bind"
  /\ UNCHANGED <<faults, i, open, bound, arrived, waited, results>>

\* socket and bind: what socket returns is not looked at, and a failing bind is printed
\* and no more.
Bind ==
  /\ pc = "bind"
  /\ \/ open' = open \union {i} /\ bound' = bound \union {Port(i)}
     \/ "bind" \in faults /\ open' = open \union {i} /\ UNCHANGED bound
     \/ "socket" \in faults /\ UNCHANGED <<open, bound>>
  /\ Advance("fork")
  /\ UNCHANGED <<faults, child, arrived, waited, results>>

ChildIterate(k) ==
  /\ child[k] = "iterate"
  /\ child' = [child EXCEPT ![k] = "sendto"]
  /\ UNCHANGED <<faults, pc, i, open, bound, arrived, waited, results>>

\* socket, sendto and close: what is sent to a port nobody has bound is gone, and a
\* socket or sendto that fails sends nothing.
ChildSend(k) ==
  /\ child[k] = "sendto"
  /\ child' = [child EXCEPT ![k] = "exit"]
  /\ \/ arrived' = [arrived EXCEPT ![Port(k)] = IF Port(k) \in bound THEN @ \union {k} ELSE @]
     \/ "lost" \in faults /\ UNCHANGED arrived
  /\ UNCHANGED <<faults, pc, i, open, bound, waited, results>>

ChildExit(k) ==
  /\ child[k] = "exit"
  /\ child' = [child EXCEPT ![k] = "exited"]
  /\ UNCHANGED <<faults, pc, i, open, bound, arrived, waited, results>>

Running(k) == child[k] \in {"iterate", "sendto", "exit"}
Signal(k) ==
  /\ Running(k)
  /\ \/ "kill" \in faults /\ child' = [child EXCEPT ![k] = "killed"]
     \/ "stop" \in faults /\ child' = [child EXCEPT ![k] = "stopped"]
  /\ UNCHANGED <<faults, pc, i, open, bound, arrived, waited, results>>

\* Fault: MSG_DONTWAIT.
ReceiveNow ==
  /\ pc = "recvfrom" /\ i \in open
  /\ IF arrived[Port(i)] = {} THEN Advance("recvfrom") /\ UNCHANGED <<arrived, results>>
     ELSE \E d \in arrived[Port(i)] :
            /\ arrived' = [arrived EXCEPT ![Port(i)] = @ \ {d}]
            /\ results' = [results EXCEPT ![i] = d]
            /\ pc' = "waitpid" /\ i' = i
  /\ UNCHANGED <<faults, child, open, bound, waited>>
Receive ==
  /\ pc = "recvfrom" /\ i \in open
  /\ \E d \in arrived[Port(i)] :
       /\ arrived' = [arrived EXCEPT ![Port(i)] = @ \ {d}]
       /\ results' = [results EXCEPT ![i] = d]
  /\ pc' = "waitpid"
  /\ UNCHANGED <<faults, i, child, open, bound, waited>>

\* recsize < 0: the error is printed, and main goes on without the checksums and without
\* waiting for the child.  What main does with no socket, and may do with one.
ReceiveFails ==
  /\ pc = "recvfrom"
  /\ Advance("recvfrom")
  /\ UNCHANGED <<faults, child, open, bound, arrived, waited, results>>
ReceiveOfNone == i \notin open /\ ReceiveFails
ReceiveBroken == i \in open /\ "recvfrom" \in faults /\ ReceiveFails

\* waitpid(...,WUNTRACED) returns a child that has ended or is stopped.
AtRest(k) == child[k] \in {"exited", "killed", "stopped"}
WaitForChild ==
  /\ pc = "waitpid" /\ AtRest(i)
  /\ waited' = [waited EXCEPT ![i] = TRUE]
  /\ Advance("recvfrom")
  /\ UNCHANGED <<faults, child, open, bound, arrived, results>>

Parent == Fork \/ Bind \/ Receive \/ ReceiveOfNone \/ WaitForChild
Child(k) == ChildIterate(k) \/ ChildSend(k) \/ ChildExit(k)
Next == Parent \/ ReceiveBroken \/ \E k \in Contexts : Child(k) \/ Signal(k)
Spec == Init /\ [][Next]_vars /\ WF_vars(Parent) /\ \A k \in Contexts : WF_vars(Child(k))

-----------------------------------------------------------------------------
Gathered(k) == pc = "done" \/ (pc \in {"recvfrom", "waitpid"} /\ k < i)

\* Type invariant.
TypeOK ==
  /\ pc \in {"fork", "bind", "recvfrom", "waitpid", "done"} /\ i \in Contexts
  /\ child \in [Contexts -> {"none", "failed", "iterate", "sendto", "exit",
                             "exited", "killed", "stopped"}]
  /\ open \subseteq Contexts /\ bound \subseteq Contexts
  /\ arrived \in [Contexts -> SUBSET Contexts]
  /\ waited \in [Contexts -> BOOLEAN]
  /\ results \in [Contexts -> 0 .. MULTITHREAD]

\* Main passes a context with its checksums, its own, and with its child at rest, or, if
\* the socket was not made or its recvfrom may fail, with neither.
OwnChecksums ==
  \A k \in Contexts : Gathered(k) =>
    \/ results[k] = k /\ waited[k] /\ AtRest(k)
    \/ results[k] = 0 /\ ~waited[k] /\ (k \notin open \/ "recvfrom" \in faults)

\* The datagram of the context did not arrive at its socket, or will not be sent.
Silent(k) == /\ k \in open /\ child[k] \in {"failed", "killed", "stopped", "exit", "exited"}
             /\ k \notin arrived[Port(k)] /\ results[k] = 0

\* Main comes out of its two loops unless the datagram of a child does not arrive; when
\* it does not, recvfrom waits for it for ever, if it does not fail.
EndsIffAllHeard ==
  /\ <>(pc = "done") \/ <>[](pc = "recvfrom" /\ Silent(i))
  /\ \A k \in Contexts : [](Silent(k) /\ "recvfrom" \notin faults => [](~Gathered(k)))

\* What main expects of parallel contexts, but for their end and for a context it passes
\* because recvfrom fails.
phaseBar == [k \in Contexts |-> IF child[k] = "none" THEN "idle"
                                ELSE IF Gathered(k) THEN "gathered" ELSE "running"]
resultsBar == [k \in Contexts |-> IF Gathered(k) THEN results[k] ELSE 0]
Abstract == INSTANCE ParallelContexts WITH phase <- phaseBar, results <- resultsBar
ImplementsParallelContexts ==
  /\ Abstract!Init
  /\ [][ReceiveOfNone \/ ReceiveBroken \/ [Abstract!Next]_(Abstract!vars)]_vars

-----------------------------------------------------------------------------
\* The inductive invariant: children are forked in the order of the contexts; a port
\* gets no datagram but its own context's; what main has of a context it has since it
\* was at it; and it passes one with both its checksums and its child, or neither.
InOrder ==
  \A k \in Contexts :
    child[k] = "none" <=> (pc = "fork" /\ k >= i) \/ (pc = "bind" /\ k > i)
OwnDatagrams ==
  /\ \A k \in Contexts : arrived[k] \subseteq {k}
  /\ \A k \in Contexts : results[k] \in {0, k}
  /\ pc = "waitpid" => results[i] = i
InTurn ==
  \A k \in Contexts :
    /\ results[k] # 0 => Gathered(k) \/ (pc = "waitpid" /\ k = i)
    /\ waited[k] => Gathered(k)
IInv == TypeOK /\ InOrder /\ OwnDatagrams /\ InTurn /\ OwnChecksums
=============================================================================
