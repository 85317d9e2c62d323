----------------------------- MODULE LineMemory -----------------------------
(***************************************************************************)
(* What the cacheline adaptor and the burst memory together promise the    *)
(* caches: a memory that reads or writes one whole line per request, and   *)
(* nothing of beats, bursts or delays.  A written line is in memory from   *)
(* the moment the request is accepted; a read line is on the bus, whole,   *)
(* in the cycle of the response.  At any other time the bus carries        *)
(* anything: the buffer behind it is being filled beat by beat.            *)
(***************************************************************************)
EXTENDS LineTypes

VARIABLES lines,        \* the contents of memory
          port,         \* "idle", "busy" or "done" (the cycle of the response)
          op, addr,     \* the accepted request; between requests they mean nothing
          bus           \* the line on the read bus

lmVars == <<lines, port, op, addr, bus>>

LineMemInit ==
  /\ lines \in [Lines -> LineValue]
  /\ port = "idle"
  /\ op = "read" /\ addr = AnyAddr
  /\ bus \in LineValue

AcceptRead(a) ==
  /\ port = "idle"
  /\ port' = "busy" /\ op' = "read" /\ addr' = a
  /\ bus' \in LineValue
  /\ UNCHANGED lines

AcceptWrite(a, line) ==
  /\ port = "idle"
  /\ port' = "busy" /\ op' = "write" /\ addr' = a
  /\ lines' = [lines EXCEPT ![a.line] = line]
  /\ bus' \in LineValue

Transfer ==
  /\ port = "busy"
  /\ bus' \in LineValue
  /\ UNCHANGED <<lines, port, op, addr>>

Answer ==
  /\ port = "busy"
  /\ port' = "done"
  /\ bus' \in LineValue
  /\ op = "read" => bus' = lines[addr.line]
  /\ UNCHANGED <<lines, op, addr>>

Retire ==
  /\ port = "done"
  /\ port' = "idle" /\ op' = "read" /\ addr' = AnyAddr
  /\ bus' \in LineValue
  /\ UNCHANGED lines

LineMemNext ==
  \/ \E a \in Addr : AcceptRead(a)
  \/ \E a \in Addr : lines'[a.line] \in LineValue /\ AcceptWrite(a, lines'[a.line])
  \/ Transfer
  \/ Answer
  \/ Retire

\* Every accepted request is answered, and the port is free again after it.
LineMemLive ==
  /\ (port = "busy") ~> (port = "done")
  /\ (port = "done") ~> (port = "idle")

LineMemSpec == LineMemInit /\ [][LineMemNext]_lmVars /\ LineMemLive
=============================================================================
