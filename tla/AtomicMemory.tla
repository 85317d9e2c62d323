---------------------------- MODULE AtomicMemory ----------------------------
(***************************************************************************)
(* What a cache promises the processor: a memory with one port, in which a *)
(* request waits for a response, a load returns the line as the stores     *)
(* before it left it, and only an answered store changes anything.  There  *)
(* are no ways, tags, misses or write-backs here.                          *)
(***************************************************************************)
EXTENDS LineTypes

CONSTANTS CpuRequests,  \* the requests the processor can put on the port
          NoData        \* on rdata when no load is answered

VARIABLES contents,     \* the memory the program sees
          cpu,          \* the request on the port
          resp,         \* mem_resp
          rdata         \* mem_rdata

atomicVars == <<contents, cpu, resp, rdata>>

Asking(q) == q.read # q.write

Answers(q, r, d) ==
  /\ r => Asking(q)
  /\ d = IF r /\ q.read THEN contents[q.addr.line][q.addr.off] ELSE NoData

Stored == [contents EXCEPT ![cpu.addr.line] =
             [b \in Beats |-> IF b \in cpu.mbe THEN cpu.wdata ELSE @[b]]]

AtomicInit ==
  /\ contents \in [Lines -> LineValue]
  /\ cpu \in CpuRequests
  /\ resp \in BOOLEAN
  /\ Answers(cpu, resp, rdata)

\* A request that is not answered stays as it is.
Waiting ==
  /\ Asking(cpu) /\ ~resp
  /\ UNCHANGED <<contents, cpu>>

\* The edge that ends a cycle with a response: a store happens, and the processor
\* may drive its next request.
Served ==
  /\ resp
  /\ contents' = IF cpu.write THEN Stored ELSE contents
  /\ cpu' \in CpuRequests

Unused ==
  /\ ~Asking(cpu)
  /\ UNCHANGED contents
  /\ cpu' \in CpuRequests

AtomicNext ==
  /\ Waiting \/ Served \/ Unused
  /\ resp' \in BOOLEAN
  /\ Answers(cpu, resp, rdata)'

\* Every request is answered.
AtomicLive == Asking(cpu) ~> resp

AtomicSpec == AtomicInit /\ [][AtomicNext]_atomicVars /\ AtomicLive
=============================================================================
