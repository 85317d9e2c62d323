---------------------------- MODULE ParamMemory ----------------------------
(***************************************************************************)
(* The physical memory of the test bench (mp4/hvl/param_memory.sv): a line *)
(* store behind a burst port.  It samples the port at a clock edge, waits  *)
(* a number of edges that depends on the page, and then drives resp for    *)
(* BURST_LEN consecutive cycles, one beat of the line in each.  A parallel *)
(* process asserts at every edge that the master holds its request and its *)
(* address; a failed assertion raises pmem_error and ends the transaction. *)
(*                                                                         *)
(* The variables are what survives a clock edge.  The port inputs are the  *)
(* parameters of Edge: one Edge step is one posedge clk.                   *)
(***************************************************************************)
EXTENDS LineTypes

CONSTANT Delays         \* DELAY_MEM and DELAY_PAGE_HIT, in clock edges

ASSUME DelaysAssumption == Delays # {} /\ Delays \subseteq Nat \ {0}

VARIABLES store,    \* _mem
          phase,    \* where the memread / memwrite task is
          kind,     \* which of the two tasks runs, with the address it was given
          held,
          wait,     \* edges left in repeat (delay) @(itf.mcb)
          beat,     \* i: beats driven so far
          resp, rdata, error    \* the clocking block's outputs

memVars == <<store, phase, kind, held, wait, beat, resp, rdata, error>>

MemTypeOK ==
  /\ store \in [Lines -> LineValue]
  /\ phase \in {"idle", "delay", "burst"}
  /\ kind \in {"read", "write"}
  /\ held \in Addr
  /\ wait \in Nat
  /\ beat \in 0 .. BURST_LEN
  /\ resp \in BOOLEAN
  /\ rdata \in Words
  /\ error \in BOOLEAN

MemInit(contents, aHeld) ==
  /\ store = contents
  /\ phase = "idle" /\ kind = "read" /\ held = aHeld
  /\ wait = 0 /\ beat = 0
  /\ resp = FALSE /\ rdata \in Words
  /\ error = FALSE

-----------------------------------------------------------------------------
\* An edge in the forever loop with no request on the port.
Quiet(read, write) ==
  /\ phase = "idle" /\ ~read /\ ~write
  /\ UNCHANGED memVars

\* The loop samples a request and calls memread or memwrite, which latches the
\* address and picks the delay of its page.  Both bits at once is $error.
Accept(read, write, addr) ==
  /\ phase = "idle" /\ (read \/ write)
  /\ error' = (error \/ (read /\ write))
  /\ IF read /\ write
       THEN UNCHANGED <<phase, kind, held, wait>>
       ELSE /\ phase' = "delay"
            /\ kind' = IF read THEN "read" ELSE "write"
            /\ held' = addr
            /\ wait' \in Delays
  /\ UNCHANGED <<store, beat, resp, rdata>>

\* The assertions of the error_check process: read_steady / write_steady,
\* no_write / no_read, addr_read_steady / addr_write_steady.
Steady(read, write, addr) ==
  /\ read = (kind = "read")
  /\ write = (kind = "write")
  /\ addr = held

\* One edge of repeat (delay) @(itf.mcb) that is not the last.
Wait(read, write, addr) ==
  /\ phase = "delay" /\ wait > 1
  /\ wait' = wait - 1
  /\ error' = (error \/ ~Steady(read, write, addr))
  /\ phase' = IF Steady(read, write, addr) THEN "delay" ELSE "idle"
  /\ UNCHANGED <<store, kind, held, beat, resp, rdata>>

\* The last edge of the delay: resp rises and the first beat is driven.
FirstBeat(read, write, addr) ==
  /\ phase = "delay" /\ wait <= 1
  /\ wait' = 0
  /\ beat' = 1
  /\ resp' = TRUE
  /\ rdata' = IF kind = "read" THEN store[held.line][0] ELSE rdata
  /\ error' = (error \/ ~Steady(read, write, addr))
  /\ phase' = IF Steady(read, write, addr) THEN "burst" ELSE "idle"
  /\ UNCHANGED <<store, kind, held>>

\* An edge inside the burst: a write takes the beat on the bus, a read drives the
\* next one, and after the last of them resp falls and the task returns.
Beat(read, write, addr, wdata) ==
  /\ phase = "burst"
  /\ store' = IF kind = "write"
                THEN [store EXCEPT ![held.line][beat - 1] = wdata]
                ELSE store
  /\ rdata' = IF kind = "read" /\ beat < BURST_LEN
                THEN store[held.line][beat] ELSE rdata
  /\ beat' = IF beat < BURST_LEN THEN beat + 1 ELSE 0
  /\ resp' = (beat < BURST_LEN)
  /\ error' = (error \/ ~Steady(read, write, addr))
  /\ phase' = IF beat < BURST_LEN /\ Steady(read, write, addr)
                THEN "burst" ELSE "idle"
  /\ UNCHANGED <<kind, held, wait>>

MemEdge(read, write, addr, wdata) ==
  \/ Quiet(read, write)
  \/ Accept(read, write, addr)
  \/ Wait(read, write, addr)
  \/ FirstBeat(read, write, addr)
  \/ Beat(read, write, addr, wdata)
=============================================================================
