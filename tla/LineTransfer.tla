---------------------------- MODULE LineTransfer ----------------------------
(***************************************************************************)
(* The cacheline adaptor wired to the burst memory, as mp4.sv and the test *)
(* bench wire them, and a client on the adaptor's line port.  The client   *)
(* stands for the arbiter with the caches behind it: it asks for one line  *)
(* at a time and keeps the request on the port until the response; the     *)
(* next request may follow in the very next cycle, as a refill follows a   *)
(* write-back.  All registers share one clock: a step is a posedge.        *)
(***************************************************************************)
EXTENDS CachelineAdaptor, ParamMemory

CONSTANT Payloads       \* the lines a client writes and memory starts with

ASSUME PayloadsAssumption == Payloads # {} /\ Payloads \subseteq LineValue

VARIABLE client         \* the request on the line port

vars == <<adaptorVars, memVars, client>>

Requests == {q \in [read : BOOLEAN, write : BOOLEAN, addr : Addr, line : Payloads] :
               ~(q.read /\ q.write)}

\* The registers of the adaptor and of the memory, and the request, in range.
TypeOK ==
  /\ AdaptorTypeOK /\ MemTypeOK
  /\ client \in Requests

Init ==
  /\ \E contents \in [Lines -> Payloads], a \in Addr, l \in Payloads :
        MemInit(contents, a) /\ AdaptorInit(a, l)
  /\ client \in Requests

\* The client sees the response at the edge that ends the response cycle; only
\* then, or when it asks for nothing, may what it drives change.
ClientEdge ==
  IF resp_o \/ ~(client.read \/ client.write)
    THEN client' \in Requests
    ELSE UNCHANGED client

Next ==
  /\ ClientEdge
  /\ AdaptorEdge(client.read, client.write, client.addr, client.line, rdata, resp)
  /\ MemEdge(read_o, write_o, address_o, burst_o)

Spec == Init /\ [][Next]_vars

FairSpec == Spec /\ WF_vars(Next)     \* the clock keeps ticking

-----------------------------------------------------------------------------
(* Safety *)

\* None of the memory's assertions ever fails (read_steady, no_write,
\* addr_read_steady, write_steady, no_read, addr_write_steady): the adaptor holds
\* its request and its address from the edge the memory samples them to the last
\* beat, whatever the client does on its own port in the response cycle.
NoBurstError == ~error

\* The adaptor takes beats without looking at resp_i once a burst has begun: its
\* count must therefore stay exactly one behind the memory's beat.
BeatsInStep ==
  /\ macro \in {"R", "W"} => phase = "burst" /\ beat = count + 1 /\ resp
  /\ phase = "burst" /\ macro \notin {"R", "W"} => beat = 1 /\ macro \in {"WAITR", "WAITW"}

\* In the response cycle the line on line_o is the line in memory, beat for beat:
\* a read returned no torn or shifted line, and a write has fully arrived.
LineIntact == resp_o => line_o = store[address_o.line]

\* The response answers the request that is on the port: same line, same
\* operation, and for a write the line the client drives is what memory holds.
ResponseMatches ==
  resp_o => /\ client.read \/ client.write
            /\ address_o = client.addr
            /\ client.write => store[client.addr.line] = client.line

\* The inductive invariant behind the four: how far the adaptor and the memory
\* may be from each other, and what has crossed the bus so far.
SameTransfer ==
  /\ kind = IF read_o THEN "read" ELSE "write"
  /\ held = addressbuf
InStep ==
  /\ macro \in {"IDLE", "DONE"} => phase = "idle" /\ ~resp
  /\ macro \in {"WAITR", "WAITW"} =>
        \/ phase = "idle" /\ ~resp
        \/ phase = "delay" /\ ~resp /\ SameTransfer
        \/ phase = "burst" /\ resp /\ beat = 1 /\ SameTransfer
  /\ macro \in {"R", "W"} =>
        phase = "burst" /\ resp /\ beat = count + 1 /\ count > 0 /\ SameTransfer
  /\ macro = "WAITW" => count = 0
BeatsSent ==
  /\ phase = "burst" /\ kind = "read" => rdata = store[held.line][beat - 1]
  /\ macro \in {"R", "W"} =>
        \A b \in 0 .. count - 1 : linebuf[b] = store[addressbuf.line][b]
  /\ macro = "DONE" => linebuf = store[addressbuf.line]
ForTheClient ==
  macro # "IDLE" =>
    /\ client.addr = addressbuf
    /\ read_o => client.read
    /\ write_o => client.write
    /\ client.read \/ client.write
    /\ client.write => linebuf = client.line
TransferInv == NoBurstError /\ InStep /\ BeatsSent /\ ForTheClient

(* Action properties *)

\* A write burst touches the addressed line only, and memory is never changed on
\* behalf of a read.
OnlyTheWrittenLine ==
  [][\A l \in Lines : store'[l] # store[l] =>
        macro \in {"WAITW", "W"} /\ l = address_o.line]_vars

(* Liveness *)

\* Every request on the line port is answered.
RequestAnswered == (client.read \/ client.write) ~> resp_o

-----------------------------------------------------------------------------
(* Refinement.  A write counts as done when the adaptor accepts it, so memory *)
(* as the client sees it holds the buffered line for the rest of the burst.   *)
LinesView ==
  IF write_o THEN [store EXCEPT ![address_o.line] = linebuf] ELSE store

PortView ==
  CASE macro = "IDLE" -> "idle" [] macro = "DONE" -> "done" [] OTHER -> "busy"

\* The operation under way; in the response cycle the memory still knows it.
OpView == CASE macro = "IDLE" -> "read" [] macro = "DONE" -> kind
            [] OTHER -> IF read_o THEN "read" ELSE "write"
AddrView == IF macro = "IDLE" THEN AnyAddr ELSE addressbuf

Abstract == INSTANCE LineMemory WITH
  lines <- LinesView, port <- PortView, op <- OpView, addr <- AddrView, bus <- linebuf

\* The adaptor and the burst memory implement a memory of whole lines.
ImplementsLineMemory == Abstract!LineMemSpec
=============================================================================
