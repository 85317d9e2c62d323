---------------------------- MODULE MemorySystem ----------------------------
(***************************************************************************)
(* The memory side of mp4.sv as it is wired there: the instruction and the *)
(* data cache, the arbiter, the cacheline adaptor, and the burst memory of *)
(* the test bench, all on one clock.  The pipeline is reduced to what it   *)
(* does to the two cache ports: it always fetches, it may have a load or a *)
(* store in MEM, and it moves on, to any other fetch and any other access, *)
(* only in a cycle in which pipeline_stall is low.                         *)
(*                                                                         *)
(* Programs are kept from storing into the lines they fetch: the caches do *)
(* not snoop each other, and no instruction makes the fetch path coherent. *)
(***************************************************************************)
EXTENDS CachelineAdaptor, ParamMemory, Arbiter

CONSTANTS Tags, Indices, Tag0, Word0,
          Fetches,      \* what the processor may fetch
          Accesses,     \* its loads and stores, and the request that is none
          Contents,     \* initial memories
          NoData

ASSUME LineAddresses == Lines = [tag : Tags, index : Indices]

VARIABLES i_state, i_tag, i_valid, i_dirty, i_lru, i_data,
          d_state, d_tag, d_valid, d_dirty, d_lru, d_data,
          fetch,        \* instr_mem_address, with instr_read tied high
          access,       \* data_read, data_write and the rest of the data port
          bypass        \* history: line transfers the waiting fetch has let pass

IC == INSTANCE Cache WITH state <- i_state, tag <- i_tag, valid <- i_valid,
                          dirty <- i_dirty, lru <- i_lru, data <- i_data
DC == INSTANCE Cache WITH state <- d_state, tag <- d_tag, valid <- d_valid,
                          dirty <- d_dirty, lru <- d_lru, data <- d_data

ASSUME PortAssumption ==
  /\ Fetches # {} /\ Fetches \subseteq IC!CpuRequest
  /\ \A q \in Fetches : q.read /\ ~q.write
  /\ Accesses # {} /\ Accesses \subseteq DC!CpuRequest
  /\ \A q \in Accesses : ~(q.read /\ q.write)
  /\ \A q \in Accesses, f \in Fetches : q.write => q.addr.line # f.addr.line
  /\ NoData \notin Words
ASSUME ResetAssumption ==
  /\ Tag0 \in Tags /\ Word0 \in Words
  /\ Contents # {} /\ Contents \subseteq [Lines -> LineValue]

icacheVars == <<i_state, i_tag, i_valid, i_dirty, i_lru, i_data>>
dcacheVars == <<d_state, d_tag, d_valid, d_dirty, d_lru, d_data>>
vars == <<icacheVars, dcacheVars, arb, adaptorVars, memVars, fetch, access, bypass>>

-----------------------------------------------------------------------------
(* The wires between the components *)
imem == [read |-> IC!pmem_read, write |-> IC!pmem_write,
         addr |-> IC!pmem_address(fetch), line |-> IC!pmem_wdata(fetch)]
dmem == [read |-> DC!pmem_read, write |-> DC!pmem_write,
         addr |-> DC!pmem_address(access), line |-> DC!pmem_wdata(access)]
linePort == pmem(imem, dmem)
i_resp == imem_resp(imem, dmem, resp_o)
d_resp == dmem_resp(imem, dmem, resp_o)

pipeline_stall ==
  \/ ~IC!mem_resp(fetch)
  \/ ~DC!mem_resp(access) /\ (access.read \/ access.write)

\* Every register of the five components, and the two processor ports, in range.
TypeOK ==
  /\ IC!CacheTypeOK /\ DC!CacheTypeOK
  /\ ArbTypeOK /\ AdaptorTypeOK /\ MemTypeOK
  /\ fetch \in Fetches /\ access \in Accesses
  /\ bypass \in Nat

Init ==
  /\ IC!CacheInit /\ DC!CacheInit
  /\ ArbInit
  /\ \E contents \in Contents :
       LET l == [tag |-> Tag0, index |-> CHOOSE i \in Indices : TRUE]
       IN  /\ MemInit(contents, [line |-> l, off |-> 0])
           /\ AdaptorInit([line |-> l, off |-> 0], contents[l])
  /\ fetch \in Fetches /\ access \in Accesses
  /\ bypass = 0

-----------------------------------------------------------------------------
ProcessorEdge ==
  IF pipeline_stall
    THEN UNCHANGED <<fetch, access>>
    ELSE fetch' \in Fetches /\ access' \in Accesses

\* The history: transfers of the data cache that end while the instruction cache
\* has a request up.
CountBypass ==
  bypass' = IF ~(imem.read \/ imem.write) \/ i_resp THEN 0
            ELSE IF d_resp THEN bypass + 1 ELSE bypass

Next ==
  /\ ProcessorEdge
  /\ IC!CacheEdge(fetch, i_resp, line_o)
  /\ DC!CacheEdge(access, d_resp, line_o)
  /\ ArbEdge(imem, dmem, resp_o)
  /\ AdaptorEdge(linePort.read, linePort.write, linePort.addr, linePort.line, rdata, resp)
  /\ MemEdge(read_o, write_o, address_o, burst_o)
  /\ CountBypass

Spec == Init /\ [][Next]_vars

FairSpec == Spec /\ WF_vars(Next)       \* the clock keeps ticking

-----------------------------------------------------------------------------
(* Safety *)

\* The arbiter has an owner exactly while a transfer is under way, so a request
\* it lets through in rest is one the adaptor takes at the same edge.
RestIffIdle == arb = "rest" <=> macro = "IDLE"

\* A response goes to the cache whose request was carried out: its controller
\* waits for this very operation on this very line.  The other cache, whose miss
\* may be pending, must not take the line for its own.
ResponseToOwner ==
  /\ i_resp => imem.read /\ kind = "read" /\ address_o = imem.addr
  /\ d_resp => /\ dmem.read \/ dmem.write
               /\ kind = IF dmem.read THEN "read" ELSE "write"
               /\ address_o = dmem.addr
  /\ resp_o => (i_resp <=> ~d_resp)

\* What LineTransfer asks of the client of the adaptor, and the arbiter with two
\* caches behind it provides: from the edge a request is taken until its response
\* the operation, the address and the written line do not change.  Both caches may
\* miss in the same cycle, and the state register of the arbiter must hand the port
\* to the one whose request its outputs have just let through.
RequestHeld ==
  [][(linePort.read \/ linePort.write) /\ ~resp_o =>
       /\ linePort'.read = linePort.read /\ linePort'.write = linePort.write
       /\ linePort'.addr = linePort.addr
       /\ linePort.write => linePort'.line = linePort.line]_vars

\* A fetch is answered with the instruction memory holds, whatever the data side
\* does meanwhile on the shared port.
FetchIntact == IC!mem_resp(fetch) => IC!mem_rdata(fetch) = store[fetch.addr.line][fetch.addr.off]

\* The instruction cache waits for two transfers of the data cache at the most,
\* a write-back and a refill: priority does not become starvation, because the
\* data cache must pass through check_cache after its refill and the arbiter, at
\* rest in that very cycle, lets the fetch through.
FetchBypassedTwice == bypass <= 2

\* What these rest on.  The owner of the adaptor waits for its transfer; the
\* instruction cache never has a dirty line to write back; and the data cache gets
\* ahead of a waiting fetch only from a write-back on, to the end of the refill.
ControlTypes ==
  /\ i_state \in {"check_cache", "write_mem", "read_mem"}
  /\ d_state \in {"check_cache", "write_mem", "read_mem"}
  /\ i_lru \in [Indices -> {0, 1}] /\ i_dirty \in [{0, 1} -> [Indices -> BOOLEAN]]
  /\ ArbTypeOK /\ macro \in {"IDLE", "WAITR", "WAITW", "R", "W", "DONE"}
  /\ fetch \in Fetches /\ access \in Accesses
OwnerWaits ==
  /\ arb = "imem" => i_state = "read_mem"
  /\ arb = "dmem" => d_state # "check_cache"
  /\ d_state # "check_cache" => DC!Requesting(access)
FetchesOnly == i_state # "write_mem" /\ \A w \in {0, 1}, i \in Indices : ~i_dirty[w][i]
BypassBounded ==
  /\ bypass \in 0 .. 2
  /\ bypass > 0 => i_state = "read_mem"
  /\ bypass > 0 /\ arb # "imem" =>
       \/ d_state = "check_cache" /\ arb = "rest"
       \/ d_state = "read_mem" /\ bypass = 1
ControlInv == ControlTypes /\ RestIffIdle /\ OwnerWaits /\ FetchesOnly /\ BypassBounded

\* The data cache has something to write back for stored lines only, so that no
\* transfer of its own ever changes a line the program fetches from.  In the refill
\* of a store miss the dirty bit is set before the tag is the new line's.
FetchLines == {f.addr.line : f \in Fetches}
OnlyStoredDirty ==
  /\ \A w \in {0, 1}, i \in Indices :
       d_dirty[w][i] => [tag |-> d_tag[w][i], index |-> i] \notin FetchLines
  /\ d_state = "write_mem" => DC!VictimLine(access) \notin FetchLines
  /\ d_state = "read_mem" /\ DC!DirtyVictim(access) => access.write

(* Liveness *)

\* The pipeline is never stalled for good: both caches are served, although each
\* access needs both responses in the same cycle to be let go.
PipelineMovesOn == []<>~pipeline_stall

(* Refinement: the data port of the whole system is an atomic memory. *)
MemoryView ==
  IF write_o THEN [store EXCEPT ![address_o.line] = linebuf] ELSE store
Held(w, l) ==
  /\ d_valid[w][l.index] /\ d_tag[w][l.index] = l.tag
  /\ ~(d_state = "read_mem" /\ l.index = DC!Index(access) /\ w = d_lru[l.index])
DataView == [l \in Lines |-> IF Held(0, l) THEN d_data[0][l.index]
                             ELSE IF Held(1, l) THEN d_data[1][l.index]
                             ELSE MemoryView[l]]
Atomic == INSTANCE AtomicMemory WITH
  CpuRequests <- Accesses, contents <- DataView, cpu <- access,
  resp <- DC!mem_resp(access),
  rdata <- IF DC!mem_resp(access) /\ access.read THEN DC!mem_rdata(access) ELSE NoData

\* Loads see the stores before them and nothing else, through the cache, the
\* arbiter, the adaptor and the bursts of the memory.  That every access is answered
\* is part of PipelineMovesOn: the stall ends only with the response.
DataPortIsAtomic == Atomic!AtomicInit /\ [][Atomic!AtomicNext]_(Atomic!atomicVars)
=============================================================================
