---------------------------- MODULE CachedMemory ----------------------------
(***************************************************************************)
(* One cache between a processor port and a memory of whole lines: the     *)
(* data cache of mp4.sv, with the arbiter, the adaptor and the physical    *)
(* memory below it replaced by what LineMemory says of them.  The memory   *)
(* may leave a request waiting while it serves the other cache.            *)
(*                                                                         *)
(* The processor holds a request until mem_resp (pipeline_stall freezes    *)
(* EX/MEM until then), may keep it longer while the instruction fetch is   *)
(* what stalls it, and then drives any request or none.                    *)
(***************************************************************************)
EXTENDS Cache

CONSTANTS CpuRequests,  \* the requests the processor can make
          Contents,     \* the initial contents of a line
          Garbage,      \* what the bus may carry outside a response
          NoData

ASSUME CpuAssumption ==
  /\ CpuRequests \subseteq CpuRequest
  /\ \A q \in CpuRequests : ~(q.read /\ q.write)
ASSUME BusAssumption ==
  /\ Contents # {} /\ Contents \subseteq LineValue
  /\ Garbage # {} /\ Garbage \subseteq LineValue
ASSUME NoDataFresh == NoData \notin Words

VARIABLES cpu, lines, port, op, addr, bus

Memory == INSTANCE LineMemory
memoryVars == <<lines, port, op, addr, bus>>
vars == <<cacheVars, cpu, memoryVars>>

\* The arrays of the cache, the request and the memory port in range.
TypeOK ==
  /\ CacheTypeOK
  /\ cpu \in CpuRequests
  /\ lines \in [Lines -> LineValue]
  /\ port \in {"idle", "busy", "done"}
  /\ op \in {"read", "write"} /\ addr \in Addr /\ bus \in LineValue

Init ==
  /\ CacheInit
  /\ cpu \in CpuRequests
  /\ lines \in [Lines -> Contents]
  /\ port = "idle" /\ op = "read" /\ addr = AnyAddr /\ bus \in Garbage

-----------------------------------------------------------------------------
CpuEdge ==
  IF mem_resp(cpu) \/ ~Requesting(cpu) THEN cpu' \in CpuRequests ELSE UNCHANGED cpu

\* The memory side of one clock edge.
Deferred == port = "idle" /\ bus' \in Garbage /\ UNCHANGED <<lines, port, op, addr>>
Started ==
  \/ pmem_read /\ Memory!AcceptRead(pmem_address(cpu)) /\ bus' \in Garbage
  \/ pmem_write /\ Memory!AcceptWrite(pmem_address(cpu), pmem_wdata(cpu)) /\ bus' \in Garbage
Finished ==
  \/ Memory!Answer /\ (op = "write" => bus' \in Garbage)
  \/ Memory!Retire /\ bus' \in Garbage
MemoryEdge == Deferred \/ Started \/ (Memory!Transfer /\ bus' \in Garbage) \/ Finished

Next == CpuEdge /\ CacheEdge(cpu, port = "done", bus) /\ MemoryEdge

Spec == Init /\ [][Next]_vars

\* The clock ticks, and the memory neither puts a request off for ever nor
\* takes for ever over one.
Fairness ==
  /\ WF_vars(Next)
  /\ WF_vars(Next /\ Started) /\ WF_vars(Next /\ Finished)

-----------------------------------------------------------------------------
(* Views of the state the properties need *)
Line(w, i) == [tag |-> tag[w][i], index |-> i]
Victim(w, i) == i = Index(cpu) /\ w = lru[i]
Refilling(w, i) == state = "read_mem" /\ Victim(w, i)
Evicting(w, i) == state = "write_mem" /\ Victim(w, i)

\* Way w holds line l for good: not the way a refill is streaming into.
Cached(w, l) ==
  /\ valid[w][l.index] /\ tag[w][l.index] = l.tag
  /\ ~Refilling(w, l.index)

\* The memory the program sees: the cached copy of a line, else memory's.
View == [l \in Lines |->
           IF Cached(0, l) THEN data[0][l.index]
           ELSE IF Cached(1, l) THEN data[1][l.index]
           ELSE lines[l]]

(* Safety *)

\* No two ways of a set hold the same line, not even while a refill has loaded
\* the tag and the bus still carries garbage: a store would go to one copy and a
\* load could come from the other.
OneWayPerLine ==
  \A i \in Indices : valid[0][i] /\ valid[1][i] => tag[0][i] # tag[1][i]

\* A valid line that is not dirty is identical to memory's copy, so dropping it
\* loses nothing.  The victim of a write-back is exempt: its dirty bit is already
\* cleared, by load_dirty in the first cycle, when memory may not have the line.
CleanLineIsMemory ==
  \A w \in Ways, i \in Indices :
    valid[w][i] /\ ~dirty[w][i] /\ ~Refilling(w, i) /\ ~Evicting(w, i)
      => data[w][i] = lines[Line(w, i)]

\* The dirty wire is not qualified by valid: a dirty bit on an invalid way would
\* write the reset contents of the array over memory's line of tag 0.
DirtyIsValid == \A w \in Ways, i \in Indices : dirty[w][i] => valid[w][i]

\* When the refill begins the victim is safe: what its way held last is what
\* memory has for the line (a dropped or shortened write-back would lose it).
VictimSavedBeforeRefill ==
  [][\A w \in Ways, i \in Indices :
       Refilling(w, i)' /\ ~Refilling(w, i) /\ valid[w][i]
         => data[w][i] = lines'[Line(w, i)]]_vars

\* A refill is followed by a hit: the controller returns to check_cache only with
\* the requested line in place, so a request misses at most once.
RefillThenHit ==
  [][state = "read_mem" /\ state' = "check_cache" => mem_resp(cpu)']_vars

-----------------------------------------------------------------------------
(* The inductive invariant the properties rest on. *)

\* While the controller is away from check_cache the request is still there and
\* is still a miss, but for the way the refill is filling.
MissPending ==
  state # "check_cache" =>
    /\ Requesting(cpu)
    /\ \A w \in Ways : Hit(w, cpu) => state = "read_mem" /\ w = lru_out(cpu)
    /\ state = "write_mem" => valid[lru_out(cpu)][Index(cpu)]

\* What is under way on the memory port is what the controller waits for.
PortFollows ==
  port # "idle" =>
    /\ state = IF op = "read" THEN "read_mem" ELSE "write_mem"
    /\ addr = pmem_address(cpu)
    /\ op = "write" => lines[VictimLine(cpu)] = data[lru_out(cpu)][Index(cpu)]
    /\ port = "done" /\ op = "read" => bus = lines[addr.line]

CacheInv ==
  OneWayPerLine /\ DirtyIsValid /\ CleanLineIsMemory /\ MissPending /\ PortFollows

-----------------------------------------------------------------------------
(* Refinement *)
Atomic == INSTANCE AtomicMemory WITH
  contents <- View,
  resp <- mem_resp(cpu),
  rdata <- IF mem_resp(cpu) /\ cpu.read THEN mem_rdata(cpu) ELSE NoData

\* The processor cannot tell the cache from an atomic memory: no store is lost,
\* no load is stale, and every request is answered.
ImplementsAtomicMemory == Atomic!AtomicSpec
=============================================================================
