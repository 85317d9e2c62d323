------------------------------- MODULE Cache -------------------------------
(***************************************************************************)
(* One L1 cache (mp4/hdl/cache): two ways, write-back, write-allocate, one *)
(* LRU bit per set.  The variables are the arrays and the state register;  *)
(* the ports are parameters: cpu is the request the processor drives, resp *)
(* and rdata are what the arbiter returns.  Every operator above the       *)
(* actions is combinational, every action is one posedge clk.              *)
(*                                                                         *)
(* A line address is its tag and its set index; the offset inside a line   *)
(* counts beats, and a byte-enable mask is a set of beats: the granularity *)
(* of a write is all that the byte lanes matter for here.                  *)
(***************************************************************************)
EXTENDS LineTypes

CONSTANTS Tags, Indices,
          Tag0, Word0           \* what the arrays hold after reset

ASSUME LinesAreTagged == Lines = [tag : Tags, index : Indices]
ASSUME ResetValues == Tag0 \in Tags /\ Word0 \in Words

Ways == {0, 1}
CpuRequest == [read : BOOLEAN, write : BOOLEAN, addr : Addr,
               mbe : SUBSET Beats, wdata : Words]

VARIABLES state, tag, valid, dirty, lru, data

cacheVars == <<state, tag, valid, dirty, lru, data>>

CacheTypeOK ==
  /\ state \in {"check_cache", "write_mem", "read_mem"}
  /\ tag \in [Ways -> [Indices -> Tags]]
  /\ valid \in [Ways -> [Indices -> BOOLEAN]]
  /\ dirty \in [Ways -> [Indices -> BOOLEAN]]
  /\ lru \in [Indices -> Ways]
  /\ data \in [Ways -> [Indices -> LineValue]]

CacheInit ==
  /\ state = "check_cache"
  /\ tag = [w \in Ways |-> [i \in Indices |-> Tag0]]
  /\ valid = [w \in Ways |-> [i \in Indices |-> FALSE]]
  /\ dirty = [w \in Ways |-> [i \in Indices |-> FALSE]]
  /\ lru = [i \in Indices |-> 0]
  /\ data = [w \in Ways |-> [i \in Indices |-> [b \in Beats |-> Word0]]]

-----------------------------------------------------------------------------
(* Combinational signals *)
Index(cpu) == cpu.addr.line.index
Tag(cpu) == cpu.addr.line.tag

Hit(w, cpu) == tag[w][Index(cpu)] = Tag(cpu) /\ valid[w][Index(cpu)]
AnyHit(cpu) == \E w \in Ways : Hit(w, cpu)
lru_out(cpu) == lru[Index(cpu)]
DirtyVictim(cpu) == dirty[lru_out(cpu)][Index(cpu)]

Requesting(cpu) == cpu.read # cpu.write
mem_resp(cpu) == state = "check_cache" /\ Requesting(cpu) /\ AnyHit(cpu)

\* The way the data_out mux selects, and the word line_adapter picks from it.
data_out(cpu) == data[IF Hit(1, cpu) THEN 1 ELSE 0][Index(cpu)]
mem_rdata(cpu) == data_out(cpu)[cpu.addr.off]

pmem_read == state = "read_mem"
pmem_write == state = "write_mem"

\* Fault: a write-back goes to the address the processor asks for.
VictimLineAsked(cpu) == cpu.addr.line

\* A write-back is aligned and goes to the victim's tag; a refill passes the
\* processor's address on, offset included.
VictimLine(cpu) == [tag |-> tag[lru_out(cpu)][Index(cpu)], index |-> Index(cpu)]
pmem_address(cpu) ==
  IF pmem_read THEN cpu.addr ELSE [line |-> VictimLine(cpu), off |-> 0]
pmem_wdata(cpu) == data[lru_out(cpu)][Index(cpu)]

-----------------------------------------------------------------------------
Put(array, w, i, x) == [array EXCEPT ![w][i] = x]

\* Fault: a store replaces the line instead of the lanes of its mask.
MergeAll(line, cpu) == [b \in Beats |-> cpu.wdata]

\* byte_en: the lanes of the mask take the CPU's word, the others keep theirs.
Merge(line, cpu) == [b \in Beats |-> IF b \in cpu.mbe THEN cpu.wdata ELSE line[b]]

NoRequest(cpu) ==
  /\ state = "check_cache" /\ ~Requesting(cpu)
  /\ UNCHANGED cacheVars

\* Fault: a load does not mark its way as used.
ReadHitKeepsLru(cpu) ==
  /\ mem_resp(cpu) /\ cpu.read
  /\ UNCHANGED cacheVars

\* load_lru stores hit_0: the way that did not hit becomes the next victim.
ReadHit(cpu) ==
  /\ mem_resp(cpu) /\ cpu.read
  /\ lru' = [lru EXCEPT ![Index(cpu)] = IF Hit(0, cpu) THEN 1 ELSE 0]
  /\ UNCHANGED <<state, tag, valid, dirty, data>>

\* Fault: load_dirty is left out of the write hit.
WriteHitClean(cpu) ==
  /\ mem_resp(cpu) /\ cpu.write
  /\ lru' = [lru EXCEPT ![Index(cpu)] = IF Hit(0, cpu) THEN 1 ELSE 0]
  /\ data' = [w \in Ways |-> [data[w] EXCEPT ![Index(cpu)] =
                                IF Hit(w, cpu) THEN Merge(@, cpu) ELSE @]]
  /\ UNCHANGED <<state, tag, valid, dirty>>

\* Fault: load_dirty is not qualified by the way that hit.
WriteHitBothDirty(cpu) ==
  /\ mem_resp(cpu) /\ cpu.write
  /\ lru' = [lru EXCEPT ![Index(cpu)] = IF Hit(0, cpu) THEN 1 ELSE 0]
  /\ dirty' = [w \in Ways |-> [dirty[w] EXCEPT ![Index(cpu)] = TRUE]]
  /\ data' = [w \in Ways |-> [data[w] EXCEPT ![Index(cpu)] =
                                IF Hit(w, cpu) THEN Merge(@, cpu) ELSE @]]
  /\ UNCHANGED <<state, tag, valid>>

WriteHit(cpu) ==
  /\ mem_resp(cpu) /\ cpu.write
  /\ lru' = [lru EXCEPT ![Index(cpu)] = IF Hit(0, cpu) THEN 1 ELSE 0]
  /\ dirty' = [w \in Ways |-> [dirty[w] EXCEPT ![Index(cpu)] = @ \/ Hit(w, cpu)]]
  /\ data' = [w \in Ways |-> [data[w] EXCEPT ![Index(cpu)] =
                                IF Hit(w, cpu) THEN Merge(@, cpu) ELSE @]]
  /\ UNCHANGED <<state, tag, valid>>

Miss(cpu) ==
  /\ state = "check_cache" /\ Requesting(cpu) /\ ~AnyHit(cpu)
  /\ state' = IF DirtyVictim(cpu) THEN "write_mem" ELSE "read_mem"
  /\ UNCHANGED <<tag, valid, dirty, lru, data>>

\* Fault: the write-back is repeated while the victim is dirty, which it stays in a
\* store miss.
WriteMemUntilClean(cpu, resp) ==
  /\ state = "write_mem"
  /\ dirty' = Put(dirty, lru_out(cpu), Index(cpu), cpu.write)
  /\ state' = IF resp /\ ~DirtyVictim(cpu) THEN "read_mem" ELSE "write_mem"
  /\ UNCHANGED <<tag, valid, lru, data>>

\* Every cycle of the write-back reloads the victim's dirty bit with mem_write.
WriteMem(cpu, resp) ==
  /\ state = "write_mem"
  /\ dirty' = Put(dirty, lru_out(cpu), Index(cpu), cpu.write)
  /\ state' = IF resp THEN "read_mem" ELSE "write_mem"
  /\ UNCHANGED <<tag, valid, lru, data>>

\* Fault: load_tag and load_valid are not qualified by lru_out.
ReadMemBothTags(cpu, resp, rdata) ==
  /\ state = "read_mem"
  /\ tag' = [w \in Ways |-> [tag[w] EXCEPT ![Index(cpu)] = Tag(cpu)]]
  /\ valid' = [w \in Ways |-> [valid[w] EXCEPT ![Index(cpu)] = TRUE]]
  /\ data' = Put(data, lru_out(cpu), Index(cpu), rdata)
  /\ state' = IF resp THEN "check_cache" ELSE "read_mem"
  /\ UNCHANGED <<dirty, lru>>

\* Fault: the refill loads the line and the tag but not the valid bit.
ReadMemInvalid(cpu, resp, rdata) ==
  /\ state = "read_mem"
  /\ tag' = Put(tag, lru_out(cpu), Index(cpu), Tag(cpu))
  /\ data' = Put(data, lru_out(cpu), Index(cpu), rdata)
  /\ state' = IF resp THEN "check_cache" ELSE "read_mem"
  /\ UNCHANGED <<valid, dirty, lru>>

\* Fault: the refill does not wait for the response.
ReadMemOneCycle(cpu, resp, rdata) ==
  /\ state = "read_mem"
  /\ tag' = Put(tag, lru_out(cpu), Index(cpu), Tag(cpu))
  /\ valid' = Put(valid, lru_out(cpu), Index(cpu), TRUE)
  /\ data' = Put(data, lru_out(cpu), Index(cpu), rdata)
  /\ state' = "check_cache"
  /\ UNCHANGED <<dirty, lru>>

\* Every cycle of the refill loads tag, valid and the whole line, so that only
\* what the bus carries in the cycle of the response stays.
ReadMem(cpu, resp, rdata) ==
  /\ state = "read_mem"
  /\ tag' = Put(tag, lru_out(cpu), Index(cpu), Tag(cpu))
  /\ valid' = Put(valid, lru_out(cpu), Index(cpu), TRUE)
  /\ data' = Put(data, lru_out(cpu), Index(cpu), rdata)
  /\ state' = IF resp THEN "check_cache" ELSE "read_mem"
  /\ UNCHANGED <<dirty, lru>>

CacheEdge(cpu, resp, rdata) ==
  \/ NoRequest(cpu)
  \/ ReadHit(cpu)
  \/ WriteHit(cpu)
  \/ Miss(cpu)
  \/ WriteMem(cpu, resp)
  \/ ReadMem(cpu, resp, rdata)
=============================================================================
