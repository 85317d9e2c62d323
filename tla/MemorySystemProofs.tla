------------------------- MODULE MemorySystemProofs -------------------------
(***************************************************************************)
(* The arbiter with both caches and the adaptor, for every size of the     *)
(* caches, every set of accesses and every delay of the memory: what the   *)
(* control of the shared port keeps.                                       *)
(***************************************************************************)
EXTENDS MemorySystem, TLAPS

\* What the requests on the two processor ports are.
LEMMA PortTypes ==
  ASSUME ControlTypes
  PROVE  /\ fetch.read = TRUE /\ fetch.write = FALSE
         /\ access.read \in BOOLEAN /\ access.write \in BOOLEAN
         /\ IC!Index(fetch) \in Indices /\ IC!lru_out(fetch) \in {0, 1}
<1>1. fetch \in IC!CpuRequest /\ access \in DC!CpuRequest
  BY PortAssumption DEF ControlTypes
<1>2. fetch.read \in BOOLEAN /\ fetch.write \in BOOLEAN /\ fetch.addr \in IC!Addr
  BY <1>1 DEF IC!CpuRequest
<1>3. access.read \in BOOLEAN /\ access.write \in BOOLEAN
  BY <1>1 DEF DC!CpuRequest
<1>4. fetch.read /\ ~fetch.write
  BY PortAssumption DEF ControlTypes
<1>5. IC!Index(fetch) \in Indices
  BY <1>2, LineAddresses DEF IC!Addr, IC!Index
<1>6. IC!lru_out(fetch) \in {0, 1}
  BY <1>5 DEF ControlTypes, IC!lru_out
<1> QED
  BY <1>2, <1>3, <1>4, <1>5, <1>6

\* The instruction cache, one edge: it waits in read_mem for its response, and its
\* dirty bits stay clear.
LEMMA InstructionEdge ==
  ASSUME ControlInv, IC!CacheEdge(fetch, i_resp, line_o)
  PROVE  /\ i_state' \in {"check_cache", "read_mem"}
         /\ i_state = "read_mem" => i_state' = IF i_resp THEN "check_cache" ELSE "read_mem"
         /\ i_lru' \in [Indices -> {0, 1}] /\ i_dirty' = i_dirty
<1> USE DEF ControlInv, ControlTypes, FetchesOnly
<1>t. /\ fetch.read = TRUE /\ fetch.write = FALSE
      /\ IC!Index(fetch) \in Indices /\ IC!lru_out(fetch) \in {0, 1}
  BY PortTypes
<1>1. CASE IC!NoRequest(fetch)
  BY <1>1 DEF IC!NoRequest, IC!cacheVars
<1>2. CASE IC!ReadHit(fetch)
  BY <1>2, <1>t DEF IC!ReadHit, IC!mem_resp
<1>3. CASE IC!WriteHit(fetch)
  BY <1>3, <1>t DEF IC!WriteHit
<1>4. CASE IC!Miss(fetch)
  BY <1>4, <1>t DEF IC!Miss, IC!DirtyVictim
<1>5. CASE IC!WriteMem(fetch, i_resp)
  BY <1>5 DEF IC!WriteMem
<1>6. CASE IC!ReadMem(fetch, i_resp, line_o)
  BY <1>6 DEF IC!ReadMem
<1> QED
  BY <1>1, <1>2, <1>3, <1>4, <1>5, <1>6 DEF IC!CacheEdge

\* The data cache, one edge: a miss goes to the write-back or to the refill, which
\* wait for their response each; until then the line that is written back stays.
LEMMA DataEdge ==
  ASSUME ControlInv, DC!CacheEdge(access, d_resp, line_o)
  PROVE  /\ d_state = "check_cache" => d_state' \in {"check_cache", "write_mem", "read_mem"}
         /\ d_state = "check_cache" /\ d_state' # "check_cache" =>
              DC!Requesting(access) /\ ~DC!mem_resp(access)
         /\ d_state = "write_mem" =>
              /\ d_state' = IF d_resp THEN "read_mem" ELSE "write_mem"
              /\ UNCHANGED <<d_tag, d_lru, d_data>>
         /\ d_state = "read_mem" => d_state' = IF d_resp THEN "check_cache" ELSE "read_mem"
<1> USE DEF ControlInv, ControlTypes
<1>1. CASE DC!NoRequest(access)
  BY <1>1 DEF DC!NoRequest, DC!cacheVars
<1>2. CASE DC!ReadHit(access)
  BY <1>2 DEF DC!ReadHit, DC!mem_resp
<1>3. CASE DC!WriteHit(access)
  BY <1>3 DEF DC!WriteHit, DC!mem_resp
<1>4. CASE DC!Miss(access)
  BY <1>4 DEF DC!Miss, DC!mem_resp
<1>5. CASE DC!WriteMem(access, d_resp)
  BY <1>5 DEF DC!WriteMem
<1>6. CASE DC!ReadMem(access, d_resp, line_o)
  BY <1>6 DEF DC!ReadMem
<1> QED
  BY <1>1, <1>2, <1>3, <1>4, <1>5, <1>6 DEF DC!CacheEdge

\* The processor keeps a request that is still a miss.
LEMMA ProcessorWaits ==
  ASSUME ControlInv, ProcessorEdge
  PROVE  /\ fetch' \in Fetches /\ access' \in Accesses
         /\ i_state # "check_cache" => UNCHANGED <<fetch, access>>
         /\ DC!Requesting(access) /\ ~DC!mem_resp(access) => UNCHANGED <<fetch, access>>
         /\ d_state # "check_cache" => UNCHANGED <<fetch, access>>
<1>1. i_state # "check_cache" => pipeline_stall
  BY DEF pipeline_stall, IC!mem_resp
<1>2. DC!Requesting(access) /\ ~DC!mem_resp(access) => pipeline_stall
  BY PortTypes DEF pipeline_stall, DC!Requesting, ControlInv
<1>3. d_state # "check_cache" => DC!Requesting(access) /\ ~DC!mem_resp(access)
  BY DEF ControlInv, OwnerWaits, DC!mem_resp
<1>4. fetch \in Fetches /\ access \in Accesses
  BY DEF ControlInv, ControlTypes
<1> QED
  BY <1>1, <1>2, <1>3, <1>4 DEF ProcessorEdge

\* Who has the adaptor, by the states of the caches.
LEMMA WhoIsGranted ==
  ASSUME ControlInv
  PROVE  /\ Wants(imem) <=> i_state = "read_mem"
         /\ Wants(dmem) <=> d_state # "check_cache"
         /\ Granted(imem, dmem) =
              IF arb # "rest" THEN arb
              ELSE IF d_state # "check_cache" THEN "dmem"
              ELSE IF i_state = "read_mem" THEN "imem" ELSE "none"
         /\ i_resp <=> resp_o /\ arb = "imem"
         /\ d_resp <=> resp_o /\ arb = "dmem"
<1> USE DEF ControlInv, ControlTypes
<1>1. Wants(imem) <=> i_state = "read_mem"
  BY DEF Wants, imem, IC!pmem_read, IC!pmem_write, FetchesOnly
<1>2. Wants(dmem) <=> d_state # "check_cache"
  BY DEF Wants, dmem, DC!pmem_read, DC!pmem_write
<1>3. Granted(imem, dmem) =
              IF arb # "rest" THEN arb
              ELSE IF d_state # "check_cache" THEN "dmem"
              ELSE IF i_state = "read_mem" THEN "imem" ELSE "none"
  BY <1>1, <1>2 DEF Granted
<1>4. resp_o => arb # "rest"
  BY DEF RestIffIdle, resp_o
<1> QED
  BY <1>1, <1>2, <1>3, <1>4 DEF i_resp, d_resp, imem_resp, dmem_resp, ArbTypeOK

\* The arbiter and the adaptor, one edge, together: the adaptor starts for the cache
\* the arbiter makes the owner, and is done when the arbiter lets go.
LEMMA SharedEdge ==
  ASSUME ControlInv, ArbEdge(imem, dmem, resp_o),
         AdaptorEdge(linePort.read, linePort.write, linePort.addr, linePort.line, rdata, resp)
  PROVE  /\ arb' = IF resp_o THEN "rest"
                   ELSE IF Granted(imem, dmem) = "none" THEN "rest" ELSE Granted(imem, dmem)
         /\ macro' \in {"IDLE", "WAITR", "WAITW", "R", "W", "DONE"}
         /\ macro' = "IDLE" <=> arb' = "rest"
<1> USE DEF ControlInv, ControlTypes, ArbTypeOK, RestIffIdle
<1>g. Granted(imem, dmem) =
        IF arb # "rest" THEN arb
        ELSE IF d_state # "check_cache" THEN "dmem"
        ELSE IF i_state = "read_mem" THEN "imem" ELSE "none"
  BY WhoIsGranted
<1>w. (Wants(imem) <=> i_state = "read_mem") /\ (Wants(dmem) <=> d_state # "check_cache")
  BY WhoIsGranted
<1>1. arb' = IF resp_o THEN "rest"
             ELSE IF Granted(imem, dmem) = "none" THEN "rest" ELSE Granted(imem, dmem)
  <2>1. CASE RestGrant(imem, dmem, resp_o)
    BY <2>1, <1>g, <1>w DEF RestGrant
  <2>2. CASE RestStay(imem, dmem, resp_o)
    BY <2>2, <1>g, <1>w DEF RestStay
  <2>3. CASE Serve(resp_o)
    BY <2>3, <1>g DEF Serve
  <2> QED
    BY <2>1, <2>2, <2>3 DEF ArbEdge
<1>2. macro = "IDLE" => (linePort.read \/ linePort.write <=> Granted(imem, dmem) # "none")
  <2> SUFFICES ASSUME macro = "IDLE" PROVE linePort.read \/ linePort.write <=> Granted(imem, dmem) # "none"
    OBVIOUS
  <2>1. CASE Granted(imem, dmem) = "dmem"
    BY <2>1, <1>g DEF linePort, pmem, dmem, DC!pmem_read, DC!pmem_write
  <2>2. CASE Granted(imem, dmem) = "imem"
    BY <2>2, <1>g DEF linePort, pmem, imem, IC!pmem_read, IC!pmem_write
  <2>3. CASE Granted(imem, dmem) = "none"
    BY <2>3 DEF linePort, pmem, dmem
  <2> QED
    BY <2>1, <2>2, <2>3, <1>g
<1>3. /\ macro' \in {"IDLE", "WAITR", "WAITW", "R", "W", "DONE"}
      /\ macro' = "IDLE" <=> resp_o \/ (macro = "IDLE" /\ ~linePort.read /\ ~linePort.write)
  <2> USE DEF resp_o
  <2>1. CASE IdleNoOp(linePort.read, linePort.write)
    BY <2>1 DEF IdleNoOp, adaptorVars
  <2>2. CASE IdleRead(linePort.read, linePort.addr)
    BY <2>2 DEF IdleRead
  <2>3. CASE IdleWrite(linePort.read, linePort.write, linePort.addr, linePort.line)
    BY <2>3 DEF IdleWrite
  <2>4. CASE WaitRead(rdata, resp)
    BY <2>4 DEF WaitRead
  <2>5. CASE WaitWrite(resp)
    BY <2>5 DEF WaitWrite
  <2>6. CASE ReadBeat(rdata)
    BY <2>6 DEF ReadBeat
  <2>7. CASE WriteBeat
    BY <2>7 DEF WriteBeat
  <2>8. CASE Done
    BY <2>8 DEF Done
  <2> QED
    BY <2>1, <2>2, <2>3, <2>4, <2>5, <2>6, <2>7, <2>8 DEF AdaptorEdge
<1>4. resp_o => arb # "rest"
  BY DEF resp_o
<1> QED
  BY <1>1, <1>2, <1>3, <1>4, <1>g

\* The caches, the arbiter and the adaptor after reset are at rest.
LEMMA InitControl == Init => ControlInv
<1> SUFFICES ASSUME Init PROVE ControlInv
  OBVIOUS
<1>1. macro = "IDLE"
  BY DEF Init, AdaptorInit
<1>2. /\ i_state = "check_cache" /\ d_state = "check_cache" /\ arb = "rest" /\ bypass = 0
      /\ fetch \in Fetches /\ access \in Accesses
  BY DEF Init, IC!CacheInit, DC!CacheInit, ArbInit
<1>3. /\ i_lru \in [Indices -> {0, 1}] /\ i_dirty \in [{0, 1} -> [Indices -> BOOLEAN]]
      /\ \A w \in {0, 1}, i \in Indices : ~i_dirty[w][i]
  BY DEF Init, IC!CacheInit, IC!Ways
<1> QED
  BY <1>1, <1>2, <1>3 DEF ControlInv, ControlTypes, ArbTypeOK, RestIffIdle, OwnerWaits,
     FetchesOnly, BypassBounded

\* One tick of the clock keeps the owner waiting, and the fetch in sight of its turn.
LEMMA TickKeepsControl == ASSUME ControlInv, Next PROVE ControlInv'
<1>e. /\ ProcessorEdge /\ CountBypass
      /\ IC!CacheEdge(fetch, i_resp, line_o) /\ DC!CacheEdge(access, d_resp, line_o)
      /\ ArbEdge(imem, dmem, resp_o)
      /\ AdaptorEdge(linePort.read, linePort.write, linePort.addr, linePort.line, rdata, resp)
  BY DEF Next
<1>i. /\ i_state' \in {"check_cache", "read_mem"}
      /\ i_state = "read_mem" => i_state' = IF i_resp THEN "check_cache" ELSE "read_mem"
      /\ i_lru' \in [Indices -> {0, 1}] /\ i_dirty' = i_dirty
  BY <1>e, InstructionEdge
<1>d. /\ d_state = "check_cache" => d_state' \in {"check_cache", "write_mem", "read_mem"}
      /\ d_state = "check_cache" /\ d_state' # "check_cache" =>
           DC!Requesting(access) /\ ~DC!mem_resp(access)
      /\ d_state = "write_mem" => d_state' = IF d_resp THEN "read_mem" ELSE "write_mem"
      /\ d_state = "read_mem" => d_state' = IF d_resp THEN "check_cache" ELSE "read_mem"
  BY <1>e, DataEdge
<1>p. /\ fetch' \in Fetches /\ access' \in Accesses
      /\ DC!Requesting(access) /\ ~DC!mem_resp(access) => UNCHANGED access
      /\ d_state # "check_cache" => UNCHANGED access
  BY <1>e, ProcessorWaits
<1>g. /\ Granted(imem, dmem) =
           IF arb # "rest" THEN arb
           ELSE IF d_state # "check_cache" THEN "dmem"
           ELSE IF i_state = "read_mem" THEN "imem" ELSE "none"
      /\ i_resp <=> resp_o /\ arb = "imem"
      /\ d_resp <=> resp_o /\ arb = "dmem"
  BY WhoIsGranted
<1>s. /\ arb' = IF resp_o THEN "rest"
                ELSE IF Granted(imem, dmem) = "none" THEN "rest" ELSE Granted(imem, dmem)
      /\ macro' \in {"IDLE", "WAITR", "WAITW", "R", "W", "DONE"}
      /\ macro' = "IDLE" <=> arb' = "rest"
  BY <1>e, SharedEdge
<1>t. /\ i_state \in {"check_cache", "read_mem"} /\ d_state \in {"check_cache", "write_mem", "read_mem"}
      /\ arb \in {"rest", "imem", "dmem"} /\ resp_o \in BOOLEAN
      /\ arb = "imem" => i_state = "read_mem"
      /\ arb = "dmem" => d_state # "check_cache"
      /\ d_state # "check_cache" => DC!Requesting(access)
      /\ resp_o => arb # "rest"
  BY DEF ControlInv, ControlTypes, ArbTypeOK, OwnerWaits, FetchesOnly, RestIffIdle, resp_o
<1>1. ControlTypes'
  <2>1. i_dirty' \in [{0, 1} -> [Indices -> BOOLEAN]]
    BY <1>i DEF ControlInv, ControlTypes
  <2>2. arb' \in {"rest", "imem", "dmem"}
    BY <1>s, <1>g, <1>t
  <2>3. d_state' \in {"check_cache", "write_mem", "read_mem"}
    BY <1>d, <1>t
  <2> QED
    BY <2>1, <2>2, <2>3, <1>i, <1>p, <1>s DEF ControlTypes, ArbTypeOK
<1>2. RestIffIdle'
  BY <1>s DEF RestIffIdle
<1>3. OwnerWaits'
  <2>1. arb' = "imem" => i_state' = "read_mem"
    BY <1>i, <1>s, <1>g, <1>t
  <2>2. arb' = "dmem" => d_state' # "check_cache"
    BY <1>d, <1>s, <1>g, <1>t
  <2>3. d_state' # "check_cache" => DC!Requesting(access')
    BY <1>d, <1>p, <1>t
  <2> QED
    BY <2>1, <2>2, <2>3 DEF OwnerWaits, DC!Requesting
<1>4. FetchesOnly'
  BY <1>i DEF FetchesOnly, ControlInv
<1>5. BypassBounded'
  <2>1. /\ bypass \in 0 .. 2
        /\ bypass > 0 => i_state = "read_mem"
        /\ bypass > 0 /\ arb # "imem" =>
             \/ d_state = "check_cache" /\ arb = "rest"
             \/ d_state = "read_mem" /\ bypass = 1
    BY DEF ControlInv, BypassBounded
  <2>2. bypass' = IF i_state # "read_mem" \/ i_resp THEN 0
                  ELSE IF d_resp THEN bypass + 1 ELSE bypass
    BY <1>e, <1>t DEF CountBypass, imem, IC!pmem_read, IC!pmem_write
  <2>3. CASE i_state # "read_mem" \/ i_resp
    BY <2>2, <2>3 DEF BypassBounded
  <2>4. CASE i_state = "read_mem" /\ ~i_resp /\ d_resp
    <3>1. arb = "dmem" /\ arb' = "rest" /\ i_state' = "read_mem" /\ bypass' = bypass + 1
      BY <2>2, <2>4, <1>g, <1>s, <1>i
    <3>2. CASE d_state = "write_mem"
      BY <3>1, <3>2, <2>1, <2>4, <1>d DEF BypassBounded
    <3>3. CASE d_state = "read_mem"
      BY <3>1, <3>3, <2>1, <2>4, <1>d DEF BypassBounded
    <3> QED
      BY <3>1, <3>2, <3>3, <1>t
  <2>5. CASE i_state = "read_mem" /\ ~i_resp /\ ~d_resp
    <3>1. i_state' = "read_mem" /\ bypass' = bypass
      BY <2>2, <2>5, <1>i
    <3>2. arb = "imem" => arb' = "imem"
      BY <2>5, <1>g, <1>s
    <3>3. d_state = "check_cache" /\ arb = "rest" => arb' = "imem"
      BY <2>5, <1>g, <1>s, <1>t
    <3>4. d_state = "read_mem" => d_state' = "read_mem"
      BY <2>5, <1>d
    <3> QED
      BY <3>1, <3>2, <3>3, <3>4, <2>1 DEF BypassBounded
  <2> QED
    BY <2>3, <2>4, <2>5
<1> QED
  BY <1>1, <1>2, <1>3, <1>4, <1>5 DEF ControlInv

\* mp4.sv: in every cycle the owner of the shared port waits for the transfer that is
\* under way.
THEOREM ControlSafe == Spec => []ControlInv
<1>1. ControlInv /\ UNCHANGED vars => ControlInv'
  BY DEF vars, icacheVars, dcacheVars, adaptorVars, memVars, ControlInv, ControlTypes, ArbTypeOK,
     RestIffIdle, OwnerWaits, FetchesOnly, BypassBounded, DC!Requesting
<1> QED
  BY <1>1, InitControl, TickKeepsControl, PTL DEF Spec

\* arbiter.sv: there is an owner exactly while the adaptor works.
THEOREM RestMeansIdle == Spec => []RestIffIdle
<1>1. ControlInv => RestIffIdle
  BY DEF ControlInv
<1> QED
  BY <1>1, ControlSafe, PTL

\* The instruction fetch waits for two transfers of the data cache at the most.
THEOREM FetchHasItsTurn == Spec => []FetchBypassedTwice
<1>1. ControlInv => FetchBypassedTwice
  BY DEF ControlInv, BypassBounded, FetchBypassedTwice
<1> QED
  BY <1>1, ControlSafe, PTL

\* What is on the adaptor's line port stays there until the response, although the
\* two caches go on: the adaptor and the memory may sample it at any edge.
LEMMA PortStays ==
  ASSUME ControlInv, ControlInv', Next, linePort.read \/ linePort.write, ~resp_o
  PROVE  /\ linePort'.read = linePort.read /\ linePort'.write = linePort.write
         /\ linePort'.addr = linePort.addr
         /\ linePort.write => linePort'.line = linePort.line
<1>e. /\ ProcessorEdge /\ IC!CacheEdge(fetch, i_resp, line_o) /\ DC!CacheEdge(access, d_resp, line_o)
      /\ ArbEdge(imem, dmem, resp_o)
      /\ AdaptorEdge(linePort.read, linePort.write, linePort.addr, linePort.line, rdata, resp)
  BY DEF Next
<1>g. /\ Granted(imem, dmem) =
           IF arb # "rest" THEN arb
           ELSE IF d_state # "check_cache" THEN "dmem"
           ELSE IF i_state = "read_mem" THEN "imem" ELSE "none"
      /\ ~i_resp /\ ~d_resp
  BY WhoIsGranted
<1>s. arb' = IF Granted(imem, dmem) = "none" THEN "rest" ELSE Granted(imem, dmem)
  BY <1>e, SharedEdge
<1>t. /\ arb \in {"rest", "imem", "dmem"}
      /\ d_state \in {"check_cache", "write_mem", "read_mem"}
      /\ arb = "imem" => i_state = "read_mem"
      /\ arb = "dmem" => d_state # "check_cache"
  BY DEF ControlInv, ControlTypes, ArbTypeOK, OwnerWaits
<1>n. Granted(imem, dmem) # "none"
  BY DEF linePort, pmem, dmem
<1>1. CASE Granted(imem, dmem) = "imem"
  <2>1. i_state = "read_mem" /\ i_state' = "read_mem" /\ arb' = "imem"
    BY <1>1, <1>e, <1>g, <1>s, <1>t, InstructionEdge
  <2>2. fetch' = fetch
    BY <1>e, <2>1, ProcessorWaits
  <2>3. linePort = imem
    BY <1>1 DEF linePort, pmem
  <2>4. linePort' = imem'
    BY <2>1 DEF linePort, pmem, Granted
  <2> QED
    BY <2>1, <2>2, <2>3, <2>4 DEF imem, IC!pmem_read, IC!pmem_write, IC!pmem_address
<1>2. CASE Granted(imem, dmem) = "dmem"
  <2>1. d_state \in {"write_mem", "read_mem"} /\ d_state' = d_state /\ arb' = "dmem"
    BY <1>2, <1>e, <1>g, <1>s, <1>t, DataEdge
  <2>2. access' = access
    BY <1>e, <2>1, ProcessorWaits
  <2>3. linePort = dmem
    BY <1>2 DEF linePort, pmem
  <2>4. linePort' = dmem'
    BY <2>1 DEF linePort, pmem, Granted
  <2>5. CASE d_state = "read_mem"
    BY <2>1, <2>2, <2>3, <2>4, <2>5 DEF dmem, DC!pmem_read, DC!pmem_write, DC!pmem_address
  <2>6. CASE d_state = "write_mem"
    <3>1. UNCHANGED <<d_tag, d_lru, d_data>>
      BY <1>e, <2>6, DataEdge
    <3> QED
      BY <2>1, <2>2, <2>3, <2>4, <2>6, <3>1
      DEF dmem, DC!pmem_read, DC!pmem_write, DC!pmem_address, DC!pmem_wdata, DC!VictimLine,
          DC!lru_out, DC!Index
  <2> QED
    BY <2>1, <2>5, <2>6
<1> QED
  BY <1>1, <1>2, <1>g, <1>n, <1>t

\* The adaptor sees one request from the edge it takes it to its response.
THEOREM PortIsHeld == Spec => RequestHeld
<1>1. ControlInv /\ ControlInv' /\ [Next]_vars =>
        [(linePort.read \/ linePort.write) /\ ~resp_o =>
           /\ linePort'.read = linePort.read /\ linePort'.write = linePort.write
           /\ linePort'.addr = linePort.addr
           /\ linePort.write => linePort'.line = linePort.line]_vars
  BY PortStays
<1> QED
  BY <1>1, ControlSafe, PTL DEF Spec, RequestHeld

-----------------------------------------------------------------------------
(* The data.  The system is put together from its parts: the arbiter with the *)
(* caches behind it is a client of LineTransfer, and what the adaptor makes of *)
(* the bursts is the memory either cache sees in CachedMemory, while the other *)
(* cache has the port an unanswered request.                                   *)
Blank == [b \in Beats |-> Word0]

\* The line port as a client drives it; without a write its line means nothing.
portClient == [read |-> linePort.read, write |-> linePort.write, addr |-> linePort.addr,
               line |-> IF linePort.write THEN linePort.line ELSE Blank]
LT == INSTANCE LineTransferProofs WITH Payloads <- LineValue, client <- portClient

\* The port of one cache: busy while the arbiter is its own.
PortOf(c) == IF arb = c THEN LT!PortView ELSE "idle"
OpOf(c) == IF arb = c THEN LT!OpView ELSE "read"
AddrOf(c) == IF arb = c THEN addressbuf ELSE AnyAddr

DM == INSTANCE CachedMemoryProofs WITH
  CpuRequests <- Accesses, Contents <- LineValue, Garbage <- LineValue,
  state <- d_state, tag <- d_tag, valid <- d_valid, dirty <- d_dirty, lru <- d_lru,
  data <- d_data, cpu <- access, lines <- MemoryView,
  port <- PortOf("dmem"), op <- OpOf("dmem"), addr <- AddrOf("dmem"), bus <- linebuf

\* Of the memory the instruction cache sees the lines that are fetched from.
FetchMemory == [l \in Lines |-> IF l \in FetchLines THEN MemoryView[l] ELSE Blank]
IM == INSTANCE CachedMemoryProofs WITH
  CpuRequests <- Fetches, Contents <- LineValue, Garbage <- LineValue,
  state <- i_state, tag <- i_tag, valid <- i_valid, dirty <- i_dirty, lru <- i_lru,
  data <- i_data, cpu <- fetch, lines <- FetchMemory,
  port <- PortOf("imem"), op <- OpOf("imem"), addr <- AddrOf("imem"), bus <- linebuf

\* The parts share one vocabulary of lines, addresses and requests.
LEMMA Vocabulary ==
  /\ LT!Addr = Addr /\ LT!LineValue = LineValue /\ LT!Beats = Beats /\ LT!AnyAddr = AnyAddr
  /\ DM!Addr = Addr /\ DM!LineValue = LineValue /\ DM!Beats = Beats /\ DM!AnyAddr = AnyAddr
  /\ IM!Addr = Addr /\ IM!LineValue = LineValue /\ IM!Beats = Beats /\ IM!AnyAddr = AnyAddr
  /\ DC!Addr = Addr /\ DC!LineValue = LineValue /\ DC!Beats = Beats
  /\ IC!Addr = Addr /\ IC!LineValue = LineValue /\ IC!Beats = Beats
  /\ DM!CpuRequest = DC!CpuRequest /\ IM!CpuRequest = IC!CpuRequest
<1>1. LT!Beats = Beats /\ DM!Beats = Beats /\ IM!Beats = Beats /\ DC!Beats = Beats /\ IC!Beats = Beats
  BY DEF Beats, LT!Beats, DM!Beats, IM!Beats, DC!Beats, IC!Beats
<1>2. /\ LT!Addr = Addr /\ DM!Addr = Addr /\ IM!Addr = Addr /\ DC!Addr = Addr /\ IC!Addr = Addr
  BY <1>1 DEF Addr, LT!Addr, DM!Addr, IM!Addr, DC!Addr, IC!Addr
<1>3. /\ LT!LineValue = LineValue /\ DM!LineValue = LineValue /\ IM!LineValue = LineValue
      /\ DC!LineValue = LineValue /\ IC!LineValue = LineValue
  BY <1>1 DEF LineValue, LT!LineValue, DM!LineValue, IM!LineValue, DC!LineValue, IC!LineValue
<1>4. LT!AnyAddr = AnyAddr /\ DM!AnyAddr = AnyAddr /\ IM!AnyAddr = AnyAddr
  BY <1>2 DEF AnyAddr, LT!AnyAddr, DM!AnyAddr, IM!AnyAddr
<1>5. DM!CpuRequest = DC!CpuRequest /\ IM!CpuRequest = IC!CpuRequest
  BY <1>1, <1>2 DEF DM!CpuRequest, DC!CpuRequest, IM!CpuRequest, IC!CpuRequest
<1> QED BY <1>1, <1>2, <1>3, <1>4, <1>5

\* What the parts assume of their constants holds here.
LEMMA BlankIsLine == Blank \in LineValue
BY ResetAssumption DEF Blank, LineValue
LEMMA TransferAssumptions ==
  /\ BURST_LEN \in Nat /\ BURST_LEN > 1 /\ Words # {} /\ Lines # {}
  /\ Delays # {} /\ Delays \subseteq Nat \ {0}
  /\ LineValue # {} /\ LineValue \subseteq LT!LineValue
BY BurstAssumption, WordsAssumption, LinesAssumption, DelaysAssumption, Vocabulary, BlankIsLine
LEMMA DataAssumptions ==
  /\ BURST_LEN \in Nat /\ BURST_LEN > 1 /\ Words # {} /\ Lines # {}
  /\ Lines = [tag : Tags, index : Indices] /\ Tag0 \in Tags /\ Word0 \in Words
  /\ Accesses \subseteq DM!CpuRequest /\ \A q \in Accesses : ~(q.read /\ q.write)
  /\ LineValue # {} /\ LineValue \subseteq DM!LineValue
  /\ NoData \notin Words
BY BurstAssumption, WordsAssumption, LinesAssumption, LineAddresses, ResetAssumption,
   PortAssumption, Vocabulary, BlankIsLine
LEMMA FetchAssumptions ==
  /\ BURST_LEN \in Nat /\ BURST_LEN > 1 /\ Words # {} /\ Lines # {}
  /\ Lines = [tag : Tags, index : Indices] /\ Tag0 \in Tags /\ Word0 \in Words
  /\ Fetches \subseteq IM!CpuRequest /\ \A q \in Fetches : ~(q.read /\ q.write)
  /\ LineValue # {} /\ LineValue \subseteq IM!LineValue
  /\ NoData \notin Words
BY BurstAssumption, WordsAssumption, LinesAssumption, LineAddresses, ResetAssumption,
   PortAssumption, Vocabulary, BlankIsLine

\* The caches of the parts are the caches of mp4.sv.
LEMMA SameDataCache ==
  /\ DM!CacheTypeOK <=> DC!CacheTypeOK
  /\ DM!CacheInit <=> DC!CacheInit
  /\ DM!mem_resp(access) = DC!mem_resp(access) /\ DM!mem_rdata(access) = DC!mem_rdata(access)
  /\ DM!Requesting(access) = DC!Requesting(access)
  /\ DM!pmem_address(access) = DC!pmem_address(access) /\ DM!pmem_wdata(access) = DC!pmem_wdata(access)
  /\ DC!CacheEdge(access, d_resp, line_o) => DM!CacheEdge(access, d_resp, linebuf)
<1>1. DM!CacheTypeOK <=> DC!CacheTypeOK
  BY Vocabulary DEF DC!CacheTypeOK, DM!CacheTypeOK, DC!Ways, DM!Ways
<1>2. DM!CacheInit <=> DC!CacheInit
  BY Vocabulary DEF DC!CacheInit, DM!CacheInit, DC!Ways, DM!Ways
<1>3. /\ DM!Index(access) = DC!Index(access) /\ DM!Tag(access) = DC!Tag(access)
      /\ DM!lru_out(access) = DC!lru_out(access) /\ DM!Requesting(access) = DC!Requesting(access)
      /\ DM!DirtyVictim(access) = DC!DirtyVictim(access) /\ DM!Ways = DC!Ways
      /\ DM!VictimLine(access) = DC!VictimLine(access)
  BY DEF DC!Index, DM!Index, DC!Tag, DM!Tag, DC!lru_out, DM!lru_out, DC!Requesting, DM!Requesting, DC!DirtyVictim, DM!DirtyVictim, DC!Ways, DM!Ways, DC!VictimLine, DM!VictimLine
<1>4. \A w : DM!Hit(w, access) = DC!Hit(w, access)
  BY <1>3 DEF DC!Hit, DM!Hit
<1>5. DM!AnyHit(access) = DC!AnyHit(access)
  BY <1>3, <1>4 DEF DC!AnyHit, DM!AnyHit
<1>6. DM!mem_resp(access) = DC!mem_resp(access) /\ DM!mem_rdata(access) = DC!mem_rdata(access)
  BY <1>3, <1>4, <1>5 DEF DC!mem_resp, DM!mem_resp, DC!mem_rdata, DM!mem_rdata, DC!data_out, DM!data_out
<1>7. DM!pmem_address(access) = DC!pmem_address(access) /\ DM!pmem_wdata(access) = DC!pmem_wdata(access)
  BY <1>3 DEF DC!pmem_address, DM!pmem_address, DC!pmem_wdata, DM!pmem_wdata, DC!pmem_read, DM!pmem_read
<1>8. ASSUME DC!CacheEdge(access, d_resp, line_o) PROVE DM!CacheEdge(access, d_resp, linebuf)
  <2>1. DC!NoRequest(access) => DM!NoRequest(access)
    BY <1>3 DEF DC!NoRequest, DM!NoRequest, DC!cacheVars, DM!cacheVars
  <2>2. DC!ReadHit(access) => DM!ReadHit(access)
    BY <1>3, <1>4, <1>6 DEF DC!ReadHit, DM!ReadHit, DC!cacheVars, DM!cacheVars
  <2>3. DC!WriteHit(access) => DM!WriteHit(access)
    BY DEF DC!WriteHit, DM!WriteHit, DC!mem_resp, DM!mem_resp, DC!AnyHit, DM!AnyHit,
       DC!Hit, DM!Hit, DC!Index, DM!Index, DC!Tag, DM!Tag, DC!Requesting, DM!Requesting,
       DC!Ways, DM!Ways, DC!Merge, DM!Merge, DC!Beats, DM!Beats
  <2>4. DC!Miss(access) => DM!Miss(access)
    BY <1>3, <1>5 DEF DC!Miss, DM!Miss
  <2>5. DC!WriteMem(access, d_resp) => DM!WriteMem(access, d_resp)
    BY <1>3 DEF DC!WriteMem, DM!WriteMem, DC!Put, DM!Put
  <2>6. DC!ReadMem(access, d_resp, line_o) => DM!ReadMem(access, d_resp, linebuf)
    BY <1>3 DEF DC!ReadMem, DM!ReadMem, DC!Put, DM!Put, line_o
  <2> QED BY <1>8, <2>1, <2>2, <2>3, <2>4, <2>5, <2>6 DEF DC!CacheEdge, DM!CacheEdge
<1> QED BY <1>1, <1>2, <1>3, <1>6, <1>7, <1>8
LEMMA SameFetchCache ==
  /\ IM!CacheTypeOK <=> IC!CacheTypeOK
  /\ IM!CacheInit <=> IC!CacheInit
  /\ IM!mem_resp(fetch) = IC!mem_resp(fetch) /\ IM!mem_rdata(fetch) = IC!mem_rdata(fetch)
  /\ IM!Requesting(fetch) = IC!Requesting(fetch)
  /\ IM!pmem_address(fetch) = IC!pmem_address(fetch) /\ IM!pmem_wdata(fetch) = IC!pmem_wdata(fetch)
  /\ IC!CacheEdge(fetch, i_resp, line_o) => IM!CacheEdge(fetch, i_resp, linebuf)
<1>1. IM!CacheTypeOK <=> IC!CacheTypeOK
  BY Vocabulary DEF IC!CacheTypeOK, IM!CacheTypeOK, IC!Ways, IM!Ways
<1>2. IM!CacheInit <=> IC!CacheInit
  BY Vocabulary DEF IC!CacheInit, IM!CacheInit, IC!Ways, IM!Ways
<1>3. /\ IM!Index(fetch) = IC!Index(fetch) /\ IM!Tag(fetch) = IC!Tag(fetch)
      /\ IM!lru_out(fetch) = IC!lru_out(fetch) /\ IM!Requesting(fetch) = IC!Requesting(fetch)
      /\ IM!DirtyVictim(fetch) = IC!DirtyVictim(fetch) /\ IM!Ways = IC!Ways
      /\ IM!VictimLine(fetch) = IC!VictimLine(fetch)
  BY DEF IC!Index, IM!Index, IC!Tag, IM!Tag, IC!lru_out, IM!lru_out, IC!Requesting, IM!Requesting, IC!DirtyVictim, IM!DirtyVictim, IC!Ways, IM!Ways, IC!VictimLine, IM!VictimLine
<1>4. \A w : IM!Hit(w, fetch) = IC!Hit(w, fetch)
  BY <1>3 DEF IC!Hit, IM!Hit
<1>5. IM!AnyHit(fetch) = IC!AnyHit(fetch)
  BY <1>3, <1>4 DEF IC!AnyHit, IM!AnyHit
<1>6. IM!mem_resp(fetch) = IC!mem_resp(fetch) /\ IM!mem_rdata(fetch) = IC!mem_rdata(fetch)
  BY <1>3, <1>4, <1>5 DEF IC!mem_resp, IM!mem_resp, IC!mem_rdata, IM!mem_rdata, IC!data_out, IM!data_out
<1>7. IM!pmem_address(fetch) = IC!pmem_address(fetch) /\ IM!pmem_wdata(fetch) = IC!pmem_wdata(fetch)
  BY <1>3 DEF IC!pmem_address, IM!pmem_address, IC!pmem_wdata, IM!pmem_wdata, IC!pmem_read, IM!pmem_read
<1>8. ASSUME IC!CacheEdge(fetch, i_resp, line_o) PROVE IM!CacheEdge(fetch, i_resp, linebuf)
  <2>1. IC!NoRequest(fetch) => IM!NoRequest(fetch)
    BY <1>3 DEF IC!NoRequest, IM!NoRequest, IC!cacheVars, IM!cacheVars
  <2>2. IC!ReadHit(fetch) => IM!ReadHit(fetch)
    BY <1>3, <1>4, <1>6 DEF IC!ReadHit, IM!ReadHit, IC!cacheVars, IM!cacheVars
  <2>3. IC!WriteHit(fetch) => IM!WriteHit(fetch)
    BY DEF IC!WriteHit, IM!WriteHit, IC!mem_resp, IM!mem_resp, IC!AnyHit, IM!AnyHit,
       IC!Hit, IM!Hit, IC!Index, IM!Index, IC!Tag, IM!Tag, IC!Requesting, IM!Requesting,
       IC!Ways, IM!Ways, IC!Merge, IM!Merge, IC!Beats, IM!Beats
  <2>4. IC!Miss(fetch) => IM!Miss(fetch)
    BY <1>3, <1>5 DEF IC!Miss, IM!Miss
  <2>5. IC!WriteMem(fetch, i_resp) => IM!WriteMem(fetch, i_resp)
    BY <1>3 DEF IC!WriteMem, IM!WriteMem, IC!Put, IM!Put
  <2>6. IC!ReadMem(fetch, i_resp, line_o) => IM!ReadMem(fetch, i_resp, linebuf)
    BY <1>3 DEF IC!ReadMem, IM!ReadMem, IC!Put, IM!Put, line_o
  <2> QED BY <1>8, <2>1, <2>2, <2>3, <2>4, <2>5, <2>6 DEF IC!CacheEdge, IM!CacheEdge
<1> QED BY <1>1, <1>2, <1>3, <1>6, <1>7, <1>8

\* The registers that decide what is on the line port, in range.
PortsTyped ==
  /\ IC!CacheTypeOK /\ DC!CacheTypeOK /\ ArbTypeOK
  /\ fetch \in Fetches /\ access \in Accesses
LEMMA PortTyped == PortsTyped => portClient \in LT!Requests
<1> SUFFICES ASSUME PortsTyped PROVE portClient \in LT!Requests
  OBVIOUS
<1>1. /\ fetch \in IC!CpuRequest /\ access \in DC!CpuRequest
      /\ fetch.addr \in Addr /\ access.addr \in Addr
  BY PortAssumption, Vocabulary DEF PortsTyped, IC!CpuRequest, DC!CpuRequest
<1>2. 0 \in Beats
  BY BurstAssumption DEF Beats
<1>3. imem \in [read : BOOLEAN, write : BOOLEAN, addr : Addr, line : LineValue]
      /\ ~(imem.read /\ imem.write)
  <2>1. IC!Index(fetch) \in Indices /\ IC!lru_out(fetch) \in IC!Ways
    BY <1>1, LineAddresses DEF Addr, IC!Index, IC!lru_out, PortsTyped, IC!CacheTypeOK
  <2>2. IC!pmem_address(fetch) \in Addr
    BY <1>1, <1>2, <2>1, LineAddresses
    DEF IC!pmem_address, IC!VictimLine, Addr, PortsTyped, IC!CacheTypeOK
  <2>3. IC!pmem_wdata(fetch) \in LineValue
    BY <2>1, Vocabulary DEF IC!pmem_wdata, PortsTyped, IC!CacheTypeOK
  <2> QED BY <2>2, <2>3 DEF imem, IC!pmem_read, IC!pmem_write
<1>4. dmem \in [read : BOOLEAN, write : BOOLEAN, addr : Addr, line : LineValue]
      /\ ~(dmem.read /\ dmem.write)
  <2>1. DC!Index(access) \in Indices /\ DC!lru_out(access) \in DC!Ways
    BY <1>1, LineAddresses DEF Addr, DC!Index, DC!lru_out, PortsTyped, DC!CacheTypeOK
  <2>2. DC!pmem_address(access) \in Addr
    BY <1>1, <1>2, <2>1, LineAddresses
    DEF DC!pmem_address, DC!VictimLine, Addr, PortsTyped, DC!CacheTypeOK
  <2>3. DC!pmem_wdata(access) \in LineValue
    BY <2>1, Vocabulary DEF DC!pmem_wdata, PortsTyped, DC!CacheTypeOK
  <2> QED BY <2>2, <2>3 DEF dmem, DC!pmem_read, DC!pmem_write
<1>5. linePort \in [read : BOOLEAN, write : BOOLEAN, addr : Addr, line : LineValue]
      /\ ~(linePort.read /\ linePort.write)
  <2> USE <1>3, <1>4
  <2>1. CASE Granted(imem, dmem) = "imem"
    BY <2>1 DEF linePort, pmem
  <2>2. CASE Granted(imem, dmem) = "dmem"
    BY <2>2 DEF linePort, pmem
  <2>3. CASE Granted(imem, dmem) \notin {"imem", "dmem"}
    BY <2>3 DEF linePort, pmem
  <2> QED BY <2>1, <2>2, <2>3
<1> QED BY <1>5, BlankIsLine, Vocabulary DEF portClient, LT!Requests

\* One tick leaves what decides the line port in range.
LEMMA PortsStayTyped == ASSUME TypeOK, Next PROVE PortsTyped'
<1>1. fetch \in DM!CpuRequest /\ access \in DM!CpuRequest /\ linebuf \in DM!LineValue
      /\ fetch \in IM!CpuRequest /\ linebuf \in IM!LineValue
  BY PortAssumption, Vocabulary DEF TypeOK, AdaptorTypeOK, LineValue, DC!CpuRequest, IC!CpuRequest
<1>2. DC!CacheTypeOK'
  <2>1. DM!CacheTypeOK /\ DM!CacheEdge(access, d_resp, linebuf)
    BY SameDataCache DEF TypeOK, Next
  <2>2. DM!CacheTypeOK'
    BY <1>1, <2>1, DM!CacheTyped, DataAssumptions
  <2>3. (DM!CacheTypeOK => DC!CacheTypeOK)'
    BY SameDataCache, PTL
  <2> QED BY <2>2, <2>3
<1>3. IC!CacheTypeOK'
  <2>1. IM!CacheTypeOK /\ IM!CacheEdge(fetch, i_resp, linebuf)
    BY SameFetchCache DEF TypeOK, Next
  <2>2. IM!CacheTypeOK'
    BY <1>1, <2>1, IM!CacheTyped, FetchAssumptions
  <2>3. (IM!CacheTypeOK => IC!CacheTypeOK)'
    BY SameFetchCache, PTL
  <2> QED BY <2>2, <2>3
<1>4. ArbTypeOK'
  BY DEF Next, ArbEdge, RestGrant, RestStay, Serve, TypeOK, ArbTypeOK
<1>5. fetch' \in Fetches /\ access' \in Accesses
  BY DEF Next, ProcessorEdge, TypeOK
<1> QED BY <1>2, <1>3, <1>4, <1>5 DEF PortsTyped

\* Behind the arbiter the two caches together are the client LineTransfer speaks of.
LEMMA ClientTick ==
  ASSUME ControlInv, ControlInv', PortsTyped', Next
  PROVE  LT!ClientEdge
<1>1. (PortsTyped => portClient \in LT!Requests)'
  BY PortTyped, PTL
<1>2. portClient' \in LT!Requests
  BY <1>1
<1>3. CASE LT!resp_o \/ ~(portClient.read \/ portClient.write)
  BY <1>2, <1>3 DEF LT!ClientEdge
<1>4. CASE ~LT!resp_o /\ (portClient.read \/ portClient.write)
  <2>1. ~resp_o /\ (linePort.read \/ linePort.write)
    BY <1>4 DEF LT!resp_o, resp_o, portClient
  <2>2. /\ linePort'.read = linePort.read /\ linePort'.write = linePort.write
        /\ linePort'.addr = linePort.addr
        /\ linePort.write => linePort'.line = linePort.line
    BY <2>1, PortStays
  <2>3. portClient' = portClient
    BY <2>2 DEF portClient
  <2> QED BY <1>4, <2>3 DEF LT!ClientEdge
<1> QED BY <1>3, <1>4

\* A tick of the system is a tick of LineTransfer.
LEMMA TransferTick ==
  ASSUME ControlInv, ControlInv', PortsTyped', Next
  PROVE  LT!Next
<1>1. LT!ClientEdge
  BY ClientTick
<1>2. LT!AdaptorEdge(portClient.read, portClient.write, portClient.addr, portClient.line,
                     rdata, resp)
  BY DEF Next, portClient, AdaptorEdge, LT!AdaptorEdge, IdleNoOp, LT!IdleNoOp, IdleRead,
     LT!IdleRead, IdleWrite, LT!IdleWrite, WaitRead, LT!WaitRead, WaitWrite, LT!WaitWrite,
     ReadBeat, LT!ReadBeat, WriteBeat, LT!WriteBeat, Done, LT!Done, adaptorVars,
     LT!adaptorVars, maxcount, LT!maxcount, NextCount, LT!NextCount
<1>3. LT!MemEdge(LT!read_o, LT!write_o, LT!address_o, LT!burst_o)
  <2>1. LT!read_o = read_o /\ LT!write_o = write_o /\ LT!address_o = address_o /\ LT!burst_o = burst_o
    BY DEF LT!read_o, LT!write_o, LT!address_o, LT!burst_o, read_o, write_o, address_o, burst_o
  <2>2. MemEdge(read_o, write_o, address_o, burst_o)
    BY DEF Next
  <2> HIDE DEF read_o, write_o, address_o, burst_o
  <2>3. Quiet(read_o, write_o) => LT!Quiet(read_o, write_o)
    BY DEF Quiet, LT!Quiet, memVars, LT!memVars
  <2>4. Accept(read_o, write_o, address_o) => LT!Accept(read_o, write_o, address_o)
    BY DEF Accept, LT!Accept
  <2>5. Wait(read_o, write_o, address_o) => LT!Wait(read_o, write_o, address_o)
    BY DEF Wait, LT!Wait, Steady, LT!Steady
  <2>6. FirstBeat(read_o, write_o, address_o) => LT!FirstBeat(read_o, write_o, address_o)
    BY DEF FirstBeat, LT!FirstBeat, Steady, LT!Steady
  <2>7. Beat(read_o, write_o, address_o, burst_o) => LT!Beat(read_o, write_o, address_o, burst_o)
    BY DEF Beat, LT!Beat, Steady, LT!Steady
  <2> QED BY <2>1, <2>2, <2>3, <2>4, <2>5, <2>6, <2>7 DEF MemEdge, LT!MemEdge
<1> QED BY <1>1, <1>2, <1>3 DEF LT!Next

LEMMA SameTypes == TypeOK <=> PortsTyped /\ LT!AdaptorTypeOK /\ LT!MemTypeOK /\ bypass \in Nat
BY Vocabulary DEF TypeOK, PortsTyped, AdaptorTypeOK, LT!AdaptorTypeOK, MemTypeOK, LT!MemTypeOK

LEMMA TypeInductive ==
  ASSUME TypeOK, ControlInv, ControlInv', Next
  PROVE  TypeOK'
<1>1. PortsTyped'
  BY PortsStayTyped
<1>2. LT!TypeOK
  BY SameTypes, PortTyped DEF LT!TypeOK
<1>3. LT!TypeOK'
  BY <1>1, <1>2, TransferTick, LT!TypeInductive, TransferAssumptions
<1>4. bypass' \in Nat
  BY DEF Next, CountBypass, TypeOK
<1>5. (PortsTyped /\ LT!AdaptorTypeOK /\ LT!MemTypeOK /\ bypass \in Nat => TypeOK)'
  BY SameTypes, PTL
<1> QED BY <1>1, <1>3, <1>4, <1>5 DEF LT!TypeOK

LEMMA InitTyped == Init => TypeOK
<1> SUFFICES ASSUME Init PROVE TypeOK
  OBVIOUS
<1> DEFINE i0 == CHOOSE i \in Indices : TRUE
           a0 == [line |-> [tag |-> Tag0, index |-> i0], off |-> 0]
<1>1. i0 \in Indices
  BY LinesAssumption, LineAddresses
<1>2. a0 \in Addr
  BY <1>1, ResetAssumption, LineAddresses, BurstAssumption DEF Addr, Beats
<1>3. PICK contents \in Contents :
        MemInit(contents, a0) /\ AdaptorInit(a0, contents[a0.line])
  BY DEF Init
<1>4. /\ contents \in [Lines -> LineValue] /\ a0.line \in Lines
      /\ contents[a0.line] \in [Beats -> Words] /\ 0 \in Beats
  <2>1. contents \in [Lines -> LineValue] /\ a0.line \in Lines
    BY <1>1, ResetAssumption, LineAddresses
  <2>2. 0 \in Beats
    BY BurstAssumption DEF Beats
  <2> QED BY <2>1, <2>2 DEF LineValue
<1> HIDE DEF a0
<1>5. IC!CacheTypeOK /\ DC!CacheTypeOK
  BY ResetAssumption, Vocabulary, BlankIsLine
  DEF Init, IC!CacheInit, IC!CacheTypeOK, DC!CacheInit, DC!CacheTypeOK, IC!Ways, DC!Ways,
      Blank, LineValue, IC!Beats, DC!Beats
<1>6. AdaptorTypeOK
  BY <1>2, <1>3, <1>4 DEF AdaptorInit, AdaptorTypeOK
<1>7. MemTypeOK
  <2>1. 0 \in 0 .. BURST_LEN /\ 0 \in Nat /\ FALSE \in BOOLEAN
    BY BurstAssumption
  <2>2. MemInit(contents, a0)
    BY <1>3
  <2> QED BY <1>2, <1>4, <2>1, <2>2, Zenon DEF MemInit, MemTypeOK
<1>8. ArbTypeOK /\ fetch \in Fetches /\ access \in Accesses /\ bypass \in Nat
  <2>1. arb = "rest" /\ fetch \in Fetches /\ access \in Accesses /\ bypass = 0
    BY Zenon DEF Init, ArbInit
  <2> QED BY <2>1 DEF ArbTypeOK
<1> QED BY <1>5, <1>6, <1>7, <1>8 DEF TypeOK

\* Every register of the caches, the arbiter, the adaptor and the memory, and the
\* requests of the processor, stay in range.
THEOREM TypeCorrect == Spec => []TypeOK
<1>1. TypeOK /\ ControlInv /\ ControlInv' /\ [Next]_vars => TypeOK'
  <2> SUFFICES ASSUME TypeOK, ControlInv, ControlInv', [Next]_vars PROVE TypeOK'
    OBVIOUS
  <2>1. CASE UNCHANGED vars
    BY <2>1 DEF vars, icacheVars, dcacheVars, adaptorVars, memVars, TypeOK, IC!CacheTypeOK,
       DC!CacheTypeOK, ArbTypeOK, AdaptorTypeOK, MemTypeOK
  <2> QED BY <2>1, TypeInductive
<1> QED BY <1>1, InitTyped, ControlSafe, PTL DEF Spec

-----------------------------------------------------------------------------
\* The adaptor and the memory in the whole system do what they do behind one
\* client that keeps its requests.
THEOREM ArbiterIsAClient == Spec => LT!Spec
<1>1. Init => LT!Init
  <2> SUFFICES ASSUME Init PROVE LT!Init
    OBVIOUS
  <2>1. TypeOK
    BY InitTyped
  <2> DEFINE l == [tag |-> Tag0, index |-> CHOOSE i \in Indices : TRUE]
             a == [line |-> l, off |-> 0]
  <2>2. PICK contents \in Contents : MemInit(contents, a) /\ AdaptorInit(a, contents[a.line])
    BY DEF Init
  <2>a. a = addressbuf
    BY <2>2 DEF AdaptorInit
  <2> HIDE DEF a
  <2>3. /\ contents \in [Lines -> LineValue] /\ a \in Addr
        /\ contents[a.line] \in LineValue
    BY <2>1, <2>a, ResetAssumption DEF TypeOK, AdaptorTypeOK, Addr
  <2>4. LT!MemInit(contents, a) /\ LT!AdaptorInit(a, contents[a.line])
    BY <2>2 DEF MemInit, LT!MemInit, AdaptorInit, LT!AdaptorInit
  <2>5. portClient \in LT!Requests
    BY <2>1, SameTypes, PortTyped
  <2> QED BY <2>3, <2>4, <2>5, Vocabulary DEF LT!Init
<1>2. TypeOK /\ TypeOK' /\ ControlInv /\ ControlInv' /\ [Next]_vars => [LT!Next]_LT!vars
  <2> SUFFICES ASSUME TypeOK, TypeOK', ControlInv, ControlInv', [Next]_vars
               PROVE  [LT!Next]_LT!vars
    OBVIOUS
  <2>1. CASE UNCHANGED vars
    <3>1. UNCHANGED <<imem, dmem, arb, adaptorVars, memVars>>
      BY <2>1 DEF vars, icacheVars, dcacheVars, imem, dmem, IC!pmem_read, IC!pmem_write,
         IC!pmem_address, IC!VictimLine, IC!lru_out, IC!Index, IC!pmem_wdata, DC!pmem_read,
         DC!pmem_write, DC!pmem_address, DC!VictimLine, DC!lru_out, DC!Index, DC!pmem_wdata
    <3>2. portClient' = portClient
      BY <3>1 DEF portClient, linePort, pmem, Granted
    <3> QED BY <3>1, <3>2 DEF LT!vars, LT!adaptorVars, LT!memVars, adaptorVars, memVars
  <2>2. CASE Next
    <3>1. PortsTyped'
      BY <2>2, PortsStayTyped
    <3> QED BY <2>2, <3>1, TransferTick
  <2> QED BY <2>1, <2>2
<1> QED BY <1>1, <1>2, TypeCorrect, ControlSafe, PTL DEF Spec, LT!Spec

\* No assertion of the memory fails, the beats are in step, and the lines intact.
THEOREM TransfersAreSafe == Spec => []LT!TransferInv
<1>1. LT!Spec => []LT!TransferInv
  BY TransferAssumptions, LT!TransferSafe
<1> QED BY <1>1, ArbiterIsAClient, PTL

\* What the data cache may write back is no line that is fetched from.
LEMMA InitStoredDirty == Init => OnlyStoredDirty
BY DEF Init, DC!CacheInit, DC!Ways, OnlyStoredDirty

LEMMA TickKeepsStored ==
  ASSUME TypeOK, ControlInv, OnlyStoredDirty, Next
  PROVE  OnlyStoredDirty'
<1> DEFINE i == DC!Index(access)
           v == DC!lru_out(access)
<1> HIDE DEF i, v
<1>t. /\ d_tag \in [{0, 1} -> [Indices -> Tags]] /\ d_dirty \in [{0, 1} -> [Indices -> BOOLEAN]]
      /\ i \in Indices /\ v \in {0, 1} /\ access.write \in BOOLEAN
      /\ access.addr.line = [tag |-> DC!Tag(access), index |-> i]
      /\ DC!VictimLine(access) = [tag |-> d_tag[v][i], index |-> i]
      /\ DC!DirtyVictim(access) = d_dirty[v][i]
  <2>1. access \in DC!CpuRequest
    BY PortAssumption DEF TypeOK
  <2>2. access.addr.line \in [tag : Tags, index : Indices] /\ access.write \in BOOLEAN
    BY <2>1, Vocabulary, LineAddresses DEF DC!CpuRequest, Addr
  <2>3. i \in Indices /\ access.addr.line = [tag |-> DC!Tag(access), index |-> i]
    BY <2>2 DEF DC!Index, DC!Tag, i
  <2> QED BY <2>2, <2>3 DEF TypeOK, DC!CacheTypeOK, DC!Ways, DC!lru_out, DC!VictimLine,
          DC!DirtyVictim, i, v
<1>w. access.write => access.addr.line \notin FetchLines
  BY PortAssumption DEF TypeOK, FetchLines
<1>p. d_state # "check_cache" => access' = access
  BY ProcessorWaits DEF Next
<1>m. DC!Requesting(access) /\ ~DC!mem_resp(access) => access' = access
  BY ProcessorWaits DEF Next
<1>e. DC!CacheEdge(access, d_resp, line_o)
  BY DEF Next
<1>1. CASE DC!NoRequest(access) \/ DC!ReadHit(access)
  BY <1>1 DEF DC!NoRequest, DC!ReadHit, DC!mem_resp, DC!cacheVars, OnlyStoredDirty
<1>2. CASE DC!WriteHit(access)
  <2>1. d_state' = "check_cache" /\ access.write /\ d_tag' = d_tag
    BY <1>2 DEF DC!WriteHit, DC!mem_resp
  <2>2. \A w \in {0, 1}, j \in Indices :
          d_dirty'[w][j] => d_dirty[w][j] \/ (j = i /\ DC!Hit(w, access))
    BY <1>2, <1>t DEF DC!WriteHit, DC!Ways, i
  <2>3. ASSUME NEW w \in {0, 1}, NEW j \in Indices, d_dirty'[w][j]
        PROVE  [tag |-> d_tag[w][j], index |-> j] \notin FetchLines
    <3>1. CASE d_dirty[w][j]
      BY <3>1 DEF OnlyStoredDirty
    <3>2. CASE j = i /\ DC!Hit(w, access)
      BY <3>2, <1>t, <1>w, <2>1 DEF DC!Hit, i
    <3> QED BY <2>2, <2>3, <3>1, <3>2
  <2> QED BY <2>1, <2>3 DEF OnlyStoredDirty
<1>3. CASE DC!Miss(access)
  <2>1. /\ DC!Requesting(access) /\ ~DC!mem_resp(access)
        /\ d_state' = IF d_dirty[v][i] THEN "write_mem" ELSE "read_mem"
        /\ UNCHANGED <<d_tag, d_dirty, d_lru>>
    BY <1>3, <1>t DEF DC!Miss, DC!mem_resp
  <2>2. access' = access
    BY <2>1, <1>m
  <2>3. DC!VictimLine(access)' = DC!VictimLine(access) /\ DC!DirtyVictim(access)' = d_dirty[v][i]
    BY <2>1, <2>2, <1>t DEF DC!VictimLine, DC!DirtyVictim, DC!lru_out, DC!Index
  <2> QED BY <2>1, <2>3, <1>t DEF OnlyStoredDirty
<1>4. CASE DC!WriteMem(access, d_resp)
  <2>1. /\ d_state = "write_mem" /\ UNCHANGED <<d_tag, d_lru, access>>
        /\ \A w \in {0, 1}, j \in Indices :
             d_dirty'[w][j] = IF w = v /\ j = i THEN access.write ELSE d_dirty[w][j]
    BY <1>4, <1>p, <1>t DEF DC!WriteMem, DC!Put, i, v
  <2>2. DC!VictimLine(access)' = DC!VictimLine(access) /\ DC!DirtyVictim(access)' = access.write
    BY <2>1, <1>t DEF DC!VictimLine, DC!DirtyVictim, DC!lru_out, DC!Index, i, v
  <2> QED BY <2>1, <2>2, <1>t DEF OnlyStoredDirty
<1>5. CASE DC!ReadMem(access, d_resp, line_o)
  <2>1. /\ d_state = "read_mem" /\ d_state' \in {"read_mem", "check_cache"}
        /\ UNCHANGED <<d_dirty, d_lru, access>>
        /\ \A w \in {0, 1}, j \in Indices :
             d_tag'[w][j] = IF w = v /\ j = i THEN DC!Tag(access) ELSE d_tag[w][j]
    BY <1>5, <1>p, <1>t DEF DC!ReadMem, DC!Put, i, v
  <2>2. DC!DirtyVictim(access)' = DC!DirtyVictim(access)
    BY <2>1 DEF DC!DirtyVictim, DC!lru_out, DC!Index
  <2>3. ASSUME NEW w \in {0, 1}, NEW j \in Indices, d_dirty'[w][j]
        PROVE  [tag |-> d_tag'[w][j], index |-> j] \notin FetchLines
    <3>1. CASE w = v /\ j = i
      BY <2>1, <2>3, <3>1, <1>t, <1>w DEF OnlyStoredDirty
    <3>2. CASE ~(w = v /\ j = i)
      BY <2>1, <2>3, <3>2 DEF OnlyStoredDirty
    <3> QED BY <3>1, <3>2
  <2> QED BY <2>1, <2>2, <2>3 DEF OnlyStoredDirty
<1> QED BY <1>e, <1>1, <1>2, <1>3, <1>4, <1>5 DEF DC!CacheEdge

\* The caches need not snoop each other: what either can have to write back and
\* what the other reads are different lines.
THEOREM StoresMissFetches == Spec => []OnlyStoredDirty
<1>1. OnlyStoredDirty /\ UNCHANGED vars => OnlyStoredDirty'
  BY DEF vars, dcacheVars, OnlyStoredDirty, DC!VictimLine, DC!DirtyVictim, DC!lru_out, DC!Index
<1> QED BY <1>1, InitStoredDirty, TickKeepsStored, TypeCorrect, ControlSafe, PTL DEF Spec

-----------------------------------------------------------------------------
\* What holds at every edge, the parts' invariants included.
PartsInv == TypeOK /\ ControlInv /\ OnlyStoredDirty /\ LT!TypeOK /\ LT!TransferInv
LEMMA PartsSafe == Spec => []PartsInv
<1>1. TypeOK => LT!TypeOK
  BY SameTypes, PortTyped DEF LT!TypeOK
<1>2. TypeOK /\ ControlInv /\ OnlyStoredDirty /\ LT!TransferInv => PartsInv
  BY <1>1 DEF PartsInv
<1> QED BY <1>2, TypeCorrect, ControlSafe, StoresMissFetches, TransfersAreSafe, PTL

\* One tick of memory as the caches see it: nothing, the start of the transfer the
\* arbiter lets through, its progress, its answer, and the end of the response.
MemoryRests == arb = "rest" /\ arb' = "rest" /\ MemoryView' = MemoryView
TransferStarts ==
  /\ arb = "rest" /\ arb' # "rest" /\ arb' = Granted(imem, dmem)
  /\ LT!PortView' = "busy" /\ addressbuf' = linePort.addr
  /\ \/ /\ linePort.read /\ LT!OpView' = "read" /\ MemoryView' = MemoryView
     \/ /\ linePort.write /\ LT!OpView' = "write"
        /\ MemoryView' = [MemoryView EXCEPT ![linePort.addr.line] = linePort.line]
TransferGoesOn ==
  /\ arb # "rest" /\ arb' = arb /\ MemoryView' = MemoryView /\ addressbuf' = addressbuf
  /\ LT!PortView = "busy" /\ LT!OpView' = LT!OpView
  /\ \/ LT!PortView' = "busy"
     \/ /\ LT!PortView' = "done"
        /\ LT!OpView = "read" => linebuf' = MemoryView[addressbuf.line]
TransferEnds ==
  /\ arb # "rest" /\ arb' = "rest" /\ MemoryView' = MemoryView /\ LT!PortView = "done"

LEMMA MemoryTick ==
  ASSUME PartsInv, PartsInv', Next
  PROVE  MemoryRests \/ TransferStarts \/ TransferGoesOn \/ TransferEnds
<1> USE DEF PartsInv
<1>1. LT!Abstract!LineMemNext \/ UNCHANGED LT!Abstract!lmVars
  <2>1. LT!Next
    BY TransferTick, PortsStayTyped
  <2> QED BY <2>1, TransferAssumptions, LT!StepRefines
<1>2. MemoryView = LT!LinesView /\ MemoryView' = LT!LinesView'
  BY DEF MemoryView, LT!LinesView, write_o, LT!write_o, address_o, LT!address_o
<1>3. /\ arb' = IF resp_o THEN "rest"
                ELSE IF Granted(imem, dmem) = "none" THEN "rest" ELSE Granted(imem, dmem)
      /\ macro' = "IDLE" <=> arb' = "rest"
      /\ macro = "IDLE" <=> arb = "rest"
      /\ arb # "rest" => Granted(imem, dmem) = arb
  BY SharedEdge, WhoIsGranted DEF Next, ControlInv, RestIffIdle
<1>4. /\ LT!PortView = IF arb = "rest" THEN "idle" ELSE IF resp_o THEN "done" ELSE "busy"
      /\ LT!PortView' = IF arb' = "rest" THEN "idle" ELSE IF resp_o' THEN "done" ELSE "busy"
  BY <1>3 DEF LT!PortView, resp_o
<1>5. CASE arb = "rest" /\ arb' = "rest"
  <2>1. MemoryView' = MemoryView
    BY <1>1, <1>2, <1>4, <1>5
    DEF LT!Abstract!LineMemNext, LT!Abstract!AcceptRead, LT!Abstract!AcceptWrite,
        LT!Abstract!Transfer, LT!Abstract!Answer, LT!Abstract!Retire, LT!Abstract!lmVars
  <2> QED BY <1>5, <2>1 DEF MemoryRests
<1>6. CASE arb = "rest" /\ arb' # "rest"
  <2>1. AdaptorEdge(linePort.read, linePort.write, linePort.addr, linePort.line, rdata, resp)
    BY DEF Next
  <2>2. \/ IdleRead(linePort.read, linePort.addr)
        \/ IdleWrite(linePort.read, linePort.write, linePort.addr, linePort.line)
    BY <1>3, <1>6, <2>1 DEF AdaptorEdge, IdleNoOp, WaitRead, WaitWrite, ReadBeat, WriteBeat,
       Done, adaptorVars
  <2>3. CASE IdleRead(linePort.read, linePort.addr)
    <3>1. linePort.read /\ macro' = "WAITR" /\ addressbuf' = linePort.addr
      BY <2>3 DEF IdleRead
    <3>2. LT!OpView' = "read" /\ LT!PortView' = "busy"
      BY <3>1 DEF LT!OpView, LT!PortView, LT!read_o
    <3>3. MemoryView' = MemoryView
      BY <1>1, <1>2, <1>4, <1>6, <3>2
      DEF LT!Abstract!LineMemNext, LT!Abstract!AcceptRead, LT!Abstract!AcceptWrite,
          LT!Abstract!Transfer, LT!Abstract!Answer, LT!Abstract!Retire, LT!Abstract!lmVars
    <3> QED BY <1>3, <1>4, <1>6, <3>1, <3>2, <3>3 DEF TransferStarts
  <2>4. CASE IdleWrite(linePort.read, linePort.write, linePort.addr, linePort.line)
    <3>1. /\ linePort.write /\ macro = "IDLE" /\ macro' = "WAITW"
          /\ addressbuf' = linePort.addr /\ linebuf' = linePort.line
      BY <2>4 DEF IdleWrite
    <3>2. LT!OpView' = "write" /\ LT!PortView' = "busy" /\ LT!AddrView' = addressbuf'
      BY <3>1 DEF LT!OpView, LT!PortView, LT!read_o, LT!AddrView
    <3>3. MemoryView'[addressbuf'.line] = linebuf'
      <4>1. store' \in [Lines -> LineValue] /\ addressbuf'.line \in Lines
        BY DEF TypeOK, MemTypeOK, AdaptorTypeOK, Addr
      <4> QED BY <3>1, <4>1 DEF MemoryView, write_o, address_o
    <3>4. MemoryView' = [MemoryView EXCEPT ![addressbuf'.line] = MemoryView'[addressbuf'.line]]
      BY <1>1, <1>2, <1>4, <1>6, <3>2
      DEF LT!Abstract!LineMemNext, LT!Abstract!AcceptRead, LT!Abstract!AcceptWrite,
          LT!Abstract!Transfer, LT!Abstract!Answer, LT!Abstract!Retire, LT!Abstract!lmVars
    <3> QED BY <1>3, <1>4, <1>6, <3>1, <3>2, <3>3, <3>4 DEF TransferStarts
  <2> QED BY <2>2, <2>3, <2>4
<1>7. CASE arb # "rest" /\ ~resp_o
  <2>1. arb' = arb /\ LT!PortView = "busy" /\ LT!PortView' \in {"busy", "done"}
    BY <1>3, <1>4, <1>7 DEF ControlInv, ControlTypes, ArbTypeOK
  <2>2. LT!AddrView = addressbuf /\ LT!AddrView' = addressbuf'
    BY <1>3, <1>7, <2>1 DEF LT!AddrView
  <2>3. /\ MemoryView' = MemoryView /\ addressbuf' = addressbuf /\ LT!OpView' = LT!OpView
        /\ LT!PortView' = "done" /\ LT!OpView = "read" => linebuf' = MemoryView[addressbuf.line]
    BY <1>1, <1>2, <2>1, <2>2
    DEF LT!Abstract!LineMemNext, LT!Abstract!AcceptRead, LT!Abstract!AcceptWrite,
        LT!Abstract!Transfer, LT!Abstract!Answer, LT!Abstract!Retire, LT!Abstract!lmVars
  <2> QED BY <1>7, <2>1, <2>3 DEF TransferGoesOn
<1>8. CASE arb # "rest" /\ resp_o
  <2>1. arb' = "rest" /\ LT!PortView = "done" /\ LT!PortView' = "idle"
    BY <1>3, <1>4, <1>8
  <2>2. MemoryView' = MemoryView
    BY <1>1, <1>2, <2>1
    DEF LT!Abstract!LineMemNext, LT!Abstract!AcceptRead, LT!Abstract!AcceptWrite,
        LT!Abstract!Transfer, LT!Abstract!Answer, LT!Abstract!Retire, LT!Abstract!lmVars
  <2> QED BY <1>8, <2>1, <2>2 DEF TransferEnds
<1> QED BY <1>5, <1>6, <1>7, <1>8

\* Who is answered, and what the port of either cache shows.
LEMMA PortsShow ==
  ASSUME PartsInv
  PROVE  /\ (PortOf("dmem") = "done") = d_resp /\ (PortOf("imem") = "done") = i_resp
         /\ arb = "dmem" => linePort = dmem /\ addressbuf = DC!pmem_address(access)
         /\ arb = "imem" => linePort = imem /\ addressbuf = fetch.addr
         /\ LT!PortView \in {"idle", "busy", "done"} /\ linebuf \in LineValue
<1> USE DEF PartsInv
<1>1. /\ arb # "rest" => Granted(imem, dmem) = arb
      /\ i_resp <=> resp_o /\ arb = "imem"
      /\ d_resp <=> resp_o /\ arb = "dmem"
  BY WhoIsGranted
<1>2. arb # "rest" => macro # "IDLE"
  BY DEF ControlInv, RestIffIdle
<1>3. (LT!PortView = "done" <=> resp_o) /\ LT!PortView \in {"idle", "busy", "done"}
  BY DEF LT!PortView, resp_o
<1>4. (PortOf("dmem") = "done") = d_resp /\ (PortOf("imem") = "done") = i_resp
  <2>1. i_resp \in BOOLEAN /\ d_resp \in BOOLEAN
    BY DEF i_resp, d_resp, imem_resp, dmem_resp, resp_o
  <2>2. (PortOf("dmem") = "done" <=> d_resp) /\ (PortOf("imem") = "done" <=> i_resp)
    BY <1>1, <1>3 DEF PortOf
  <2> QED BY <2>1, <2>2
<1>5. arb # "rest" => addressbuf = linePort.addr
  BY <1>2 DEF LT!TransferInv, LT!ForTheClient, portClient
<1>6. arb = "dmem" => linePort = dmem
  BY <1>1 DEF linePort, pmem
<1>7. arb = "imem" => linePort = imem /\ i_state = "read_mem"
  BY <1>1 DEF linePort, pmem, ControlInv, OwnerWaits
<1>8. linebuf \in LineValue
  BY DEF TypeOK, AdaptorTypeOK, LineValue
<1> QED BY <1>3, <1>4, <1>5, <1>6, <1>7, <1>8 DEF imem, dmem, IC!pmem_address, IC!pmem_read

\* The data cache, the processor port and the memory it sees move as in CachedMemory.
LEMMA DataTick ==
  ASSUME PartsInv, PartsInv', Next
  PROVE  DM!Next
<1> USE DEF PartsInv
<1>1. DM!CpuEdge
  <2>1. access' \in Accesses
    BY DEF TypeOK
  <2>2. DC!Requesting(access) /\ ~DC!mem_resp(access) => access' = access
    BY ProcessorWaits DEF Next
  <2> QED BY <2>1, <2>2, SameDataCache DEF DM!CpuEdge
<1>2. DM!CacheEdge(access, PortOf("dmem") = "done", linebuf)
  BY PortsShow, SameDataCache DEF Next
<1>3. DM!MemoryEdge
  <2>p. /\ linebuf' \in LineValue /\ LT!PortView' \in {"idle", "busy", "done"}
        /\ arb \in {"rest", "imem", "dmem"} /\ arb' \in {"rest", "imem", "dmem"}
        /\ d_state \in {"check_cache", "write_mem", "read_mem"}
        /\ DM!Memory!LineValue = LineValue /\ DM!Memory!AnyAddr = AnyAddr
    BY DEF TypeOK, ArbTypeOK, AdaptorTypeOK, LineValue, ControlInv, ControlTypes,
       LT!PortView, DM!Memory!LineValue, DM!Memory!Beats, Beats, DM!Memory!AnyAddr, AnyAddr,
       DM!Memory!Addr, Addr
  <2>1. CASE arb # "dmem" /\ arb' # "dmem"
    <3>1. MemoryView' = MemoryView
      <4>1. CASE TransferStarts
        <5>1. arb' = "imem" /\ linePort = imem
          BY <2>1, <2>p, <4>1 DEF TransferStarts, linePort, pmem
        <5>2. ~linePort.write
          BY <5>1 DEF imem, IC!pmem_write, ControlInv, FetchesOnly
        <5> QED BY <4>1, <5>2 DEF TransferStarts
      <4> QED BY <4>1, MemoryTick DEF MemoryRests, TransferGoesOn, TransferEnds
    <3> QED BY <2>1, <2>p, <3>1 DEF DM!MemoryEdge, DM!Deferred, PortOf, OpOf, AddrOf
  <2>2. CASE arb # "dmem" /\ arb' = "dmem"
    <3>1. TransferStarts
      BY <2>2, MemoryTick DEF MemoryRests, TransferGoesOn, TransferEnds
    <3>2. linePort = dmem /\ d_state # "check_cache"
      BY <2>2, <3>1, WhoIsGranted DEF TransferStarts, linePort, pmem
    <3>3. CASE d_state = "read_mem"
      <4>1. linePort.read /\ ~linePort.write /\ linePort.addr = DM!pmem_address(access)
        BY <3>2, <3>3, SameDataCache DEF dmem, DC!pmem_read, DC!pmem_write
      <4>2. DM!Memory!AcceptRead(DM!pmem_address(access))
        BY <2>2, <2>p, <3>1, <4>1 DEF TransferStarts, DM!Memory!AcceptRead, PortOf, OpOf, AddrOf
      <4> QED BY <2>p, <3>3, <4>2 DEF DM!MemoryEdge, DM!Started, DM!pmem_read
    <3>4. CASE d_state = "write_mem"
      <4>1. /\ linePort.write /\ ~linePort.read /\ linePort.addr = DM!pmem_address(access)
            /\ linePort.line = DM!pmem_wdata(access)
        BY <3>2, <3>4, SameDataCache DEF dmem, DC!pmem_read, DC!pmem_write
      <4>2. DM!Memory!AcceptWrite(DM!pmem_address(access), DM!pmem_wdata(access))
        BY <2>2, <2>p, <3>1, <4>1 DEF TransferStarts, DM!Memory!AcceptWrite, PortOf, OpOf, AddrOf
      <4> QED BY <2>p, <3>4, <4>2 DEF DM!MemoryEdge, DM!Started, DM!pmem_write
    <3> QED BY <2>p, <3>2, <3>3, <3>4
  <2>3. CASE arb = "dmem" /\ TransferGoesOn
    <3>1. CASE LT!PortView' = "busy"
      <4>1. DM!Memory!Transfer
        BY <2>3, <2>p, <3>1 DEF TransferGoesOn, DM!Memory!Transfer, PortOf, OpOf, AddrOf
      <4> QED BY <2>p, <4>1 DEF DM!MemoryEdge
    <3>2. CASE LT!PortView' = "done"
      <4>1. DM!Memory!Answer
        BY <2>3, <2>p, <3>2 DEF TransferGoesOn, DM!Memory!Answer, PortOf, OpOf, AddrOf
      <4> QED BY <2>p, <4>1 DEF DM!MemoryEdge, DM!Finished
    <3> QED BY <2>3, <3>1, <3>2 DEF TransferGoesOn
  <2>4. CASE arb = "dmem" /\ TransferEnds
    <3>1. DM!Memory!Retire
      BY <2>4, <2>p DEF TransferEnds, DM!Memory!Retire, PortOf, OpOf, AddrOf
    <3> QED BY <2>p, <3>1 DEF DM!MemoryEdge, DM!Finished
  <2> QED BY <2>1, <2>2, <2>3, <2>4, MemoryTick DEF MemoryRests, TransferStarts
<1> QED BY <1>1, <1>2, <1>3 DEF DM!Next

\* Whatever the data cache does, the lines that are fetched from do not change.
LEMMA FetchedLinesStay ==
  ASSUME PartsInv, PartsInv', Next
  PROVE  FetchMemory' = FetchMemory
<1>1. \A l \in FetchLines \cap Lines : MemoryView'[l] = MemoryView[l]
  <2>1. CASE TransferStarts /\ linePort.write /\ ~linePort.read
    <3>1. linePort = dmem /\ d_state = "write_mem"
      <4>1. Granted(imem, dmem) \in {"imem", "dmem"}
        BY <2>1 DEF TransferStarts, PartsInv, TypeOK, ArbTypeOK
      <4>2. ~imem.write
        BY DEF imem, IC!pmem_write, PartsInv, ControlInv, FetchesOnly
      <4>3. linePort = dmem
        BY <2>1, <4>1, <4>2 DEF linePort, pmem
      <4> QED BY <2>1, <4>3 DEF dmem, DC!pmem_write
    <3>2. linePort.addr.line = DC!VictimLine(access)
      BY <3>1 DEF dmem, DC!pmem_address, DC!pmem_read
    <3>3. linePort.addr.line \notin FetchLines
      BY <3>1, <3>2 DEF PartsInv, OnlyStoredDirty
    <3>4. MemoryView' = [MemoryView EXCEPT ![linePort.addr.line] = linePort.line]
      BY <2>1 DEF TransferStarts
    <3>5. MemoryView \in [Lines -> LineValue]
      BY DEF PartsInv, TypeOK, MemTypeOK, AdaptorTypeOK, MemoryView, LineValue
    <3> QED BY <3>3, <3>4, <3>5
  <2>2. ~(linePort.read /\ linePort.write)
    BY DEF PartsInv, LT!TypeOK, LT!Requests, portClient
  <2> QED BY <2>1, <2>2, MemoryTick DEF MemoryRests, TransferStarts, TransferGoesOn, TransferEnds
<1> QED BY <1>1 DEF FetchMemory, FetchLines

\* The instruction cache, too, sees the memory of CachedMemory.
LEMMA FetchTick ==
  ASSUME PartsInv, PartsInv', Next
  PROVE  IM!Next
<1> USE DEF PartsInv
<1>1. IM!CpuEdge
  <2>1. fetch' \in Fetches
    BY DEF TypeOK
  <2>2. ~IC!mem_resp(fetch) => fetch' = fetch
    BY DEF Next, ProcessorEdge, pipeline_stall
  <2> QED BY <2>1, <2>2, SameFetchCache DEF IM!CpuEdge
<1>2. IM!CacheEdge(fetch, PortOf("imem") = "done", linebuf)
  BY PortsShow, SameFetchCache DEF Next
<1>3. IM!MemoryEdge
  <2>p. /\ linebuf' \in LineValue /\ LT!PortView' \in {"idle", "busy", "done"}
        /\ arb \in {"rest", "imem", "dmem"} /\ arb' \in {"rest", "imem", "dmem"}
        /\ IM!Memory!LineValue = LineValue /\ IM!Memory!AnyAddr = AnyAddr
    BY DEF TypeOK, ArbTypeOK, AdaptorTypeOK, LineValue,
       LT!PortView, IM!Memory!LineValue, IM!Memory!Beats, Beats, IM!Memory!AnyAddr, AnyAddr,
       IM!Memory!Addr, Addr
  <2>m. FetchMemory' = FetchMemory
    BY FetchedLinesStay
  <2>1. CASE arb # "imem" /\ arb' # "imem"
    BY <2>1, <2>p, <2>m DEF IM!MemoryEdge, IM!Deferred, PortOf, OpOf, AddrOf
  <2>2. CASE arb # "imem" /\ arb' = "imem"
    <3>1. TransferStarts
      BY <2>2, MemoryTick DEF MemoryRests, TransferGoesOn, TransferEnds
    <3>2. linePort = imem /\ i_state = "read_mem"
      BY <2>2, <3>1, WhoIsGranted DEF TransferStarts, linePort, pmem
    <3>3. linePort.read /\ ~linePort.write /\ linePort.addr = IM!pmem_address(fetch)
      BY <3>2, SameFetchCache DEF imem, IC!pmem_read, IC!pmem_write
    <3>4. IM!Memory!AcceptRead(IM!pmem_address(fetch))
      BY <2>2, <2>p, <2>m, <3>1, <3>3
      DEF TransferStarts, IM!Memory!AcceptRead, PortOf, OpOf, AddrOf
    <3> QED BY <2>p, <3>2, <3>4 DEF IM!MemoryEdge, IM!Started, IM!pmem_read
  <2>3. CASE arb = "imem" /\ TransferGoesOn
    <3>1. CASE LT!PortView' = "busy"
      <4>1. IM!Memory!Transfer
        BY <2>3, <2>p, <2>m, <3>1 DEF TransferGoesOn, IM!Memory!Transfer, PortOf, OpOf, AddrOf
      <4> QED BY <2>p, <4>1 DEF IM!MemoryEdge
    <3>2. CASE LT!PortView' = "done"
      <4>1. FetchMemory[addressbuf.line] = MemoryView[addressbuf.line]
        <5>1. addressbuf = fetch.addr /\ addressbuf.line \in Lines
          BY <2>3, PortsShow DEF TypeOK, AdaptorTypeOK, Addr
        <5> QED BY <5>1 DEF FetchMemory, FetchLines, TypeOK
      <4>2. IM!Memory!Answer
        BY <2>3, <2>p, <2>m, <3>2, <4>1 DEF TransferGoesOn, IM!Memory!Answer, PortOf, OpOf, AddrOf
      <4> QED BY <2>p, <4>2 DEF IM!MemoryEdge, IM!Finished
    <3> QED BY <2>3, <3>1, <3>2 DEF TransferGoesOn
  <2>4. CASE arb = "imem" /\ TransferEnds
    <3>1. IM!Memory!Retire
      BY <2>4, <2>p, <2>m DEF TransferEnds, IM!Memory!Retire, PortOf, OpOf, AddrOf
    <3> QED BY <2>p, <3>1 DEF IM!MemoryEdge, IM!Finished
  <2> QED BY <2>1, <2>2, <2>3, <2>4, MemoryTick DEF MemoryRests, TransferStarts
<1> QED BY <1>1, <1>2, <1>3 DEF IM!Next

LEMMA PartsStutter ==
  UNCHANGED vars => UNCHANGED DM!vars /\ UNCHANGED IM!vars
<1> SUFFICES ASSUME UNCHANGED vars PROVE UNCHANGED DM!vars /\ UNCHANGED IM!vars
  OBVIOUS
<1>1. UNCHANGED <<MemoryView, FetchMemory, LT!PortView, LT!OpView>>
  BY DEF vars, adaptorVars, memVars, MemoryView, write_o, address_o, FetchMemory, FetchLines,
     LT!PortView, LT!OpView, LT!read_o
<1>2. \A c : PortOf(c)' = PortOf(c) /\ OpOf(c)' = OpOf(c) /\ AddrOf(c)' = AddrOf(c)
  BY <1>1 DEF vars, adaptorVars, PortOf, OpOf, AddrOf
<1> QED BY <1>1, <1>2 DEF vars, icacheVars, dcacheVars, adaptorVars, DM!vars, DM!cacheVars,
        DM!memoryVars, IM!vars, IM!cacheVars, IM!memoryVars

\* In the whole system either cache is one of CachedMemory: what the other one, the
\* arbiter, the adaptor and the bursts do is memory to it.
THEOREM DataSideIsCachedMemory == Spec => DM!Spec
<1>1. Init => DM!Init
  <2> SUFFICES ASSUME Init PROVE DM!Init
    OBVIOUS
  <2>1. TypeOK /\ DC!CacheInit /\ arb = "rest"
    BY InitTyped DEF Init, ArbInit
  <2>2. MemoryView \in [Lines -> LineValue] /\ linebuf \in LineValue
    BY <2>1 DEF TypeOK, MemTypeOK, AdaptorTypeOK, MemoryView, LineValue
  <2> QED BY <2>1, <2>2, SameDataCache, Vocabulary DEF TypeOK, DM!Init, PortOf, OpOf, AddrOf
<1>2. PartsInv /\ PartsInv' /\ [Next]_vars => [DM!Next]_DM!vars
  BY DataTick, PartsStutter
<1> QED BY <1>1, <1>2, PartsSafe, PTL DEF Spec, DM!Spec

\* The instruction cache as well, of the lines that are fetched from: the data cache's
\* write-backs change the other lines only.
THEOREM FetchSideIsCachedMemory == Spec => IM!Spec
<1>1. Init => IM!Init
  <2> SUFFICES ASSUME Init PROVE IM!Init
    OBVIOUS
  <2>1. TypeOK /\ IC!CacheInit /\ arb = "rest"
    BY InitTyped DEF Init, ArbInit
  <2>2. MemoryView \in [Lines -> LineValue] /\ linebuf \in LineValue
    BY <2>1 DEF TypeOK, MemTypeOK, AdaptorTypeOK, MemoryView, LineValue
  <2>3. FetchMemory \in [Lines -> LineValue]
    BY <2>2, BlankIsLine DEF FetchMemory
  <2> QED BY <2>1, <2>2, <2>3, SameFetchCache, Vocabulary DEF TypeOK, IM!Init, PortOf, OpOf, AddrOf
<1>2. PartsInv /\ PartsInv' /\ [Next]_vars => [IM!Next]_IM!vars
  BY FetchTick, PartsStutter
<1> QED BY <1>1, <1>2, PartsSafe, PTL DEF Spec, IM!Spec

\* Both caches keep the invariant of CachedMemory.
THEOREM CachesAreSafe == Spec => [](DM!CacheInv /\ IM!CacheInv)
<1>1. DM!Spec => []DM!CacheInv
  BY DataAssumptions, DM!CacheSafe
<1>2. IM!Spec => []IM!CacheInv
  BY FetchAssumptions, IM!CacheSafe
<1> QED BY <1>1, <1>2, DataSideIsCachedMemory, FetchSideIsCachedMemory, PTL

\* arbiter.sv, mp4.sv: a response reaches the cache that waits for this operation on
\* this line, and no other.
THEOREM ResponsesReachTheOwner == Spec => []ResponseToOwner
<1>1. PartsInv /\ DM!CacheInv /\ IM!CacheInv => ResponseToOwner
  <2> SUFFICES ASSUME PartsInv, DM!CacheInv, IM!CacheInv PROVE ResponseToOwner
    OBVIOUS
  <2>1. /\ i_resp <=> resp_o /\ arb = "imem"
        /\ d_resp <=> resp_o /\ arb = "dmem"
        /\ resp_o => arb \in {"imem", "dmem"}
    BY WhoIsGranted DEF PartsInv, ControlInv, RestIffIdle, ControlTypes, ArbTypeOK, resp_o
  <2>2. resp_o => LT!PortView = "done" /\ LT!OpView = kind
    BY DEF resp_o, LT!PortView, LT!OpView
  <2>3. i_resp => imem.read /\ kind = "read" /\ address_o = imem.addr
    <3> SUFFICES ASSUME i_resp PROVE imem.read /\ kind = "read" /\ address_o = imem.addr
      OBVIOUS
    <3>1. /\ i_state = IF kind = "read" THEN "read_mem" ELSE "write_mem"
          /\ addressbuf = IC!pmem_address(fetch)
      BY <2>1, <2>2, SameFetchCache DEF IM!CacheInv, IM!PortFollows, PortOf, OpOf, AddrOf
    <3>2. i_state # "write_mem"
      BY DEF PartsInv, ControlInv, FetchesOnly
    <3> QED BY <3>1, <3>2 DEF imem, IC!pmem_read, address_o
  <2>4. d_resp => /\ dmem.read \/ dmem.write
                  /\ kind = IF dmem.read THEN "read" ELSE "write"
                  /\ address_o = dmem.addr
    <3> SUFFICES ASSUME d_resp
                 PROVE  /\ dmem.read \/ dmem.write
                        /\ kind = IF dmem.read THEN "read" ELSE "write"
                        /\ address_o = dmem.addr
      OBVIOUS
    <3>1. /\ d_state = IF kind = "read" THEN "read_mem" ELSE "write_mem"
          /\ addressbuf = DC!pmem_address(access)
      BY <2>1, <2>2, SameDataCache DEF DM!CacheInv, DM!PortFollows, PortOf, OpOf, AddrOf
    <3>2. kind \in {"read", "write"}
      BY DEF PartsInv, TypeOK, MemTypeOK
    <3> QED BY <3>1, <3>2 DEF dmem, DC!pmem_read, DC!pmem_write, address_o
  <2> QED BY <2>1, <2>3, <2>4 DEF ResponseToOwner
<1> QED BY <1>1, PartsSafe, CachesAreSafe, PTL

\* The processor is never given an instruction other than the one in memory, however
\* the loads and stores go on meanwhile.
THEOREM FetchesAreIntact == Spec => []FetchIntact
<1>1. PartsInv /\ IM!CacheInv => FetchIntact
  <2> SUFFICES ASSUME PartsInv, IM!CacheInv, IC!mem_resp(fetch)
               PROVE  IC!mem_rdata(fetch) = store[fetch.addr.line][fetch.addr.off]
    BY DEF FetchIntact
  <2> DEFINE l == fetch.addr.line
             w == IF IC!Hit(1, fetch) THEN 1 ELSE 0
  <2>1. l \in Lines /\ l \in FetchLines /\ l.index \in Indices /\ l = [tag |-> l.tag, index |-> l.index]
    <3>1. fetch \in Fetches /\ fetch \in IC!CpuRequest
      BY PortAssumption DEF PartsInv, TypeOK
    <3>2. l \in Lines
      BY <3>1, Vocabulary DEF IC!CpuRequest, Addr
    <3>3. l.index \in Indices /\ l = [tag |-> l.tag, index |-> l.index]
      BY <3>2, LineAddresses
    <3> QED BY <3>1, <3>2, <3>3 DEF FetchLines
  <2>2. w \in {0, 1} /\ i_state = "check_cache" /\ IC!Hit(w, fetch)
    <3>1. i_state = "check_cache" /\ \E u \in IC!Ways : IC!Hit(u, fetch)
      BY Zenon DEF IC!mem_resp, IC!AnyHit
    <3>2. IC!Ways = {0, 1}
      BY DEF IC!Ways
    <3> QED BY Zenon, <3>1, <3>2
  <2>3. i_valid[w][l.index] /\ i_tag[w][l.index] = l.tag /\ ~i_dirty[w][l.index]
    <3>1. ~i_dirty[w][l.index]
      BY <2>1, <2>2 DEF PartsInv, ControlInv, FetchesOnly
    <3> QED BY <2>2, <3>1 DEF IC!Hit, IC!Index, IC!Tag
  <2>4. i_data[w][l.index] = FetchMemory[IM!Line(w, l.index)]
    BY <2>1, <2>2, <2>3 DEF IM!CacheInv, IM!CleanLineIsMemory, IM!Refilling, IM!Evicting, IM!Ways
  <2>5. IM!Line(w, l.index) = l
    BY <2>1, <2>3 DEF IM!Line
  <2>6. FetchMemory[l] = store[l]
    <3>1. CASE write_o
      <4>1. arb # "rest" /\ addressbuf = linePort.addr /\ linePort.write
        BY <3>1 DEF write_o, PartsInv, ControlInv, RestIffIdle, LT!TransferInv, LT!ForTheClient,
           LT!write_o, portClient
      <4>2. linePort = dmem
        <5>1. arb = "imem" => linePort = imem
          BY PortsShow
        <5>2. ~imem.write
          BY DEF imem, IC!pmem_write, PartsInv, ControlInv, FetchesOnly
        <5>3. arb = "dmem"
          BY <4>1, <5>1, <5>2 DEF PartsInv, TypeOK, ArbTypeOK
        <5> QED BY <5>3, PortsShow
      <4>3. d_state = "write_mem" /\ addressbuf.line = DC!VictimLine(access)
        BY <4>1, <4>2 DEF dmem, DC!pmem_write, DC!pmem_address, DC!pmem_read
      <4>4. addressbuf.line # l
        BY <2>1, <4>3 DEF PartsInv, OnlyStoredDirty
      <4> QED BY <2>1, <3>1, <4>4 DEF FetchMemory, MemoryView, address_o, PartsInv, TypeOK, MemTypeOK
    <3>2. CASE ~write_o
      BY <2>1, <3>2 DEF FetchMemory, MemoryView
    <3> QED BY <3>1, <3>2
  <2> QED BY <2>4, <2>5, <2>6 DEF IC!mem_rdata, IC!data_out, IC!Index
<1> QED BY <1>1, PartsSafe, CachesAreSafe, PTL

\* The data port of mp4.sv, with all that is behind it, is an atomic memory.
LEMMA SameDataPort ==
  TypeOK => /\ DM!View = DataView /\ DM!mem_resp(access) = DC!mem_resp(access)
            /\ DM!mem_rdata(access) = DC!mem_rdata(access)
BY SameDataCache DEF DM!View, DM!Cached, DM!Refilling, DM!Victim, DM!Index, DataView, Held,
   DC!Index
THEOREM DataPortAtomic == Spec => DataPortIsAtomic
<1>1. DM!Spec => DM!Atomic!AtomicInit /\ [][DM!Atomic!AtomicNext]_(DM!Atomic!atomicVars)
  BY DataAssumptions, DM!CacheRefinesAtomicMemory
<1>2. TypeOK /\ DM!Atomic!AtomicInit => Atomic!AtomicInit
  BY SameDataPort DEF DM!Atomic!AtomicInit, Atomic!AtomicInit, DM!Atomic!LineValue,
     Atomic!LineValue, DM!Atomic!Beats, Atomic!Beats, DM!Atomic!Answers, Atomic!Answers,
     DM!Atomic!Asking, Atomic!Asking
<1>3. TypeOK /\ TypeOK' /\ [DM!Atomic!AtomicNext]_(DM!Atomic!atomicVars) =>
        [Atomic!AtomicNext]_(Atomic!atomicVars)
  <2>1. (TypeOK => /\ DM!View = DataView /\ DM!mem_resp(access) = DC!mem_resp(access)
                   /\ DM!mem_rdata(access) = DC!mem_rdata(access))'
    BY SameDataPort, PTL
  <2> SUFFICES ASSUME TypeOK, TypeOK', [DM!Atomic!AtomicNext]_(DM!Atomic!atomicVars)
               PROVE  [Atomic!AtomicNext]_(Atomic!atomicVars)
    OBVIOUS
  <2>2. /\ DM!View = DataView /\ DM!mem_resp(access) = DC!mem_resp(access)
        /\ DM!mem_rdata(access) = DC!mem_rdata(access)
        /\ DM!View' = DataView' /\ DM!mem_resp(access)' = DC!mem_resp(access)'
        /\ DM!mem_rdata(access)' = DC!mem_rdata(access)'
    BY <2>1, SameDataPort
  <2>3. CASE UNCHANGED DM!Atomic!atomicVars
    BY <2>2, <2>3 DEF DM!Atomic!atomicVars, Atomic!atomicVars
  <2>4. CASE DM!Atomic!AtomicNext
    BY <2>2, <2>4 DEF DM!Atomic!AtomicNext, Atomic!AtomicNext, DM!Atomic!Waiting, Atomic!Waiting,
       DM!Atomic!Served, Atomic!Served, DM!Atomic!Unused, Atomic!Unused, DM!Atomic!Stored,
       Atomic!Stored, DM!Atomic!Beats, Atomic!Beats, DM!Atomic!Answers, Atomic!Answers,
       DM!Atomic!Asking, Atomic!Asking
  <2> QED BY <2>3, <2>4
<1>4. Init => TypeOK
  BY InitTyped
<1> QED BY <1>1, <1>2, <1>3, <1>4, TypeCorrect, DataSideIsCachedMemory, PTL DEF Spec, DataPortIsAtomic
-----------------------------------------------------------------------------
(* How long the pipeline stalls.  PipelineMovesOn, that it is never stalled for *)
(* good, is a liveness property; what carries it is a number of edges, bounded  *)
(* by the constants, that every edge of a stall brings down.                    *)
FetchMiss == i_state = "check_cache" /\ ~IC!AnyHit(fetch)
DataMiss == d_state = "check_cache" /\ DC!Requesting(access) /\ ~DC!AnyHit(access)

\* The transfers either cache still needs for what the processor waits for: one for
\* a fetch, and for a load or a store one more if its victim is dirty.
FetchTransfers == IF i_state = "read_mem" \/ FetchMiss THEN 1 ELSE 0
DataTransfers ==
  IF d_state = "write_mem" \/ (DataMiss /\ DC!DirtyVictim(access)) THEN 2
  ELSE IF d_state = "read_mem" \/ DataMiss THEN 1 ELSE 0

\* A transfer takes the edges LineTransfer counts and one to leave the response.
TransferEdges(d) == BURST_LEN + d + 3
EdgesSpent(d) == TransferEdges(d) - 1 - LT!EdgesLeft(d)
StallLeft(d) ==
  (FetchTransfers + DataTransfers) * TransferEdges(d) - EdgesSpent(d)
    + IF FetchMiss \/ DataMiss THEN 1 ELSE 0

\* A fetch that is waited for: its miss is seen at the next edge, and it hits at the
\* edge after its response, and goes on hitting while the load or store is waited for.
LEMMA WaitingFetch ==
  ASSUME PartsInv, Next, pipeline_stall
  PROVE  /\ ~FetchMiss'
         /\ i_state' = "read_mem" <=> FetchMiss \/ (i_state = "read_mem" /\ ~i_resp)
<1> USE DEF PartsInv
<1>1. fetch' = fetch /\ IC!CacheEdge(fetch, i_resp, line_o)
  BY DEF Next, ProcessorEdge
<1>t. /\ fetch.read = TRUE /\ fetch.write = FALSE /\ IC!Requesting(fetch)
      /\ IC!Index(fetch) \in Indices /\ IC!lru_out(fetch) \in {0, 1}
      /\ i_state \in {"check_cache", "read_mem"}
  BY PortTypes DEF ControlInv, ControlTypes, FetchesOnly, IC!Requesting
<1>a. /\ i_tag \in [{0, 1} -> [Indices -> Tags]] /\ i_valid \in [{0, 1} -> [Indices -> BOOLEAN]]
  BY DEF TypeOK, IC!CacheTypeOK, IC!Ways
<1>2. CASE IC!ReadHit(fetch)
  BY <1>1, <1>2 DEF IC!ReadHit, IC!mem_resp, FetchMiss, IC!AnyHit, IC!Hit, IC!Index, IC!Tag
<1>3. CASE IC!Miss(fetch)
  BY <1>1, <1>3, <1>t DEF IC!Miss, FetchMiss, ControlInv, FetchesOnly, IC!DirtyVictim
<1>4. CASE IC!ReadMem(fetch, i_resp, line_o)
  <2> DEFINE w == IC!lru_out(fetch)
             i == IC!Index(fetch)
  <2>1. i_tag'[w][i] = IC!Tag(fetch) /\ i_valid'[w][i] = TRUE
    BY <1>4, <1>a, <1>t DEF IC!ReadMem, IC!Put
  <2>2. IC!AnyHit(fetch)'
    BY <1>1, <1>t, <2>1 DEF IC!AnyHit, IC!Hit, IC!Ways, IC!Index, IC!Tag
  <2> QED BY <1>4, <2>2 DEF IC!ReadMem, FetchMiss
<1>5. ~IC!NoRequest(fetch) /\ ~IC!WriteHit(fetch) /\ ~IC!WriteMem(fetch, i_resp)
  BY <1>t DEF IC!NoRequest, IC!WriteHit, IC!WriteMem
<1> QED BY <1>1, <1>2, <1>3, <1>4, <1>5 DEF IC!CacheEdge

\* The same of the load or store: a dirty victim is written back first.
LEMMA WaitingAccess ==
  ASSUME PartsInv, Next, pipeline_stall
  PROVE  /\ ~DataMiss'
         /\ d_state' = "write_mem" <=>
              \/ DataMiss /\ DC!DirtyVictim(access)
              \/ d_state = "write_mem" /\ ~d_resp
         /\ d_state' = "read_mem" <=>
              \/ DataMiss /\ ~DC!DirtyVictim(access)
              \/ d_state = "write_mem" /\ d_resp
              \/ d_state = "read_mem" /\ ~d_resp
<1> USE DEF PartsInv
<1>1. access' = access /\ DC!CacheEdge(access, d_resp, line_o)
  BY DEF Next, ProcessorEdge
<1>t. /\ d_state \in {"check_cache", "write_mem", "read_mem"}
      /\ DC!Index(access) \in Indices /\ DC!lru_out(access) \in {0, 1}
      /\ d_tag \in [{0, 1} -> [Indices -> Tags]] /\ d_valid \in [{0, 1} -> [Indices -> BOOLEAN]]
  <2>1. access \in DC!CpuRequest /\ access.addr \in DC!Addr
    BY PortAssumption DEF TypeOK, DC!CpuRequest
  <2>2. DC!Index(access) \in Indices
    BY <2>1, LineAddresses DEF DC!Addr, DC!Index
  <2> QED BY <2>2 DEF TypeOK, DC!CacheTypeOK, DC!Ways, DC!lru_out
<1>2. CASE DC!NoRequest(access)
  BY <1>1, <1>2 DEF DC!NoRequest, DC!cacheVars, DataMiss, DC!Requesting
<1>3. CASE DC!ReadHit(access)
  BY <1>1, <1>3 DEF DC!ReadHit, DC!mem_resp, DataMiss, DC!AnyHit, DC!Hit, DC!Index, DC!Tag
<1>4. CASE DC!WriteHit(access)
  BY <1>1, <1>4 DEF DC!WriteHit, DC!mem_resp, DataMiss, DC!AnyHit, DC!Hit, DC!Index, DC!Tag
<1>5. CASE DC!Miss(access)
  BY <1>1, <1>5 DEF DC!Miss, DataMiss
<1>6. CASE DC!WriteMem(access, d_resp)
  BY <1>1, <1>6 DEF DC!WriteMem, DataMiss
<1>7. CASE DC!ReadMem(access, d_resp, line_o)
  <2> DEFINE w == DC!lru_out(access)
             i == DC!Index(access)
  <2>1. d_tag'[w][i] = DC!Tag(access) /\ d_valid'[w][i] = TRUE
    BY <1>7, <1>t DEF DC!ReadMem, DC!Put
  <2>2. DC!AnyHit(access)'
    BY <1>1, <1>t, <2>1 DEF DC!AnyHit, DC!Hit, DC!Ways, DC!Index, DC!Tag
  <2> QED BY <1>7, <2>2 DEF DC!ReadMem, DataMiss
<1> QED BY <1>1, <1>2, <1>3, <1>4, <1>5, <1>6, <1>7 DEF DC!CacheEdge

\* The pipeline is stalled exactly while a transfer is owed, and nothing is on the
\* port of the adaptor otherwise.
LEMMA StallOwesTransfer ==
  ASSUME PartsInv
  PROVE  /\ pipeline_stall <=> FetchTransfers + DataTransfers > 0
         /\ FetchTransfers \in 0 .. 1 /\ DataTransfers \in 0 .. 2
         /\ ~pipeline_stall => arb = "rest"
         /\ FetchMiss \/ DataMiss => pipeline_stall
<1> USE DEF PartsInv, ControlInv, ControlTypes
<1>1. FetchTransfers \in 0 .. 1 /\ DataTransfers \in 0 .. 2
  BY DEF FetchTransfers, DataTransfers
<1>2. ~IC!mem_resp(fetch) <=> FetchTransfers > 0
  <2>1. IC!Requesting(fetch)
    BY PortTypes DEF IC!Requesting
  <2>2. i_state = "check_cache" \/ i_state = "read_mem"
    BY DEF FetchesOnly
  <2>3. ~IC!mem_resp(fetch) <=> i_state = "read_mem" \/ FetchMiss
    BY ONLY <2>1, <2>2 DEF IC!mem_resp, FetchMiss
  <2> QED BY ONLY <2>3 DEF FetchTransfers
<1>3. ~DC!mem_resp(access) /\ (access.read \/ access.write) <=> DataTransfers > 0
  <2>1. (access.read \/ access.write) <=> DC!Requesting(access)
    BY PortTypes, PortAssumption DEF DC!Requesting
  <2> QED BY <2>1 DEF DC!mem_resp, DataTransfers, DataMiss, OwnerWaits
<1>4. arb # "rest" => pipeline_stall
  BY <1>2, <1>3 DEF OwnerWaits, ArbTypeOK, pipeline_stall, FetchTransfers, DataTransfers
<1>5. pipeline_stall <=> FetchTransfers > 0 \/ DataTransfers > 0
  BY <1>2, <1>3 DEF pipeline_stall
<1>6. FetchMiss => FetchTransfers > 0
  BY DEF FetchTransfers
<1>7. DataMiss => DataTransfers > 0
  BY DEF DataTransfers
<1> QED BY <1>1, <1>4, <1>5, <1>6, <1>7

\* Three transfers and the edge that finds the miss are the most a stall can take.
LEMMA StallBounded ==
  ASSUME NEW d, LT!LongestDelay(d), PartsInv, LT!DelayRuns(d)
  PROVE  /\ StallLeft(d) \in 0 .. 3 * TransferEdges(d) + 1
         /\ pipeline_stall <=> StallLeft(d) > 0
<1>1. /\ LT!EdgesLeft(d) \in 0 .. BURST_LEN + d + 2
      /\ macro = "IDLE" => LT!EdgesLeft(d) = BURST_LEN + d + 2
  BY LT!EdgesLeftBounded, TransferAssumptions DEF PartsInv
<1>2. d \in Nat /\ BURST_LEN \in Nat
  BY BurstAssumption DEF LT!LongestDelay
<1>3. ~pipeline_stall => EdgesSpent(d) = 0
  BY <1>1, <1>2, StallOwesTransfer DEF EdgesSpent, TransferEdges, PartsInv, ControlInv, RestIffIdle
<1>4. EdgesSpent(d) \in 0 .. TransferEdges(d) - 1 /\ TransferEdges(d) \in Nat
  BY <1>1, <1>2 DEF EdgesSpent, TransferEdges
<1> DEFINE n == FetchTransfers + DataTransfers
           t == TransferEdges(d)
           m == IF FetchMiss \/ DataMiss THEN 1 ELSE 0
<1>5. n \in 0 .. 3 /\ m \in 0 .. 1 /\ (pipeline_stall <=> n > 0) /\ (m = 1 => pipeline_stall)
  BY StallOwesTransfer
<1>6. StallLeft(d) = n * t - EdgesSpent(d) + m
  BY DEF StallLeft
<1> HIDE DEF n, t, m
<1>7. n * t = IF n = 0 THEN 0 ELSE IF n = 1 THEN t ELSE IF n = 2 THEN 2 * t ELSE 3 * t
  BY <1>4, <1>5 DEF t
<1>8. CASE n = 0
  <2>1. ~pipeline_stall /\ m = 0 /\ EdgesSpent(d) = 0
    BY <1>3, <1>5, <1>8
  <2>2. n * t = 0
    BY <1>7, <1>8
  <2>3. StallLeft(d) = 0
    BY <1>6, <2>1, <2>2
  <2> QED BY <1>4, <2>1, <2>3
<1>9. CASE n > 0
  <2>1. n * t >= t /\ n * t <= 3 * t /\ n * t \in Nat
    BY <1>4, <1>5, <1>7, <1>9 DEF t
  <2> QED BY <1>4, <1>5, <1>6, <1>9, <2>1 DEF t
<1> QED BY <1>5, <1>8, <1>9

\* What is owed goes down with a response, and with nothing else.
LEMMA TransfersOwed ==
  ASSUME PartsInv, Next, pipeline_stall
  PROVE  /\ ~FetchMiss' /\ ~DataMiss'
         /\ FetchTransfers' = IF i_resp THEN FetchTransfers - 1 ELSE FetchTransfers
         /\ DataTransfers' = IF d_resp THEN DataTransfers - 1 ELSE DataTransfers
<1>1. /\ i_resp => i_state = "read_mem"
      /\ d_resp => d_state \in {"write_mem", "read_mem"}
      /\ d_state \in {"check_cache", "write_mem", "read_mem"}
  BY WhoIsGranted DEF PartsInv, ControlInv, ControlTypes, OwnerWaits
<1>2. FetchTransfers' = IF i_resp THEN FetchTransfers - 1 ELSE FetchTransfers
  BY <1>1, WaitingFetch DEF FetchTransfers, FetchMiss
<1>3. DataTransfers' = IF d_resp THEN DataTransfers - 1 ELSE DataTransfers
  <2>1. ~DataMiss'
    BY WaitingAccess
  <2>2. CASE d_resp
    BY <1>1, <2>1, <2>2, WaitingAccess DEF DataTransfers, DataMiss
  <2>3. CASE ~d_resp
    BY <1>1, <2>1, <2>3, WaitingAccess DEF DataTransfers, DataMiss
  <2> QED BY <2>2, <2>3
<1> QED BY <1>2, <1>3, WaitingFetch, WaitingAccess

\* A request the arbiter lets through is on the port of the adaptor.
LEMMA GrantedAsks ==
  ASSUME PartsInv, Granted(imem, dmem) # "none"
  PROVE  portClient.read \/ portClient.write
<1>1. /\ Granted(imem, dmem) \in {"imem", "dmem"}
      /\ Granted(imem, dmem) = "imem" => i_state = "read_mem"
      /\ Granted(imem, dmem) = "dmem" => d_state \in {"write_mem", "read_mem"}
  BY WhoIsGranted DEF PartsInv, ControlInv, ControlTypes, OwnerWaits, ArbTypeOK
<1>2. CASE Granted(imem, dmem) = "imem"
  BY <1>1, <1>2 DEF portClient, linePort, pmem, imem, IC!pmem_read
<1>3. CASE Granted(imem, dmem) = "dmem"
  BY <1>1, <1>3 DEF portClient, linePort, pmem, dmem, DC!pmem_read, DC!pmem_write
<1> QED BY <1>1, <1>2, <1>3

\* How far the transfer under way can be from its end.
LEMMA EdgesInRange ==
  ASSUME NEW CONSTANT d, LT!LongestDelay(d)
  PROVE  PartsInv /\ LT!DelayRuns(d) =>
           /\ LT!EdgesLeft(d) \in 0 .. TransferEdges(d) - 1
           /\ macro = "IDLE" => LT!EdgesLeft(d) = TransferEdges(d) - 1
           /\ resp_o => LT!EdgesLeft(d) = 0
BY LT!EdgesLeftBounded, TransferAssumptions, BurstAssumption
   DEF PartsInv, TransferEdges, LT!LongestDelay, LT!resp_o, resp_o

LEMMA StallShortens ==
  ASSUME NEW d, LT!LongestDelay(d), PartsInv, LT!DelayRuns(d), PartsInv', LT!DelayRuns(d)',
         Next, pipeline_stall
  PROVE  StallLeft(d)' < StallLeft(d)
<1> DEFINE e == LT!EdgesLeft(d)
           t == TransferEdges(d)
           n == FetchTransfers + DataTransfers
           m == IF FetchMiss \/ DataMiss THEN 1 ELSE 0
<1>1. e \in 0 .. t - 1 /\ (resp_o => e = 0) /\ (macro = "IDLE" => e = t - 1)
  BY EdgesInRange
<1>2. e' \in 0 .. t - 1 /\ (macro' = "IDLE" => e' = t - 1)
  <2>1. (PartsInv /\ LT!DelayRuns(d) =>
           /\ LT!EdgesLeft(d) \in 0 .. TransferEdges(d) - 1
           /\ macro = "IDLE" => LT!EdgesLeft(d) = TransferEdges(d) - 1
           /\ resp_o => LT!EdgesLeft(d) = 0)'
    BY EdgesInRange, PTL
  <2> QED BY <2>1
<1>3. t \in Nat
  BY BurstAssumption DEF TransferEdges, LT!LongestDelay
<1>4. /\ n \in 0 .. 3 /\ n > 0 /\ m \in 0 .. 1 /\ m' = 0
      /\ n' = IF resp_o /\ arb \in {"imem", "dmem"} THEN n - 1 ELSE n
  <2>1. /\ i_resp <=> resp_o /\ arb = "imem"
        /\ d_resp <=> resp_o /\ arb = "dmem"
    BY WhoIsGranted DEF PartsInv
  <2>2. /\ FetchTransfers \in 0 .. 1 /\ DataTransfers \in 0 .. 2
        /\ FetchTransfers + DataTransfers > 0
    BY StallOwesTransfer
  <2>3. /\ FetchTransfers' = IF i_resp THEN FetchTransfers - 1 ELSE FetchTransfers
        /\ DataTransfers' = IF d_resp THEN DataTransfers - 1 ELSE DataTransfers
        /\ ~FetchMiss' /\ ~DataMiss'
    BY TransfersOwed
  <2>4. m \in 0 .. 1 /\ m' = 0 /\ n \in 0 .. 3 /\ n > 0
    BY <2>2, <2>3
  <2>5. n' = IF resp_o /\ arb \in {"imem", "dmem"} THEN n - 1 ELSE n
    <3> HIDE DEF resp_o, i_resp, d_resp
    <3>1. CASE resp_o /\ arb = "imem"
      BY <2>1, <2>2, <2>3, <3>1
    <3>2. CASE resp_o /\ arb = "dmem"
      BY <2>1, <2>2, <2>3, <3>2
    <3>3. CASE ~(resp_o /\ arb \in {"imem", "dmem"})
      BY <2>1, <2>2, <2>3, <3>3
    <3> QED BY <3>1, <3>2, <3>3
  <2> QED BY <2>4, <2>5
<1>5. /\ StallLeft(d) = n * t - (t - 1 - e) + m
      /\ StallLeft(d)' = n' * t - (t - 1 - e') + m'
  BY Zenon DEF StallLeft, EdgesSpent, TransferEdges
<1>6. /\ arb' = IF resp_o THEN "rest"
                ELSE IF Granted(imem, dmem) = "none" THEN "rest" ELSE Granted(imem, dmem)
      /\ macro' = "IDLE" <=> arb' = "rest"
      /\ macro = "IDLE" <=> arb = "rest"
      /\ arb \in {"rest", "imem", "dmem"}
  BY SharedEdge DEF Next, PartsInv, ControlInv, ControlTypes, RestIffIdle, ArbTypeOK
<1>7. LT!Next /\ LT!TypeOK /\ LT!TransferInv
  BY TransferTick, PortsStayTyped DEF PartsInv
<1> HIDE DEF e, t, n, m
\* A response: one transfer less is owed, and the adaptor is at rest again.
<1>8. CASE resp_o
  <2>1. arb \in {"imem", "dmem"} /\ macro' = "IDLE"
    BY <1>6, <1>8 DEF resp_o
  <2>2. n' = n - 1 /\ e = 0 /\ e' = t - 1
    BY <1>1, <1>2, <1>4, <1>8, <2>1
  <2>3. (n - 1) * t = n * t - t
    <3>1. n = 1 \/ n = 2 \/ n = 3
      BY <1>4
    <3> QED BY <1>3, <3>1
  <2> QED BY <1>3, <1>4, <1>5, <2>2, <2>3
\* A transfer under way, or let through to the adaptor at this edge.
<1>9. CASE ~resp_o /\ Granted(imem, dmem) # "none"
  <2>1. e' < e
    BY <1>7, <1>9, GrantedAsks, LT!EdgeIsProgress, TransferAssumptions DEF e, LT!resp_o, resp_o
  <2>2. n' * t = n * t /\ n * t \in Nat
    <3>1. n' = n
      BY <1>4, <1>9
    <3> QED BY <1>3, <1>4, <3>1
  <2>3. PICK p \in Nat : p = n * t
    BY <2>2
  <2>4. /\ StallLeft(d) = p - (t - 1 - e) + m
        /\ StallLeft(d)' = p - (t - 1 - e') + 0
    BY <1>4, <1>5, <2>2, <2>3
  <2>5. m \in 0 .. 1 /\ e \in Nat /\ e' \in Nat
    BY <1>1, <1>2, <1>4
  <2> QED BY ONLY <1>3, <2>1, <2>3, <2>4, <2>5
\* Nobody asks yet: the caches are about to see their misses.
<1>10. CASE ~resp_o /\ Granted(imem, dmem) = "none"
  <2>1. arb = "rest" /\ d_state = "check_cache" /\ i_state # "read_mem"
    BY <1>6, <1>10, WhoIsGranted DEF PartsInv
  <2>2. FetchMiss \/ DataMiss
    BY <1>4, <2>1 DEF n, FetchTransfers, DataTransfers
  <2>3. m = 1 /\ e = t - 1 /\ e' = t - 1 /\ n' = n
    BY <1>1, <1>2, <1>4, <1>6, <1>10, <2>1, <2>2 DEF m
  <2>4. n' * t = n * t /\ n * t \in Nat
    BY <1>3, <1>4, <2>3
  <2> QED BY <1>3, <1>4, <1>5, <2>3, <2>4
<1> QED BY <1>8, <1>9, <1>10

\* The pipeline stalls for 3 * (BURST_LEN + d + 3) + 1 edges at the most, with d the
\* longest delay of memory: the refill of a fetch and the write-back and the refill
\* of a load or store, in whatever order the arbiter has them, and every edge in
\* between brings the end nearer.
THEOREM StallIsShort ==
  ASSUME NEW CONSTANT d, LT!LongestDelay(d)
  PROVE  Spec =>
           /\ [](/\ StallLeft(d) \in 0 .. 3 * TransferEdges(d) + 1
                 /\ pipeline_stall <=> StallLeft(d) > 0)
           /\ [][pipeline_stall => StallLeft(d)' < StallLeft(d)]_vars
<1>1. PartsInv /\ LT!DelayRuns(d) =>
        /\ StallLeft(d) \in 0 .. 3 * TransferEdges(d) + 1
        /\ pipeline_stall <=> StallLeft(d) > 0
  BY StallBounded
<1>2. PartsInv /\ LT!DelayRuns(d) /\ PartsInv' /\ LT!DelayRuns(d)' /\ [Next]_vars =>
        [pipeline_stall => StallLeft(d)' < StallLeft(d)]_vars
  BY StallShortens
<1>3. LT!Spec => []LT!DelayRuns(d)
  BY TransferAssumptions, LT!DelayBounded
<1> QED BY <1>1, <1>2, <1>3, PartsSafe, ArbiterIsAClient, PTL DEF Spec
=============================================================================
