-------------------------- MODULE CachedMemoryProofs --------------------------
(***************************************************************************)
(* The cache over a memory of lines, for every number of sets, tags, beats *)
(* and words.                                                              *)
(***************************************************************************)
EXTENDS CachedMemory, TLAPS

\* What the typing of the request gives the steps below.
LEMMA RequestTypes ==
  ASSUME TypeOK
  PROVE  /\ cpu \in CpuRequest /\ cpu.addr \in Addr /\ cpu.addr.line \in Lines
         /\ Index(cpu) \in Indices /\ Tag(cpu) \in Tags /\ cpu.addr.off \in Beats
         /\ cpu.wdata \in Words /\ cpu.read \in BOOLEAN /\ cpu.write \in BOOLEAN
         /\ ~(cpu.read /\ cpu.write) /\ lru_out(cpu) \in Ways
         /\ VictimLine(cpu) \in Lines /\ pmem_address(cpu) \in Addr
         /\ pmem_wdata(cpu) \in LineValue
<1>1. cpu \in CpuRequest /\ ~(cpu.read /\ cpu.write)
  BY CpuAssumption DEF TypeOK
<1>2. /\ cpu.addr \in Addr /\ cpu.addr.line \in Lines /\ cpu.addr.off \in Beats
      /\ cpu.wdata \in Words /\ cpu.read \in BOOLEAN /\ cpu.write \in BOOLEAN
  BY <1>1 DEF CpuRequest, Addr
<1>3. Index(cpu) \in Indices /\ Tag(cpu) \in Tags
  BY <1>2, LinesAreTagged DEF Index, Tag
<1>4. lru_out(cpu) \in Ways
  BY <1>3 DEF TypeOK, CacheTypeOK, lru_out
<1>5. VictimLine(cpu) \in Lines /\ pmem_wdata(cpu) \in LineValue
  BY <1>3, <1>4, LinesAreTagged DEF TypeOK, CacheTypeOK, VictimLine, pmem_wdata
<1>6. pmem_address(cpu) \in Addr
  BY <1>2, <1>5, BurstAssumption DEF pmem_address, Addr, Beats
<1> QED BY <1>1, <1>2, <1>3, <1>4, <1>5, <1>6

LEMMA SameVocabulary ==
  Memory!Addr = Addr /\ Memory!LineValue = LineValue /\ Memory!AnyAddr = AnyAddr
BY DEF Memory!Addr, Addr, Memory!LineValue, LineValue, Memory!Beats, Beats,
   Memory!AnyAddr, AnyAddr

\* An edge of the cache leaves its arrays in range, whatever answers it.
LEMMA CacheTyped ==
  ASSUME CacheTypeOK, cpu \in CpuRequest, NEW ready, NEW rdata \in LineValue,
         CacheEdge(cpu, ready, rdata)
  PROVE  CacheTypeOK'
<1>t. /\ Index(cpu) \in Indices /\ Tag(cpu) \in Tags /\ lru_out(cpu) \in Ways
      /\ cpu.wdata \in Words /\ cpu.write \in BOOLEAN
  BY LinesAreTagged DEF CpuRequest, Addr, CacheTypeOK, Index, Tag, lru_out
<1> USE <1>t DEF CacheTypeOK
<1>1. CASE NoRequest(cpu)
  BY <1>1 DEF NoRequest, cacheVars
<1>2. CASE ReadHit(cpu)
  BY <1>2 DEF ReadHit, Ways
<1>3. CASE WriteHit(cpu)
  <2>1. lru' \in [Indices -> Ways]
    BY <1>3 DEF WriteHit, Ways
  <2>2. dirty' \in [Ways -> [Indices -> BOOLEAN]]
    BY <1>3 DEF WriteHit
  <2>3. \A line \in LineValue : Merge(line, cpu) \in LineValue
    BY DEF Merge, LineValue
  <2>4. data' \in [Ways -> [Indices -> LineValue]]
    BY <1>3, <2>3 DEF WriteHit
  <2> QED BY <1>3, <2>1, <2>2, <2>4 DEF WriteHit
<1>4. CASE Miss(cpu)
  BY <1>4 DEF Miss
<1>5. CASE WriteMem(cpu, ready)
  BY <1>5 DEF WriteMem, Put
<1>6. CASE ReadMem(cpu, ready, rdata)
  BY <1>6 DEF ReadMem, Put
<1> QED BY <1>1, <1>2, <1>3, <1>4, <1>5, <1>6 DEF CacheEdge

\* The address on a port without a request.
LEMMA AnyAddrTyped == AnyAddr \in Addr
<1>1. \E a \in Addr : TRUE
  <2>1. PICK l : l \in Lines
    BY LinesAssumption
  <2>2. 0 \in Beats
    BY BurstAssumption DEF Beats
  <2>3. [line |-> l, off |-> 0] \in Addr
    BY <2>1, <2>2 DEF Addr
  <2> QED BY <2>3
<1> QED BY <1>1 DEF AnyAddr

\* Every register, and the request on the port, stays in range.
THEOREM TypeCorrect == Spec => []TypeOK
<1>1. Init => TypeOK
  <2> SUFFICES ASSUME Init PROVE TypeOK
    OBVIOUS
  <2>1. CacheTypeOK
    BY ResetValues DEF Init, CacheInit, CacheTypeOK, Ways, LineValue
  <2>2. lines \in [Lines -> LineValue] /\ bus \in LineValue
    BY BusAssumption DEF Init
  <2>3. addr \in Addr
    <3>1. AnyAddr \in Addr
      BY AnyAddrTyped
    <3> QED BY <3>1 DEF Init
  <2> QED BY <2>1, <2>2, <2>3 DEF Init, TypeOK
<1>2. TypeOK /\ [Next]_vars => TypeOK'
  <2> SUFFICES ASSUME TypeOK, [Next]_vars PROVE TypeOK'
    OBVIOUS
  <2>1. CASE UNCHANGED vars
    BY <2>1 DEF vars, cacheVars, memoryVars, TypeOK, CacheTypeOK
  <2>2. CASE Next
    <3> DEFINE ready == port = "done"
    <3>t. /\ Index(cpu) \in Indices /\ Tag(cpu) \in Tags /\ lru_out(cpu) \in Ways
          /\ cpu.addr.line \in Lines /\ cpu.wdata \in Words /\ cpu.write \in BOOLEAN
          /\ pmem_address(cpu) \in Addr /\ pmem_wdata(cpu) \in LineValue
      BY RequestTypes
    <3>1. CacheTypeOK'
      BY <2>2, CpuAssumption, CacheTyped DEF Next, TypeOK
    <3>2. (cpu \in CpuRequests)'
      BY <2>2 DEF Next, CpuEdge, TypeOK
    <3>3. /\ lines' \in [Lines -> LineValue] /\ port' \in {"idle", "busy", "done"}
          /\ op' \in {"read", "write"} /\ addr' \in Addr /\ bus' \in LineValue
      <4> USE <3>t, SameVocabulary, AnyAddrTyped, BusAssumption DEF TypeOK
      <4>1. CASE Deferred
        BY <4>1 DEF Deferred
      <4>2. CASE Started
        BY <4>2 DEF Started, Memory!AcceptRead, Memory!AcceptWrite
      <4>3. CASE Memory!Transfer
        BY <4>3 DEF Memory!Transfer
      <4>4. CASE Finished
        BY <4>4 DEF Finished, Memory!Answer, Memory!Retire
      <4> QED BY <2>2, <4>1, <4>2, <4>3, <4>4 DEF Next, MemoryEdge
    <3> QED BY <3>1, <3>2, <3>3 DEF TypeOK
  <2> QED BY <2>1, <2>2
<1>3. QED BY <1>1, <1>2, PTL DEF Spec

-------------------------------------------------------------------------------
\* What the memory port does in one edge, by the state of the controller.
LEMMA MemoryMoves ==
  ASSUME TypeOK, PortFollows, Next
  PROVE  /\ state = "check_cache" => port' = "idle" /\ lines' = lines
         /\ state = "read_mem" =>
              /\ lines' = lines
              /\ port' # "idle" => op' = "read" /\ addr' = cpu.addr
              /\ port' = "done" => bus' = lines[cpu.addr.line]
         /\ state = "write_mem" =>
              /\ lines' \in {lines, [lines EXCEPT ![VictimLine(cpu)] = pmem_wdata(cpu)]}
              /\ port' # "idle" =>
                   /\ op' = "write" /\ addr' = [line |-> VictimLine(cpu), off |-> 0]
                   /\ lines'[VictimLine(cpu)] = pmem_wdata(cpu)
         /\ port = "done" => port' = "idle" /\ lines' = lines
<1> USE DEF PortFollows, pmem_address, pmem_read, pmem_write, pmem_wdata
<1>t. /\ lines \in [Lines -> LineValue] /\ VictimLine(cpu) \in Lines
      /\ state \in {"check_cache", "write_mem", "read_mem"}
      /\ port \in {"idle", "busy", "done"} /\ op \in {"read", "write"}
  BY RequestTypes DEF TypeOK, CacheTypeOK
<1>1. CASE Deferred
  BY <1>1 DEF Deferred
<1>2. CASE Started
  <2>1. CASE pmem_read
    <3>1. Memory!AcceptRead(cpu.addr)
      BY <1>2, <2>1 DEF Started
    <3> QED BY <2>1, <3>1 DEF Memory!AcceptRead
  <2>2. CASE pmem_write /\ ~pmem_read
    <3> DEFINE a == [line |-> VictimLine(cpu), off |-> 0]
    <3>1. Memory!AcceptWrite(a, data[lru_out(cpu)][Index(cpu)])
      BY <1>2, <2>2 DEF Started
    <3>2. /\ port' = "busy" /\ op' = "write" /\ addr' = a /\ port = "idle"
          /\ lines' = [lines EXCEPT ![VictimLine(cpu)] = data[lru_out(cpu)][Index(cpu)]]
      BY <3>1 DEF Memory!AcceptWrite
    <3> QED BY <1>t, <2>2, <3>2
  <2> QED BY <1>2, <2>1, <2>2 DEF Started
<1>3. CASE Memory!Transfer
  BY <1>t, <1>3 DEF Memory!Transfer
<1>4. CASE Memory!Answer
  BY <1>t, <1>4 DEF Memory!Answer
<1>5. CASE Memory!Retire
  BY <1>t, <1>5 DEF Memory!Retire
<1> QED BY <1>1, <1>2, <1>3, <1>4, <1>5 DEF Next, MemoryEdge, Finished

\* A request that is not served stays on the port.
LEMMA RequestStays ==
  ASSUME Next, Requesting(cpu), ~mem_resp(cpu)
  PROVE  cpu' = cpu
BY DEF Next, CpuEdge

\* A hit in the invariant is in one way only.
LEMMA HitOnce ==
  ASSUME TypeOK, OneWayPerLine
  PROVE  ~(Hit(0, cpu) /\ Hit(1, cpu))
BY RequestTypes DEF OneWayPerLine, Hit, TypeOK, CacheTypeOK, Ways

-------------------------------------------------------------------------------
LEMMA InvInductive == TypeOK /\ CacheInv /\ [Next]_vars => CacheInv'
<1> SUFFICES ASSUME TypeOK, CacheInv, [Next]_vars PROVE CacheInv'
  OBVIOUS
<1>1. CASE UNCHANGED vars
  <2> USE <1>1 DEF vars, cacheVars, memoryVars
  <2>1. OneWayPerLine' /\ DirtyIsValid'
    BY DEF CacheInv, OneWayPerLine, DirtyIsValid
  <2>2. CleanLineIsMemory'
    BY DEF CacheInv, CleanLineIsMemory, Refilling, Evicting, Victim, Line, Index
  <2>3. MissPending'
    BY DEF CacheInv, MissPending, Hit, Index, Tag, Requesting, lru_out
  <2>4. PortFollows'
    BY DEF CacheInv, PortFollows, VictimLine, Index, lru_out, pmem_address, pmem_read
  <2> QED BY <2>1, <2>2, <2>3, <2>4 DEF CacheInv
<1>2. CASE Next
  <2> DEFINE ready == port = "done"
             i == Index(cpu)
             v == lru_out(cpu)
  <2> HIDE DEF i, v
  <2>t. /\ i \in Indices /\ v \in Ways /\ Tag(cpu) \in Tags /\ VictimLine(cpu) \in Lines
        /\ v = lru[i] /\ cpu.write \in BOOLEAN /\ cpu.addr.line = [tag |-> Tag(cpu), index |-> i]
        /\ VictimLine(cpu) = [tag |-> tag[v][i], index |-> i]
        /\ cpu.addr.line \in Lines
    BY RequestTypes, LinesAreTagged DEF lru_out, i, v, VictimLine, Index, Tag
  <2>y. /\ tag \in [Ways -> [Indices -> Tags]] /\ valid \in [Ways -> [Indices -> BOOLEAN]]
        /\ dirty \in [Ways -> [Indices -> BOOLEAN]] /\ lru \in [Indices -> Ways]
        /\ data \in [Ways -> [Indices -> LineValue]] /\ lines \in [Lines -> LineValue]
        /\ Ways = {0, 1}
    BY DEF TypeOK, CacheTypeOK, Ways
  <2>1. CASE NoRequest(cpu) \/ ReadHit(cpu)
    <3>1. /\ state = "check_cache" /\ state' = "check_cache"
          /\ UNCHANGED <<tag, valid, dirty, data>>
      BY <2>1 DEF NoRequest, ReadHit, mem_resp, cacheVars
    <3>2. port' = "idle" /\ lines' = lines
      BY <1>2, <3>1, MemoryMoves DEF CacheInv
    <3> QED BY <3>1, <3>2 DEF CacheInv, OneWayPerLine, DirtyIsValid, CleanLineIsMemory,
            MissPending, PortFollows, Refilling, Evicting, Line
  <2>2. CASE WriteHit(cpu)
    <3>1. state = "check_cache" /\ state' = "check_cache" /\ UNCHANGED <<tag, valid>>
      BY <2>2 DEF WriteHit, mem_resp
    <3>2. port' = "idle" /\ lines' = lines
      BY <1>2, <3>1, MemoryMoves DEF CacheInv
    <3>3. \A w \in Ways, j \in Indices :
            /\ dirty'[w][j] = (dirty[w][j] \/ (j = i /\ Hit(w, cpu)))
            /\ ~(j = i /\ Hit(w, cpu)) => data'[w][j] = data[w][j]
      BY <2>2, <2>t, <2>y DEF WriteHit, i
    <3>4. \A w \in Ways : Hit(w, cpu) => valid[w][i]
      BY DEF Hit, i
    <3>5. DirtyIsValid'
      <4> SUFFICES ASSUME NEW w \in Ways, NEW j \in Indices, dirty'[w][j]
                   PROVE  valid[w][j]
        BY <3>1 DEF DirtyIsValid
      <4>1. dirty[w][j] \/ (j = i /\ Hit(w, cpu))
        BY Zenon, <3>3
      <4> QED BY <3>4, <4>1 DEF CacheInv, DirtyIsValid
    <3>6. CleanLineIsMemory'
      BY <3>1, <3>2, <3>3 DEF CacheInv, CleanLineIsMemory, Refilling, Evicting, Line
    <3>7. OneWayPerLine' /\ MissPending' /\ PortFollows'
      BY <3>1, <3>2 DEF CacheInv, OneWayPerLine, MissPending, PortFollows
    <3> QED BY <3>5, <3>6, <3>7 DEF CacheInv
  <2>3. CASE Miss(cpu)
    <3>1. /\ state = "check_cache" /\ Requesting(cpu) /\ ~AnyHit(cpu)
          /\ state' = IF DirtyVictim(cpu) THEN "write_mem" ELSE "read_mem"
          /\ UNCHANGED <<tag, valid, dirty, lru, data>>
      BY <2>3 DEF Miss
    <3>2. port' = "idle" /\ lines' = lines
      BY <1>2, <3>1, MemoryMoves DEF CacheInv
    <3>3. cpu' = cpu
      BY <1>2, <3>1, RequestStays DEF mem_resp
    <3>4. MissPending'
      <4>1. \A w \in Ways : ~Hit(w, cpu)'
        BY <3>1, <3>3 DEF AnyHit, Hit, Index, Tag
      <4>2. state' = "write_mem" => valid[v][i]
        BY <2>t, <3>1 DEF DirtyVictim, CacheInv, DirtyIsValid, i, v
      <4> QED BY <3>1, <3>3, <4>1, <4>2 DEF MissPending, Requesting, lru_out, Index, i, v
    <3>5. CleanLineIsMemory'
      BY <3>1, <3>2, <3>3 DEF CacheInv, CleanLineIsMemory, Refilling, Evicting, Victim, Line, Index
    <3> QED BY <3>1, <3>2, <3>4, <3>5 DEF CacheInv, OneWayPerLine, DirtyIsValid, PortFollows
  <2>4. CASE WriteMem(cpu, ready)
    <3>1. /\ state = "write_mem" /\ state' = (IF port = "done" THEN "read_mem" ELSE "write_mem")
          /\ UNCHANGED <<tag, valid, lru, data>>
      BY <2>4 DEF WriteMem
    <3>2. /\ Requesting(cpu) /\ valid[v][i] /\ \A w \in Ways : ~Hit(w, cpu)
      BY <3>1 DEF CacheInv, MissPending, i, v
    <3>3. cpu' = cpu
      BY <1>2, <3>1, <3>2, RequestStays DEF mem_resp
    <3>4. \A w \in Ways, j \in Indices :
            (w # v \/ j # i) => dirty'[w][j] = dirty[w][j]
      BY <2>4, <2>t, <2>y DEF WriteMem, Put, i, v
    <3>5. /\ lines' \in {lines, [lines EXCEPT ![VictimLine(cpu)] = data[v][i]]}
          /\ port' # "idle" =>
               /\ op' = "write" /\ addr' = [line |-> VictimLine(cpu), off |-> 0]
               /\ lines'[VictimLine(cpu)] = data[v][i]
          /\ port = "done" => port' = "idle" /\ lines' = lines
      BY <1>2, <3>1, MemoryMoves DEF CacheInv, pmem_wdata, i, v
    <3>6. DirtyIsValid'
      BY <3>1, <3>2, <3>4 DEF CacheInv, DirtyIsValid
    <3>7. MissPending'
      BY <3>1, <3>2, <3>3 DEF MissPending, Hit, Requesting, lru_out, Index, Tag, i, v
    <3>8. PortFollows'
      <4>1. lru_out(cpu)' = v /\ Index(cpu)' = i /\ VictimLine(cpu)' = VictimLine(cpu)
        BY <3>1, <3>3 DEF lru_out, Index, VictimLine, i, v
      <4> QED BY <3>1, <3>3, <3>5, <4>1 DEF PortFollows, pmem_address, pmem_read
    <3>9. CleanLineIsMemory'
      <4> SUFFICES ASSUME NEW w \in Ways, NEW j \in Indices,
                          valid'[w][j], ~dirty'[w][j], ~Refilling(w, j)', ~Evicting(w, j)'
                   PROVE  data'[w][j] = lines'[Line(w, j)']
        BY DEF CleanLineIsMemory
      <4>1. w # v \/ j # i
        BY <2>t, <3>1, <3>3 DEF Refilling, Evicting, Victim, Index, i
      <4>2. data[w][j] = lines[Line(w, j)]
        BY <2>t, <3>1, <3>4, <4>1 DEF CacheInv, CleanLineIsMemory, Refilling, Evicting, Victim, i, v
      <4>3. Line(w, j) # VictimLine(cpu)
        <5>1. j = i => tag[w][i] # tag[v][i]
          BY <2>t, <2>y, <3>1, <3>2, <4>1 DEF CacheInv, OneWayPerLine
        <5> QED BY <2>t, <5>1 DEF Line
      <4>4. Line(w, j) \in Lines
        BY <2>y, LinesAreTagged DEF Line
      <4>5. lines'[Line(w, j)] = lines[Line(w, j)]
        BY <2>y, <3>5, <4>3, <4>4
      <4> QED BY <3>1, <4>2, <4>5 DEF Line
    <3> QED BY <3>1, <3>6, <3>7, <3>8, <3>9 DEF CacheInv, OneWayPerLine
  <2>5. CASE ReadMem(cpu, ready, bus)
    <3>1. /\ state = "read_mem" /\ state' = (IF port = "done" THEN "check_cache" ELSE "read_mem")
          /\ UNCHANGED <<dirty, lru>>
      BY <2>5 DEF ReadMem
    <3>2. Requesting(cpu) /\ \A w \in Ways : Hit(w, cpu) => w = v
      BY <3>1 DEF CacheInv, MissPending, v
    <3>3. cpu' = cpu
      BY <1>2, <3>1, <3>2, RequestStays DEF mem_resp
    <3>4. /\ tag'[v][i] = Tag(cpu) /\ valid'[v][i] /\ data'[v][i] = bus
          /\ \A w \in Ways, j \in Indices : (w # v \/ j # i) =>
               tag'[w][j] = tag[w][j] /\ valid'[w][j] = valid[w][j] /\ data'[w][j] = data[w][j]
      BY <2>5, <2>t, <2>y DEF ReadMem, Put, i, v
    <3>5. /\ lines' = lines
          /\ port' # "idle" => op' = "read" /\ addr' = cpu.addr
          /\ port' = "done" => bus' = lines[cpu.addr.line]
          /\ port = "done" => port' = "idle"
      BY <1>2, <3>1, MemoryMoves DEF CacheInv
    <3>6. OneWayPerLine'
      <4> SUFFICES ASSUME NEW j \in Indices, valid'[0][j], valid'[1][j]
                   PROVE  tag'[0][j] # tag'[1][j]
        BY DEF OneWayPerLine
      <4>1. CASE j # i
        BY <2>y, <3>4, <4>1 DEF CacheInv, OneWayPerLine
      <4>2. CASE j = i
        <5>1. \A w \in Ways : w # v => ~(tag[w][i] = Tag(cpu) /\ valid[w][i])
          BY <3>2 DEF Hit, i
        <5>2. CASE v = 0
          <6>1. tag'[1][i] = tag[1][i] /\ valid'[1][i] = valid[1][i] /\ tag'[0][i] = Tag(cpu)
            BY <2>t, <2>y, <3>4, <5>2
          <6> QED BY <2>y, <4>2, <5>1, <5>2, <6>1
        <5>3. CASE v = 1
          <6>1. tag'[0][i] = tag[0][i] /\ valid'[0][i] = valid[0][i] /\ tag'[1][i] = Tag(cpu)
            BY <2>t, <2>y, <3>4, <5>3
          <6> QED BY <2>y, <4>2, <5>1, <5>3, <6>1
        <5> QED BY <2>t, <2>y, <5>2, <5>3
      <4> QED BY <4>1, <4>2
    <3>7. DirtyIsValid'
      BY <3>1, <3>4 DEF CacheInv, DirtyIsValid
    <3>8. MissPending'
      <4>1. \A w \in Ways : Hit(w, cpu)' => w = v
        <5> SUFFICES ASSUME NEW w \in Ways, w # v PROVE ~Hit(w, cpu)'
          OBVIOUS
        <5>1. tag'[w][i] = tag[w][i] /\ valid'[w][i] = valid[w][i] /\ ~Hit(w, cpu)
          BY <2>t, <3>2, <3>4
        <5> QED BY <3>3, <5>1 DEF Hit, Index, Tag, i
      <4>2. lru_out(cpu)' = v /\ Requesting(cpu)'
        BY <3>1, <3>2, <3>3 DEF Requesting, lru_out, Index, v
      <4>3. state' # "write_mem" /\ (state' # "check_cache" => state' = "read_mem")
        BY <3>1
      <4> QED BY <4>1, <4>2, <4>3 DEF MissPending
    <3>9. PortFollows'
      BY <3>1, <3>3, <3>5 DEF PortFollows, pmem_address, pmem_read
    <3>10. CleanLineIsMemory'
      <4> SUFFICES ASSUME NEW w \in Ways, NEW j \in Indices,
                          valid'[w][j], ~dirty'[w][j], ~Refilling(w, j)'
                   PROVE  data'[w][j] = lines[Line(w, j)']
        BY <3>5 DEF CleanLineIsMemory
      <4>1. CASE w = v /\ j = i
        <5>1. port = "done"
          BY <2>t, <3>1, <3>3, <4>1 DEF Refilling, Victim, Index, i
        <5>2. bus = lines[cpu.addr.line]
          BY <3>1, <5>1 DEF CacheInv, PortFollows, pmem_address, pmem_read, TypeOK
        <5> QED BY <2>t, <3>4, <4>1, <5>2 DEF Line
      <4>2. CASE w # v \/ j # i
        BY <2>t, <3>1, <3>4, <4>2 DEF CacheInv, CleanLineIsMemory, Refilling, Evicting, Victim,
           Line, i, v
      <4> QED BY <4>1, <4>2
    <3> QED BY <3>6, <3>7, <3>8, <3>9, <3>10 DEF CacheInv
  <2> QED BY <1>2, <2>1, <2>2, <2>3, <2>4, <2>5 DEF Next, CacheEdge
<1> QED BY <1>1, <1>2

\* The inductive invariant holds of every behavior.
THEOREM CacheSafe == Spec => []CacheInv
<1>1. Init => CacheInv
  BY DEF Init, CacheInit, CacheInv, OneWayPerLine, DirtyIsValid, CleanLineIsMemory,
     MissPending, PortFollows, Ways
<1> QED BY <1>1, TypeCorrect, InvInductive, PTL DEF Spec

\* No line is ever in both ways of its set.
THEOREM NoDuplicateLine == Spec => []OneWayPerLine
<1>1. CacheInv => OneWayPerLine
  BY DEF CacheInv
<1> QED BY <1>1, CacheSafe, PTL

\* A line may be dropped whenever its dirty bit is clear.
THEOREM CleanCanBeDropped == Spec => []CleanLineIsMemory
<1>1. CacheInv => CleanLineIsMemory
  BY DEF CacheInv
<1> QED BY <1>1, CacheSafe, PTL

\* The dirty wire, which does not look at valid, never sees a stray bit.
THEOREM NoStrayDirtyBit == Spec => []DirtyIsValid
<1>1. CacheInv => DirtyIsValid
  BY DEF CacheInv
<1> QED BY <1>1, CacheSafe, PTL

-------------------------------------------------------------------------------
\* A refill of a way begins only when memory has what the way held.
THEOREM VictimIsSaved == Spec => VictimSavedBeforeRefill
<1>1. TypeOK /\ CacheInv /\ [Next]_vars =>
        [\A w \in Ways, i \in Indices :
           Refilling(w, i)' /\ ~Refilling(w, i) /\ valid[w][i]
             => data[w][i] = lines'[Line(w, i)]]_vars
  <2> SUFFICES ASSUME TypeOK, CacheInv, Next, NEW w \in Ways, NEW i \in Indices,
                      Refilling(w, i)', ~Refilling(w, i), valid[w][i]
               PROVE  data[w][i] = lines'[Line(w, i)]
    OBVIOUS
  <2> USE DEF CacheInv
  <2>1. CASE Miss(cpu)
    <3>1. state = "check_cache" /\ Requesting(cpu) /\ ~mem_resp(cpu) /\ ~DirtyVictim(cpu)
          /\ lru' = lru
      BY <2>1 DEF Miss, mem_resp, Refilling
    <3>2. cpu' = cpu /\ lines' = lines
      BY <3>1, RequestStays, MemoryMoves
    <3>3. i = Index(cpu) /\ w = lru_out(cpu)
      BY <3>1, <3>2 DEF Refilling, Victim, Index, lru_out
    <3>4. ~dirty[w][i]
      BY <3>1, <3>3 DEF DirtyVictim
    <3> QED BY <3>1, <3>2, <3>4 DEF CleanLineIsMemory, Refilling, Evicting
  <2>2. CASE WriteMem(cpu, port = "done")
    <3>1. state = "write_mem" /\ port = "done" /\ lru' = lru
      BY <2>2 DEF WriteMem, Refilling
    <3>2. cpu' = cpu /\ lines' = lines
      BY <3>1, RequestStays, MemoryMoves DEF MissPending, mem_resp
    <3>3. i = Index(cpu) /\ w = lru_out(cpu)
      BY <3>1, <3>2 DEF Refilling, Victim, Index, lru_out
    <3>4. op = "write"
      BY <3>1 DEF PortFollows, TypeOK
    <3> QED BY <3>1, <3>2, <3>3, <3>4 DEF PortFollows, VictimLine, Line
  <2>3. CASE ReadMem(cpu, port = "done", bus)
    <3>1. state = "read_mem" /\ lru' = lru
      BY <2>3 DEF ReadMem
    <3>2. cpu' = cpu
      BY <3>1, RequestStays DEF MissPending, mem_resp
    <3> QED BY <3>1, <3>2 DEF Refilling, Victim, Index
  <2>4. CASE NoRequest(cpu) \/ ReadHit(cpu) \/ WriteHit(cpu)
    BY <2>4 DEF NoRequest, ReadHit, WriteHit, mem_resp, Refilling, cacheVars
  <2> QED BY <2>1, <2>2, <2>3, <2>4 DEF Next, CacheEdge
<1> QED BY <1>1, TypeCorrect, CacheSafe, PTL DEF Spec, VictimSavedBeforeRefill

\* A request misses at most once: the cycle after its refill it is served.
THEOREM RefillServes == Spec => RefillThenHit
<1>1. TypeOK /\ CacheInv /\ [Next]_vars =>
        [state = "read_mem" /\ state' = "check_cache" => mem_resp(cpu)']_vars
  <2> SUFFICES ASSUME TypeOK, CacheInv, Next, state = "read_mem", state' = "check_cache"
               PROVE  mem_resp(cpu)'
    OBVIOUS
  <2>1. ReadMem(cpu, port = "done", bus)
    BY DEF Next, CacheEdge, NoRequest, ReadHit, WriteHit, Miss, WriteMem, mem_resp
  <2>2. Requesting(cpu) /\ cpu' = cpu
    BY RequestStays DEF CacheInv, MissPending, mem_resp
  <2>3. /\ tag'[lru_out(cpu)][Index(cpu)] = Tag(cpu)
        /\ valid'[lru_out(cpu)][Index(cpu)]
        /\ lru_out(cpu) \in Ways
    BY <2>1, RequestTypes DEF ReadMem, Put, TypeOK, CacheTypeOK
  <2>4. Hit(lru_out(cpu), cpu)'
    <3>1. tag'[lru_out(cpu)][Index(cpu)'] = Tag(cpu)' /\ valid'[lru_out(cpu)][Index(cpu)']
      BY <2>2, <2>3 DEF Index, Tag
    <3>2. lru' = lru
      BY <2>1 DEF ReadMem
    <3> QED BY <2>2, <3>1, <3>2 DEF Hit, lru_out, Index
  <2>5. lru_out(cpu)' \in Ways
    <3>1. lru_out(cpu)' = lru_out(cpu)
      BY <2>1, <2>2 DEF ReadMem, lru_out, Index
    <3> QED BY <2>3, <3>1
  <2>6. AnyHit(cpu)'
    BY <2>4, <2>5 DEF AnyHit, Ways
  <2> QED BY <2>2, <2>6 DEF mem_resp, Requesting
<1> QED BY <1>1, TypeCorrect, CacheSafe, PTL DEF Spec, RefillThenHit

-------------------------------------------------------------------------------
(* The cache implements an atomic memory. *)

\* The word a hit returns is the word of the memory the program sees.
LEMMA HitShowsView ==
  ASSUME TypeOK, CacheInv, mem_resp(cpu)
  PROVE  data_out(cpu) = View[cpu.addr.line]
<1>1. cpu.addr.line \in Lines /\ cpu.addr.line.index = Index(cpu) /\ cpu.addr.line.tag = Tag(cpu)
  BY RequestTypes DEF Index, Tag
<1>2. \A w \in Ways : Cached(w, cpu.addr.line) <=> Hit(w, cpu)
  BY <1>1 DEF Cached, Hit, Refilling, mem_resp
<1>3. ~(Hit(0, cpu) /\ Hit(1, cpu)) /\ (Hit(0, cpu) \/ Hit(1, cpu))
  BY HitOnce DEF CacheInv, mem_resp, AnyHit, Ways
<1> QED BY <1>1, <1>2, <1>3 DEF View, data_out, Ways

\* What the response and the read data show of the state, now and after a step.
LEMMA AnswersNow ==
  TypeOK /\ CacheInv =>
    Atomic!Answers(cpu, mem_resp(cpu),
                   IF mem_resp(cpu) /\ cpu.read THEN mem_rdata(cpu) ELSE NoData)
<1> SUFFICES ASSUME TypeOK, CacheInv
             PROVE  Atomic!Answers(cpu, mem_resp(cpu),
                      IF mem_resp(cpu) /\ cpu.read THEN mem_rdata(cpu) ELSE NoData)
  OBVIOUS
<1>1. mem_resp(cpu) => Atomic!Asking(cpu)
  BY DEF mem_resp, Requesting, Atomic!Asking
<1>2. mem_resp(cpu) => mem_rdata(cpu) = View[cpu.addr.line][cpu.addr.off]
  BY HitShowsView DEF mem_rdata
<1> QED BY <1>1, <1>2 DEF Atomic!Answers

\* Only a store that is answered changes the memory the program sees.  Dropping a
\* victim, writing it back and refilling its way do not.
LEMMA ViewMoves ==
  ASSUME TypeOK, CacheInv, TypeOK', CacheInv', Next
  PROVE  IF mem_resp(cpu) /\ cpu.write
           THEN View' = [View EXCEPT ![cpu.addr.line] = Merge(@, cpu)]
           ELSE View' = View
<1> DEFINE i == Index(cpu)
           v == lru_out(cpu)
           ready == port = "done"
<1> HIDE DEF i, v
<1>t. /\ i \in Indices /\ v \in Ways /\ Tag(cpu) \in Tags /\ VictimLine(cpu) \in Lines
      /\ v = lru[i] /\ cpu.addr.line = [tag |-> Tag(cpu), index |-> i]
      /\ VictimLine(cpu) = [tag |-> tag[v][i], index |-> i]
      /\ cpu.addr.line \in Lines /\ ~(cpu.read /\ cpu.write)
  BY RequestTypes, LinesAreTagged DEF lru_out, i, v, VictimLine, Index, Tag
<1>y. /\ tag \in [Ways -> [Indices -> Tags]] /\ valid \in [Ways -> [Indices -> BOOLEAN]]
      /\ data \in [Ways -> [Indices -> LineValue]] /\ lines \in [Lines -> LineValue]
      /\ Ways = {0, 1}
      /\ \A l \in Lines : l.index \in Indices /\ l.tag \in Tags /\ l = [tag |-> l.tag, index |-> l.index]
  BY LinesAreTagged DEF TypeOK, CacheTypeOK, Ways
<1>1. CASE NoRequest(cpu) \/ ReadHit(cpu)
  <2>1. /\ state = "check_cache" /\ state' = "check_cache" /\ UNCHANGED <<tag, valid, data>>
        /\ ~(mem_resp(cpu) /\ cpu.write)
    BY <1>t, <1>1 DEF NoRequest, ReadHit, mem_resp, cacheVars
  <2>2. lines' = lines
    BY <2>1, MemoryMoves DEF CacheInv
  <2> QED BY <2>1, <2>2 DEF View, Cached, Refilling
<1>2. CASE WriteHit(cpu)
  <2>1. state = "check_cache" /\ state' = "check_cache" /\ UNCHANGED <<tag, valid>>
        /\ mem_resp(cpu) /\ cpu.write
    BY <1>2 DEF WriteHit, mem_resp
  <2>2. lines' = lines
    BY <2>1, MemoryMoves DEF CacheInv
  <2>3. \A w \in Ways, l \in Lines : Cached(w, l)' <=> Cached(w, l)
    BY <2>1 DEF Cached, Refilling
  <2>4. \A w \in Ways, j \in Indices :
          data'[w][j] = IF j = i /\ Hit(w, cpu) THEN Merge(data[w][j], cpu) ELSE data[w][j]
    BY <1>2, <1>t, <1>y DEF WriteHit, i
  <2>5. \A w \in Ways, l \in Lines : Cached(w, l) =>
          (l = cpu.addr.line <=> (l.index = i /\ Hit(w, cpu)))
    <3> SUFFICES ASSUME NEW w \in Ways, NEW l \in Lines, Cached(w, l)
                 PROVE  l = cpu.addr.line <=> (l.index = i /\ Hit(w, cpu))
      OBVIOUS
    <3>1. valid[w][l.index] /\ tag[w][l.index] = l.tag
      BY DEF Cached
    <3>2. Hit(w, cpu) <=> (tag[w][i] = Tag(cpu) /\ valid[w][i])
      BY DEF Hit, i
    <3> QED BY <1>t, <1>y, <3>1, <3>2
  <2>6. Cached(0, cpu.addr.line) \/ Cached(1, cpu.addr.line)
    BY <1>t, <2>1 DEF Cached, mem_resp, AnyHit, Hit, Refilling, Ways, i
  <2>7. \A l \in Lines : View'[l] = IF l = cpu.addr.line THEN Merge(View[l], cpu) ELSE View[l]
    <3> SUFFICES ASSUME NEW l \in Lines
                 PROVE  View'[l] = IF l = cpu.addr.line THEN Merge(View[l], cpu) ELSE View[l]
      OBVIOUS
    <3>1. CASE Cached(0, l)
      BY <1>y, <2>3, <2>4, <2>5, <3>1 DEF View
    <3>2. CASE ~Cached(0, l) /\ Cached(1, l)
      BY <1>y, <2>3, <2>4, <2>5, <3>2 DEF View
    <3>3. CASE ~Cached(0, l) /\ ~Cached(1, l)
      BY <1>y, <2>2, <2>3, <2>6, <3>3 DEF View
    <3> QED BY <3>1, <3>2, <3>3
  <2>8. View' = [l \in Lines |-> View'[l]] /\ View = [l \in Lines |-> View[l]]
    BY DEF View
  <2>9. View' = [View EXCEPT ![cpu.addr.line] = Merge(@, cpu)]
    BY <1>t, <2>7, <2>8
  <2> QED BY <2>1, <2>9
<1>3. CASE Miss(cpu)
  <2>1. /\ state = "check_cache" /\ Requesting(cpu) /\ ~mem_resp(cpu)
        /\ state' = IF DirtyVictim(cpu) THEN "write_mem" ELSE "read_mem"
        /\ UNCHANGED <<tag, valid, dirty, lru, data>>
    BY <1>3 DEF Miss, mem_resp
  <2>2. lines' = lines /\ cpu' = cpu
    BY <2>1, MemoryMoves, RequestStays DEF CacheInv
  <2>3. \A l \in Lines : View'[l] = View[l]
    <3> SUFFICES ASSUME NEW l \in Lines PROVE View'[l] = View[l]
      OBVIOUS
    <3>1. \A w \in Ways : Cached(w, l)' <=>
            (Cached(w, l) /\ ~(state' = "read_mem" /\ w = v /\ l.index = i))
      BY <2>1, <2>2 DEF Cached, Refilling, Victim, Index, lru_out, i, v
    <3>2. state' = "read_mem" /\ Cached(v, l) /\ l.index = i => data[v][i] = lines[l]
      <4>1. state' = "read_mem" => ~dirty[v][i]
        BY <2>1 DEF DirtyVictim, i, v
      <4> QED BY <1>t, <1>y, <2>1, <4>1 DEF CacheInv, CleanLineIsMemory, Refilling, Evicting,
              Cached, Line
    <3>3. ~(Cached(0, l) /\ Cached(1, l))
      BY <1>y DEF CacheInv, OneWayPerLine, Cached
    <3> QED BY <1>t, <1>y, <2>1, <2>2, <3>1, <3>2, <3>3 DEF View
  <2> QED BY <2>1, <2>3 DEF View
<1>4. CASE WriteMem(cpu, ready)
  <2>1. /\ state = "write_mem" /\ state' = (IF port = "done" THEN "read_mem" ELSE "write_mem")
        /\ UNCHANGED <<tag, valid, lru, data>> /\ ~mem_resp(cpu)
    BY <1>4 DEF WriteMem, mem_resp
  <2>2. Requesting(cpu) /\ valid[v][i] /\ cpu' = cpu
    BY <2>1, RequestStays DEF CacheInv, MissPending, i, v
  <2>3. /\ lines' \in {lines, [lines EXCEPT ![VictimLine(cpu)] = data[v][i]]}
        /\ port = "done" => lines' = lines
    BY <2>1, MemoryMoves DEF CacheInv, pmem_wdata, i, v
  <2>4. port = "done" => lines[VictimLine(cpu)] = data[v][i]
    BY <2>1 DEF CacheInv, PortFollows, TypeOK, i, v
  <2>5. \A l \in Lines : View'[l] = View[l]
    <3> SUFFICES ASSUME NEW l \in Lines PROVE View'[l] = View[l]
      OBVIOUS
    <3>1. \A w \in Ways : Cached(w, l)' <=>
            (Cached(w, l) /\ ~(state' = "read_mem" /\ w = v /\ l.index = i))
      BY <2>1, <2>2 DEF Cached, Refilling, Victim, Index, lru_out, i, v
    <3>2. Cached(v, l) /\ l.index = i <=> l = VictimLine(cpu)
      BY <1>t, <1>y, <2>1, <2>2 DEF Cached, Refilling
    <3>3. ~(Cached(0, l) /\ Cached(1, l))
      BY <1>y DEF CacheInv, OneWayPerLine, Cached
    <3>4. l # VictimLine(cpu) => lines'[l] = lines[l]
      BY <1>t, <1>y, <2>3
    <3>5. CASE l # VictimLine(cpu)
      BY <1>t, <1>y, <2>1, <3>1, <3>2, <3>4, <3>5 DEF View
    <3>6. CASE l = VictimLine(cpu)
      <4>1. View[l] = data[v][i]
        BY <1>t, <1>y, <3>2, <3>3, <3>6 DEF View
      <4>2. View'[l] = data[v][i]
        BY <1>t, <1>y, <2>1, <2>3, <2>4, <3>1, <3>2, <3>3, <3>6 DEF View
      <4> QED BY <4>1, <4>2
    <3> QED BY <3>5, <3>6
  <2> QED BY <2>1, <2>5 DEF View
<1>5. CASE ReadMem(cpu, ready, bus)
  <2>1. /\ state = "read_mem" /\ state' = (IF port = "done" THEN "check_cache" ELSE "read_mem")
        /\ UNCHANGED lru /\ ~mem_resp(cpu)
    BY <1>5 DEF ReadMem, mem_resp
  <2>2. Requesting(cpu) /\ cpu' = cpu /\ lines' = lines
        /\ \A w \in Ways : Hit(w, cpu) => w = v
    BY <2>1, RequestStays, MemoryMoves DEF CacheInv, MissPending, v
  <2>3. /\ tag'[v][i] = Tag(cpu) /\ valid'[v][i] /\ data'[v][i] = bus
        /\ \A w \in Ways, j \in Indices : (w # v \/ j # i) =>
             tag'[w][j] = tag[w][j] /\ valid'[w][j] = valid[w][j] /\ data'[w][j] = data[w][j]
    BY <1>5, <1>t, <1>y DEF ReadMem, Put, i, v
  <2>4. port = "done" => bus = lines[cpu.addr.line]
    BY <2>1 DEF CacheInv, PortFollows, pmem_address, pmem_read, TypeOK
  <2>5. \A l \in Lines : View'[l] = View[l]
    <3> SUFFICES ASSUME NEW l \in Lines PROVE View'[l] = View[l]
      OBVIOUS
    <3>1. ASSUME NEW w \in Ways, w # v \/ l.index # i
          PROVE  (Cached(w, l)' <=> Cached(w, l)) /\ data'[w][l.index] = data[w][l.index]
      <4>1. l.index \in Indices
        BY <1>y
      <4>2. /\ tag'[w][l.index] = tag[w][l.index] /\ valid'[w][l.index] = valid[w][l.index]
            /\ data'[w][l.index] = data[w][l.index]
        BY <2>3, <3>1, <4>1
      <4>3. ~Victim(w, l.index)
        BY <1>t, <3>1 DEF Victim, i
      <4>4. Victim(w, l.index)' <=> Victim(w, l.index)
        BY <2>1, <2>2 DEF Victim, Index
      <4>5. ~Refilling(w, l.index) /\ ~Refilling(w, l.index)'
        BY <4>3, <4>4 DEF Refilling
      <4> QED BY <4>2, <4>5 DEF Cached
    <3>2. CASE l.index # i
      BY <1>y, <2>2, <3>1, <3>2 DEF View
    <3>3. CASE l.index = i
      <4>v. PICK u \in Ways : u = v
        BY <1>t
      <4>1. ~Cached(u, l)
        BY <1>t, <2>1, <3>3, <4>v DEF Cached, Refilling, Victim, i
      <4>2. Cached(u, l)' => port = "done" /\ l = cpu.addr.line
        <5> SUFFICES ASSUME Cached(u, l)' PROVE port = "done" /\ l = cpu.addr.line
          OBVIOUS
        <5>1. tag'[u][i] = l.tag
          BY <3>3 DEF Cached
        <5>2. l = cpu.addr.line
          BY <1>t, <1>y, <2>3, <3>3, <4>v, <5>1
        <5>3. u = lru'[i] /\ i = Index(cpu')
          BY <1>t, <2>1, <2>2, <4>v DEF Index, i
        <5>4. state' # "read_mem"
          BY <3>3, <5>3 DEF Cached, Refilling, Victim, Index
        <5> QED BY <2>1, <5>2, <5>4
      <4>3. l = cpu.addr.line => \A w \in Ways : ~Cached(w, l)
        BY <1>t, <2>2, <4>v, <4>1 DEF Cached, Hit, Index, Tag
      <4>4. CASE Cached(u, l)'
        <5>1. port = "done" /\ \A w \in Ways : ~Cached(w, l)
          BY <4>2, <4>3, <4>4
        <5>2. View[l] = lines[l]
          BY <1>y, <5>1 DEF View
        <5>3. data'[u][i] = lines[l]
          BY <2>3, <2>4, <4>v, <4>2, <4>4
        <5>4. \A w \in Ways : w # u => ~Cached(w, l)'
          BY <3>1, <4>v, <5>1
        <5>5. CASE u = 0
          BY <3>3, <4>4, <5>2, <5>3, <5>5 DEF View
        <5>6. CASE u = 1
          BY <1>y, <3>3, <4>4, <5>2, <5>3, <5>4, <5>6 DEF View
        <5> QED BY <4>v, <1>y, <5>5, <5>6
      <4>5. CASE ~Cached(u, l)'
        <5>1. CASE u = 0
          BY <1>y, <2>2, <3>1, <4>v, <4>1, <4>5, <5>1 DEF View
        <5>2. CASE u = 1
          BY <1>y, <2>2, <3>1, <4>v, <4>1, <4>5, <5>2 DEF View
        <5> QED BY <4>v, <1>y, <5>1, <5>2
      <4> QED BY <4>4, <4>5
    <3> QED BY <3>2, <3>3
  <2> QED BY <2>1, <2>5 DEF View
<1> QED BY <1>1, <1>2, <1>3, <1>4, <1>5 DEF Next, CacheEdge

\* Each step of the cache is a step, or a stutter, of the atomic memory.
LEMMA StepRefines ==
  ASSUME TypeOK, CacheInv, TypeOK', CacheInv', [Next]_vars
  PROVE  [Atomic!AtomicNext]_(Atomic!atomicVars)
<1>1. CASE UNCHANGED vars
  <2>1. UNCHANGED <<cpu, state, tag, valid, lru, data, lines>>
    BY <1>1 DEF vars, cacheVars, memoryVars
  <2>2. View' = View
    BY <2>1 DEF View, Cached, Refilling, Victim, Index
  <2>3. mem_resp(cpu)' = mem_resp(cpu) /\ mem_rdata(cpu)' = mem_rdata(cpu)
    BY <2>1 DEF mem_resp, Requesting, AnyHit, Hit, Index, Tag, mem_rdata, data_out
  <2> QED BY <2>1, <2>2, <2>3 DEF Atomic!atomicVars
<1>2. CASE Next
  <2>1. (mem_resp(cpu) \in BOOLEAN)'
    BY DEF mem_resp
  <2>2. Atomic!Answers(cpu, mem_resp(cpu),
                       IF mem_resp(cpu) /\ cpu.read THEN mem_rdata(cpu) ELSE NoData)'
    BY AnswersNow, PTL
  <2>3. CASE mem_resp(cpu)
    <3>1. cpu' \in CpuRequests
      BY DEF TypeOK
    <3>2. Merge(View[cpu.addr.line], cpu) =
            [b \in Atomic!Beats |-> IF b \in cpu.mbe THEN cpu.wdata ELSE View[cpu.addr.line][b]]
      BY DEF Merge, Beats, Atomic!Beats
    <3>3. View' = IF cpu.write THEN Atomic!Stored ELSE View
      BY <1>2, <2>3, <3>2, ViewMoves DEF Atomic!Stored
    <3>4. Atomic!Served
      BY <2>3, <3>1, <3>3 DEF Atomic!Served
    <3> QED BY <2>1, <2>2, <3>4 DEF Atomic!AtomicNext
  <2>4. CASE ~mem_resp(cpu)
    <3>1. View' = View
      BY <1>2, <2>4, ViewMoves
    <3>2. CASE Requesting(cpu)
      <4>1. cpu' = cpu
        BY <1>2, <2>4, <3>2 DEF Next, CpuEdge
      <4>2. Atomic!Waiting
        BY <2>4, <3>1, <3>2, <4>1 DEF Atomic!Waiting, Atomic!Asking, Requesting
      <4> QED BY <2>1, <2>2, <4>2 DEF Atomic!AtomicNext
    <3>3. CASE ~Requesting(cpu)
      <4>1. cpu' \in CpuRequests
        BY DEF TypeOK
      <4>2. Atomic!Unused
        BY <3>1, <3>3, <4>1 DEF Atomic!Unused, Atomic!Asking, Requesting
      <4> QED BY <2>1, <2>2, <4>2 DEF Atomic!AtomicNext
    <3> QED BY <3>2, <3>3
  <2> QED BY <2>3, <2>4
<1> QED BY <1>1, <1>2

\* The processor cannot tell the cache from an atomic memory, as far as safety
\* goes: hits, misses, write-backs and refills only delay its answers.
THEOREM CacheRefinesAtomicMemory ==
  Spec => Atomic!AtomicInit /\ [][Atomic!AtomicNext]_(Atomic!atomicVars)
<1>1. Init /\ TypeOK /\ CacheInv => Atomic!AtomicInit
  <2> SUFFICES ASSUME Init, TypeOK, CacheInv PROVE Atomic!AtomicInit
    OBVIOUS
  <2>1. View \in [Lines -> LineValue]
    <3>1. \A l \in Lines : l.index \in Indices
      BY LinesAreTagged
    <3> QED BY <3>1 DEF View, TypeOK, CacheTypeOK, Ways
  <2>2. Atomic!LineValue = LineValue
    BY DEF Atomic!LineValue, LineValue, Atomic!Beats, Beats
  <2>3. mem_resp(cpu) \in BOOLEAN /\ cpu \in CpuRequests
    BY DEF mem_resp, TypeOK
  <2> QED BY <2>1, <2>2, <2>3, AnswersNow DEF Atomic!AtomicInit
<1> QED BY <1>1, StepRefines, TypeCorrect, CacheSafe, PTL DEF Spec
=============================================================================
