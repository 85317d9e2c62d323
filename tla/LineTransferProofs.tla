-------------------------- MODULE LineTransferProofs --------------------------
(***************************************************************************)
(* The transfers between the cacheline adaptor and the burst memory, for   *)
(* every number of lines and beats, every word width and every delay.      *)
(***************************************************************************)
EXTENDS LineTransfer, TLAPS

\* Each edge keeps the registers of both machines in range.
LEMMA TypeInductive == TypeOK /\ [Next]_vars => TypeOK'
<1> USE BurstAssumption, DelaysAssumption, PayloadsAssumption
    DEF TypeOK, AdaptorTypeOK, MemTypeOK, Beats, LineValue, Addr
<1> SUFFICES ASSUME TypeOK, [Next]_vars PROVE TypeOK'
  OBVIOUS
<1>1. CASE UNCHANGED vars
  BY <1>1 DEF vars, adaptorVars, memVars
<1>2. CASE Next
  <2>1. (client \in Requests)'
    BY <1>2 DEF Next, ClientEdge
  <2>2. AdaptorTypeOK'
    <3> DEFINE q == client
    <3>0. q.addr \in Addr /\ q.line \in LineValue
      BY DEF Requests
    <3>1. CASE IdleNoOp(q.read, q.write)
      BY <3>1 DEF IdleNoOp, adaptorVars
    <3>2. CASE IdleRead(q.read, q.addr)
      BY <3>0, <3>2 DEF IdleRead
    <3>3. CASE IdleWrite(q.read, q.write, q.addr, q.line)
      BY <3>0, <3>3 DEF IdleWrite
    <3>4. CASE WaitRead(rdata, resp)
      BY <3>4 DEF WaitRead
    <3>5. CASE WaitWrite(resp)
      BY <3>5 DEF WaitWrite
    <3>6. CASE ReadBeat(rdata)
      BY <3>6 DEF ReadBeat, NextCount
    <3>7. CASE WriteBeat
      BY <3>7 DEF WriteBeat, NextCount
    <3>8. CASE Done
      BY <3>8 DEF Done
    <3> QED BY <1>2, <3>1, <3>2, <3>3, <3>4, <3>5, <3>6, <3>7, <3>8 DEF Next, AdaptorEdge
  <2>3. MemTypeOK'
    <3>1. CASE Quiet(read_o, write_o)
      BY <3>1 DEF Quiet, memVars
    <3>2. CASE Accept(read_o, write_o, address_o)
      BY <3>2 DEF Accept, address_o
    <3>3. CASE Wait(read_o, write_o, address_o)
      BY <3>3 DEF Wait
    <3>4. CASE FirstBeat(read_o, write_o, address_o)
      BY <3>4 DEF FirstBeat
    <3>5. CASE Beat(read_o, write_o, address_o, burst_o)
      <4>1. store' \in [Lines -> LineValue]
        <5>1. burst_o \in Words
          BY DEF burst_o
        <5>2. [store[held.line] EXCEPT ![beat - 1] = burst_o] \in LineValue
          BY <5>1
        <5> QED BY <3>5, <5>2 DEF Beat
      <4>2. rdata' \in Words
        BY <3>5 DEF Beat
      <4> QED BY <3>5, <4>1, <4>2 DEF Beat
    <3> QED BY <1>2, <3>1, <3>2, <3>3, <3>4, <3>5 DEF Next, MemEdge
  <2> QED BY <2>1, <2>2, <2>3
<1> QED BY <1>1, <1>2

\* Both machines keep their registers in range: the beat counter of the adaptor
\* and the two counters of the memory never leave the burst.
THEOREM TypeCorrect == Spec => []TypeOK
<1> USE BurstAssumption, DelaysAssumption, PayloadsAssumption
    DEF TypeOK, AdaptorTypeOK, MemTypeOK, Beats, LineValue, Addr
<1>1. Init => TypeOK
  <2> SUFFICES ASSUME Init PROVE TypeOK
    OBVIOUS
  <2>1. PICK contents \in [Lines -> Payloads], a \in Addr, l \in Payloads :
          MemInit(contents, a) /\ AdaptorInit(a, l)
    BY DEF Init
  <2>2. contents \in [Lines -> LineValue] /\ l \in LineValue
    OBVIOUS
  <2>3. AdaptorTypeOK
    BY <2>1, <2>2 DEF AdaptorInit
  <2>4. MemTypeOK
    <3>1. /\ store = contents /\ held = a /\ phase = "idle" /\ kind = "read"
          /\ wait = 0 /\ beat = 0 /\ resp = FALSE /\ rdata \in Words /\ error = FALSE
      BY <2>1 DEF MemInit
    <3>2. store \in [Lines -> LineValue]
      BY <2>2, <3>1
    <3>3. held \in Addr
      BY <3>1
    <3>4. beat \in 0 .. BURST_LEN /\ wait \in Nat
      BY <3>1
    <3>5. resp \in BOOLEAN /\ error \in BOOLEAN
      BY <3>1
    <3>6. phase \in {"idle", "delay", "burst"} /\ kind \in {"read", "write"}
      BY <3>1
    <3> QED BY <3>1, <3>2, <3>3, <3>4, <3>5, <3>6
  <2> QED BY <2>3, <2>4 DEF Init
<1>2. QED BY <1>1, TypeInductive, PTL DEF Spec

-------------------------------------------------------------------------------
\* The two-bit beat counter wraps exactly after the last beat.
LEMMA CountWraps ==
  ASSUME NEW c \in Beats
  PROVE  (c + 1) % BURST_LEN = IF c = BURST_LEN - 1 THEN 0 ELSE c + 1
BY BurstAssumption DEF Beats

\* As long as the adaptor holds the transfer the memory has sampled, the
\* assertions of the memory hold.
LEMMA SameIsSteady ==
  ASSUME SameTransfer, read_o # write_o
  PROVE  Steady(read_o, write_o, address_o)
BY DEF SameTransfer, Steady, read_o, write_o, address_o

\* What an edge inside a burst does when the master holds its request: the
\* transfer goes on until the last beat has been seen.
LEMMA BeatGoesOn ==
  ASSUME Beat(read_o, write_o, address_o, burst_o), Steady(read_o, write_o, address_o),
         beat < BURST_LEN
  PROVE  /\ phase' = "burst" /\ resp' /\ beat' = beat + 1
         /\ kind = "read" => rdata' = store[held.line][beat]
BY Zenon DEF Beat
LEMMA BeatEnds ==
  ASSUME Beat(read_o, write_o, address_o, burst_o), ~(beat < BURST_LEN)
  PROVE  phase' = "idle" /\ ~resp'
BY Zenon DEF Beat
LEMMA BeatKeeps ==
  ASSUME Beat(read_o, write_o, address_o, burst_o), Steady(read_o, write_o, address_o),
         NoBurstError
  PROVE  /\ ~error' /\ UNCHANGED <<kind, held>>
         /\ kind = "read" => UNCHANGED store
         /\ kind = "write" => store' = [store EXCEPT ![held.line][beat - 1] = linebuf[count]]
BY Zenon DEF Beat, NoBurstError, burst_o

\* The step of the clock, by what the adaptor is doing: in each state of the
\* adaptor the invariant leaves one or two actions to the memory.
LEMMA InvInductive == TypeOK /\ TransferInv /\ [Next]_vars => TransferInv'
<1> SUFFICES ASSUME TypeOK, TransferInv, [Next]_vars PROVE TransferInv'
  OBVIOUS
<1>1. CASE UNCHANGED vars
  BY <1>1 DEF vars, adaptorVars, memVars, TransferInv, NoBurstError, InStep, BeatsSent,
     ForTheClient, SameTransfer, read_o, write_o
<1>2. CASE Next
  <2> DEFINE q == client
  <2> USE BurstAssumption DEF TransferInv, NoBurstError
  <2>0. /\ ClientEdge
        /\ AdaptorEdge(q.read, q.write, q.addr, q.line, rdata, resp)
        /\ MemEdge(read_o, write_o, address_o, burst_o)
    BY <1>2 DEF Next
  <2>t. /\ count \in Beats /\ beat \in 0 .. BURST_LEN /\ linebuf \in [Beats -> Words]
        /\ q \in Requests /\ ~(q.read /\ q.write)
        /\ store \in [Lines -> [Beats -> Words]] /\ addressbuf.line \in Lines
    BY DEF TypeOK, AdaptorTypeOK, MemTypeOK, Beats, Requests, Addr, LineValue
  <2>c. macro \notin {"IDLE", "DONE"} => client' = client
    BY Zenon, <2>0 DEF ClientEdge, resp_o, ForTheClient
  <2>1. CASE IdleNoOp(q.read, q.write)
    <3>1. Quiet(read_o, write_o)
      BY <2>0, <2>1 DEF IdleNoOp, MemEdge, Quiet, Accept, Wait, FirstBeat, Beat, InStep,
         read_o, write_o
    <3> QED BY <2>1, <3>1 DEF IdleNoOp, Quiet, adaptorVars, memVars, InStep, BeatsSent,
            ForTheClient
  <2>2. CASE IdleRead(q.read, q.addr)
    <3>1. Quiet(read_o, write_o) /\ client' = client
      BY <2>0, <2>2 DEF IdleRead, MemEdge, Quiet, Accept, Wait, FirstBeat, Beat, InStep,
         read_o, write_o, ClientEdge, resp_o
    <3> QED BY <2>2, <2>t, <3>1 DEF IdleRead, Quiet, memVars, InStep, BeatsSent,
            ForTheClient, read_o, write_o
  <2>3. CASE IdleWrite(q.read, q.write, q.addr, q.line)
    <3>1. Quiet(read_o, write_o) /\ client' = client
      BY <2>0, <2>3 DEF IdleWrite, MemEdge, Quiet, Accept, Wait, FirstBeat, Beat, InStep,
         read_o, write_o, ClientEdge, resp_o
    <3> QED BY <2>3, <2>t, <3>1 DEF IdleWrite, Quiet, memVars, InStep, BeatsSent,
            ForTheClient, read_o, write_o
  <2>4. CASE WaitRead(rdata, resp)
    <3>0. /\ macro = "WAITR" /\ client' = client /\ read_o /\ ~write_o
          /\ addressbuf' = addressbuf
      BY <2>c, <2>4 DEF WaitRead, read_o, write_o
    <3>1. CASE Accept(read_o, write_o, address_o)
      BY <2>4, <3>0, <3>1 DEF WaitRead, Accept, InStep, BeatsSent, ForTheClient,
         SameTransfer, address_o, read_o, write_o
    <3>2. CASE Wait(read_o, write_o, address_o)
      <4>1. Steady(read_o, write_o, address_o)
        BY <3>0, <3>2, SameIsSteady DEF Wait, InStep
      <4> QED BY <2>4, <3>0, <3>2, <4>1 DEF WaitRead, Wait, InStep, BeatsSent, ForTheClient,
              SameTransfer, read_o, write_o
    <3>3. CASE FirstBeat(read_o, write_o, address_o)
      <4>1. Steady(read_o, write_o, address_o)
        BY <3>0, <3>3, SameIsSteady DEF FirstBeat, InStep
      <4>2. ~resp /\ macro' = "WAITR" /\ kind = "read" /\ held = addressbuf
        BY <2>4, <3>0, <3>3 DEF FirstBeat, InStep, WaitRead, SameTransfer
      <4>3. /\ beat' = 1 /\ resp' /\ phase' = "burst" /\ ~error' /\ client' = client
            /\ rdata' = store[held.line][0] /\ UNCHANGED <<store, kind, held, addressbuf>>
        BY Zenon, <3>0, <3>3, <4>1, <4>2 DEF FirstBeat
      <4>4. InStep'
        BY <4>2, <4>3 DEF InStep, SameTransfer, read_o
      <4>5. BeatsSent'
        BY <4>2, <4>3 DEF BeatsSent
      <4>6. ForTheClient'
        <5>1. linebuf' = linebuf
          BY Zenon, <2>4, <4>2 DEF WaitRead
        <5> QED BY <3>0, <4>2, <4>3, <5>1 DEF ForTheClient, read_o, write_o
      <4> QED BY <4>3, <4>4, <4>5, <4>6
    <3>4. CASE Beat(read_o, write_o, address_o, burst_o)
      <4>1. Steady(read_o, write_o, address_o)
        BY <3>0, <3>4, SameIsSteady DEF Beat, InStep
      <4>2. beat = 1 /\ resp /\ kind = "read" /\ held = addressbuf /\ beat < BURST_LEN
        BY <3>0, <3>4 DEF Beat, InStep, SameTransfer
      <4>3. /\ macro' = "R" /\ count' = 1 /\ linebuf' = [linebuf EXCEPT ![0] = rdata]
            /\ phase' = "burst" /\ resp' /\ beat' = 2 /\ UNCHANGED <<store, kind, held>>
            /\ rdata' = store[held.line][1] /\ ~error'
        <5>1. macro' = "R" /\ count' = 1 /\ linebuf' = [linebuf EXCEPT ![0] = rdata]
          BY Zenon, <2>4, <3>0, <4>2 DEF WaitRead
        <5> QED BY <3>4, <4>1, <4>2, <5>1, BeatGoesOn, BeatKeeps
      <4>4. InStep'
        BY <3>0, <4>2, <4>3 DEF InStep, SameTransfer, read_o
      <4>5. linebuf'[0] = store[addressbuf.line][0]
        BY <2>t, <3>0, <3>4, <4>2, <4>3 DEF BeatsSent, Beat, Beats
      <4>6. BeatsSent'
        BY <3>0, <4>2, <4>3, <4>5 DEF BeatsSent
      <4>7. ForTheClient'
        BY <2>t, <3>0, <4>3 DEF ForTheClient, read_o, write_o
      <4> QED BY <4>3, <4>4, <4>6, <4>7
    <3>5. CASE Quiet(read_o, write_o)
      BY <3>0, <3>5 DEF Quiet
    <3> QED BY <2>0, <3>1, <3>2, <3>3, <3>4, <3>5 DEF MemEdge
  <2>5. CASE WaitWrite(resp)
    <3>0. /\ macro = "WAITW" /\ client' = client /\ write_o /\ ~read_o
          /\ UNCHANGED <<addressbuf, linebuf>>
      BY <2>c, <2>5 DEF WaitWrite, read_o, write_o
    <3>1. CASE Accept(read_o, write_o, address_o)
      BY <2>5, <3>0, <3>1 DEF WaitWrite, Accept, InStep, BeatsSent, ForTheClient,
         SameTransfer, address_o, read_o, write_o
    <3>2. CASE Wait(read_o, write_o, address_o)
      <4>1. Steady(read_o, write_o, address_o)
        BY <3>0, <3>2, SameIsSteady DEF Wait, InStep
      <4> QED BY <2>5, <3>0, <3>2, <4>1 DEF WaitWrite, Wait, InStep, BeatsSent, ForTheClient,
              SameTransfer, read_o, write_o
    <3>3. CASE FirstBeat(read_o, write_o, address_o)
      <4>1. Steady(read_o, write_o, address_o)
        BY <3>0, <3>3, SameIsSteady DEF FirstBeat, InStep
      <4>2. ~resp /\ macro' = "WAITW" /\ kind = "write" /\ held = addressbuf
        BY <2>5, <3>0, <3>3 DEF FirstBeat, InStep, WaitWrite, SameTransfer
      <4> QED BY <2>5, <3>0, <3>3, <4>1, <4>2 DEF WaitWrite, FirstBeat, InStep, BeatsSent,
              ForTheClient, SameTransfer, read_o, write_o
    <3>4. CASE Beat(read_o, write_o, address_o, burst_o)
      <4>1. Steady(read_o, write_o, address_o)
        BY <3>0, <3>4, SameIsSteady DEF Beat, InStep
      <4>2. beat = 1 /\ resp /\ kind = "write" /\ held = addressbuf /\ beat < BURST_LEN
            /\ count = 0
        BY <3>0, <3>4 DEF Beat, InStep, SameTransfer
      <4>3. /\ macro' = "W" /\ count' = 1 /\ ~error'
            /\ phase' = "burst" /\ resp' /\ beat' = 2 /\ UNCHANGED <<kind, held>>
            /\ store' = [store EXCEPT ![held.line][0] = linebuf[0]]
        <5>1. macro' = "W" /\ count' = 1
          BY Zenon, <2>5, <3>0, <4>2 DEF WaitWrite
        <5> QED BY <3>4, <4>1, <4>2, <5>1, BeatGoesOn, BeatKeeps
      <4>4. InStep'
        BY <3>0, <4>2, <4>3 DEF InStep, SameTransfer, read_o
      <4>5. store'[addressbuf.line][0] = linebuf[0]
        BY <2>t, <4>2, <4>3 DEF Beats
      <4>6. BeatsSent'
        BY <3>0, <4>2, <4>3, <4>5 DEF BeatsSent
      <4>7. ForTheClient'
        BY <2>t, <3>0, <4>3 DEF ForTheClient, read_o, write_o
      <4> QED BY <4>3, <4>4, <4>6, <4>7
    <3>5. CASE Quiet(read_o, write_o)
      BY <3>0, <3>5 DEF Quiet
    <3> QED BY <2>0, <3>1, <3>2, <3>3, <3>4, <3>5 DEF MemEdge
  <2>6. CASE ReadBeat(rdata)
    <3>1. /\ Beat(read_o, write_o, address_o, burst_o) /\ client' = client
          /\ macro = "R" /\ read_o /\ ~write_o /\ addressbuf' = addressbuf
      BY <2>0, <2>c, <2>6 DEF ReadBeat, MemEdge, Quiet, Accept, Wait, FirstBeat, InStep,
         read_o, write_o
    <3>2. Steady(read_o, write_o, address_o)
      BY <3>1, SameIsSteady DEF InStep
    <3>3. /\ beat = count + 1 /\ kind = "read" /\ held = addressbuf /\ count > 0
      BY <3>1 DEF InStep, SameTransfer
    <3>4. /\ linebuf' = [linebuf EXCEPT ![count] = rdata] /\ UNCHANGED <<store, kind, held>>
          /\ ~error'
      BY <2>6, <3>1, <3>2, <3>3, BeatKeeps DEF ReadBeat
    <3>5. rdata = store[addressbuf.line][count]
      BY <2>t, <3>1, <3>3 DEF BeatsSent, Beat, Beats
    <3>6. \A b \in 0 .. count : linebuf'[b] = store[addressbuf.line][b]
      <4> SUFFICES ASSUME NEW b \in 0 .. count
                   PROVE linebuf'[b] = store[addressbuf.line][b]
        OBVIOUS
      <4>1. b \in Beats
        BY <2>t DEF Beats
      <4>2. CASE b = count
        BY <2>t, <3>4, <3>5, <4>2
      <4>3. CASE b # count
        <5>1. b \in 0 .. count - 1
          BY <2>t, <4>3 DEF Beats
        <5> QED BY <2>t, <3>1, <3>4, <4>1, <4>3, <5>1 DEF BeatsSent
      <4> QED BY <4>2, <4>3
    <3>7. CASE count = BURST_LEN - 1
      <4>1. macro' = "DONE" /\ phase' = "idle" /\ ~resp'
        <5>1. ~(beat < BURST_LEN)
          BY <2>t, <3>3, <3>7 DEF Beats
        <5> QED BY <2>6, <3>1, <3>7, <5>1, BeatEnds DEF ReadBeat, maxcount
      <4>2. linebuf' = store[addressbuf.line]
        <5>1. linebuf' \in [Beats -> Words]
          BY <2>t, <3>4, <3>5
        <5>2. \A b \in Beats : linebuf'[b] = store[addressbuf.line][b]
          BY <3>6, <3>7 DEF Beats
        <5> QED BY <2>t, <5>1, <5>2
      <4> QED BY <2>t, <3>1, <3>4, <4>1, <4>2 DEF InStep, BeatsSent, ForTheClient, read_o, write_o
    <3>8. CASE count # BURST_LEN - 1
      <4>1. /\ macro' = "R" /\ count' = count + 1 /\ phase' = "burst" /\ resp'
            /\ beat' = beat + 1 /\ rdata' = store[addressbuf.line][beat]
        <5>1. beat < BURST_LEN
          BY <2>t, <3>3, <3>8 DEF Beats
        <5>2. macro' = "R" /\ count' = count + 1
          BY <2>t, <2>6, <3>8, CountWraps DEF ReadBeat, maxcount, NextCount
        <5> QED BY <3>1, <3>2, <3>3, <5>1, <5>2, BeatGoesOn
      <4>2. InStep'
        BY <2>t, <3>1, <3>3, <3>4, <4>1 DEF InStep, SameTransfer, read_o, Beats
      <4>3. BeatsSent'
        BY <2>t, <3>1, <3>3, <3>4, <3>6, <4>1 DEF BeatsSent, Beats
      <4> QED BY <2>t, <3>1, <3>4, <4>1, <4>2, <4>3 DEF ForTheClient, read_o, write_o
    <3> QED BY <3>7, <3>8
  <2>7. CASE WriteBeat
    <3>1. /\ Beat(read_o, write_o, address_o, burst_o) /\ client' = client
          /\ macro = "W" /\ write_o /\ ~read_o /\ UNCHANGED <<addressbuf, linebuf>>
      BY <2>0, <2>c, <2>7 DEF WriteBeat, MemEdge, Quiet, Accept, Wait, FirstBeat, InStep,
         read_o, write_o
    <3>2. Steady(read_o, write_o, address_o)
      BY <3>1, SameIsSteady DEF InStep
    <3>3. /\ beat = count + 1 /\ kind = "write" /\ held = addressbuf /\ count > 0
      BY <3>1 DEF InStep, SameTransfer
    <3>4. /\ store' = [store EXCEPT ![addressbuf.line][count] = linebuf[count]]
          /\ UNCHANGED <<kind, held>> /\ ~error'
      <4>1. beat - 1 = count
        BY <2>t, <3>3 DEF Beats
      <4> QED BY <3>1, <3>2, <3>3, <4>1, BeatKeeps
    <3>6. \A b \in 0 .. count : linebuf[b] = store'[addressbuf.line][b]
      <4> SUFFICES ASSUME NEW b \in 0 .. count
                   PROVE linebuf[b] = store'[addressbuf.line][b]
        OBVIOUS
      <4>1. b \in Beats
        BY <2>t DEF Beats
      <4>2. CASE b = count
        BY <2>t, <3>4, <4>1, <4>2
      <4>3. CASE b # count
        <5>1. b \in 0 .. count - 1
          BY <2>t, <4>3 DEF Beats
        <5> QED BY <2>t, <3>1, <3>4, <4>1, <4>3, <5>1 DEF BeatsSent
      <4> QED BY <4>2, <4>3
    <3>7. CASE count = BURST_LEN - 1
      <4>1. macro' = "DONE" /\ phase' = "idle" /\ ~resp'
        <5>1. ~(beat < BURST_LEN)
          BY <2>t, <3>3, <3>7 DEF Beats
        <5> QED BY <2>7, <3>1, <3>7, <5>1, BeatEnds DEF WriteBeat, maxcount
      <4>2. linebuf = store'[addressbuf.line]
        <5>1. store'[addressbuf.line] \in [Beats -> Words]
          BY <2>t, <3>4
        <5>2. \A b \in Beats : linebuf[b] = store'[addressbuf.line][b]
          BY <3>6, <3>7 DEF Beats
        <5> QED BY <2>t, <5>1, <5>2
      <4> QED BY <2>t, <3>1, <3>4, <4>1, <4>2 DEF InStep, BeatsSent, ForTheClient, read_o, write_o
    <3>8. CASE count # BURST_LEN - 1
      <4>1. /\ macro' = "W" /\ count' = count + 1 /\ phase' = "burst" /\ resp'
            /\ beat' = beat + 1
        <5>1. beat < BURST_LEN
          BY <2>t, <3>3, <3>8 DEF Beats
        <5>2. macro' = "W" /\ count' = count + 1
          BY <2>t, <2>7, <3>8, CountWraps DEF WriteBeat, maxcount, NextCount
        <5> QED BY <3>1, <3>2, <3>3, <5>1, <5>2, BeatGoesOn
      <4>2. InStep'
        BY <2>t, <3>1, <3>3, <3>4, <4>1 DEF InStep, SameTransfer, read_o, Beats
      <4>3. BeatsSent'
        BY <2>t, <3>1, <3>3, <3>4, <3>6, <4>1 DEF BeatsSent, Beats
      <4> QED BY <2>t, <3>1, <3>4, <4>1, <4>2, <4>3 DEF ForTheClient, read_o, write_o
    <3> QED BY <3>7, <3>8
  <2>8. CASE Done
    <3>1. Quiet(read_o, write_o)
      BY <2>0, <2>8 DEF Done, MemEdge, Quiet, Accept, Wait, FirstBeat, Beat, InStep, read_o, write_o
    <3> QED BY <2>8, <3>1 DEF Done, Quiet, memVars, InStep, BeatsSent, ForTheClient
  <2> QED BY <2>0, <2>1, <2>2, <2>3, <2>4, <2>5, <2>6, <2>7, <2>8 DEF AdaptorEdge
<1> QED BY <1>1, <1>2

\* The whole of the invariant holds of every behavior.
THEOREM TransferSafe == Spec => []TransferInv
<1>1. Init => TransferInv
  BY DEF Init, MemInit, AdaptorInit, TransferInv, NoBurstError, InStep, BeatsSent, ForTheClient
<1> QED BY <1>1, TypeCorrect, InvInductive, PTL DEF Spec

\* None of the assertions in param_memory.sv can fail.
THEOREM BurstsAreClean == Spec => []NoBurstError
<1>1. TransferInv => NoBurstError
  BY DEF TransferInv
<1> QED BY <1>1, TransferSafe, PTL

\* The adaptor and the memory never disagree about the beat on the bus.
THEOREM CountersAgree == Spec => []BeatsInStep
<1>1. TypeOK /\ TransferInv => BeatsInStep
  BY DEF TypeOK, AdaptorTypeOK, TransferInv, InStep, BeatsInStep
<1> QED BY <1>1, TypeCorrect, TransferSafe, PTL

\* No line is torn, shifted or incomplete when the adaptor says it is there.
THEOREM LinesAreIntact == Spec => []LineIntact
<1>1. TransferInv => LineIntact
  BY DEF TransferInv, BeatsSent, LineIntact, resp_o, line_o, address_o
<1> QED BY <1>1, TransferSafe, PTL

\* The response belongs to the request on the port, and a write it answers has
\* arrived.
THEOREM ResponsesMatch == Spec => []ResponseMatches
<1>1. TransferInv => ResponseMatches
  BY DEF TransferInv, BeatsSent, ForTheClient, ResponseMatches, resp_o, address_o, read_o, write_o
<1> QED BY <1>1, TransferSafe, PTL

-------------------------------------------------------------------------------
\* A step changes memory in a write transfer only, and there only the line the
\* adaptor addresses.
THEOREM NoOtherLine == Spec => OnlyTheWrittenLine
<1>1. TypeOK /\ TransferInv /\ [Next]_vars =>
        [\A l \in Lines : store'[l] # store[l] =>
            macro \in {"WAITW", "W"} /\ l = address_o.line]_vars
  <2> SUFFICES ASSUME TypeOK, TransferInv, Next, NEW l \in Lines, store'[l] # store[l]
               PROVE  macro \in {"WAITW", "W"} /\ l = address_o.line
    OBVIOUS
  <2>1. Beat(read_o, write_o, address_o, burst_o) /\ kind = "write"
    BY DEF Next, MemEdge, Quiet, Accept, Wait, FirstBeat, Beat, memVars
  <2>2. l = held.line
    BY <2>1 DEF Beat, TypeOK, MemTypeOK
  <2> QED BY <2>1, <2>2 DEF TransferInv, InStep, SameTransfer, Beat, address_o, read_o, TypeOK,
          AdaptorTypeOK
<1> QED BY <1>1, TypeCorrect, TransferSafe, PTL DEF Spec, OnlyTheWrittenLine

-------------------------------------------------------------------------------
\* The abstract memory is about the same lines and addresses.
LEMMA SameVocabulary ==
  Abstract!Addr = Addr /\ Abstract!LineValue = LineValue /\ Abstract!AnyAddr = AnyAddr
BY DEF Abstract!Addr, Addr, Abstract!LineValue, LineValue, Abstract!Beats, Beats,
   Abstract!AnyAddr, AnyAddr

\* Every edge of the detailed clock is a step of the memory of whole lines or
\* leaves it as it is.
LEMMA StepRefines ==
  TypeOK /\ TransferInv /\ TypeOK' /\ TransferInv' /\ [Next]_vars =>
    [Abstract!LineMemNext]_(Abstract!lmVars)
<1> SUFFICES ASSUME TypeOK, TransferInv, TypeOK', TransferInv', [Next]_vars
             PROVE  Abstract!LineMemNext \/ UNCHANGED Abstract!lmVars
  OBVIOUS
<1> USE DEF Abstract!lmVars, PortView, AddrView
<1>t. /\ store \in [Lines -> LineValue] /\ addressbuf \in Addr /\ addressbuf.line \in Lines
      /\ linebuf' \in LineValue /\ addressbuf' \in Addr /\ store' \in [Lines -> LineValue]
      /\ linebuf \in LineValue /\ client.addr \in Addr /\ client.addr.line \in Lines
  BY DEF TypeOK, AdaptorTypeOK, MemTypeOK, Addr, LineValue, Requests
<1>a. Abstract!Addr = Addr /\ Abstract!LineValue = LineValue /\ Abstract!AnyAddr = AnyAddr
  BY SameVocabulary
<1>1. CASE UNCHANGED vars
  BY <1>1 DEF vars, adaptorVars, memVars, LinesView, OpView, write_o, read_o, address_o
<1>2. CASE Next
  <2> DEFINE q == client
  <2>0. /\ AdaptorEdge(q.read, q.write, q.addr, q.line, rdata, resp)
        /\ MemEdge(read_o, write_o, address_o, burst_o)
    BY <1>2 DEF Next
  \* The memory changes its store in write bursts only, and while the adaptor is
  \* idle or done it does not move at all.
  <2>s. /\ store' # store => macro \in {"WAITW", "W"}
        /\ \A l \in Lines : store'[l] # store[l] => l = addressbuf.line
    <3>1. store' # store => Beat(read_o, write_o, address_o, burst_o) /\ kind = "write"
      BY <2>0 DEF MemEdge, Quiet, Accept, Wait, FirstBeat, Beat, memVars
    <3>2. store' # store => macro \in {"WAITW", "W"} /\ held = addressbuf
      BY <3>1 DEF TransferInv, InStep, SameTransfer, Beat, read_o, TypeOK, AdaptorTypeOK
    <3>3. ASSUME NEW l \in Lines, store'[l] # store[l] PROVE l = addressbuf.line
      BY <1>t, <3>1, <3>2, <3>3 DEF Beat
    <3> QED BY <3>2, <3>3
  <2>k. macro \in {"IDLE", "DONE"} => UNCHANGED kind
    BY <2>0 DEF MemEdge, Quiet, Accept, Wait, FirstBeat, Beat, memVars, read_o, write_o,
       TransferInv, InStep
  <2>1. CASE IdleNoOp(q.read, q.write)
    BY <2>1, <2>s, <2>k DEF IdleNoOp, adaptorVars, LinesView, OpView, write_o, read_o, address_o
  <2>2. CASE IdleRead(q.read, q.addr)
    <3>1. Abstract!AcceptRead(q.addr)
      BY <1>a, <1>t, <2>2, <2>s DEF IdleRead, Abstract!AcceptRead, LinesView, OpView, write_o, read_o
    <3> QED BY <1>a, <1>t, <3>1 DEF Abstract!LineMemNext
  <2>3. CASE IdleWrite(q.read, q.write, q.addr, q.line)
    <3>0. LinesView = store /\ LinesView' = [store EXCEPT ![q.addr.line] = linebuf']
      BY <2>3, <2>s DEF IdleWrite, LinesView, write_o, address_o
    <3>1. Abstract!AcceptWrite(q.addr, LinesView'[q.addr.line])
      BY <1>a, <1>t, <2>3, <3>0 DEF IdleWrite, Abstract!AcceptWrite, OpView, write_o, read_o
    <3>2. LinesView'[q.addr.line] \in LineValue
      BY <1>t, <3>0
    <3> QED BY <1>a, <1>t, <3>1, <3>2 DEF Abstract!LineMemNext
  <2>4. CASE WaitRead(rdata, resp)
    <3>1. Abstract!Transfer
      BY <1>a, <1>t, <2>4, <2>s DEF WaitRead, Abstract!Transfer, LinesView, OpView, write_o, read_o
    <3> QED BY <3>1 DEF Abstract!LineMemNext
  <2>5. CASE WaitWrite(resp)
    <3>0. LinesView' = LinesView
      BY <1>t, <2>5, <2>s DEF WaitWrite, LinesView, write_o, address_o
    <3>1. Abstract!Transfer
      BY <1>a, <1>t, <2>5, <3>0 DEF WaitWrite, Abstract!Transfer, OpView, write_o, read_o
    <3> QED BY <3>1 DEF Abstract!LineMemNext
  <2>6. CASE ReadBeat(rdata)
    <3>0. LinesView' = store /\ LinesView = store /\ OpView = "read" /\ addressbuf' = addressbuf
      BY <2>6, <2>s DEF ReadBeat, LinesView, OpView, write_o, read_o
    <3>1. CASE count = maxcount
      <4>1. macro' = "DONE" /\ linebuf' = store'[addressbuf.line] /\ OpView' = "read"
        <5>1. kind = "read" /\ kind' = kind
          BY <2>0, <2>6 DEF ReadBeat, MemEdge, Quiet, Accept, Wait, FirstBeat, Beat, read_o,
             TransferInv, InStep, SameTransfer
        <5> QED BY <2>6, <3>0, <3>1, <5>1 DEF ReadBeat, TransferInv, BeatsSent, OpView,
                read_o, write_o
      <4>2. Abstract!Answer
        BY <1>a, <1>t, <2>6, <2>s, <3>0, <4>1 DEF ReadBeat, Abstract!Answer
      <4> QED BY <4>2 DEF Abstract!LineMemNext
    <3>2. CASE count # maxcount
      <4>1. Abstract!Transfer
        BY <1>a, <1>t, <2>6, <3>0, <3>2 DEF ReadBeat, Abstract!Transfer, OpView, read_o
      <4> QED BY <4>1 DEF Abstract!LineMemNext
    <3> QED BY <3>1, <3>2
  <2>7. CASE WriteBeat
    <3>1. CASE count = maxcount
      <4>1. macro' = "DONE" /\ linebuf = store'[addressbuf.line] /\ OpView' = "write"
            /\ OpView = "write" /\ UNCHANGED <<linebuf, addressbuf>>
        <5>1. kind = "write" /\ kind' = kind
          BY <2>0, <2>7 DEF WriteBeat, MemEdge, Quiet, Accept, Wait, FirstBeat, Beat, read_o,
             TransferInv, InStep, SameTransfer
        <5> QED BY <2>7, <3>1, <5>1 DEF WriteBeat, TransferInv, BeatsSent, OpView,
                read_o, write_o
      <4>2. LinesView' = store' /\ LinesView = [store EXCEPT ![addressbuf.line] = linebuf]
        BY <2>7, <4>1 DEF WriteBeat, LinesView, write_o, address_o
      <4>3. \A l \in Lines : store'[l] = LinesView[l]
        BY <1>t, <2>s, <4>1, <4>2
      <4>4. LinesView' = LinesView
        BY <1>t, <4>2, <4>3
      <4>5. Abstract!Answer
        BY <1>a, <1>t, <2>7, <4>1, <4>4 DEF WriteBeat, Abstract!Answer
      <4> QED BY <4>5 DEF Abstract!LineMemNext
    <3>2. CASE count # maxcount
      <4>0. LinesView' = LinesView
        BY <1>t, <2>7, <2>s, <3>2 DEF WriteBeat, LinesView, write_o, address_o
      <4>1. Abstract!Transfer
        BY <1>a, <1>t, <2>7, <3>2, <4>0 DEF WriteBeat, Abstract!Transfer, OpView, read_o, write_o
      <4> QED BY <4>1 DEF Abstract!LineMemNext
    <3> QED BY <3>1, <3>2
  <2>8. CASE Done
    <3>1. Abstract!Retire
      BY <1>a, <1>t, <2>8, <2>s, <2>k DEF Done, Abstract!Retire, LinesView, OpView, write_o, read_o
    <3> QED BY <3>1 DEF Abstract!LineMemNext
  <2> QED BY <2>0, <2>1, <2>2, <2>3, <2>4, <2>5, <2>6, <2>7, <2>8 DEF AdaptorEdge
<1> QED BY <1>1, <1>2

\* The adaptor with the burst memory behind it is, to its client, a memory that
\* transfers whole lines (the safety part of ImplementsLineMemory).
THEOREM TransferRefinesLineMemory ==
  Spec => Abstract!LineMemInit /\ [][Abstract!LineMemNext]_(Abstract!lmVars)
<1>1. Init /\ TypeOK => Abstract!LineMemInit
  BY SameVocabulary DEF Init, TypeOK, AdaptorTypeOK, MemTypeOK, AdaptorInit, MemInit, Abstract!LineMemInit,
     LinesView, PortView, OpView, AddrView, read_o, write_o, LineValue
<1> QED BY <1>1, TypeCorrect, TransferSafe, StepRefines, PTL DEF Spec
-------------------------------------------------------------------------------
(* How long a request waits.  That it is answered at all is RequestAnswered, a *)
(* liveness property; what carries it is a number of edges, bounded by the     *)
(* constants, that every edge of the clock brings down.                        *)

\* The longest delay of a page is d edges.
LongestDelay(d) == d \in Nat /\ \A e \in Delays : e <= d

\* The edges from here to the response cycle: one to take the request, one for the
\* memory to sample it, its delay, and the beats of the burst.
EdgesLeft(d) ==
  CASE macro = "IDLE" -> BURST_LEN + d + 2
    [] macro \in {"WAITR", "WAITW"} /\ phase = "idle" -> BURST_LEN + d + 1
    [] macro \in {"WAITR", "WAITW"} /\ phase = "delay" -> BURST_LEN + wait
    [] macro \in {"WAITR", "WAITW"} /\ phase = "burst" -> BURST_LEN
    [] macro \in {"R", "W"} -> BURST_LEN - count
    [] macro = "DONE" -> 0

\* The edges of repeat (delay) still to come are those of some page.
DelayRuns(d) == phase = "delay" => wait \in 1 .. d

LEMMA DelayStep ==
  ASSUME NEW d, LongestDelay(d), TypeOK, DelayRuns(d), [Next]_vars
  PROVE  DelayRuns(d)'
<1> USE DelaysAssumption DEF LongestDelay, DelayRuns
<1>1. CASE UNCHANGED vars
  BY <1>1 DEF vars, memVars
<1>2. CASE Next
  <2>1. wait \in Nat
    BY DEF TypeOK, MemTypeOK
  <2>2. CASE Accept(read_o, write_o, address_o)
    <3>1. phase' = "idle" \/ wait' \in Delays
      BY Zenon, <2>2 DEF Accept
    <3>2. wait' \in Delays => wait' \in Nat \ {0} /\ wait' <= d
      OBVIOUS
    <3> QED BY <3>1, <3>2
  <2>3. CASE ~Accept(read_o, write_o, address_o)
    <3>1. \/ Quiet(read_o, write_o) \/ Wait(read_o, write_o, address_o)
          \/ FirstBeat(read_o, write_o, address_o)
          \/ Beat(read_o, write_o, address_o, burst_o)
      BY <1>2, <2>3 DEF Next, MemEdge
    <3> QED BY <2>1, <3>1 DEF Quiet, Wait, FirstBeat, Beat, memVars
  <2> QED BY <2>2, <2>3
<1> QED BY <1>1, <1>2

LEMMA DelayBounded ==
  ASSUME NEW CONSTANT d, LongestDelay(d)
  PROVE  Spec => []DelayRuns(d)
<1>1. Init => DelayRuns(d)
  BY DEF Init, MemInit, DelayRuns
<1> QED BY <1>1, TypeCorrect, DelayStep, PTL DEF Spec

\* The number is one of 0 .. BURST_LEN + d + 2, and 0 in the response cycle only.
LEMMA EdgesLeftBounded ==
  ASSUME NEW d, LongestDelay(d), TypeOK, TransferInv, DelayRuns(d)
  PROVE  /\ EdgesLeft(d) \in 0 .. BURST_LEN + d + 2
         /\ resp_o <=> EdgesLeft(d) = 0
         /\ macro = "IDLE" => EdgesLeft(d) = BURST_LEN + d + 2
<1> USE BurstAssumption DEF EdgesLeft
<1>1. /\ macro \in {"IDLE", "WAITR", "WAITW", "R", "W", "DONE"}
      /\ count \in 0 .. BURST_LEN - 1 /\ d \in Nat
      /\ phase \in {"idle", "delay", "burst"}
  BY DEF TypeOK, AdaptorTypeOK, MemTypeOK, Beats, LongestDelay
<1>2. phase = "delay" => wait \in 1 .. d
  BY DEF DelayRuns
<1> QED BY <1>1, <1>2 DEF resp_o

\* An edge with a request on the port and no response brings the number down: no
\* state of the two machines waits for the other one for ever.
LEMMA EdgeIsProgress ==
  ASSUME NEW d, LongestDelay(d), TypeOK, TransferInv, DelayRuns(d), Next,
         client.read \/ client.write, ~resp_o
  PROVE  EdgesLeft(d)' < EdgesLeft(d)
<1> DEFINE q == client
<1> USE BurstAssumption, DelaysAssumption DEF EdgesLeft, LongestDelay
<1>0. /\ AdaptorEdge(q.read, q.write, q.addr, q.line, rdata, resp)
      /\ MemEdge(read_o, write_o, address_o, burst_o)
  BY DEF Next
<1>t. /\ macro \in {"IDLE", "WAITR", "WAITW", "R", "W"} /\ count \in 0 .. BURST_LEN - 1
      /\ d \in Nat /\ (phase = "delay" => wait \in 1 .. d)
  BY DEF TypeOK, AdaptorTypeOK, Beats, resp_o, DelayRuns
<1>1. CASE macro = "IDLE"
  <2>1. macro' \in {"WAITR", "WAITW"}
    BY <1>0, <1>1 DEF AdaptorEdge, IdleNoOp, IdleRead, IdleWrite, WaitRead, WaitWrite,
       ReadBeat, WriteBeat, Done
  <2>2. phase = "idle"
    BY <1>1 DEF TransferInv, InStep
  <2>3. Quiet(read_o, write_o)
    BY <1>0, <1>1, <2>2 DEF MemEdge, Accept, Wait, FirstBeat, Beat, read_o, write_o
  <2> QED BY <1>1, <1>t, <2>1, <2>2, <2>3 DEF Quiet, memVars
<1>2. CASE macro \in {"WAITR", "WAITW"} /\ phase \in {"idle", "delay"}
  <2>1. macro' = macro /\ ~resp
    BY <1>0, <1>2 DEF TransferInv, InStep, AdaptorEdge, IdleNoOp, IdleRead, IdleWrite, WaitRead,
       WaitWrite, ReadBeat, WriteBeat, Done
  <2>2. (read_o \/ write_o) /\ ~(read_o /\ write_o) /\ read_o # write_o
    BY <1>2 DEF read_o, write_o
  <2>3. CASE phase = "idle"
    <3>1. Accept(read_o, write_o, address_o)
      <4>1. phase # "delay" /\ phase # "burst" /\ (read_o \/ write_o)
        BY <2>2, <2>3
      <4> QED BY Zenon, <1>0, <4>1 DEF MemEdge, Quiet, Wait, FirstBeat, Beat
    <3>2. phase' = "delay" /\ wait' \in Delays
      BY Zenon, <2>2, <3>1 DEF Accept
    <3>3. wait' \in Nat /\ wait' <= d
      BY <3>2
    <3> QED BY <1>2, <1>t, <2>1, <2>3, <3>2, <3>3
  <2>4. CASE phase = "delay"
    <3>1. Steady(read_o, write_o, address_o)
      BY <1>2, <2>2, <2>4, SameIsSteady DEF TransferInv, InStep
    <3>2. CASE Wait(read_o, write_o, address_o)
      <4>1. phase' = "delay" /\ wait' = wait - 1
        BY <3>1, <3>2 DEF Wait
      <4> QED BY <1>2, <1>t, <2>1, <2>4, <4>1
    <3>3. CASE FirstBeat(read_o, write_o, address_o)
      <4>1. phase' = "burst"
        BY <3>1, <3>3 DEF FirstBeat
      <4> QED BY <1>2, <1>t, <2>1, <2>4, <4>1
    <3> QED BY <1>0, <2>4, <3>2, <3>3 DEF MemEdge, Quiet, Accept, Beat
  <2> QED BY <1>2, <2>3, <2>4
<1>3. CASE macro \in {"WAITR", "WAITW"} /\ phase = "burst"
  <2>1. macro' \in {"R", "W"} /\ count' = 1
    BY <1>0, <1>3 DEF TransferInv, InStep, AdaptorEdge, IdleNoOp, IdleRead, IdleWrite, WaitRead,
       WaitWrite, ReadBeat, WriteBeat, Done
  <2> QED BY <1>3, <1>t, <2>1
<1>4. CASE macro \in {"R", "W"}
  <2>1. /\ count' = (count + 1) % BURST_LEN
        /\ macro' = IF count = BURST_LEN - 1 THEN "DONE" ELSE macro
    BY <1>0, <1>4 DEF AdaptorEdge, IdleNoOp, IdleRead, IdleWrite, WaitRead,
       WaitWrite, ReadBeat, WriteBeat, Done, NextCount, maxcount
  <2>2. count' = IF count = BURST_LEN - 1 THEN 0 ELSE count + 1
    BY <1>t, <2>1, CountWraps DEF Beats
  <2> QED BY <1>4, <1>t, <2>1, <2>2
<1> QED BY <1>1, <1>2, <1>3, <1>4, <1>t DEF TypeOK, MemTypeOK

\* The response comes within BURST_LEN + d + 2 edges of the request, whatever the
\* pages' delays up to d: in between every edge counts down, and none is lost.
THEOREM AnsweredInTime ==
  ASSUME NEW CONSTANT d, LongestDelay(d)
  PROVE  Spec =>
           /\ [](EdgesLeft(d) \in 0 .. BURST_LEN + d + 2 /\ (resp_o <=> EdgesLeft(d) = 0))
           /\ [][(client.read \/ client.write) /\ ~resp_o =>
                   EdgesLeft(d)' < EdgesLeft(d)]_vars
<1>1. TypeOK /\ TransferInv /\ DelayRuns(d) =>
        EdgesLeft(d) \in 0 .. BURST_LEN + d + 2 /\ (resp_o <=> EdgesLeft(d) = 0)
  BY EdgesLeftBounded
<1>2. TypeOK /\ TransferInv /\ DelayRuns(d) /\ [Next]_vars =>
        [(client.read \/ client.write) /\ ~resp_o => EdgesLeft(d)' < EdgesLeft(d)]_vars
  BY EdgeIsProgress
<1> QED BY <1>1, <1>2, TypeCorrect, TransferSafe, DelayBounded, PTL DEF Spec
=============================================================================
