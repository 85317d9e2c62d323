-------------------------- MODULE CachelineAdaptor --------------------------
(***************************************************************************)
(* The cacheline adaptor (mp4/hdl/cacheline_adaptor.sv): it turns one      *)
(* request for a whole line into a burst of beats on the memory's port.    *)
(* The variables are its registers; the outputs depend on them alone (a    *)
(* Moore machine); the inputs are the parameters of AdaptorEdge, one step  *)
(* of which is one posedge clk.                                            *)
(***************************************************************************)
EXTENDS LineTypes

\* Fault: the burst is one beat short.
maxcountShort == BURST_LEN - 2

maxcount == BURST_LEN - 1

VARIABLES macro,        \* state.macro
          count,        \* state.count, two bits in the code
          linebuf, addressbuf

adaptorVars == <<macro, count, linebuf, addressbuf>>

AdaptorTypeOK ==
  /\ macro \in {"IDLE", "WAITR", "WAITW", "R", "W", "DONE"}
  /\ count \in Beats
  /\ linebuf \in [Beats -> Words]
  /\ addressbuf \in Addr

\* Reset writes state.macro only: the buffers start with whatever they held.
AdaptorInit(aBuf, lBuf) ==
  /\ macro = "IDLE" /\ count = 0
  /\ linebuf = lBuf /\ addressbuf = aBuf

-----------------------------------------------------------------------------
(* Outputs *)
line_o == linebuf
address_o == addressbuf
burst_o == linebuf[count]
read_o == macro \in {"WAITR", "R"}
write_o == macro \in {"WAITW", "W"}
resp_o == macro = "DONE"

NextCount == (count + 1) % BURST_LEN    \* state.count is as wide as a beat number

-----------------------------------------------------------------------------
(* One action per state; a read wins over a write when op is chosen. *)
IdleNoOp(read_i, write_i) ==
  /\ macro = "IDLE" /\ ~read_i /\ ~write_i
  /\ UNCHANGED adaptorVars

IdleRead(read_i, address_i) ==
  /\ macro = "IDLE" /\ read_i
  /\ macro' = "WAITR"
  /\ addressbuf' = address_i
  /\ UNCHANGED <<count, linebuf>>

IdleWrite(read_i, write_i, address_i, line_i) ==
  /\ macro = "IDLE" /\ write_i /\ ~read_i
  /\ macro' = "WAITW"
  /\ linebuf' = line_i
  /\ addressbuf' = address_i
  /\ count' = 0

\* Fault: the first beat is taken as a signal only.
WaitReadDropsBeat(burst_i, resp_i) ==
  /\ macro = "WAITR"
  /\ IF resp_i THEN macro' = "R" /\ count' = 1 ELSE UNCHANGED <<macro, count>>
  /\ UNCHANGED <<linebuf, addressbuf>>

WaitRead(burst_i, resp_i) ==
  /\ macro = "WAITR"
  /\ IF resp_i
       THEN macro' = "R" /\ count' = 1
            /\ linebuf' = [linebuf EXCEPT ![0] = burst_i]
       ELSE UNCHANGED <<macro, count, linebuf>>
  /\ UNCHANGED addressbuf

\* Fault: the cycle of the first response is not counted as a beat.
WaitWriteUncounted(resp_i) ==
  /\ macro = "WAITW"
  /\ macro' = IF resp_i THEN "W" ELSE "WAITW"
  /\ UNCHANGED <<count, linebuf, addressbuf>>

WaitWrite(resp_i) ==
  /\ macro = "WAITW"
  /\ IF resp_i
       THEN macro' = "W" /\ count' = 1
       ELSE UNCHANGED <<macro, count>>
  /\ UNCHANGED <<linebuf, addressbuf>>

\* Fault: each beat is stored one place too far.
ReadBeatShifted(burst_i) ==
  /\ macro = "R"
  /\ macro' = IF count = maxcount THEN "DONE" ELSE "R"
  /\ linebuf' = [linebuf EXCEPT ![NextCount] = burst_i]
  /\ count' = NextCount
  /\ UNCHANGED addressbuf

ReadBeat(burst_i) ==
  /\ macro = "R"
  /\ macro' = IF count = maxcount THEN "DONE" ELSE "R"
  /\ linebuf' = [linebuf EXCEPT ![count] = burst_i]
  /\ count' = NextCount
  /\ UNCHANGED addressbuf

\* Fault: the write waits for a count the two bits never hold.
WriteBeatEndless ==
  /\ macro = "W"
  /\ macro' = IF count > maxcount THEN "DONE" ELSE "W"
  /\ count' = NextCount
  /\ UNCHANGED <<linebuf, addressbuf>>

WriteBeat ==
  /\ macro = "W"
  /\ macro' = IF count = maxcount THEN "DONE" ELSE "W"
  /\ count' = NextCount
  /\ UNCHANGED <<linebuf, addressbuf>>

Done ==
  /\ macro = "DONE"
  /\ macro' = "IDLE"
  /\ UNCHANGED <<count, linebuf, addressbuf>>

AdaptorEdge(read_i, write_i, address_i, line_i, burst_i, resp_i) ==
  \/ IdleNoOp(read_i, write_i)
  \/ IdleRead(read_i, address_i)
  \/ IdleWrite(read_i, write_i, address_i, line_i)
  \/ WaitRead(burst_i, resp_i)
  \/ WaitWrite(resp_i)
  \/ ReadBeat(burst_i)
  \/ WriteBeat
  \/ Done
=============================================================================
