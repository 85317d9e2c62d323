------------------------------ MODULE Arbiter ------------------------------
(***************************************************************************)
(* The arbiter (mp4/hdl/arbiter.sv) that shares the cacheline adaptor      *)
(* between the two caches.  Its one register is the state; im and dm are   *)
(* the ports of the instruction and the data cache, records with read,     *)
(* write, addr and line; done is the adaptor's response.  In rest it lets  *)
(* a request through in the same cycle, the data cache's first.            *)
(***************************************************************************)
VARIABLE arb

ArbTypeOK == arb \in {"rest", "imem", "dmem"}
ArbInit == arb = "rest"

Wants(p) == p.read # p.write

\* The port whose request is on the adaptor's line port.
Granted(im, dm) ==
  CASE arb = "rest" /\ Wants(dm) -> "dmem"
    [] arb = "rest" /\ ~Wants(dm) /\ Wants(im) -> "imem"
    [] arb = "rest" /\ ~Wants(dm) /\ ~Wants(im) -> "none"
    [] OTHER -> arb

\* pmem_read, pmem_write, pmem_address, pmem_wdata: by default the data cache's
\* address and line, with neither bit set.
pmem(im, dm) ==
  CASE Granted(im, dm) = "imem" -> im
    [] Granted(im, dm) = "dmem" -> dm
    [] OTHER -> [dm EXCEPT !.read = FALSE, !.write = FALSE]

\* Fault: a response that is not qualified by the owner.
imem_respAny(im, dm, done) == done

imem_resp(im, dm, done) == done /\ Granted(im, dm) = "imem"
dmem_resp(im, dm, done) == done /\ Granted(im, dm) = "dmem"

-----------------------------------------------------------------------------
\* Fault: the state register prefers the cache that the outputs do not.
RestGrantSwapped(im, dm, done) ==
  /\ arb = "rest" /\ ~done /\ (Wants(im) \/ Wants(dm))
  /\ arb' = IF Wants(im) THEN "imem" ELSE "dmem"

RestGrant(im, dm, done) ==
  /\ arb = "rest" /\ ~done /\ (Wants(im) \/ Wants(dm))
  /\ arb' = IF Wants(dm) THEN "dmem" ELSE "imem"

RestStay(im, dm, done) ==
  /\ arb = "rest" /\ (done \/ (~Wants(im) /\ ~Wants(dm)))
  /\ UNCHANGED arb

ServeForEver(done) ==
  /\ arb \in {"imem", "dmem"}
  /\ UNCHANGED arb

Serve(done) ==
  /\ arb \in {"imem", "dmem"}
  /\ arb' = IF done THEN "rest" ELSE arb

ArbEdge(im, dm, done) ==
  RestGrant(im, dm, done) \/ RestStay(im, dm, done) \/ Serve(done)
=============================================================================
