----------------------------- MODULE MCCoreMark -----------------------------
(***************************************************************************)
(* CoreMark on small blocks.  Three of the five sets of seeds and sizes    *)
(* with published checksums are run, those of 400 and 666 bytes for each   *)
(* algorithm; the two of 2000 bytes are not.  The other configurations     *)
(* differ in the number and the sign of the seeds and repeat the workload; *)
(* in one of them the second seed is another one than the first, and in    *)
(* one the corruption turns a sign into a comma.                           *)
(***************************************************************************)
EXTENDS CoreMark

Config(seed1, seed2, seed3, size, iterations) ==
  [seed1 |-> seed1, seed2 |-> seed2, seed3 |-> seed3, size |-> size,
   iterations |-> iterations, execs |-> {"list", "matrix", "state"}]

KnownConfigs ==
  {Config(8, 8, 8, 400, 1), Config(0, 0, 102, 666, 1), Config(13333, 13333, 102, 666, 1)}
SmallConfigs ==
  {Config(8, 8, 8, 400, 2), Config(3, 3, 1, 140, 3), Config(-5, -5, 7, 180, 3),
   Config(1000, 1000, 20, 240, 2), Config(21, 21, 13, 300, 2), Config(-5, 6, 7, 180, 2),
   Config(1, 1, 5, 400, 2)}
SweepConfigs == {Config(s, s, 5, 160, 2) : s \in -24 .. 24}
MCConfigs == KnownConfigs \cup SmallConfigs \cup SweepConfigs
=============================================================================
