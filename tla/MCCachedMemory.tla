--------------------------- MODULE MCCachedMemory ---------------------------
(* CachedMemory, and its replacement, with three lines competing for the two *)
(* ways of each set.                                                         *)
EXTENDS Replacement, TLC

CONSTANTS t0, t1, t2, i0, i1, x, y

MCTags == {t0, t1, t2}
MCLines == [tag : MCTags, index : Indices]
MCContents == {[b \in Beats |-> x]}
MCGarbage == {[b \in Beats |-> y]}

At(t, i, o) == [line |-> [tag |-> t, index |-> i], off |-> o]
Load(t, i, o) == [read |-> TRUE, write |-> FALSE, addr |-> At(t, i, o), mbe |-> {}, wdata |-> x]
Store(t, i, m, d) == [read |-> FALSE, write |-> TRUE, addr |-> At(t, i, 0), mbe |-> m, wdata |-> d]
NoAccess == [Load(t0, i0, 0) EXCEPT !.read = FALSE]

\* Loads from three lines of the first set, at both offsets of one; a partial store
\* into one of them and a full one into another; one line of the second set, that is
\* loaded and stored into.
MCRequests ==
  {Load(t, i0, 0) : t \in MCTags}
  \cup {Load(t0, i0, 1), Store(t0, i0, {0}, y), Store(t1, i0, {0, 1}, y)}
  \cup {Load(t1, i1, 0), Store(t1, i1, {0}, y), NoAccess}
=============================================================================
