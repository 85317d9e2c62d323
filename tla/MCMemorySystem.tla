--------------------------- MODULE MCMemorySystem ---------------------------
(* MemorySystem on one set per cache: three lines to fetch from and three to *)
(* load from, two of them also stored into, so that both caches keep evicting. *)
EXTENDS MemorySystem, TLC

CONSTANTS t0, t1, t2, p0, p1, p2, i0, x, y, z

DataTags == {t0, t1, t2}
CodeTags == {p0, p1, p2}
MCTags == DataTags \cup CodeTags
MCLines == [tag : MCTags, index : {i0}]
At(t, o) == [line |-> [tag |-> t, index |-> i0], off |-> o]

\* Each code line is told from its neighbours and from data by its words.
MCContents == {[l \in MCLines |-> CASE l.tag = p0 -> (0 :> x @@ 1 :> z)
                                    [] l.tag = p1 -> (0 :> y @@ 1 :> z)
                                    [] l.tag = p2 -> (0 :> z @@ 1 :> z)
                                    [] OTHER -> (0 :> x @@ 1 :> x)]}

Load(t, o) == [read |-> TRUE, write |-> FALSE, addr |-> At(t, o), mbe |-> {}, wdata |-> x]
Store(t) == [read |-> FALSE, write |-> TRUE, addr |-> At(t, 0), mbe |-> {0}, wdata |-> y]
NoAccess == [Load(t0, 0) EXCEPT !.read = FALSE]
MCFetches == {Load(t, 0) : t \in CodeTags}
MCAccesses == {Load(t0, 0), Store(t1), Store(t2), NoAccess}
=============================================================================
