------------------------------ MODULE CoreList ------------------------------
(***************************************************************************)
(* The linked list of CoreMark's list workload (core_list_join.c): cells   *)
(* with a next and an info pointer (list_head), data items with data16 and *)
(* idx (list_data), the operations that relink a constant number of cells, *)
(* and the workload built of them.  A cell and an item are known by their  *)
(* position in memblock and datablock; a heap h is a record of four        *)
(* functions on those positions.  A context c is the part of core_results  *)
(* the workload reads and writes: the seeds and size, the heap h, the      *)
(* blocks of the other two workloads (bytes, mat), and the checksums crc,  *)
(* crcmatrix and crcstate.  The operators are recursive where the code     *)
(* loops over cells.                                                       *)
(***************************************************************************)
EXTENDS CoreState, CoreMatrix

CONSTANT NULL

\* The heaps of size cells (struct list_head_s) and items (struct list_data_s).
Heap(size) ==
  [next   : [0 .. size - 1 -> (0 .. size - 1) \cup {NULL}],
   info   : [0 .. size - 1 -> (0 .. size - 1) \cup {NULL}],
   data16 : [0 .. size - 1 -> -32768 .. 32767],
   idx    : [0 .. size - 1 -> -32768 .. 32767]]

\* copy_info: the contents of an item.
copy_info(h, to, from) ==
  [h EXCEPT !.data16[to] = from.data16, !.idx[to] = from.idx]

\* core_list_insert_new: the next free cell and item (they are taken in step,
\* free is the position of both) go behind insert_point, unless the block is
\* used up.
core_list_insert_new(h, insert_point, info, free, size) ==
  IF free + 1 >= size THEN [h |-> h, free |-> free]
  ELSE [h    |-> copy_info([h EXCEPT !.next[free] = h.next[insert_point],
                                     !.next[insert_point] = free,
                                     !.info[free] = free], free, info),
        free |-> free + 1]

\* core_list_remove: the items of a cell and its successor are swapped and the
\* successor is unlinked; it is the cell returned.
core_list_remove(h, item) ==
  LET ret == h.next[item] IN
  [ret |-> ret,
   h   |-> [h EXCEPT !.info[item] = h.info[ret],
                     !.info[ret] = h.info[item],
                     !.next[item] = h.next[ret],
                     !.next[ret] = NULL]]

\* Fault: the items are not swapped back.
UndoWithoutSwap(h, item_removed, item_modified) ==
  [h EXCEPT !.next[item_removed] = h.next[item_modified],
            !.next[item_modified] = item_removed]

\* core_list_undo_remove.
core_list_undo_remove(h, item_removed, item_modified) ==
  [h EXCEPT !.info[item_removed] = h.info[item_modified],
            !.info[item_modified] = h.info[item_removed],
            !.next[item_removed] = h.next[item_modified],
            !.next[item_modified] = item_removed]

\* Fault: the moved cell keeps its old successor.
CacheFoundNoUnlink(h, list, found) ==
  LET finder == h.next[found] IN
  IF finder = NULL THEN h
  ELSE [h EXCEPT !.next[finder] = h.next[list], !.next[list] = finder]

\* "cache next item at the head of the list": the successor of the cell found
\* moves behind the head.  The pointers are read and written in turn, so the
\* case found = list comes out unchanged.
CacheFound(h, list, found) ==
  LET finder == h.next[found]
      unlinked == [h.next EXCEPT ![found] = h.next[finder]]
      relinked == [unlinked EXCEPT ![finder] = unlinked[list]]
  IN  IF finder = NULL THEN h
      ELSE [h EXCEPT !.next = [relinked EXCEPT ![list] = finder]]

-----------------------------------------------------------------------------
\* The cells from list on, in order.
RECURSIVE CellsFrom(_, _)
CellsFrom(next, list) ==
  IF list = NULL THEN <<>> ELSE <<list>> \o CellsFrom(next, next[list])

\* What the function of an item returns, and c behind it; r is what its benchmark does.
StateCalled(c, r) ==
  [c |-> [c EXCEPT !.bytes = r.bytes, !.crcstate = IF @ = 0 THEN r.crc ELSE @], retval |-> ee_s16(r.crc)]
MatrixCalled(c, r) ==
  [c |-> [c EXCEPT !.mat = r.mat, !.crcmatrix = IF @ = 0 THEN r.crc ELSE @], retval |-> ee_s16(r.crc)]
Calculate(c, data) ==
  LET dtype == ((data \div 8) % 16) * 17
  IN  CASE data % 8 = 0 -> StateCalled(c, core_bench_state(c.bytes, c.seed1, c.seed2,
                                                           IF dtype < 34 THEN 34 ELSE dtype, c.crc))
        [] data % 8 = 1 -> MatrixCalled(c, core_bench_matrix(c.mat, dtype, c.crc))
        [] OTHER        -> [c |-> c, retval |-> data]

\* "cache the result" in the low byte of the item.
CacheResult(r, d) ==
  [c   |-> [r.c EXCEPT !.crc = crcu16(ee_u16(r.retval), @),
                       !.h.data16[d] = (@ \div 256) * 256 + 128 + (r.retval % 128)],
   val |-> r.retval % 128]

calc_func(c, d) ==
  LET data == c.h.data16[d]
  IN  IF Bit(data, 128) = 1 THEN [c |-> c, val |-> data % 128] ELSE CacheResult(Calculate(c, data), d)

\* The function of a is called before that of b.
Difference(first, second) == [c |-> second.c, diff |-> first.val - second.val]
cmp_complex(c, a, b) ==
  LET ThenB(first) == Difference(first, calc_func(first.c, b))
  IN  ThenB(calc_func(c, a))

\* The low byte of an item comes back from its high byte.
Regenerate(data16) == ee_s16((ee_u16(data16) \div 256) * 257)

\* cmp_idx, which is only called with res==NULL.
cmp_idx(c, a, b) ==
  [c    |-> [c EXCEPT !.h.data16[a] = Regenerate(@), !.h.data16[b] = Regenerate(@)],
   diff |-> c.h.idx[a] - c.h.idx[b]]

Compare(cmp, c, a, b) == IF cmp = "idx" THEN cmp_idx(c, a, b) ELSE cmp_complex(c, a, b)

-----------------------------------------------------------------------------
\* core_list_mergesort.  A merge m holds the locals: the two runs (p of psize
\* cells, q of at most qsize), the merged list so far with its tail, and c.

\* e = p or e = q, linked behind the tail.
Take(m, e) ==
  [m EXCEPT !.c = IF m.tail = NULL THEN @ ELSE [@ EXCEPT !.h.next[m.tail] = e],
            !.list = IF m.tail = NULL THEN e ELSE @,
            !.tail = e]
TakeP(m) == [Take(m, m.p) EXCEPT !.p = m.c.h.next[m.p], !.psize = @ - 1]
TakeQ(m) == [Take(m, m.q) EXCEPT !.q = m.c.h.next[m.q], !.qsize = @ - 1]

\* Fault: equal items are taken from the second run.
TakeLowerUnstable(m, r) ==
  IF r.diff < 0 THEN TakeP([m EXCEPT !.c = r.c]) ELSE TakeQ([m EXCEPT !.c = r.c])

\* "First element of p is lower (or same)": equal items come from the first run.
TakeLower(m, r) == IF r.diff <= 0 THEN TakeP([m EXCEPT !.c = r.c]) ELSE TakeQ([m EXCEPT !.c = r.c])

\* Which run the next cell of the merge comes from.
MergeStep(m, cmp) ==
  IF m.psize = 0 THEN TakeQ(m)
  ELSE IF m.qsize = 0 \/ m.q = NULL THEN TakeP(m)
  ELSE TakeLower(m, Compare(cmp, m.c, m.c.h.info[m.p], m.c.h.info[m.q]))

RECURSIVE Merge(_, _)
Merge(m, cmp) ==
  IF m.psize > 0 \/ (m.qsize > 0 /\ m.q # NULL) THEN Merge(MergeStep(m, cmp), cmp) ELSE m

\* q and psize after at most insize steps from p.
RECURSIVE StepAlong(_, _, _, _)
StepAlong(next, q, psize, insize) ==
  IF psize = insize \/ q = NULL THEN [q |-> q, psize |-> psize]
  ELSE StepAlong(next, next[q], psize + 1, insize)

\* One pass: the runs of insize cells are merged two by two.
StartRuns(m, s, insize) == [m EXCEPT !.q = s.q, !.psize = s.psize, !.qsize = insize]
Merged(m) == [m EXCEPT !.p = m.q, !.nmerges = @ + 1]
RECURSIVE MergePass(_, _, _)
MergePass(m, cmp, insize) ==
  IF m.p = NULL THEN m
  ELSE MergePass(Merged(Merge(StartRuns(m, StepAlong(m.c.h.next, m.p, 0, insize), insize), cmp)),
                 cmp, insize)

\* "If we have done only one merge, we're finished."
RECURSIVE SortFrom(_, _, _, _)
SortFrom(c, list, cmp, insize) ==
  LET Passed(m) ==
        LET sorted == [m.c EXCEPT !.h.next[m.tail] = NULL]
        IN  IF m.nmerges <= 1 THEN [c |-> sorted, list |-> m.list]
            ELSE SortFrom(sorted, m.list, cmp, 2 * insize)
  IN  Passed(MergePass([c |-> c, p |-> list, q |-> NULL, psize |-> 0, qsize |-> 0,
                        list |-> NULL, tail |-> NULL, nmerges |-> 0], cmp, insize))

core_list_mergesort(c, list, cmp) == SortFrom(c, list, cmp, 1)

\* core_list_find: the first cell with that idx or, if idx is negative, with
\* that low byte.
RECURSIVE core_list_find(_, _, _)
core_list_find(h, list, info) ==
  IF list = NULL THEN NULL
  ELSE IF IF info.idx >= 0 THEN h.idx[h.info[list]] = info.idx
                           ELSE h.data16[h.info[list]] % 256 = info.data16
  THEN list
  ELSE core_list_find(h, h.next[list], info)

\* core_list_reverse: list is the part still to turn, done the part turned.
RECURSIVE ReverseOnto(_, _, _)
ReverseOnto(next, list, done) ==
  IF list = NULL THEN [next |-> next, list |-> done]
  ELSE ReverseOnto([next EXCEPT ![list] = done], next[list], list)

core_list_reverse(h, list) ==
  LET r == ReverseOnto(h.next, list, NULL)
  IN  [h |-> [h EXCEPT !.next = r.next], list |-> r.list]

-----------------------------------------------------------------------------
\* The pattern core_list_init gives the i-th item.
InitData(i, seed) ==
  LET dat == Xor8(seed % 16, i % 16) * 8 + (i % 8)
  IN  ee_s16(dat * 256 + dat)

\* Its idx: i counts the cells of the list from 1, the first fifth in order.
InitIdx(i, size, seed) ==
  LET pat == Xor16(i, ee_u16(seed)) IN
  IF i < size \div 5 THEN i
  ELSE (Or8((i + 1) % 8, pat \div 256) * 256 + (pat % 256)) % 16384

RECURSIVE InsertItems(_, _, _, _, _)
InsertItems(h, free, i, size, seed) ==
  IF i = size THEN h
  ELSE LET d == InitData(i, seed)
           r == core_list_insert_new(h, 0, [data16 |-> d, idx |-> 32767], free, size)
       IN  InsertItems(r.h, r.free, i + 1, size, seed)

\* while (finder->next!=NULL): index every cell but the last.
RECURSIVE IndexItems(_, _, _, _, _)
IndexItems(h, finder, i, size, seed) ==
  IF h.next[finder] = NULL THEN h
  ELSE IndexItems([h EXCEPT !.idx[h.info[finder]] = InitIdx(i, size, seed)],
                  h.next[finder], i + 1, size, seed)

\* core_list_init: a head, a tail, and as many items as fit between them; the
\* list is then sorted by idx.
core_list_init(c, blksize, seed) ==
  LET size == ListSize(blksize)
      blank == [next   |-> [k \in 0 .. size - 1 |-> NULL],
                info   |-> [k \in 0 .. size - 1 |-> IF k = 0 THEN 0 ELSE NULL],
                data16 |-> [k \in 0 .. size - 1 |-> IF k = 0 THEN ee_s16(32896) ELSE 0],
                idx    |-> [k \in 0 .. size - 1 |-> 0]]
      tail  == core_list_insert_new(blank, 0, [data16 |-> -1, idx |-> 32767], 1, size)
      items == InsertItems(tail.h, tail.free, 0, size, seed)
      indexed == IndexItems(items, items.next[0], 1, size, seed)
  IN  core_list_mergesort([c EXCEPT !.h = indexed], 0, "idx")
=============================================================================
