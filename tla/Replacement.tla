---------------------------- MODULE Replacement ----------------------------
(***************************************************************************)
(* What the lru bits of the cache are for: CachedMemory with a history     *)
(* variable that remembers which lines of each set were served last.  The  *)
(* history only watches; the cache behaves as it does without it.          *)
(***************************************************************************)
EXTENDS CachedMemory

VARIABLE recent         \* the lines served last in each set, latest first

historyVars == <<vars, recent>>

\* At most two lines of each set are remembered.
Histories == UNION {[1 .. n -> Lines] : n \in 0 .. 2}
HistoryTypeOK == recent \in [Indices -> Histories]

\* A served line moves to the front.
MoveToFront(used, l) ==
  IF used = <<>> THEN <<l>> ELSE IF used[1] = l THEN used ELSE <<l, used[1]>>
RecordUse ==
  recent' = IF mem_resp(cpu)
              THEN [recent EXCEPT ![Index(cpu)] = MoveToFront(@, cpu.addr.line)]
              ELSE recent

HistoryInit == Init /\ recent = [i \in Indices |-> <<>>]
HistoryNext == Next /\ RecordUse

HistorySpec == HistoryInit /\ [][HistoryNext]_historyVars
FairHistorySpec == HistorySpec /\ Fairness

-----------------------------------------------------------------------------
\* True LRU: the two lines of a set the processor used last are both cached, and
\* while it asks for a third one the last of them stays.
AsksForThird(i) ==
  /\ Requesting(cpu) /\ Index(cpu) = i
  /\ \A k \in DOMAIN recent[i] : cpu.addr.line # recent[i][k]
RecentlyUsedStay ==
  \A i \in Indices : \A k \in DOMAIN recent[i] :
    (k = 1 \/ ~AsksForThird(i)) => \E w \in Ways : Cached(w, recent[i][k])

\* What makes it inductive.  The lru bit is the history in one bit: the line used
\* last is in the way the bit does not name, and the one before it in the way it
\* names, which only a request for a third line may refill.
LruIsHistory ==
  \A i \in Indices :
    /\ \A k \in DOMAIN recent[i] : recent[i][k].index = i
    /\ 1 \in DOMAIN recent[i] => Cached(1 - lru[i], recent[i][1])
    /\ 2 \in DOMAIN recent[i] /\ ~AsksForThird(i) => Cached(lru[i], recent[i][2])
=============================================================================
