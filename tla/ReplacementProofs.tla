--------------------------- MODULE ReplacementProofs ---------------------------
(***************************************************************************)
(* The replacement: the lru bit keeps the two lines of a set used last,    *)
(* for every number of sets and of tags that compete for them.             *)
(***************************************************************************)
EXTENDS Replacement, CachedMemoryProofs

\* A history is empty, or one line, or two.
LEMMA HistoryShape ==
  ASSUME NEW used \in Histories
  PROVE  \/ used = <<>> /\ DOMAIN used = {}
         \/ used # <<>> /\ DOMAIN used = {1} /\ used[1] \in Lines
         \/ used # <<>> /\ DOMAIN used = {1, 2} /\ used[1] \in Lines /\ used[2] \in Lines
<1>1. PICK n \in 0 .. 2 : used \in [1 .. n -> Lines]
  BY DEF Histories
<1>2. CASE n = 0
  BY <1>1, <1>2
<1>3. CASE n = 1
  <2>1. DOMAIN used = {1} /\ used[1] \in Lines
    BY <1>1, <1>3
  <2> QED BY <2>1
<1>4. CASE n = 2
  <2>1. DOMAIN used = {1, 2} /\ used[1] \in Lines /\ used[2] \in Lines
    BY <1>1, <1>4
  <2> QED BY <2>1
<1> QED BY <1>1, <1>2, <1>3, <1>4

\* What one more use of the set makes of its history.
LEMMA FrontIsLatest ==
  ASSUME NEW used \in Histories, NEW l \in Lines
  PROVE  LET u == MoveToFront(used, l)
         IN  /\ u \in Histories
             /\ 1 \in DOMAIN u /\ u[1] = l /\ DOMAIN u \subseteq {1, 2}
             /\ \/ 1 \in DOMAIN used /\ used[1] = l /\ u = used
                \/ 1 \in DOMAIN used /\ used[1] # l /\ DOMAIN u = {1, 2} /\ u[2] = used[1]
                \/ DOMAIN u = {1}
<1> DEFINE u == MoveToFront(used, l)
<1>1. CASE used = <<>> /\ DOMAIN used = {}
  <2>1. u = <<l>>
    BY <1>1 DEF MoveToFront
  <2>2. <<l>> \in [1 .. 1 -> Lines] /\ DOMAIN <<l>> = {1}
    OBVIOUS
  <2> QED BY <2>1, <2>2 DEF Histories
<1>2. CASE used # <<>> /\ 1 \in DOMAIN used /\ DOMAIN used \subseteq {1, 2} /\ used[1] = l
  <2>1. u = used
    BY <1>2 DEF MoveToFront
  <2> QED BY <1>2, <2>1
<1>3. CASE used # <<>> /\ 1 \in DOMAIN used /\ used[1] # l
  <2>1. u = <<l, used[1]>>
    BY <1>3 DEF MoveToFront
  <2>2. used[1] \in Lines
    BY <1>3, HistoryShape
  <2>3. <<l, used[1]>> \in [1 .. 2 -> Lines] /\ DOMAIN <<l, used[1]>> = {1, 2}
    BY <2>2
  <2> QED BY <1>3, <2>1, <2>3 DEF Histories
<1> QED BY <1>1, <1>2, <1>3, HistoryShape

\* A miss in a set is a request for a line that its history does not hold.
LEMMA MissIsThird ==
  ASSUME TypeOK, HistoryTypeOK, CacheInv, LruIsHistory, Requesting(cpu), ~mem_resp(cpu)
  PROVE  AsksForThird(Index(cpu))
<1> DEFINE i == Index(cpu)
           used == recent[i]
<1>t. i \in Indices /\ lru[i] \in Ways /\ lru_out(cpu) = lru[i] /\ 1 - lru[i] \in Ways
  BY RequestTypes DEF lru_out, Ways
<1>1. \A w \in Ways : Hit(w, cpu) => state = "read_mem" /\ w = lru[i]
  BY <1>t DEF CacheInv, MissPending, mem_resp, AnyHit
<1> SUFFICES ASSUME ~AsksForThird(i) PROVE FALSE
  OBVIOUS
<1>2. PICK k \in DOMAIN used : cpu.addr.line = used[k]
  BY DEF AsksForThird
<1>3. used \in Histories
  BY <1>t DEF HistoryTypeOK
<1>4. k \in {1, 2}
  BY <1>2, <1>3, HistoryShape
<1>5. \E w \in Ways : Cached(w, cpu.addr.line) /\ (w = lru[i] => k = 2)
  <2>1. CASE k = 1
    BY <1>t, <1>2, <2>1 DEF LruIsHistory, Ways
  <2>2. CASE k = 2
    BY <1>t, <1>2, <2>2 DEF LruIsHistory
  <2> QED BY <1>4, <2>1, <2>2
<1>6. PICK w \in Ways : Cached(w, cpu.addr.line)
  BY <1>5
<1>7. Hit(w, cpu) /\ ~Refilling(w, i)
  BY <1>6 DEF Cached, Hit, Index, Tag
<1> QED BY <1>1, <1>7 DEF Refilling, Victim

LEMMA HistoryInductive ==
  TypeOK /\ HistoryTypeOK /\ CacheInv /\ LruIsHistory /\ [HistoryNext]_historyVars => LruIsHistory'
<1> SUFFICES ASSUME TypeOK, HistoryTypeOK, CacheInv, LruIsHistory, [HistoryNext]_historyVars
             PROVE  LruIsHistory'
  OBVIOUS
<1>1. CASE UNCHANGED historyVars
  BY <1>1 DEF historyVars, vars, cacheVars, memoryVars, LruIsHistory, AsksForThird, Cached, Refilling,
     Victim, Index, Requesting
<1>2. CASE Next /\ RecordUse
  <2> DEFINE ready == port = "done"
  <2>c. PICK i \in Indices, l \in Lines : i = Index(cpu) /\ l = cpu.addr.line
    BY RequestTypes
  <2>t. /\ i \in Indices /\ l \in Lines /\ l.index = i /\ lru_out(cpu) = lru[i]
        /\ Tag(cpu) = l.tag
        /\ lru \in [Indices -> Ways] /\ tag \in [Ways -> [Indices -> Tags]]
        /\ valid \in [Ways -> [Indices -> BOOLEAN]] /\ Ways = {0, 1}
    BY <2>c, RequestTypes DEF lru_out, Index, Tag, TypeOK, CacheTypeOK, Ways
  <2>r. \A j \in Indices : recent[j] \in Histories
    BY DEF HistoryTypeOK
  <2> SUFFICES ASSUME NEW j \in Indices
               PROVE  /\ \A k \in DOMAIN recent'[j] : recent'[j][k].index = j
                      /\ 1 \in DOMAIN recent'[j] => Cached(1 - lru[j], recent[j][1])'
                      /\ 2 \in DOMAIN recent'[j] /\ ~AsksForThird(j)'
                           => Cached(lru[j], recent[j][2])'
    BY DEF LruIsHistory
  <2>1. CASE ~Requesting(cpu)
    <3>1. /\ state = "check_cache" /\ state' = state
          /\ UNCHANGED <<tag, valid, lru, recent>>
      BY <1>2, <2>1 DEF CacheInv, MissPending, Next, CacheEdge, NoRequest, ReadHit, WriteHit,
         Miss, WriteMem, ReadMem, mem_resp, RecordUse, cacheVars
    <3> QED BY <2>1, <3>1 DEF LruIsHistory, AsksForThird, Cached, Refilling
  <2>2. CASE mem_resp(cpu)
    <3>1. /\ state = "check_cache" /\ state' = "check_cache" /\ UNCHANGED <<tag, valid>>
          /\ lru' = [lru EXCEPT ![i] = IF Hit(0, cpu) THEN 1 ELSE 0]
          /\ recent' = [recent EXCEPT ![i] = MoveToFront(@, l)]
      BY <1>2, <2>c, <2>2 DEF Next, CacheEdge, NoRequest, ReadHit, WriteHit,
         Miss, WriteMem, ReadMem, mem_resp, RecordUse
    <3>2. \A w \in Ways, m \in Lines : Cached(w, m)' <=> Cached(w, m)
      BY <3>1 DEF Cached, Refilling
    <3>3. CASE j # i
      <4>1. recent'[j] = recent[j] /\ lru'[j] = lru[j]
        BY <2>t, <3>1, <3>3 DEF HistoryTypeOK
      <4>2. ~AsksForThird(j)
        BY <2>c, <3>3 DEF AsksForThird
      <4>3. lru[j] \in Ways /\ 1 - lru[j] \in Ways
        BY <2>t
      <4>4. \A k \in DOMAIN recent[j] : recent[j][k] \in Lines
        BY <2>r, HistoryShape
      <4> QED BY <3>2, <4>1, <4>2, <4>3, <4>4 DEF LruIsHistory
    <3>4. CASE j = i
      <4> DEFINE used == recent[i]
      <4>u. PICK u : u = MoveToFront(used, l)
        OBVIOUS
      <4>1. recent'[j] = u
        BY <2>t, <3>1, <3>4, <4>u DEF HistoryTypeOK
      <4>2. PICK w \in Ways : Hit(w, cpu) /\ lru'[i] = 1 - w /\ Cached(w, l)
        <5>1. \E w \in Ways : Hit(w, cpu) /\ lru'[i] = 1 - w
          BY <2>t, <2>2, <3>1, HitOnce DEF CacheInv, mem_resp, AnyHit
        <5> QED BY <2>c, <2>t, <3>1, <5>1 DEF Cached, Hit, Refilling
      <4>3. /\ 1 \in DOMAIN u /\ u[1] = l /\ DOMAIN u \subseteq {1, 2}
            /\ \/ 1 \in DOMAIN used /\ used[1] = l /\ u = used
               \/ 1 \in DOMAIN used /\ used[1] # l /\ DOMAIN u = {1, 2} /\ u[2] = used[1]
               \/ DOMAIN u = {1}
        BY <2>t, <2>r, <4>u, FrontIsLatest
      <4>4. 1 - lru'[i] = w /\ 1 - w \in Ways /\ lru[i] \in Ways /\ 1 - lru[i] \in Ways
        BY <2>t, <4>2
      <4>5. \A m \in Lines : m.index = i /\ m # l => ~(Cached(w, m))
        BY <2>t, <4>2, LinesAreTagged DEF Cached
      <4>6. \A m \in Lines : m.index = i /\ m # l /\ 1 \in DOMAIN used /\ used[1] = m
               => Cached(1 - w, m)
        <5> SUFFICES ASSUME 1 \in DOMAIN used, used[1] \in Lines, used[1].index = i, used[1] # l
                     PROVE  Cached(1 - w, used[1])
          OBVIOUS
        <5>1. Cached(1 - lru[i], used[1])
          BY <2>t DEF LruIsHistory
        <5>2. 1 - lru[i] # w
          BY <4>5, <5>1
        <5> QED BY <2>t, <4>2, <5>1, <5>2
      <4>7. \A k \in DOMAIN used : used[k] \in Lines /\ used[k].index = i
        BY <2>t, <2>r, HistoryShape DEF LruIsHistory
      <4>8. \A k \in DOMAIN u : u[k] \in Lines /\ u[k].index = i
        <5>1. CASE u = used
          BY <4>7, <5>1
        <5>2. CASE 1 \in DOMAIN used /\ DOMAIN u = {1, 2} /\ u[2] = used[1]
          BY <2>t, <4>3, <4>7, <5>2
        <5>3. CASE DOMAIN u = {1}
          BY <2>t, <4>3, <5>3
        <5> QED BY <4>3, <5>1, <5>2, <5>3
      <4>9. Cached(w, u[1])'
        BY <2>t, <3>2, <4>2, <4>3
      <4>10. 2 \in DOMAIN u => Cached(1 - w, u[2])
        <5>1. CASE 1 \in DOMAIN used /\ used[1] # l /\ u[2] = used[1]
          BY <4>6, <4>7, <5>1
        <5>2. CASE 1 \in DOMAIN used /\ used[1] = l /\ u = used
          <6> SUFFICES ASSUME 2 \in DOMAIN used PROVE Cached(1 - w, used[2])
            BY <5>2
          <6>1. ~AsksForThird(i)
            BY <2>c, <5>2 DEF AsksForThird
          <6>2. Cached(1 - lru[i], l) /\ Cached(lru[i], used[2])
            BY <2>t, <5>2, <6>1 DEF LruIsHistory
          <6>3. 1 - lru[i] = w
            <7>1. Hit(1 - lru[i], cpu)
              BY <2>c, <2>t, <6>2 DEF Cached, Hit
            <7> QED BY <2>t, <4>2, <4>4, <7>1, HitOnce DEF CacheInv
          <6> QED BY <2>t, <6>2, <6>3
        <5>3. CASE DOMAIN u = {1}
          BY <5>3
        <5> QED BY <4>3, <5>1, <5>2, <5>3
      <4> QED BY <3>2, <3>4, <4>1, <4>2, <4>4, <4>8, <4>9, <4>10
    <3> QED BY <3>3, <3>4
  <2>3. CASE Requesting(cpu) /\ ~mem_resp(cpu)
    <3>1. cpu' = cpu /\ recent' = recent
      BY <1>2, <2>3, RequestStays DEF Next, RecordUse
    <3>2. AsksForThird(i)
      BY <2>c, <2>3, MissIsThird
    <3>3. lru' = lru /\ \A w \in Ways : w # lru[i] \/ j # i =>
                          valid'[w][j] = valid[w][j] /\ tag'[w][j] = tag[w][j]
      <4>1. CASE Miss(cpu)
        BY <4>1 DEF Miss
      <4>2. CASE WriteMem(cpu, ready)
        BY <4>2 DEF WriteMem
      <4>3. CASE ReadMem(cpu, ready, bus)
        BY <2>c, <2>t, <4>3 DEF ReadMem, Put
      <4> QED BY <1>2, <2>3, <4>1, <4>2, <4>3 DEF Next, CacheEdge, NoRequest, ReadHit, WriteHit
    <3>4. AsksForThird(i)'
      BY <3>1, <3>2 DEF AsksForThird, Requesting, Index
    <3>5. \A k \in DOMAIN recent[j] : recent[j][k].index = j
      BY DEF LruIsHistory
    <3>6. \A w \in Ways, m \in Lines : m.index = j /\ (w # lru[i] \/ j # i) /\ Cached(w, m)
             => Cached(w, m)'
      BY <2>c, <2>t, <3>1, <3>3 DEF Cached, Refilling, Victim, Index
    <3>7. \A k \in DOMAIN recent[j] : recent[j][k] \in Lines
      BY <2>r, HistoryShape
    <3>8. lru[j] \in Ways /\ 1 - lru[j] \in Ways /\ 1 - lru[i] # lru[i] /\ lru[i] \in Ways
      BY <2>t
    <3>9. 1 \in DOMAIN recent[j] => Cached(1 - lru[j], recent[j][1])'
      BY <3>1, <3>3, <3>5, <3>6, <3>7, <3>8 DEF LruIsHistory
    <3>10. j # i => ~AsksForThird(j)
      BY <2>c DEF AsksForThird
    <3>11. 2 \in DOMAIN recent[j] /\ ~AsksForThird(j)' => Cached(lru[j], recent[j][2])'
      BY <3>1, <3>3, <3>4, <3>5, <3>6, <3>7, <3>8, <3>10 DEF LruIsHistory
    <3> QED BY <3>1, <3>5, <3>9, <3>11
  <2> QED BY <2>1, <2>2, <2>3
<1> QED BY <1>1, <1>2 DEF HistoryNext

\* cache_datapath.sv: loading the lru bit with hit_0 on every hit keeps the two lines
\* of a set that were used last, for any number of tags that compete for it.
THEOREM TrueLru == HistorySpec => []RecentlyUsedStay
<1>1. HistorySpec => Spec
  <2>1. [HistoryNext]_historyVars => [Next]_vars
    BY DEF HistoryNext, historyVars
  <2> QED BY <2>1, PTL DEF HistorySpec, HistoryInit, Spec
<1>2. HistoryInit => HistoryTypeOK /\ LruIsHistory
  <2>1. <<>> \in Histories
    <3>1. <<>> \in [1 .. 0 -> Lines]
      OBVIOUS
    <3> QED BY <3>1 DEF Histories
  <2> QED BY <2>1 DEF HistoryInit, HistoryTypeOK, LruIsHistory
<1>3. TypeOK /\ HistoryTypeOK /\ [HistoryNext]_historyVars => HistoryTypeOK'
  BY RequestTypes, FrontIsLatest DEF HistoryTypeOK, HistoryNext, RecordUse, historyVars
<1>4. TypeOK /\ HistoryTypeOK /\ LruIsHistory => RecentlyUsedStay
  <2> SUFFICES ASSUME TypeOK, HistoryTypeOK, LruIsHistory, NEW i \in Indices, NEW k \in DOMAIN recent[i],
                      k = 1 \/ ~AsksForThird(i)
               PROVE  \E w \in Ways : Cached(w, recent[i][k])
    BY DEF RecentlyUsedStay
  <2>1. lru[i] \in Ways /\ 1 - lru[i] \in Ways
    BY DEF TypeOK, CacheTypeOK, Ways
  <2>2. k \in {1, 2}
    BY HistoryShape DEF HistoryTypeOK
  <2> QED BY <2>1, <2>2 DEF LruIsHistory
<1> QED BY <1>1, <1>2, <1>3, <1>4, HistoryInductive, TypeCorrect, CacheSafe, PTL DEF HistorySpec
=============================================================================
