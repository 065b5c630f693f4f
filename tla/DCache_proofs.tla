----------------------------- MODULE DCache_proofs -----------------------------
(***************************************************************************)
(* Proofs about DCache for every geometry, every latency and every         *)
(* sequence of accesses: one copy of a block per set, a line to replace    *)
(* whenever a set has two ways, replacement near the least recently used,  *)
(* and a write buffer that stays in its array and loses no store; and,     *)
(* about DCacheGrow, that more lines in a set never cost a miss.           *)
(***************************************************************************)
EXTENDS DCacheGrow, DCacheLemmas, FiniteSetTheorems

\* An address has a set of the cache and a natural tag.
LEMMA EntryTyped == \A e \in Entries : e \in WriteBuffer
BY AddrAssumption, EntryOfTyped DEF Entries
-------------------------------------------------------------------------------
(* The inductive invariant. *)

\* A line was filled at the latest when the next access can start, and only
\* one line of a set that late: the one of the last access.
YoungLine == \A i \in Sets :
    /\ \A w \in Ways : dCache[i][w].trdy <= ready /\ stamp[i][w] <= count
    /\ \A v, w \in Ways : v # w => dCache[i][v].trdy < ready \/ dCache[i][w].trdy < ready

\* Two lines of a set may have the same time stamp, the one filled last and one
\* used when the fill ended, but no three; and an unused line has none.
UsesApart == \A i \in Sets :
    /\ \A u, v, w \in Ways :
          stamp[i][u] < stamp[i][v] /\ stamp[i][v] < stamp[i][w]
             => dCache[i][u].trdy < dCache[i][w].trdy
    /\ \A v \in Ways : stamp[i][v] = 0 <=> dCache[i][v].trdy = 0
    /\ \A v, w \in Ways : v # w /\ stamp[i][v] = stamp[i][w] => stamp[i][v] = 0

IInv == /\ dCache \in [Sets -> [Ways -> Line]]
        /\ stamp \in [Sets -> [Ways -> Nat]]
        /\ ready \in Nat /\ ready > 0
        /\ count \in Nat
        /\ last.latency \in Nat
        /\ GoodBuffer(buffer)
        /\ pending \subseteq Contents(buffer)
        /\ UniqueTags
        /\ TrdyFollowsUse
        /\ YoungLine
        /\ UsesApart

\* The initial state satisfies the invariant.
LEMMA InitIInv == Init => IInv
<1>. SUFFICES ASSUME Init PROVE IInv
  OBVIOUS
<1>1. /\ dCache \in [Sets -> [Ways -> Line]]
      /\ \A i \in Sets, w \in Ways : dCache[i][w] = ZeroLine
      /\ ZeroLine.trdy = 0 /\ ZeroLine.status = DC_INVALID
  BY DEF Init, EmptyCache, ZeroLine, Line
<1>2. stamp \in [Sets -> [Ways -> Nat]] /\ \A i \in Sets, w \in Ways : stamp[i][w] = 0
  BY DEF Init
<1>3. GoodBuffer(buffer) /\ pending \subseteq Contents(buffer)
  BY GeometryFacts DEF Init, EmptyBuffer, GoodBuffer, Distinct, Contents
<1>4. UniqueTags /\ TrdyFollowsUse
  BY <1>1, <1>2 DEF UniqueTags, Used, TrdyFollowsUse
<1>5. YoungLine
  BY <1>1, <1>2 DEF YoungLine, Init
<1>6. UsesApart
  BY <1>1, <1>2 DEF UsesApart
<1>. QED BY <1>1, <1>2, <1>3, <1>4, <1>5, <1>6 DEF IInv, Init

\* Every access keeps the invariant.
LEMMA AccessIInv ==
    ASSUME IInv, NEW opcode \in Opcodes, NEW e \in Entries, NEW gap \in 0 .. MaxGap,
           NEW w \in Ways, Access(opcode, e, ready + gap, w)
    PROVE  IInv'
<1>. DEFINE now == ready + gap
            a   == AccessDCache(dCache, buffer, opcode, e, now, w)
<1>1. now \in Nat /\ ready <= now /\ e \in WriteBuffer /\ e.index \in Sets
  BY BoundAssumption, EntryTyped DEF IInv, WriteBuffer
<1>2. PICK line : AccessOutcome(a, dCache, buffer, opcode, e, now, w, line)
  BY <1>1, AccessGood DEF IInv, GoodCache, Access, Opcodes
<1>3. /\ dCache' = a.cache /\ buffer' = a.buf /\ ready' = now + a.latency
      /\ count' = count + 1 /\ stamp' = [stamp EXCEPT ![e.index][w] = count + 1]
      /\ pending' = (IF opcode = "STORE" THEN pending \cup {e} ELSE pending) \ a.written
      /\ last'.latency = a.latency
      /\ IsSlot(dCache[e.index], e, now, w)
  BY DEF Access
<1>. HIDE DEF a, now
<1>4. /\ line \in Line /\ line.tag = e.tag /\ line.status # DC_INVALID
      /\ a.latency \in Nat \ {0} /\ line.trdy \in Nat
      /\ now <= line.trdy /\ line.trdy <= now + a.latency
      /\ dCache' = [dCache EXCEPT ![e.index][w] = line]
  BY <1>2, <1>3 DEF AccessOutcome, Replace, Line
<1>5. /\ dCache' \in [Sets -> [Ways -> Line]]
      /\ stamp' \in [Sets -> [Ways -> Nat]]
      /\ dCache'[e.index][w] = line
      /\ stamp'[e.index][w] = count + 1
      /\ \A i \in Sets, v \in Ways : i # e.index \/ v # w =>
             dCache'[i][v] = dCache[i][v] /\ stamp'[i][v] = stamp[i][v]
  BY <1>1, <1>3, <1>4 DEF IInv
<1>6. /\ ready' \in Nat /\ ready < ready' /\ now < ready' /\ line.trdy <= ready'
      /\ count' = count + 1 /\ count \in Nat /\ last'.latency \in Nat
  <2>1. ready \in Nat /\ count \in Nat
    BY DEF IInv
  <2>. QED BY <1>1, <1>3, <1>4, <2>1
<1>7. \A i \in Sets, v \in Ways :
         dCache[i][v].trdy \in Nat /\ dCache[i][v].trdy <= ready /\ stamp[i][v] \in Nat
         /\ stamp[i][v] <= count
  BY DEF IInv, YoungLine, Line
<1>8. GoodBuffer(buffer') /\ pending' \subseteq Contents(buffer')
  <2>. DEFINE stored == IF opcode = "STORE" THEN {e} ELSE {}
  <2>1. pending' = (pending \cup stored) \ a.written
    BY <1>3
  <2>2. GoodBuffer(a.buf) /\ (Contents(buffer) \cup stored) \ a.written \subseteq Contents(a.buf)
    BY <1>2 DEF AccessOutcome
  <2>3. pending \subseteq Contents(buffer)
    BY DEF IInv
  <2>4. GoodBuffer(buffer') /\ Contents(buffer') = Contents(a.buf)
    BY <1>3, <2>2 DEF GoodBuffer, Distinct, Contents
  <2>. HIDE DEF stored
  <2>. QED BY <2>1, <2>2, <2>3, <2>4
<1>9. UniqueTags'
  <2>1. \A v \in Ways : v # w => dCache[e.index][v].tag # e.tag \/ ~Used(e.index, v)
    <3>. SUFFICES ASSUME NEW v \in Ways, v # w, dCache[e.index][v].tag = e.tag, Used(e.index, v)
                  PROVE  FALSE
      OBVIOUS
    <3>1. v \in HitWays(dCache[e.index], e.tag)
      BY DEF HitWays, Used
    <3>2. w \in HitWays(dCache[e.index], e.tag)
      BY <1>3, <3>1 DEF IsSlot
    <3>. QED BY <1>1, <3>1, <3>2 DEF IInv, UniqueTags, HitWays, Used
  <2>2. SUFFICES ASSUME NEW i \in Sets, NEW u \in Ways, NEW v \in Ways,
                        Used(i, u)', Used(i, v)', dCache'[i][u].tag = dCache'[i][v].tag
                 PROVE  u = v
    BY DEF UniqueTags
  <2>3. CASE i # e.index
    BY <1>5, <2>2, <2>3 DEF IInv, UniqueTags, Used
  <2>4. CASE i = e.index
    BY <1>1, <1>4, <1>5, <2>1, <2>2, <2>4 DEF IInv, UniqueTags, Used
  <2>. QED BY <2>3, <2>4
<1>10. TrdyFollowsUse'
  <2>1. SUFFICES ASSUME NEW i \in Sets, NEW u \in Ways, NEW v \in Ways,
                        stamp'[i][u] < stamp'[i][v]
                 PROVE  dCache'[i][u].trdy <= dCache'[i][v].trdy
    BY DEF TrdyFollowsUse
  <2>2. CASE i = e.index /\ v = w
    <3>1. dCache'[i][v] = line /\ ready \in Nat
      BY <1>5, <2>2 DEF IInv
    <3>2. CASE u = w
      BY <3>1, <3>2, <1>4, <2>2
    <3>3. CASE u # w
      <4>1. dCache'[i][u] = dCache[i][u] /\ dCache[i][u].trdy <= ready /\ dCache[i][u].trdy \in Nat
        BY <1>5, <1>7, <3>3
      <4>. QED BY <1>1, <1>4, <3>1, <4>1
    <3>. QED BY <3>2, <3>3
  <2>3. CASE i = e.index /\ u = w /\ v # w
    BY <1>1, <1>5, <1>6, <1>7, <2>1, <2>3
  <2>4. CASE i # e.index \/ (u # w /\ v # w)
    BY <1>5, <2>1, <2>4 DEF IInv, TrdyFollowsUse
  <2>. QED BY <2>2, <2>3, <2>4
<1>11. YoungLine'
  <2>1. SUFFICES ASSUME NEW i \in Sets
                 PROVE  /\ \A v \in Ways : dCache'[i][v].trdy <= ready' /\ stamp'[i][v] <= count'
                        /\ \A u, v \in Ways : u # v => \/ dCache'[i][u].trdy < ready'
                                                       \/ dCache'[i][v].trdy < ready'
    BY DEF YoungLine
  <2>2. \A v \in Ways : i # e.index \/ v # w =>
           dCache'[i][v].trdy < ready' /\ stamp'[i][v] <= count'
    <3>. SUFFICES ASSUME NEW v \in Ways, i # e.index \/ v # w
                  PROVE  dCache'[i][v].trdy < ready' /\ stamp'[i][v] <= count'
      OBVIOUS
    <3>1. /\ dCache'[i][v] = dCache[i][v] /\ stamp'[i][v] = stamp[i][v]
          /\ dCache[i][v].trdy <= ready /\ stamp[i][v] <= count
          /\ dCache[i][v].trdy \in Nat /\ stamp[i][v] \in Nat /\ ready \in Nat
      BY <1>5, <1>7 DEF IInv
    <3>. QED BY <1>6, <3>1
  <2>3. i = e.index => dCache'[i][w].trdy <= ready' /\ stamp'[i][w] <= count'
    BY <1>5, <1>6
  <2>4. \A v \in Ways : dCache'[i][v].trdy \in Nat
    BY <1>5 DEF Line
  <2>. QED BY <1>6, <2>2, <2>3, <2>4
<1>12. UsesApart'
  <2>1. ready \in Nat /\ ready > 0 /\ line.trdy \in Nat /\ ready <= line.trdy
    BY <1>1, <1>4 DEF IInv
  <2>2. SUFFICES ASSUME NEW i \in Sets
                 PROVE  /\ \A u, v, x \in Ways :
                              stamp'[i][u] < stamp'[i][v] /\ stamp'[i][v] < stamp'[i][x]
                                 => dCache'[i][u].trdy < dCache'[i][x].trdy
                        /\ \A v \in Ways : stamp'[i][v] = 0 <=> dCache'[i][v].trdy = 0
                        /\ \A v, x \in Ways : v # x /\ stamp'[i][v] = stamp'[i][x]
                                                 => stamp'[i][v] = 0
    BY DEF UsesApart
  <2>3. CASE i # e.index
    BY <1>5, <2>3 DEF IInv, UsesApart
  <2>4. CASE i = e.index
    <3>1. /\ dCache'[i][w] = line /\ stamp'[i][w] = count + 1
          /\ \A v \in Ways : v # w => dCache'[i][v] = dCache[i][v] /\ stamp'[i][v] = stamp[i][v]
      BY <1>5, <2>4
    <3>2. ASSUME NEW u \in Ways, NEW v \in Ways, NEW x \in Ways,
                 stamp'[i][u] < stamp'[i][v], stamp'[i][v] < stamp'[i][x]
          PROVE  dCache'[i][u].trdy < dCache'[i][x].trdy
      <4>1. u # w /\ v # w /\ stamp[i][u] < stamp[i][v]
            /\ dCache'[i][u] = dCache[i][u] /\ stamp'[i][v] = stamp[i][v]
        <5>1. \A y \in Ways : stamp'[i][y] <= count + 1 /\ stamp'[i][y] \in Nat
          BY <1>6, <1>7, <3>1
        <5>2. u # w /\ v # w
          BY <1>6, <3>1, <3>2, <5>1
        <5>. QED BY <3>1, <3>2, <5>2
      <4>2. CASE x = w
        <5>1. dCache[i][u].trdy < ready \/ dCache[i][v].trdy < ready
          BY <3>2, <4>1, <1>7 DEF IInv, YoungLine
        <5>2. dCache[i][u].trdy <= dCache[i][v].trdy
          BY <4>1 DEF IInv, TrdyFollowsUse
        <5>3. dCache[i][u].trdy \in Nat /\ dCache[i][v].trdy \in Nat
          BY <1>7
        <5>4. dCache[i][u].trdy < ready
          BY <2>1, <5>1, <5>2, <5>3
        <5>. QED BY <2>1, <3>1, <4>1, <4>2, <5>3, <5>4
      <4>3. CASE x # w
        <5>1. stamp[i][v] < stamp[i][x] /\ dCache'[i][x] = dCache[i][x]
          BY <3>1, <3>2, <4>1, <4>3
        <5>. QED BY <4>1, <5>1 DEF IInv, UsesApart
      <4>. QED BY <4>2, <4>3
    <3>3. ASSUME NEW v \in Ways PROVE stamp'[i][v] = 0 <=> dCache'[i][v].trdy = 0
      <4>1. CASE v = w
        BY <1>6, <2>1, <3>1, <4>1
      <4>2. CASE v # w
        BY <3>1, <4>2 DEF IInv, UsesApart
      <4>. QED BY <4>1, <4>2
    <3>4. ASSUME NEW v \in Ways, NEW x \in Ways, v # x, stamp'[i][v] = stamp'[i][x]
          PROVE  stamp'[i][v] = 0
      <4>1. \A y \in Ways : stamp[i][y] <= count /\ stamp[i][y] \in Nat
        BY <1>7
      <4>2. v # w /\ x # w
        BY <1>6, <3>1, <3>4, <4>1
      <4>. QED BY <3>1, <3>4, <4>2 DEF IInv, UsesApart
    <3>. QED BY <3>2, <3>3, <3>4
  <2>. QED BY <2>3, <2>4
<1>. QED BY <1>5, <1>6, <1>8, <1>9, <1>10, <1>11, <1>12 DEF IInv

\* Every step keeps the invariant.
LEMMA NextIInv == IInv /\ [Next]_vars => IInv'
<1>. SUFFICES ASSUME IInv, [Next]_vars PROVE IInv'
  OBVIOUS
<1>1. CASE UNCHANGED vars
  BY <1>1 DEF vars, IInv, UniqueTags, Used, TrdyFollowsUse, YoungLine, UsesApart
<1>2. CASE Finished
  BY <1>1, <1>2 DEF Finished
<1>. QED BY <1>1, <1>2, AccessIInv DEF Next

\* Every reachable state satisfies the invariant.
LEMMA Invariance == Spec => []IInv
BY InitIInv, NextIInv, PTL DEF Spec
-------------------------------------------------------------------------------
(* The properties. *)

\* A set never holds a block twice.
THEOREM NoDuplicates == Spec => []UniqueTags
<1>1. IInv => UniqueTags
  BY DEF IInv
<1>. QED BY <1>1, Invariance, PTL

\* The time stamps agree with the order of use.
THEOREM StampsInOrder == Spec => []TrdyFollowsUse
<1>1. IInv => TrdyFollowsUse
  BY DEF IInv
<1>. QED BY <1>1, Invariance, PTL

\* The buffer stays in dcWrBuff and holds no block twice.
THEOREM BufferSafety == Spec => []BufferSafe
<1>1. IInv => BufferSafe
  BY DEF IInv, GoodBuffer, Distinct, BufferSafe, BufferBounded, BufferDistinct
<1>. QED BY <1>1, Invariance, PTL

\* No sequence of merges, evictions and flushes drops a store.
THEOREM StoresKept == Spec => []NoLostWrite
<1>1. IInv => NoLostWrite
  BY DEF IInv, NoLostWrite
<1>. QED BY <1>1, Invariance, PTL

\* With two ways or more a miss always finds a line to replace, whatever the
\* latencies and however close together the accesses come.
THEOREM ReplacementDefined == ASSUME DC_SET_SIZE > 1 PROVE Spec => []VictimDefined
<1>1. IInv => VictimDefined
  <2>. SUFFICES ASSUME IInv, NEW i \in Sets PROVE Candidates(dCache[i], ready) # {}
    BY DEF VictimDefined
  <2>1. 0 \in Ways /\ 1 \in Ways
    BY GeometryFacts DEF Ways
  <2>2. dCache[i][0].trdy < ready \/ dCache[i][1].trdy < ready
    BY <2>1 DEF IInv, YoungLine
  <2>. QED BY <2>1, <2>2 DEF Candidates
<1>. QED BY <1>1, Invariance, PTL

\* Cache, buffer and history keep their types.
THEOREM TypeCorrect == Spec => []TypeOK
<1>1. IInv => TypeOK
  <2>. SUFFICES ASSUME IInv PROVE TypeOK
    OBVIOUS
  <2>1. Contents(buffer) \subseteq WriteBuffer
    BY DEF IInv, GoodBuffer, Contents
  <2>. QED BY <2>1 DEF IInv, GoodBuffer, TypeOK
<1>. QED BY <1>1, Invariance, PTL

\* With a buffer of two blocks or more no access pays for two flushes.  With one
\* block a store miss that evicts a dirty line does.
THEOREM FlushedOnce == ASSUME DC_WR_BUFF_SIZE > 1 PROVE Spec => []OneFlush
<1>1. Init => OneFlush
  BY LatencyAssumption DEF Init, OneFlush
<1>2. IInv /\ OneFlush /\ [Next]_vars => OneFlush'
  <2>. SUFFICES ASSUME IInv, OneFlush, [Next]_vars PROVE OneFlush'
    OBVIOUS
  <2>1. ASSUME NEW opcode \in Opcodes, NEW e \in Entries, NEW now, NEW w \in Ways,
               Access(opcode, e, now, w)
        PROVE  OneFlush'
    <3>1. last'.latency = AccessDCache(dCache, buffer, opcode, e, now, w).latency
      BY <2>1 DEF Access
    <3>2. e \in WriteBuffer
      BY EntryTyped
    <3>. QED BY <3>1, <3>2, AccessCost DEF IInv, GoodCache, Opcodes, OneFlush, Tidy
  <2>2. CASE UNCHANGED vars
    BY <2>2 DEF vars, OneFlush
  <2>. QED BY <2>1, <2>2 DEF Next, Finished
<1>. QED BY <1>1, <1>2, Invariance, PTL DEF Spec

\* The line a miss replaces was used before all others of its set but one: stamps
\* follow the order of use, and only two lines can have the same.
LEMMA OneOlder ==
    ASSUME IInv, NEW i \in Sets, NEW w \in Ways, NEW now \in Nat, ready <= now,
           IsVictim(dCache[i], now, w)
    PROVE  Cardinality({v \in Ways : stamp[i][v] < stamp[i][w]}) <= 1
<1>. DEFINE older == {v \in Ways : stamp[i][v] < stamp[i][w]}
<1>1. /\ \A v \in Ways : dCache[i][v].trdy \in Nat /\ stamp[i][v] \in Nat
      /\ ready \in Nat
  BY DEF IInv, Line
<1>2. \A v \in older : dCache[i][v].trdy <= dCache[i][w].trdy /\ v # w
  BY <1>1 DEF IInv, TrdyFollowsUse
<1>3. \A v \in older : dCache[i][v].trdy = dCache[i][w].trdy
  <2>. SUFFICES ASSUME NEW v \in older PROVE dCache[i][v].trdy = dCache[i][w].trdy
    OBVIOUS
  <2>1. v \in Candidates(dCache[i], now) \/ w \in Candidates(dCache[i], now)
    <3>1. dCache[i][v].trdy < ready \/ dCache[i][w].trdy < ready
      BY <1>2 DEF IInv, YoungLine
    <3>. QED BY <1>1, <3>1 DEF Candidates
  <2>2. w \in Candidates(dCache[i], now)
    BY <2>1 DEF IsVictim
  <2>3. v \in Candidates(dCache[i], now)
    BY <1>1, <1>2, <2>2 DEF Candidates
  <2>4. dCache[i][w].trdy <= dCache[i][v].trdy
    BY <1>1, <2>3 DEF IsVictim
  <2>. QED BY <1>1, <1>2, <2>4
<1>4. \A u, v \in older : u = v
  <2>. SUFFICES ASSUME NEW u \in older, NEW v \in older, u # v PROVE FALSE
    OBVIOUS
  <2>1. /\ dCache[i][u].trdy = dCache[i][w].trdy /\ dCache[i][v].trdy = dCache[i][w].trdy
        /\ stamp[i][u] < stamp[i][w] /\ stamp[i][v] < stamp[i][w]
    BY <1>3
  <2>2. CASE stamp[i][u] = stamp[i][v]
    <3>1. stamp[i][u] = 0
      BY <2>2 DEF IInv, UsesApart
    <3>2. dCache[i][u].trdy = 0 /\ dCache[i][w].trdy # 0
      BY <1>1, <2>1, <3>1 DEF IInv, UsesApart
    <3>. QED BY <2>1, <3>2
  <2>3. CASE stamp[i][u] < stamp[i][v]
    BY <1>1, <2>1, <2>3 DEF IInv, UsesApart
  <2>4. CASE stamp[i][v] < stamp[i][u]
    BY <1>1, <2>1, <2>4 DEF IInv, UsesApart
  <2>. QED BY <1>1, <2>2, <2>3, <2>4
<1>. HIDE DEF older
<1>5. CASE older = {}
  <2>1. Cardinality(older) = 0
    BY <1>5, FS_EmptySet
  <2>. QED BY <2>1 DEF older
<1>6. CASE older # {}
  <2>1. PICK u : u \in older
    BY <1>6
  <2>2. older = {u}
    BY <1>4, <2>1
  <2>3. Cardinality(older) = 1
    BY <2>2, FS_Singleton
  <2>. QED BY <2>3 DEF older
<1>. QED BY <1>5, <1>6

\* Replacement is near-LRU, with any number of ways and any latencies.
THEOREM NearLRU == Spec => VictimNearLRU
<1>1. IInv /\ [Next]_vars => [\A i \in Sets, w \in Ways :
         Replaced(i, w) => Cardinality({v \in Ways : stamp[i][v] < stamp[i][w]}) <= 1]_vars
  <2>. SUFFICES ASSUME IInv, NEW opcode \in Opcodes, NEW e \in Entries, NEW gap \in 0 .. MaxGap,
                       NEW x \in Ways, Access(opcode, e, ready + gap, x),
                       NEW i \in Sets, NEW w \in Ways, Replaced(i, w)
                PROVE  Cardinality({v \in Ways : stamp[i][v] < stamp[i][w]}) <= 1
    BY DEF Next, Finished
  <2>1. e.index \in Sets /\ ready + gap \in Nat /\ ready <= ready + gap
    BY EntryTyped, BoundAssumption DEF IInv, WriteBuffer
  <2>2. i = e.index /\ w = x
    <3>1. stamp' = [stamp EXCEPT ![e.index][x] = count + 1] /\ stamp'[i][w] # stamp[i][w]
      BY DEF Access, Replaced
    <3>. QED BY <2>1, <3>1 DEF IInv
  <2>3. HitWays(dCache[e.index], e.tag) = {}
    <3>1. ~AccessDCache(dCache, buffer, opcode, e, ready + gap, x).hit
      BY DEF Access, Replaced
    <3>. QED BY <3>1 DEF AccessDCache, LoadHit, StoreHit
  <2>4. IsVictim(dCache[i], ready + gap, w)
    BY <2>2, <2>3 DEF Access, IsSlot
  <2>. QED BY <2>1, <2>4, OneOlder
<1>. QED BY <1>1, Invariance, PTL DEF Spec, VictimNearLRU
-------------------------------------------------------------------------------
(* The cache beside one with fewer ways. *)

SL == INSTANCE DCacheLemmas WITH DC_SET_SIZE <- FewerWays

LEMMA SmallAssumed == SL!GeometryAssumption /\ SL!LatencyAssumption
  BY FewerAssumption, GeometryAssumption, LatencyAssumption
     DEF SL!GeometryAssumption, SL!LatencyAssumption, SL!PowersOfTwo, PowersOfTwo

\* What does not depend on the number of ways is the same.
LEMMA SameBlocks == /\ SL!WriteBuffer = WriteBuffer /\ SL!Sets = Sets
                    /\ SL!EmptyBuffer = EmptyBuffer
                    /\ \A n, use, missed : SL!Numbers(n, use, missed) <=> Numbers(n, use, missed)
  BY Zenon DEF SL!WriteBuffer, WriteBuffer, SL!Sets, Sets, SL!EmptyBuffer, EmptyBuffer,
               SL!Numbers, Numbers

\* Small's operators are those of SL.
LEMMA SameSmall ==
    /\ Small!EmptyCache = SL!EmptyCache /\ Small!EmptyBuffer = SL!EmptyBuffer
    /\ Small!Ways = SL!Ways
    /\ \A s, e, now, w : Small!IsSlot(s, e, now, w) <=> SL!IsSlot(s, e, now, w)
    /\ \A c, b, op, e, now, w :
          Small!AccessDCache(c, b, op, e, now, w) = SL!AccessDCache(c, b, op, e, now, w)
<1>1. \A b, e, op : Small!WrBack(b, e, op) = SL!WrBack(b, e, op)
  BY ZenonT(60) DEF Small!WrBack, Small!Merges, Small!IsFull, Small!Room,
                    Small!BufferAtStart, Small!InBuffer, Small!Contents,
                    SL!WrBack, SL!Merges, SL!IsFull, SL!Room,
                    SL!BufferAtStart, SL!InBuffer, SL!Contents
<1>2. \A c, b, op, e, w : Small!Evict(c, b, op, e, w) = SL!Evict(c, b, op, e, w)
  BY <1>1, ZenonT(60) DEF Small!Evict, SL!Evict, Small!DC_DIRTY, SL!DC_DIRTY
<1>3. \A s, t : Small!HitWays(s, t) = SL!HitWays(s, t)
  BY Zenon DEF Small!HitWays, SL!HitWays, Small!Ways, SL!Ways, Small!DC_INVALID, SL!DC_INVALID
<1>4. \A c, b, e, now, w : Small!LoadHit(c, b, e, now, w) = SL!LoadHit(c, b, e, now, w)
  BY Zenon DEF Small!LoadHit, SL!LoadHit, Small!Replace, SL!Replace
<1>5. ASSUME NEW c, NEW b, NEW e, NEW now, NEW w
      PROVE  /\ Small!StoreHit(c, b, e, now, w) = SL!StoreHit(c, b, e, now, w)
             /\ Small!LoadMiss(c, b, e, now, w) = SL!LoadMiss(c, b, e, now, w)
             /\ Small!StoreMiss(c, b, e, now, w) = SL!StoreMiss(c, b, e, now, w)
  <2>1. \A op : /\ Small!WrBack(b, e, op) = SL!WrBack(b, e, op)
                /\ Small!Evict(c, b, op, e, w) = SL!Evict(c, b, op, e, w)
    BY <1>1, <1>2
  <2>2. LET buf == SL!Evict(c, b, "STORE", e, w).buf
        IN Small!WrBack(buf, e, "STORE") = SL!WrBack(buf, e, "STORE")
    BY <1>1
  <2>3. Small!StoreHit(c, b, e, now, w) = SL!StoreHit(c, b, e, now, w)
    BY <2>1 DEF Small!StoreHit, SL!StoreHit, Small!DC_DIRTY, SL!DC_DIRTY,
          Small!Replace, SL!Replace
  <2>4. Small!LoadMiss(c, b, e, now, w) = SL!LoadMiss(c, b, e, now, w)
    BY <2>1 DEF Small!LoadMiss, SL!LoadMiss, Small!DC_VALID, SL!DC_VALID, Small!Replace, SL!Replace
  <2>5. Small!StoreMiss(c, b, e, now, w) = SL!StoreMiss(c, b, e, now, w)
    BY <2>1, <2>2 DEF Small!StoreMiss, SL!StoreMiss, Small!DC_DIRTY, SL!DC_DIRTY,
          Small!Replace, SL!Replace
  <2>. QED BY <2>3, <2>4, <2>5
<1>6. \A s, e, now, w : Small!IsSlot(s, e, now, w) <=> SL!IsSlot(s, e, now, w)
  BY <1>3 DEF Small!IsSlot, SL!IsSlot, Small!IsVictim, SL!IsVictim, Small!Candidates,
              SL!Candidates, Small!Ways, SL!Ways
<1>7. \A c, b, op, e, now, w :
         Small!AccessDCache(c, b, op, e, now, w) = SL!AccessDCache(c, b, op, e, now, w)
  <2>. SUFFICES ASSUME NEW c, NEW b, NEW op, NEW e, NEW now, NEW w
                PROVE  Small!AccessDCache(c, b, op, e, now, w)
                          = SL!AccessDCache(c, b, op, e, now, w)
    OBVIOUS
  <2>1. Small!HitWays(c[e.index], e.tag) = SL!HitWays(c[e.index], e.tag)
    BY <1>3
  <2>. QED BY <1>4, <1>5, <2>1 DEF Small!AccessDCache, SL!AccessDCache
<1>8. Small!EmptyCache = SL!EmptyCache /\ Small!EmptyBuffer = SL!EmptyBuffer /\ Small!Ways = SL!Ways
  BY Zenon DEF Small!EmptyCache, SL!EmptyCache, Small!EmptyBuffer, SL!EmptyBuffer, Small!Ways,
               SL!Ways, Small!Sets, SL!Sets, Small!ZeroLine, SL!ZeroLine, Small!DC_INVALID,
               SL!DC_INVALID
<1>. QED BY <1>6, <1>7, <1>8

\* A block that the smaller cache has and the larger one has not was a hit in the
\* larger one when it was last used, and a miss in the smaller one.
LEMMA SmallAhead ==
    ASSUME FewerWays < DC_SET_SIZE, NEW cache, NEW clock, NEW small, NEW smallClock,
           NEW n, NEW use, NEW missed, NEW smallMissed,
           Recency(cache, clock, n, use, missed),
           SL!Recency(small, smallClock, n, use, smallMissed),
           NEW b \in WriteBuffer, SL!Cached(small, b), ~Cached(cache, b)
    PROVE  smallMissed[b] /\ ~missed[b]
<1>. DEFINE block(v) == [tag |-> cache[b.index][v].tag, index |-> b.index]
<1>1. /\ GoodCache(cache) /\ SL!GoodCache(small) /\ b.index \in Sets
      /\ use \in [WriteBuffer -> Nat] /\ use[b] > 0
      /\ missed \in [WriteBuffer -> BOOLEAN] /\ smallMissed \in [WriteBuffer -> BOOLEAN]
  <2>1. use[b] > 0
    <3>1. PICK w \in SL!Ways : SL!InWay(small, b, w)
      BY DEF SL!Cached, SL!InWay, SL!HitWays
    <3>. QED BY <3>1, SameBlocks DEF SL!Recency, SL!Lines
  <2>. QED BY <2>1, SameBlocks DEF Recency, Lines, Numbers, SL!Recency, SL!Lines, SL!Numbers,
                                   WriteBuffer
<1>2. ASSUME NEW v \in Ways
      PROVE  /\ block(v) \in WriteBuffer /\ InWay(cache, block(v), v) /\ Cached(cache, block(v))
             /\ block(v).index = b.index /\ block(v) # b /\ use[block(v)] > 0
             /\ use[b] < use[block(v)] \/ (use[b] = use[block(v)] + 1 /\ ~missed[b])
  <2>1. cache[b.index][v].status # DC_INVALID
    BY <1>1 DEF Recency, Gone
  <2>2. /\ block(v) \in WriteBuffer /\ InWay(cache, block(v), v) /\ Cached(cache, block(v))
        /\ block(v).index = b.index
    BY <1>1, <2>1, LineInWay
  <2>. HIDE DEF block
  <2>3. block(v) # b
    BY <2>2
  <2>4. use[block(v)] > 0
    BY <2>2 DEF Recency, Lines
  <2>. QED BY <1>1, <2>2, <2>3, <2>4 DEF Recency, Gone
<1>3. \A u, v \in Ways : u # v => block(u) # block(v)
  BY <1>2 DEF Recency, Lines
<1>. HIDE DEF block
<1>. DEFINE inSmall(v) == use[b] < use[block(v)] /\ SL!Cached(small, block(v))
            wayOf(c)   == CHOOSE w \in SL!Ways : SL!InWay(small, c, w)
            f          == [v \in Ways |-> wayOf(IF inSmall(v) THEN block(v) ELSE b)]
<1>4. ASSUME NEW c, SL!Cached(small, c) PROVE wayOf(c) \in SL!Ways /\ SL!InWay(small, c, wayOf(c))
  <2>1. \E w \in SL!Ways : SL!InWay(small, c, w)
    BY <1>4 DEF SL!Cached, SL!InWay, SL!HitWays
  <2>. QED BY <2>1
<1>. HIDE DEF wayOf
<1>5. f \in [Ways -> SL!Ways]
  BY <1>4
<1>6. /\ IsFiniteSet(Ways) /\ IsFiniteSet(SL!Ways)
      /\ Cardinality(SL!Ways) < Cardinality(Ways)
  <2>1. FewerWays \in Nat /\ FewerWays > 0 /\ DC_SET_SIZE \in Nat
    BY GeometryFacts, FewerAssumption
  <2>2. /\ IsFiniteSet(0 .. FewerWays - 1) /\ Cardinality(0 .. FewerWays - 1) = FewerWays
        /\ IsFiniteSet(0 .. DC_SET_SIZE - 1)
        /\ Cardinality(0 .. DC_SET_SIZE - 1) = DC_SET_SIZE
    BY <2>1, FS_Interval
  <2>. QED BY <2>1, <2>2 DEF Ways, SL!Ways
<1>7. PICK u \in Ways, v \in Ways : u # v /\ f[u] = f[v]
  <2>. HIDE DEF f
  <2>. QED BY <1>5, <1>6, FS_PigeonHole
<1>8. ~inSmall(u) /\ ~inSmall(v)
  <2>. DEFINE in(x) == IF inSmall(x) THEN block(x) ELSE b
  <2>1. /\ in(u) \in WriteBuffer /\ in(v) \in WriteBuffer /\ in(u).index = in(v).index
        /\ SL!Cached(small, in(u)) /\ SL!Cached(small, in(v)) /\ wayOf(in(u)) = wayOf(in(v))
    BY <1>2, <1>7
  <2>2. in(u) = in(v)
    BY <1>4, <2>1 DEF SL!InWay, SL!HitWays, WriteBuffer
  <2>. QED BY <1>2, <1>3, <1>7, <2>2
<1>9. ASSUME NEW x \in Ways, ~inSmall(x)
      PROVE  \/ use[b] = use[block(x)] + 1 /\ ~missed[b]
             \/ use[block(x)] = use[b] + 1 /\ smallMissed[b]
  <2>1. CASE ~(use[b] < use[block(x)])
    BY <1>2, <2>1
  <2>2. CASE use[b] < use[block(x)] /\ ~SL!Cached(small, block(x))
    BY <1>1, <1>2, <2>2, SameBlocks DEF SL!Recency, SL!Gone
  <2>. QED BY <1>9, <2>1, <2>2
<1>10. use[block(u)] # use[block(v)]
  BY <1>2, <1>3, <1>7 DEF Recency, Numbers
<1>. QED BY <1>1, <1>2, <1>8, <1>9, <1>10

\* The blocks whose last access hit in the larger cache and missed in the smaller.
Ahead(missed, smallMissed) == {b \in WriteBuffer : smallMissed[b] /\ ~missed[b]}

\* For each of them the smaller cache has missed once more than the larger.
Compared(use, missed, smallMissed) ==
    /\ Recency(dCache, ready, count, use, missed) /\ GoodBuffer(buffer)
    /\ SL!Recency(smallCache, smallReady, count, use, smallMissed) /\ SL!GoodBuffer(smallBuffer)
    /\ misses \in Nat /\ smallMisses \in Nat
    /\ IsFiniteSet(Ahead(missed, smallMissed))
    /\ misses + Cardinality(Ahead(missed, smallMissed)) <= smallMisses

LEMMA ComparedInit ==
    GInit => \E use, missed, smallMissed : Compared(use, missed, smallMissed)
<1>. SUFFICES ASSUME GInit PROVE \E use, missed, smallMissed : Compared(use, missed, smallMissed)
  OBVIOUS
<1>. DEFINE use0 == [b \in WriteBuffer |-> 0]
            mis0 == [b \in WriteBuffer |-> FALSE]
<1>1. Numbers(0, use0, mis0)
  BY DEF Numbers
<1>2. Recency(dCache, ready, count, use0, mis0)
  <2>1. \A i \in Sets, w \in Ways : dCache[i][w] = ZeroLine
    BY DEF GInit, Init, EmptyCache
  <2>2. dCache \in [Sets -> [Ways -> Line]]
    BY DEF GInit, Init, EmptyCache, ZeroLine, Line
  <2>3. \A b \in WriteBuffer, w \in Ways : ~InWay(dCache, b, w)
    BY <2>1 DEF InWay, HitWays, ZeroLine, WriteBuffer
  <2>4. Lines(dCache, ready, count, use0, mis0)
    BY <2>1, <2>2, <2>3 DEF Lines, GoodCache, ZeroLine, GInit, Init
  <2>5. Stamped(dCache, use0, mis0) /\ Gone(dCache, use0, mis0)
    BY <2>3 DEF Stamped, Gone
  <2>. QED BY <1>1, <2>4, <2>5 DEF Recency, GInit, Init
<1>3. SL!Recency(smallCache, smallReady, count, use0, mis0)
  <2>0. smallCache = SL!EmptyCache
    BY SameSmall DEF GInit
  <2>1. \A i \in Sets, w \in SL!Ways : smallCache[i][w] = SL!ZeroLine
    BY <2>0, SameBlocks DEF SL!EmptyCache
  <2>2. smallCache \in [Sets -> [SL!Ways -> SL!Line]]
    BY <2>0, SameBlocks DEF SL!EmptyCache, SL!ZeroLine, SL!Line
  <2>3. \A b \in WriteBuffer, w \in SL!Ways : ~SL!InWay(smallCache, b, w)
    BY <2>1 DEF SL!InWay, SL!HitWays, SL!ZeroLine, WriteBuffer
  <2>4. SL!Lines(smallCache, smallReady, count, use0, mis0)
    BY <2>1, <2>2, <2>3, SameBlocks DEF SL!Lines, SL!GoodCache, SL!ZeroLine, GInit, Init
  <2>5. SL!Stamped(smallCache, use0, mis0) /\ SL!Gone(smallCache, use0, mis0)
    BY <2>3, SameBlocks DEF SL!Stamped, SL!Gone
  <2>. QED BY <1>1, <2>4, <2>5, SameBlocks DEF SL!Recency, GInit, Init
<1>4. GoodBuffer(buffer) /\ SL!GoodBuffer(smallBuffer)
  <2>1. buffer = <<>> /\ smallBuffer = <<>>
    BY SameSmall DEF GInit, Init, EmptyBuffer, SL!EmptyBuffer
  <2>. QED BY <2>1, GeometryFacts DEF GoodBuffer, Distinct, SL!GoodBuffer, SL!Distinct
<1>5. /\ misses = 0 /\ smallMisses = 0 /\ Ahead(mis0, mis0) = {}
  BY DEF GInit, Ahead
<1>. HIDE DEF use0, mis0
<1>. QED BY <1>2, <1>3, <1>4, <1>5, FS_EmptySet DEF Compared

\* An access moves one block in or out of Ahead, and a miss that only the larger
\* cache has moves one out.
LEMMA ComparedStep ==
    ASSUME 1 < FewerWays, FewerWays < DC_SET_SIZE,
           NEW use, NEW missed, NEW smallMissed, Compared(use, missed, smallMissed),
           NEW opcode \in Opcodes, NEW e \in Entries, NEW gap \in 0 .. MaxGap,
           Both(opcode, e, gap)
    PROVE  \E use2, missed2, smallMissed2 : Compared(use2, missed2, smallMissed2)'
<1>. DEFINE hit    == Cached(dCache, e)
            small  == SL!Cached(smallCache, e)
            use2   == [use EXCEPT ![e] = count + 1]
            mis2   == [missed EXCEPT ![e] = ~hit]
            small2 == [smallMissed EXCEPT ![e] = ~small]
            old    == Ahead(missed, smallMissed)
            new    == Ahead(mis2, small2)
<1>1. /\ e \in WriteBuffer /\ gap \in Nat /\ FewerWays \in Nat /\ DC_SET_SIZE \in Nat
      /\ opcode \in {"LOAD", "STORE"}
  BY EntryTyped, BoundAssumption, FewerAssumption, GeometryFacts DEF Opcodes
<1>2. /\ Recency(dCache', ready', count', use2, mis2) /\ GoodBuffer(buffer')
      /\ misses' = misses + (IF hit THEN 0 ELSE 1) /\ count' = count + 1
  <2>1. PICK w \in Ways : Access(opcode, e, ready + gap, w)
    BY DEF Both
  <2>. DEFINE a == AccessDCache(dCache, buffer, opcode, e, ready + gap, w)
  <2>2. /\ IsSlot(dCache[e.index], e, ready + gap, w)
        /\ dCache' = a.cache /\ buffer' = a.buf /\ ready' = ready + gap + a.latency
        /\ count' = count + 1 /\ last'.hit = a.hit
    BY <2>1 DEF Access
  <2>3. ready \in Nat
    BY DEF Compared, Recency, Lines
  <2>4. /\ a.latency \in Nat /\ GoodBuffer(a.buf) /\ a.hit = hit
        /\ Recency(a.cache, ready + gap + a.latency, count + 1, use2, mis2)
    BY <1>1, <2>2, <2>3, RecencyKept DEF Compared
  <2>. HIDE DEF a
  <2>. QED BY <2>2, <2>4 DEF Both, Missed
<1>3. /\ SL!Recency(smallCache', smallReady', count', use2, small2) /\ SL!GoodBuffer(smallBuffer')
      /\ smallMisses' = smallMisses + (IF small THEN 0 ELSE 1)
  <2>1. PICK w \in SL!Ways : SmallAccess(opcode, e, smallReady + gap, w)
    BY SameSmall DEF Both
  <2>. DEFINE a == SL!AccessDCache(smallCache, smallBuffer, opcode, e, smallReady + gap, w)
  <2>2. /\ SL!IsSlot(smallCache[e.index], e, smallReady + gap, w)
        /\ smallCache' = a.cache /\ smallBuffer' = a.buf
        /\ smallReady' = smallReady + gap + a.latency
        /\ smallMisses' = smallMisses + Missed(a.hit)
    BY <2>1, SameSmall DEF SmallAccess
  <2>3. smallReady \in Nat
    BY DEF Compared, SL!Recency, SL!Lines
  <2>4. /\ a.latency \in Nat /\ SL!GoodBuffer(a.buf) /\ a.hit = small
        /\ SL!Recency(a.cache, smallReady + gap + a.latency, count + 1, use2, small2)
    BY <1>1, <2>2, <2>3, SmallAssumed, SameBlocks, SL!RecencyKept DEF Compared
  <2>. HIDE DEF a
  <2>. QED BY <1>2, <2>2, <2>4 DEF Missed
<1>4. /\ misses \in Nat /\ smallMisses \in Nat /\ IsFiniteSet(old)
      /\ misses + Cardinality(old) <= smallMisses
  BY DEF Compared
<1>5. /\ missed \in [WriteBuffer -> BOOLEAN] /\ smallMissed \in [WriteBuffer -> BOOLEAN]
      /\ hit \in BOOLEAN /\ small \in BOOLEAN
  BY SameBlocks DEF Compared, Recency, Numbers, SL!Recency, SL!Numbers, Cached, SL!Cached
<1>6. small /\ ~hit => e \in old
  BY <1>1, SmallAhead DEF Compared, Ahead
<1>. HIDE DEF hit, small
<1>7. new = IF ~small /\ hit THEN old \cup {e} ELSE old \ {e}
  BY <1>1, <1>5 DEF Ahead
<1>. HIDE DEF use2, mis2, small2, old, new
<1>8. /\ IsFiniteSet(new) /\ Cardinality(old) \in Nat /\ Cardinality(new) \in Nat
      /\ ~small /\ hit => Cardinality(new) <= Cardinality(old) + 1
      /\ ~(~small /\ hit) => Cardinality(new) = Cardinality(old) - (IF e \in old THEN 1 ELSE 0)
  <2>1. Cardinality(old) \in Nat
    BY <1>4, FS_CardinalityType
  <2>2. CASE ~small /\ hit
    BY <1>4, <1>7, <2>1, <2>2, FS_AddElement
  <2>3. CASE ~(~small /\ hit)
    <3>1. new = old \ {e}
      BY <1>7, <2>3
    <3>2. IsFiniteSet(new) /\ Cardinality(new) \in Nat
      BY <1>4, <3>1, FS_RemoveElement, FS_CardinalityType
    <3>. QED BY <1>4, <2>1, <2>3, <3>1, <3>2, FS_RemoveElement
  <2>. QED BY <2>2, <2>3, <2>1
<1>9. /\ misses' \in Nat /\ smallMisses' \in Nat
      /\ misses' + Cardinality(new) <= smallMisses'
  BY <1>2, <1>3, <1>4, <1>5, <1>6, <1>8
<1>. QED BY <1>2, <1>3, <1>8, <1>9 DEF Compared, new

\* With more lines in a set a cache never misses more often, whatever the
\* latencies, the gaps and the accesses: a block that only the smaller cache has
\* is one whose last access it has missed and the larger one has not.
THEOREM GrowingHelps ==
    ASSUME 1 < FewerWays, FewerWays < DC_SET_SIZE PROVE GSpec => []MoreWaysFewerMisses
<1>. DEFINE GInv == \E use, missed, smallMissed : Compared(use, missed, smallMissed)
<1>1. GInit => GInv
  BY ComparedInit
<1>2. GInv /\ [GNext]_<<vars, smallVars>> => GInv'
  <2>. SUFFICES ASSUME GInv, [GNext]_<<vars, smallVars>> PROVE GInv'
    OBVIOUS
  <2>1. PICK use, missed, smallMissed : Compared(use, missed, smallMissed)
    OBVIOUS
  <2>2. ASSUME NEW opcode \in Opcodes, NEW e \in Entries, NEW gap \in 0 .. MaxGap,
               Both(opcode, e, gap)
        PROVE  GInv'
    BY <2>1, <2>2, ComparedStep
  <2>3. CASE UNCHANGED <<vars, smallVars>>
    BY <2>1, <2>3 DEF vars, smallVars, Compared
  <2>. QED BY <2>2, <2>3 DEF GNext, Finished
<1>3. GInv => MoreWaysFewerMisses
  <2>. SUFFICES ASSUME NEW use, NEW missed, NEW smallMissed, Compared(use, missed, smallMissed)
                PROVE  MoreWaysFewerMisses
    OBVIOUS
  <2>1. Cardinality(Ahead(missed, smallMissed)) \in Nat
    BY FS_CardinalityType DEF Compared
  <2>. QED BY <2>1 DEF Compared, MoreWaysFewerMisses
<1>. QED BY <1>1, <1>2, <1>3, PTL DEF GSpec
===============================================================================
