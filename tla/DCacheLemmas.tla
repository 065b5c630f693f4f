----------------------------- MODULE DCacheLemmas -----------------------------
(***************************************************************************)
(* Facts about the operators of DCacheOps for every geometry and every     *)
(* latency: what an access does to a cache and a buffer, what it may cost, *)
(* and which block a set gives up, by the order in which its blocks were   *)
(* used.  DCache_proofs and Pipeline_proofs rest on them.                  *)
(***************************************************************************)
EXTENDS DCacheOps, TLAPS

Distinct(buf) == \A j, k \in 1 .. Len(buf) : buf[j] = buf[k] => j = k

\* What every buffer of the program satisfies.
GoodBuffer(buf) == /\ buf \in Seq(WriteBuffer)
                   /\ Len(buf) <= DC_WR_BUFF_SIZE
                   /\ Distinct(buf)
-------------------------------------------------------------------------------
(* The address fields. *)

\* A size that is a power of two is positive.
LEMMA GeometryFacts == /\ DC_NUM_SETS \in Nat \ {0}
                       /\ DC_BLOCK_SIZE \in Nat \ {0}
                       /\ DC_SET_SIZE \in Nat \ {0}
                       /\ DC_WR_BUFF_SIZE \in Nat \ {0}
  BY GeometryAssumption DEF PowersOfTwo

\* An address has a set of the cache and a tag, negative like the address.
LEMMA EntryOfTyped == ASSUME NEW addr \in Int PROVE EntryOf(addr) \in WriteBuffer
<1>1. Block(addr) \in Int
  BY GeometryFacts, SMT DEF Block
<1>. DEFINE b == Block(addr)
<1>2. b % DC_NUM_SETS \in Sets /\ b - (b % DC_NUM_SETS) \in Int
  <2>. HIDE DEF b
  <2>1. b \in Int /\ DC_NUM_SETS \in Nat \ {0}
    BY <1>1, GeometryFacts DEF b
  <2>2. b % DC_NUM_SETS \in 0 .. DC_NUM_SETS - 1
    BY <2>1, SMT
  <2>. QED BY <2>1, <2>2 DEF Sets
<1>. QED BY <1>2 DEF EntryOf, WriteBuffer, Index, Tag
-------------------------------------------------------------------------------
(* The write buffer. *)

\* Appending a block the buffer does not hold keeps the blocks distinct.
LEMMA AppendGood ==
    ASSUME NEW buf, GoodBuffer(buf), NEW e \in WriteBuffer, e \notin Contents(buf),
           Len(buf) < DC_WR_BUFF_SIZE
    PROVE  /\ GoodBuffer(Append(buf, e))
           /\ Contents(Append(buf, e)) = Contents(buf) \cup {e}
<1>. DEFINE new == Append(buf, e)
<1>1. /\ buf \in Seq(WriteBuffer) /\ Len(buf) \in Nat /\ DC_WR_BUFF_SIZE \in Nat
      /\ \A k \in 1 .. Len(buf) : buf[k] # e
  BY GeometryFacts DEF GoodBuffer, Contents
<1>2. /\ new \in Seq(WriteBuffer) /\ Len(new) = Len(buf) + 1
      /\ \A k \in 1 .. Len(buf) : new[k] = buf[k]
      /\ new[Len(buf) + 1] = e
  BY <1>1
<1>3. Distinct(new)
  BY <1>1, <1>2 DEF GoodBuffer, Distinct
<1>4. Contents(new) = Contents(buf) \cup {e}
  BY <1>1, <1>2 DEF Contents
<1>. QED BY <1>1, <1>2, <1>3, <1>4 DEF GoodBuffer

\* WrBack keeps the buffer good, and every block it found, and its own, is
\* afterwards in the buffer or in memory.
LEMMA WrBackGood ==
    ASSUME NEW buf, GoodBuffer(buf), NEW e \in WriteBuffer, NEW opcode
    PROVE  LET wb == WrBack(buf, e, opcode)
           IN  /\ GoodBuffer(wb.buf)
               /\ wb.latency \in Nat
               /\ (Contents(buf) \cup {e}) \ wb.written \subseteq Contents(wb.buf)
<1>. DEFINE wb   == WrBack(buf, e, opcode)
            room == Room(buf, opcode)
<1>1. GoodBuffer(<<>>) /\ Contents(<<>>) = {}
  BY GeometryFacts DEF GoodBuffer, Distinct, Contents
<1>2. GoodBuffer(BufferAtStart(buf, opcode))
  BY <1>1 DEF BufferAtStart
<1>3. GoodBuffer(room)
  BY <1>1, <1>2 DEF Room
<1>4. wb.latency \in Nat
  BY LatencyAssumption DEF WrBack
<1>5. CASE Merges(buf, e, opcode)
  <2>1. opcode # "LOAD" /\ e \in Contents(buf)
    BY <1>1, <1>5 DEF Merges, InBuffer, BufferAtStart
  <2>2. wb.buf = room /\ wb.written = (IF IsFull(buf, opcode) THEN Contents(buf) ELSE {})
    BY <1>5, <2>1 DEF WrBack
  <2>3. ~IsFull(buf, opcode) => room = buf
    BY <2>1 DEF Room, BufferAtStart
  <2>. QED BY <1>3, <1>4, <2>1, <2>2, <2>3
<1>6. CASE ~Merges(buf, e, opcode)
  <2>1. e \notin Contents(room)
    BY <1>1, <1>6 DEF Merges, InBuffer, Room
  <2>2. Len(room) < DC_WR_BUFF_SIZE
    <3>1. CASE IsFull(buf, opcode)
      BY <3>1, GeometryFacts DEF Room
    <3>2. CASE ~IsFull(buf, opcode)
      <4>1. Len(BufferAtStart(buf, opcode)) \in Nat
        BY <1>2 DEF GoodBuffer
      <4>. QED BY <3>2, <4>1, GeometryFacts DEF Room, IsFull
    <3>. QED BY <3>1, <3>2
  <2>3. GoodBuffer(Append(room, e)) /\ Contents(Append(room, e)) = Contents(room) \cup {e}
    BY <1>3, <2>1, <2>2, AppendGood
  <2>4. wb.buf = Append(room, e)
    BY <1>6 DEF WrBack
  <2>5. Contents(buf) \ wb.written \subseteq Contents(room)
    BY DEF WrBack, Room, BufferAtStart
  <2>. QED BY <1>4, <2>3, <2>4, <2>5
<1>. QED BY <1>5, <1>6
-------------------------------------------------------------------------------
(* One access. *)

GoodCache(cache) == cache \in [Sets -> [Ways -> Line]]

\* The block in a line of a good cache is a block.
LEMMA EvictGood ==
    ASSUME NEW cache, GoodCache(cache), NEW buf, GoodBuffer(buf),
           NEW opcode, NEW e \in WriteBuffer, NEW w \in Ways
    PROVE  LET ev == Evict(cache, buf, opcode, e, w)
           IN  /\ GoodBuffer(ev.buf)
               /\ ev.latency \in Nat
               /\ Contents(buf) \ ev.written \subseteq Contents(ev.buf)
<1>. DEFINE old == cache[e.index][w]
<1>1. [tag |-> old.tag, index |-> e.index] \in WriteBuffer
  BY DEF GoodCache, Line, WriteBuffer
<1>2. CASE old.status = DC_DIRTY
  BY <1>1, <1>2, WrBackGood DEF Evict
<1>3. CASE old.status # DC_DIRTY
  BY <1>3 DEF Evict
<1>. QED BY <1>2, <1>3

\* An access changes one line, to the block asked for, and the line's time is
\* between the start and the end of the access, the start just when it hits; the
\* buffer stays good and only a flush takes blocks out of it.
AccessOutcome(a, cache, buf, opcode, e, now, w, line) ==
    /\ line \in Line
    /\ line.tag = e.tag
    /\ line.status # DC_INVALID
    /\ a.latency \in Nat \ {0}
    /\ now <= line.trdy /\ line.trdy <= now + a.latency
    /\ HitWays(cache[e.index], e.tag) # {} => a.hit = TRUE /\ line.trdy = now
    /\ HitWays(cache[e.index], e.tag) = {} => a.hit = FALSE /\ line.trdy > now
    /\ a.cache = Replace(cache, e, w, line)
    /\ GoodBuffer(a.buf)
    /\ (Contents(buf) \cup (IF opcode = "STORE" THEN {e} ELSE {})) \ a.written
           \subseteq Contents(a.buf)

\* What every access does to cache and buf.
LEMMA AccessGood ==
    ASSUME NEW cache, NEW buf, NEW opcode \in {"LOAD", "STORE"}, NEW e \in WriteBuffer,
           NEW w \in Ways, NEW now \in Nat,
           GoodCache(cache), GoodBuffer(buf),
           IsSlot(cache[e.index], e, now, w)
    PROVE  \E line :
             AccessOutcome(AccessDCache(cache, buf, opcode, e, now, w),
                           cache, buf, opcode, e, now, w, line)
<1>. DEFINE a   == AccessDCache(cache, buf, opcode, e, now, w)
            old == cache[e.index][w]
            hit == HitWays(cache[e.index], e.tag) # {}
<1>0. /\ e.index \in Sets /\ e.tag \in Int
      /\ old \in Line
      /\ opcode \in {"LOAD", "STORE"}
      /\ MemRdLatency \in Nat \ {0} /\ HitdCLtcy \in Nat \ {0}
  BY LatencyAssumption DEF GoodCache, WriteBuffer
<1>1. CASE hit
  <2>1. old.tag = e.tag /\ old.status # DC_INVALID
    BY <1>1 DEF IsSlot, HitWays
  <2>2. CASE opcode = "LOAD"
    <3>. DEFINE line == [old EXCEPT !.trdy = now]
    <3>1. a = LoadHit(cache, buf, e, now, w)
      BY <1>1, <2>2 DEF AccessDCache
    <3>2. line \in Line /\ line.tag = e.tag /\ line.status # DC_INVALID /\ line.trdy = now
      BY <1>0, <2>1 DEF Line
    <3>3. /\ a.latency = HitdCLtcy /\ a.cache = Replace(cache, e, w, line)
          /\ a.buf = buf /\ a.written = {} /\ a.hit = TRUE
      BY <3>1 DEF LoadHit
    <3>4. AccessOutcome(a, cache, buf, opcode, e, now, w, line)
      BY <1>0, <1>1, <2>2, <3>2, <3>3 DEF AccessOutcome
    <3>. QED BY <3>4
  <2>3. CASE opcode = "STORE"
    <3>. DEFINE line == [old EXCEPT !.trdy = now, !.status = DC_DIRTY]
                wb   == WrBack(buf, e, "STORE")
    <3>1. a = StoreHit(cache, buf, e, now, w)
      BY <1>1, <2>3 DEF AccessDCache
    <3>2. line \in Line /\ line.tag = e.tag /\ line.status # DC_INVALID /\ line.trdy = now
      BY <1>0, <2>1 DEF Line, DC_DIRTY, DC_INVALID, DC_VALID
    <3>3. /\ a.latency = HitdCLtcy + wb.latency /\ a.cache = Replace(cache, e, w, line)
          /\ a.buf = wb.buf /\ a.written = wb.written /\ a.hit = TRUE
      BY <3>1 DEF StoreHit
    <3>4. /\ GoodBuffer(wb.buf) /\ wb.latency \in Nat
          /\ (Contents(buf) \cup {e}) \ wb.written \subseteq Contents(wb.buf)
      BY WrBackGood
    <3>. HIDE DEF wb
    <3>5. AccessOutcome(a, cache, buf, opcode, e, now, w, line)
      BY <1>0, <1>1, <2>3, <3>2, <3>3, <3>4 DEF AccessOutcome
    <3>. QED BY <3>5
  <2>. QED BY <1>0, <2>2, <2>3
<1>2. CASE ~hit
  <2>2. CASE opcode = "LOAD"
    <3>. DEFINE ev   == Evict(cache, buf, "LOAD", e, w)
                line == [tag |-> e.tag, status |-> DC_VALID,
                         trdy |-> now + (MemRdLatency + ev.latency)]
    <3>1. a = LoadMiss(cache, buf, e, now, w)
      BY <1>2, <2>2 DEF AccessDCache
    <3>2. /\ GoodBuffer(ev.buf) /\ ev.latency \in Nat
          /\ Contents(buf) \ ev.written \subseteq Contents(ev.buf)
      BY EvictGood
    <3>3. /\ a.latency = MemRdLatency + ev.latency
          /\ a.cache = Replace(cache, e, w, line)
          /\ a.buf = ev.buf /\ a.written = ev.written /\ a.hit = FALSE
      BY <3>1 DEF LoadMiss
    <3>. HIDE DEF ev
    <3>4. /\ line \in Line /\ line.tag = e.tag /\ line.status # DC_INVALID
          /\ line.trdy = now + (MemRdLatency + ev.latency)
      BY <1>0, <3>2 DEF Line, DC_DIRTY, DC_INVALID, DC_VALID
    <3>5. AccessOutcome(a, cache, buf, opcode, e, now, w, line)
      BY <1>0, <1>2, <2>2, <3>2, <3>3, <3>4 DEF AccessOutcome
    <3>. QED BY <3>5
  <2>3. CASE opcode = "STORE"
    <3>. DEFINE ev   == Evict(cache, buf, "STORE", e, w)
                wb   == WrBack(ev.buf, e, "STORE")
                line == [tag |-> e.tag, status |-> DC_DIRTY,
                         trdy |-> now + (MemRdLatency + ev.latency)]
    <3>1. a = StoreMiss(cache, buf, e, now, w)
      BY <1>2, <2>3 DEF AccessDCache
    <3>2. /\ GoodBuffer(ev.buf) /\ ev.latency \in Nat
          /\ Contents(buf) \ ev.written \subseteq Contents(ev.buf)
      BY EvictGood
    <3>3. /\ GoodBuffer(wb.buf) /\ wb.latency \in Nat
          /\ (Contents(ev.buf) \cup {e}) \ wb.written \subseteq Contents(wb.buf)
      BY <3>2, WrBackGood
    <3>4. /\ a.latency = MemRdLatency + ev.latency + wb.latency
          /\ a.cache = Replace(cache, e, w, line)
          /\ a.buf = wb.buf /\ a.hit = FALSE
          /\ a.written = (ev.written \ {e}) \cup wb.written
      BY <3>1 DEF StoreMiss
    <3>. HIDE DEF ev, wb
    <3>5. /\ line \in Line /\ line.tag = e.tag /\ line.status # DC_INVALID
          /\ line.trdy = now + (MemRdLatency + ev.latency)
      BY <1>0, <3>2 DEF Line, DC_DIRTY, DC_INVALID, DC_VALID
    <3>6. (Contents(buf) \cup {e}) \ a.written \subseteq Contents(a.buf)
      BY <3>2, <3>3, <3>4
    <3>7. /\ a.latency \in Nat \ {0} /\ now <= line.trdy /\ line.trdy <= now + a.latency
          /\ line.trdy > now
      BY <1>0, <3>2, <3>3, <3>4, <3>5
    <3>8. AccessOutcome(a, cache, buf, opcode, e, now, w, line)
      BY <1>2, <2>3, <3>3, <3>4, <3>5, <3>6, <3>7 DEF AccessOutcome
    <3>. QED BY <3>8
  <2>. QED BY <1>0, <2>2, <2>3
<1>. QED BY <1>1, <1>2

\* After an access its block is in the cache, and cache and buffer are good.
LEMMA AccessHolds ==
    ASSUME NEW cache, NEW buf, NEW opcode \in {"LOAD", "STORE"}, NEW e \in WriteBuffer,
           NEW w \in Ways, NEW now \in Nat, GoodCache(cache), GoodBuffer(buf),
           IsSlot(cache[e.index], e, now, w)
    PROVE  LET a == AccessDCache(cache, buf, opcode, e, now, w)
           IN  GoodCache(a.cache) /\ GoodBuffer(a.buf) /\ HitWays(a.cache[e.index], e.tag) # {}
<1>. DEFINE a == AccessDCache(cache, buf, opcode, e, now, w)
<1>1. PICK line : AccessOutcome(a, cache, buf, opcode, e, now, w, line)
  BY AccessGood
<1>2. /\ e.index \in Sets /\ line \in Line /\ line.tag = e.tag /\ line.status # DC_INVALID
      /\ a.cache = [cache EXCEPT ![e.index][w] = line] /\ GoodBuffer(a.buf)
  BY <1>1 DEF AccessOutcome, Replace, WriteBuffer
<1>. HIDE DEF a
<1>3. a.cache \in [Sets -> [Ways -> Line]] /\ a.cache[e.index][w] = line
  BY <1>2 DEF GoodCache
<1>4. w \in HitWays(a.cache[e.index], e.tag)
  BY <1>2, <1>3 DEF HitWays
<1>. QED BY <1>2, <1>3, <1>4 DEF GoodCache, a
-------------------------------------------------------------------------------
(* What an access may cost. *)

\* Every latency accessdCache returns is positive: a hit costs a cycle.
LEMMA LatencyPositive ==
    ASSUME NEW cache, NEW buf, NEW opcode, NEW e, NEW now, NEW way
    PROVE  AccessDCache(cache, buf, opcode, e, now, way).latency \in Nat \ {0}
<1>1. ASSUME NEW b, NEW x, NEW op PROVE WrBack(b, x, op).latency \in Nat
  BY LatencyAssumption DEF WrBack
<1>2. ASSUME NEW op PROVE Evict(cache, buf, op, e, way).latency \in Nat
  BY <1>1 DEF Evict
<1>3. LoadHit(cache, buf, e, now, way).latency \in Nat \ {0}
  BY LatencyAssumption DEF LoadHit
<1>4. StoreHit(cache, buf, e, now, way).latency \in Nat \ {0}
  <2>. DEFINE wb == WrBack(buf, e, "STORE")
  <2>1. wb.latency \in Nat
    BY <1>1
  <2>2. StoreHit(cache, buf, e, now, way).latency = HitdCLtcy + wb.latency
    BY DEF StoreHit
  <2>. HIDE DEF wb
  <2>. QED BY <2>1, <2>2, LatencyAssumption
<1>5. LoadMiss(cache, buf, e, now, way).latency \in Nat \ {0}
  <2>. DEFINE ev == Evict(cache, buf, "LOAD", e, way)
  <2>1. ev.latency \in Nat
    BY <1>2
  <2>2. LoadMiss(cache, buf, e, now, way).latency = MemRdLatency + ev.latency
    BY DEF LoadMiss
  <2>. HIDE DEF ev
  <2>. QED BY <2>1, <2>2, LatencyAssumption
<1>6. StoreMiss(cache, buf, e, now, way).latency \in Nat \ {0}
  <2>. DEFINE ev == Evict(cache, buf, "STORE", e, way)
              wb == WrBack(ev.buf, e, "STORE")
  <2>1. ev.latency \in Nat /\ wb.latency \in Nat
    BY <1>1, <1>2
  <2>2. StoreMiss(cache, buf, e, now, way).latency = MemRdLatency + ev.latency + wb.latency
    BY DEF StoreMiss
  <2>. HIDE DEF ev, wb
  <2>. QED BY <2>1, <2>2, LatencyAssumption
<1>. QED BY <1>3, <1>4, <1>5, <1>6 DEF AccessDCache

\* What a write back costs without a flush, at most.
Tidy == WrMergLtcy + AddBlk2WrBfLtcy

\* A write back pays for a flush once at most, and then leaves one block.
LEMMA WrBackCost ==
    ASSUME NEW buf, GoodBuffer(buf), NEW e, NEW opcode
    PROVE  LET wb == WrBack(buf, e, opcode)
           IN  /\ wb.latency \in Nat
               /\ wb.latency <= Tidy + (IF wb.flush THEN FlushWrBfLtcy ELSE 0)
               /\ wb.flush => Len(wb.buf) <= 1
               /\ wb.flush => opcode = "LOAD" \/ Len(buf) >= DC_WR_BUFF_SIZE
<1>. DEFINE wb    == WrBack(buf, e, opcode)
            full  == IsFull(buf, opcode)
            merge == Merges(buf, e, opcode)
<1>1. /\ WrMergLtcy \in Nat /\ AddBlk2WrBfLtcy \in Nat /\ FlushWrBfLtcy \in Nat
      /\ DC_WR_BUFF_SIZE \in Nat \ {0} /\ Len(buf) \in Nat
  BY LatencyAssumption, GeometryFacts DEF GoodBuffer
<1>2. opcode = "LOAD" => ~full
  BY <1>1 DEF IsFull, BufferAtStart
<1>3. /\ wb.flush <=> opcode = "LOAD" \/ full
      /\ wb.latency = (IF opcode = "LOAD" THEN FlushWrBfLtcy ELSE 0)
                       + (IF merge THEN WrMergLtcy ELSE AddBlk2WrBfLtcy)
                       + (IF full THEN FlushWrBfLtcy ELSE 0)
      /\ wb.buf = IF merge THEN Room(buf, opcode) ELSE Append(Room(buf, opcode), e)
  BY DEF WrBack
<1>4. full /\ opcode # "LOAD" => Len(buf) >= DC_WR_BUFF_SIZE
  BY DEF IsFull, BufferAtStart
<1>5. opcode = "LOAD" \/ full => Room(buf, opcode) = <<>>
  BY <1>2 DEF Room, BufferAtStart
<1>6. wb.flush => Len(wb.buf) <= 1
  BY <1>3, <1>5
<1>. HIDE DEF wb, full, merge
<1>. QED BY <1>1, <1>2, <1>3, <1>4, <1>6 DEF wb, Tidy

\* With two entries in the buffer an access pays for one flush at most: the
\* second write back of a store miss finds room after the first one's flush.
LEMMA AccessCost ==
    ASSUME DC_WR_BUFF_SIZE > 1,
           NEW cache, NEW buf, NEW opcode \in {"LOAD", "STORE"}, NEW e \in WriteBuffer,
           NEW w \in Ways, NEW now, GoodCache(cache), GoodBuffer(buf)
    PROVE  AccessDCache(cache, buf, opcode, e, now, w).latency
               <= MemRdLatency + HitdCLtcy + FlushWrBfLtcy + 2 * Tidy
<1>1. /\ MemRdLatency \in Nat /\ HitdCLtcy \in Nat /\ FlushWrBfLtcy \in Nat /\ Tidy \in Nat
      /\ DC_WR_BUFF_SIZE \in Nat
  BY LatencyAssumption, GeometryFacts DEF Tidy
<1>2. ASSUME NEW op \in {"LOAD", "STORE"}
      PROVE  LET ev == Evict(cache, buf, op, e, w)
             IN  /\ GoodBuffer(ev.buf) /\ ev.latency \in Nat
                 /\ ev.latency <= Tidy + (IF ev.flush THEN FlushWrBfLtcy ELSE 0)
                 /\ ev.flush => Len(ev.buf) <= 1
  <2>1. GoodBuffer(Evict(cache, buf, op, e, w).buf)
    BY EvictGood
  <2>2. CASE cache[e.index][w].status = DC_DIRTY
    BY <2>1, <2>2, WrBackCost DEF Evict
  <2>3. CASE cache[e.index][w].status # DC_DIRTY
    BY <1>1, <2>1, <2>3 DEF Evict
  <2>. QED BY <2>2, <2>3
<1>3. LoadHit(cache, buf, e, now, w).latency = HitdCLtcy
  BY DEF LoadHit
<1>4. /\ StoreHit(cache, buf, e, now, w).latency \in Nat
      /\ StoreHit(cache, buf, e, now, w).latency <= HitdCLtcy + FlushWrBfLtcy + Tidy
  <2>. DEFINE wb == WrBack(buf, e, "STORE")
  <2>1. wb.latency \in Nat /\ wb.latency <= Tidy + (IF wb.flush THEN FlushWrBfLtcy ELSE 0)
    BY WrBackCost
  <2>2. StoreHit(cache, buf, e, now, w).latency = HitdCLtcy + wb.latency
    BY DEF StoreHit
  <2>. HIDE DEF wb
  <2>. QED BY <1>1, <2>1, <2>2
<1>5. /\ LoadMiss(cache, buf, e, now, w).latency \in Nat
      /\ LoadMiss(cache, buf, e, now, w).latency <= MemRdLatency + FlushWrBfLtcy + Tidy
  <2>. DEFINE ev == Evict(cache, buf, "LOAD", e, w)
  <2>1. ev.latency \in Nat /\ ev.latency <= Tidy + (IF ev.flush THEN FlushWrBfLtcy ELSE 0)
    BY <1>2
  <2>2. LoadMiss(cache, buf, e, now, w).latency = MemRdLatency + ev.latency
    BY DEF LoadMiss
  <2>. HIDE DEF ev
  <2>. QED BY <1>1, <2>1, <2>2
<1>6. /\ StoreMiss(cache, buf, e, now, w).latency \in Nat
      /\ StoreMiss(cache, buf, e, now, w).latency <= MemRdLatency + FlushWrBfLtcy + 2 * Tidy
  <2>. DEFINE ev == Evict(cache, buf, "STORE", e, w)
              wb == WrBack(ev.buf, e, "STORE")
  <2>1. /\ ev.latency \in Nat /\ ev.latency <= Tidy + (IF ev.flush THEN FlushWrBfLtcy ELSE 0)
        /\ ev.flush => Len(ev.buf) <= 1
        /\ Len(ev.buf) \in Nat
    BY <1>2 DEF GoodBuffer
  <2>2. /\ wb.latency \in Nat /\ wb.latency <= Tidy + (IF wb.flush THEN FlushWrBfLtcy ELSE 0)
        /\ wb.flush => Len(ev.buf) >= DC_WR_BUFF_SIZE
    BY <1>2, WrBackCost
  <2>3. StoreMiss(cache, buf, e, now, w).latency = MemRdLatency + ev.latency + wb.latency
    BY DEF StoreMiss
  <2>. HIDE DEF ev, wb
  <2>4. ~ev.flush \/ ~wb.flush
    BY <1>1, <2>1, <2>2
  <2>. QED BY <1>1, <2>1, <2>2, <2>3, <2>4
<1>. QED BY <1>1, <1>3, <1>4, <1>5, <1>6 DEF AccessDCache
-------------------------------------------------------------------------------
(* The order of use, in a cache with more than one way.  use[b] is the      *)
(* number of the last access to block b, 0 when there was none, n the       *)
(* number of accesses; missed[b] says whether that access missed.           *)

InWay(cache, b, w) == w \in HitWays(cache[b.index], b.tag)
Cached(cache, b)     == HitWays(cache[b.index], b.tag) # {}

\* No two accesses have one number.
Numbers(n, use, missed) ==
    /\ n \in Nat
    /\ use \in [WriteBuffer -> Nat] /\ missed \in [WriteBuffer -> BOOLEAN]
    /\ \A b \in WriteBuffer : use[b] <= n
    /\ \A b, c \in WriteBuffer : b # c /\ use[b] = use[c] => use[b] = 0

\* Each block is in one line, which was ready before the next access unless it is
\* the one filled last.
Lines(cache, ready, n, use, missed) ==
    /\ GoodCache(cache) /\ ready \in Nat \ {0}
    /\ \A i \in Sets, w \in Ways : cache[i][w].status = DC_INVALID => cache[i][w].trdy = 0
    /\ \A b \in WriteBuffer, w \in Ways : InWay(cache, b, w) =>
          /\ use[b] > 0
          /\ 0 < cache[b.index][w].trdy /\ cache[b.index][w].trdy <= ready
          /\ cache[b.index][w].trdy = ready => use[b] = n /\ missed[b]
    /\ \A b \in WriteBuffer, v, w \in Ways : InWay(cache, b, v) /\ InWay(cache, b, w) => v = w

\* The time stamps follow the order of use, and only a block that missed and the
\* one that hit next after it can have the same.
Stamped(cache, use, missed) ==
    \A b, c \in WriteBuffer, v, w \in Ways :
       InWay(cache, b, v) /\ InWay(cache, c, w) /\ b.index = c.index /\ use[b] < use[c] =>
          /\ cache[b.index][v].trdy <= cache[c.index][w].trdy
          /\ cache[b.index][v].trdy = cache[c.index][w].trdy =>
                use[c] = use[b] + 1 /\ missed[b] /\ ~missed[c]

\* A block that was replaced was used before every block of its set that is left,
\* but for one that missed and that it followed with a hit.
Gone(cache, use, missed) ==
    \A c \in WriteBuffer : use[c] > 0 /\ ~Cached(cache, c) =>
       /\ \A w \in Ways : cache[c.index][w].status # DC_INVALID
       /\ \A b \in WriteBuffer : Cached(cache, b) /\ b.index = c.index =>
             use[c] < use[b] \/ (use[c] = use[b] + 1 /\ missed[b] /\ ~missed[c])

Recency(cache, ready, n, use, missed) ==
    /\ Numbers(n, use, missed) /\ Lines(cache, ready, n, use, missed)
    /\ Stamped(cache, use, missed) /\ Gone(cache, use, missed)

\* A line in use holds a block.
LEMMA LineInWay ==
    ASSUME NEW cache, GoodCache(cache), NEW i \in Sets, NEW w \in Ways,
           cache[i][w].status # DC_INVALID
    PROVE  LET b == [tag |-> cache[i][w].tag, index |-> i]
           IN  b \in WriteBuffer /\ InWay(cache, b, w) /\ Cached(cache, b)
<1>. DEFINE b == [tag |-> cache[i][w].tag, index |-> i]
<1>1. b \in WriteBuffer /\ b.index = i /\ b.tag = cache[i][w].tag
  BY DEF GoodCache, Line, WriteBuffer
<1>2. w \in HitWays(cache[b.index], b.tag)
  BY <1>1 DEF HitWays
<1>. QED BY <1>1, <1>2 DEF InWay, Cached

\* The scan finds a line with the least time stamp of its set: with two ways not
\* all lines can be too young for it.
LEMMA VictimOldest ==
    ASSUME DC_SET_SIZE > 1, NEW cache, NEW ready, NEW n, NEW use, NEW missed,
           Recency(cache, ready, n, use, missed), NEW i \in Sets, NEW w \in Ways,
           NEW now \in Nat, ready <= now, IsVictim(cache[i], now, w), NEW v \in Ways
    PROVE  cache[i][w].trdy <= cache[i][v].trdy
<1>1. /\ GoodCache(cache) /\ ready \in Nat \ {0}
      /\ \A x \in Ways : cache[i][x].trdy \in Nat
  BY DEF Recency, Lines, GoodCache, Line
<1>2. ASSUME NEW x \in Ways PROVE cache[i][x].trdy <= ready
  <2>1. CASE cache[i][x].status = DC_INVALID
    BY <1>1, <2>1 DEF Recency, Lines
  <2>2. CASE cache[i][x].status # DC_INVALID
    <3>. DEFINE b == [tag |-> cache[i][x].tag, index |-> i]
    <3>1. b \in WriteBuffer /\ InWay(cache, b, x)
      BY <1>1, <2>2, LineInWay
    <3>2. b.index = i
      OBVIOUS
    <3>. HIDE DEF b
    <3>. QED BY <3>1, <3>2 DEF Recency, Lines
  <2>. QED BY <2>1, <2>2
<1>3. Candidates(cache[i], now) # {}
  <2>1. 0 \in Ways /\ 1 \in Ways
    BY GeometryFacts DEF Ways
  <2>2. SUFFICES ASSUME cache[i][0].trdy = ready, cache[i][1].trdy = ready PROVE FALSE
    BY <1>1, <1>2, <2>1 DEF Candidates
  <2>. DEFINE b == [tag |-> cache[i][0].tag, index |-> i]
              c == [tag |-> cache[i][1].tag, index |-> i]
  <2>3. cache[i][0].status # DC_INVALID /\ cache[i][1].status # DC_INVALID
    BY <1>1, <2>1, <2>2 DEF Recency, Lines
  <2>4. /\ b \in WriteBuffer /\ InWay(cache, b, 0) /\ c \in WriteBuffer /\ InWay(cache, c, 1)
        /\ b.index = i /\ c.index = i
    BY <1>1, <2>1, <2>3, LineInWay
  <2>. HIDE DEF b, c
  <2>5. b # c
    BY <2>1, <2>4 DEF Recency, Lines
  <2>6. use[b] = n /\ use[c] = n /\ use[b] > 0
    BY <2>1, <2>2, <2>4 DEF Recency, Lines
  <2>. QED BY <2>4, <2>5, <2>6 DEF Recency, Numbers
<1>. QED BY <1>1, <1>2, <1>3 DEF IsVictim, Candidates

\* An access to block e that uses way w leaves the other blocks where they were
\* and the way to e.
LEMMA InWayNext ==
    ASSUME NEW cache, NEW next, GoodCache(cache), NEW e \in WriteBuffer, NEW w \in Ways,
           NEW line \in Line, line.tag = e.tag, line.status # DC_INVALID,
           next = Replace(cache, e, w, line),
           Cached(cache, e) => InWay(cache, e, w),
           \A v \in Ways : InWay(cache, e, v) => v = w
    PROVE  /\ GoodCache(next) /\ next[e.index][w] = line
           /\ \A i \in Sets, v \in Ways : i # e.index \/ v # w => next[i][v] = cache[i][v]
           /\ \A b \in WriteBuffer, v \in Ways :
                 InWay(next, b, v) <=> IF b = e THEN v = w
                                       ELSE InWay(cache, b, v) /\ (b.index # e.index \/ v # w)
<1>1. e.index \in Sets /\ e = [tag |-> e.tag, index |-> e.index]
  BY DEF WriteBuffer
<1>2. /\ GoodCache(next) /\ next[e.index][w] = line
      /\ \A i \in Sets, v \in Ways : i # e.index \/ v # w => next[i][v] = cache[i][v]
  BY <1>1 DEF GoodCache, Replace
<1>3. ASSUME NEW b \in WriteBuffer, NEW v \in Ways
      PROVE  InWay(next, b, v) <=> IF b = e THEN v = w
                                   ELSE InWay(cache, b, v) /\ (b.index # e.index \/ v # w)
  <2>1. b.index \in Sets /\ (b.index = e.index /\ b.tag = e.tag <=> b = e)
    BY DEF WriteBuffer
  <2>2. /\ InWay(next, b, v) <=> /\ next[b.index][v].tag = b.tag
                                 /\ next[b.index][v].status # DC_INVALID
        /\ InWay(cache, b, v) <=> /\ cache[b.index][v].tag = b.tag
                                  /\ cache[b.index][v].status # DC_INVALID
    BY DEF InWay, HitWays
  <2>3. CASE b.index = e.index /\ v = w
    BY <1>2, <2>1, <2>2, <2>3
  <2>4. CASE b.index # e.index \/ v # w
    <3>1. next[b.index][v] = cache[b.index][v]
      BY <1>2, <2>1, <2>4
    <3>. QED BY <2>1, <2>2, <2>4, <3>1
  <2>. QED BY <2>3, <2>4
<1>. QED BY <1>2, <1>3

\* Every access keeps the order.
LEMMA RecencyKept ==
    ASSUME DC_SET_SIZE > 1, NEW cache, NEW buf, NEW ready, NEW n, NEW use, NEW missed,
           NEW opcode \in {"LOAD", "STORE"}, NEW e \in WriteBuffer, NEW w \in Ways,
           NEW now \in Nat, ready <= now,
           Recency(cache, ready, n, use, missed), GoodBuffer(buf),
           IsSlot(cache[e.index], e, now, w)
    PROVE  LET a == AccessDCache(cache, buf, opcode, e, now, w)
           IN  /\ a.latency \in Nat /\ GoodBuffer(a.buf)
               /\ a.hit = Cached(cache, e)
               /\ Recency(a.cache, now + a.latency, n + 1,
                          [use EXCEPT ![e] = n + 1], [missed EXCEPT ![e] = ~Cached(cache, e)])
<1>. DEFINE a    == AccessDCache(cache, buf, opcode, e, now, w)
            next == a.cache
            end  == now + a.latency
            use2 == [use EXCEPT ![e] = n + 1]
            mis2 == [missed EXCEPT ![e] = ~Cached(cache, e)]
<1>1. GoodCache(cache) /\ ready \in Nat \ {0} /\ n \in Nat
  BY DEF Recency, Lines, Numbers
<1>2. PICK line : AccessOutcome(a, cache, buf, opcode, e, now, w, line)
  BY <1>1, AccessGood
<1>3. /\ line \in Line /\ line.tag = e.tag /\ line.status # DC_INVALID
      /\ a.latency \in Nat \ {0} /\ next = Replace(cache, e, w, line) /\ GoodBuffer(a.buf)
      /\ line.trdy \in Nat /\ now <= line.trdy /\ line.trdy <= end
      /\ Cached(cache, e) => a.hit = TRUE /\ line.trdy = now
      /\ ~Cached(cache, e) => a.hit = FALSE /\ line.trdy > now
  BY <1>2 DEF AccessOutcome, Cached, Line
<1>. HIDE DEF a
<1>4. end \in Nat \ {0} /\ ready < end /\ now < end
  BY <1>1, <1>3
<1>. HIDE DEF end
<1>5. Cached(cache, e) => InWay(cache, e, w)
  BY DEF Cached, InWay, IsSlot
<1>6. \A v \in Ways : InWay(cache, e, v) => v = w
  <2>. SUFFICES ASSUME NEW v \in Ways, InWay(cache, e, v) PROVE v = w
    OBVIOUS
  <2>1. Cached(cache, e)
    BY DEF InWay, Cached
  <2>. QED BY <1>5, <2>1 DEF Recency, Lines
<1>7. /\ GoodCache(next) /\ next[e.index][w] = line
      /\ \A i \in Sets, v \in Ways : i # e.index \/ v # w => next[i][v] = cache[i][v]
      /\ \A b \in WriteBuffer, v \in Ways :
            InWay(next, b, v) <=> IF b = e THEN v = w
                                  ELSE InWay(cache, b, v) /\ (b.index # e.index \/ v # w)
  BY <1>1, <1>3, <1>5, <1>6, InWayNext
<1>. HIDE DEF next
<1>8. /\ use2 \in [WriteBuffer -> Nat] /\ use2[e] = n + 1
      /\ mis2 \in [WriteBuffer -> BOOLEAN] /\ mis2[e] = ~Cached(cache, e)
      /\ \A b \in WriteBuffer : b # e => use2[b] = use[b] /\ mis2[b] = missed[b]
      /\ \A b \in WriteBuffer : use[b] \in Nat /\ use[b] <= n
  BY <1>1 DEF Recency, Numbers, Cached
<1>. HIDE DEF use2, mis2
<1>9. Numbers(n + 1, use2, mis2)
  BY <1>1, <1>8 DEF Recency, Numbers
<1>10. ASSUME NEW b \in WriteBuffer, b # e, NEW v \in Ways, InWay(next, b, v)
       PROVE  /\ InWay(cache, b, v) /\ Cached(cache, b) /\ b.index \in Sets
              /\ next[b.index][v] = cache[b.index][v]
              /\ cache[b.index][v].trdy \in Nat /\ 0 < cache[b.index][v].trdy
              /\ cache[b.index][v].trdy <= ready
              /\ cache[b.index][v].trdy = ready => use[b] = n /\ missed[b]
              /\ use[b] > 0
  <2>1. InWay(cache, b, v) /\ b.index \in Sets /\ next[b.index][v] = cache[b.index][v]
    BY <1>7, <1>10 DEF WriteBuffer
  <2>2. Cached(cache, b)
    BY <2>1 DEF Cached, InWay
  <2>3. cache[b.index][v].trdy \in Nat
    BY <1>1, <2>1 DEF GoodCache, Line
  <2>. QED BY <2>1, <2>2, <2>3 DEF Recency, Lines
<1>11. Lines(next, end, n + 1, use2, mis2)
  <2>1. ASSUME NEW i \in Sets, NEW v \in Ways, next[i][v].status = DC_INVALID
        PROVE  next[i][v].trdy = 0
    <3>1. i # e.index \/ v # w
      BY <1>3, <1>7, <2>1
    <3>. QED BY <1>7, <2>1, <3>1 DEF Recency, Lines
  <2>2. ASSUME NEW b \in WriteBuffer, NEW v \in Ways, InWay(next, b, v)
        PROVE  /\ use2[b] > 0
               /\ 0 < next[b.index][v].trdy /\ next[b.index][v].trdy <= end
               /\ next[b.index][v].trdy = end => use2[b] = n + 1 /\ mis2[b]
    <3>1. CASE b = e
      <4>1. v = w /\ next[b.index][v] = line
        BY <1>7, <2>2, <3>1
      <4>. QED BY <1>1, <1>3, <1>4, <1>8, <3>1, <4>1
    <3>2. CASE b # e
      BY <1>1, <1>4, <1>8, <1>10, <2>2, <3>2
    <3>. QED BY <3>1, <3>2
  <2>3. ASSUME NEW b \in WriteBuffer, NEW u \in Ways, NEW v \in Ways,
               InWay(next, b, u), InWay(next, b, v)
        PROVE  u = v
    BY <1>7, <2>3 DEF Recency, Lines
  <2>. QED BY <1>4, <1>7, <2>1, <2>2, <2>3 DEF Lines
<1>12. Stamped(next, use2, mis2)
  <2>. SUFFICES ASSUME NEW b \in WriteBuffer, NEW c \in WriteBuffer, NEW u \in Ways, NEW v \in Ways,
                       InWay(next, b, u), InWay(next, c, v), b.index = c.index, use2[b] < use2[c]
                PROVE  /\ next[b.index][u].trdy <= next[c.index][v].trdy
                       /\ next[b.index][u].trdy = next[c.index][v].trdy =>
                             use2[c] = use2[b] + 1 /\ mis2[b] /\ ~mis2[c]
    BY DEF Stamped
  <2>1. b # e
    BY <1>1, <1>8
  <2>2. CASE c = e
    <3>1. v = w /\ next[c.index][v] = line
      BY <1>7, <2>2
    <3>. QED BY <1>1, <1>3, <1>8, <1>10, <2>1, <2>2, <3>1
  <2>3. CASE c # e
    <3>1. /\ InWay(cache, b, u) /\ InWay(cache, c, v)
          /\ next[b.index][u] = cache[b.index][u] /\ next[c.index][v] = cache[c.index][v]
      BY <1>10, <2>1, <2>3
    <3>. QED BY <1>8, <2>1, <2>3, <3>1 DEF Recency, Stamped
  <2>. QED BY <2>2, <2>3
<1>13. Gone(next, use2, mis2)
  <2>. SUFFICES ASSUME NEW c \in WriteBuffer, use2[c] > 0, ~Cached(next, c)
                PROVE  /\ \A v \in Ways : next[c.index][v].status # DC_INVALID
                       /\ \A b \in WriteBuffer : Cached(next, b) /\ b.index = c.index =>
                             \/ use2[c] < use2[b]
                             \/ use2[c] = use2[b] + 1 /\ mis2[b] /\ ~mis2[c]
    BY DEF Gone
  <2>1. c # e /\ use[c] > 0 /\ c.index \in Sets /\ use2[c] = use[c] /\ mis2[c] = missed[c]
    <3>1. InWay(next, e, w)
      BY <1>7
    <3>2. c # e
      BY <3>1 DEF Cached, InWay
    <3>. QED BY <1>8, <3>2 DEF WriteBuffer
  <2>2. ASSUME NEW b \in WriteBuffer, Cached(next, b), b # e
        PROVE  \E v \in Ways : InWay(next, b, v)
    BY <2>2 DEF Cached, InWay, HitWays
  <2>3. CASE ~Cached(cache, c)
    <3>1. \A v \in Ways : next[c.index][v].status # DC_INVALID
      <4>. SUFFICES ASSUME NEW v \in Ways PROVE next[c.index][v].status # DC_INVALID
        OBVIOUS
      <4>1. cache[c.index][v].status # DC_INVALID
        BY <2>1, <2>3 DEF Recency, Gone
      <4>. QED BY <1>3, <1>7, <2>1, <4>1
    <3>2. ASSUME NEW b \in WriteBuffer, Cached(next, b), b.index = c.index
          PROVE  \/ use2[c] < use2[b]
                 \/ use2[c] = use2[b] + 1 /\ mis2[b] /\ ~mis2[c]
      <4>1. CASE b = e
        BY <1>1, <1>8, <2>1, <4>1
      <4>2. CASE b # e
        <5>1. Cached(cache, b)
          BY <1>10, <2>2, <3>2, <4>2
        <5>2. use2[b] = use[b] /\ mis2[b] = missed[b]
          BY <1>8, <4>2
        <5>. QED BY <2>1, <2>3, <3>2, <5>1, <5>2 DEF Recency, Gone
      <4>. QED BY <4>1, <4>2
    <3>. QED BY <3>1, <3>2
  <2>4. CASE Cached(cache, c)
    <3>1. PICK y \in Ways : InWay(cache, c, y)
      BY <2>4 DEF Cached, InWay, HitWays
    <3>2. c.index = e.index /\ y = w
      <4>1. ~InWay(next, c, y)
        BY DEF Cached, InWay
      <4>. QED BY <1>7, <2>1, <3>1, <4>1
    <3>3. ~Cached(cache, e)
      <4>. SUFFICES ASSUME Cached(cache, e) PROVE FALSE
        OBVIOUS
      <4>1. InWay(cache, e, w) /\ InWay(cache, c, w)
        BY <1>5, <3>1, <3>2
      <4>. QED BY <2>1, <3>2, <4>1 DEF InWay, HitWays, WriteBuffer
    <3>4. IsVictim(cache[e.index], now, w)
      BY <3>3 DEF IsSlot, Cached
    <3>5. \A v \in Ways : cache[c.index][w].trdy <= cache[c.index][v].trdy
      BY <2>1, <3>2, <3>4, VictimOldest
    <3>6. 0 < cache[c.index][w].trdy /\ \A v \in Ways : cache[c.index][v].trdy \in Nat
      BY <1>1, <2>1, <3>1, <3>2 DEF Recency, Lines, GoodCache, Line
    <3>7. ASSUME NEW v \in Ways PROVE next[c.index][v].status # DC_INVALID
      <4>1. cache[c.index][v].status # DC_INVALID
        BY <2>1, <3>5, <3>6 DEF Recency, Lines
      <4>. QED BY <1>3, <1>7, <2>1, <4>1
    <3>8. ASSUME NEW b \in WriteBuffer, Cached(next, b), b.index = c.index
          PROVE  \/ use2[c] < use2[b]
                 \/ use2[c] = use2[b] + 1 /\ mis2[b] /\ ~mis2[c]
      <4>1. CASE b = e
        BY <1>1, <1>8, <2>1, <4>1
      <4>2. CASE b # e
        <5>1. PICK v \in Ways : InWay(next, b, v)
          BY <2>2, <3>8, <4>2
        <5>2. InWay(cache, b, v) /\ InWay(cache, c, w)
          BY <1>10, <3>1, <3>2, <4>2, <5>1
        <5>3. use2[b] = use[b] /\ mis2[b] = missed[b]
          BY <1>8, <4>2
        <5>4. b # c
          BY <3>8
        <5>5. use[b] # use[c] /\ use[b] \in Nat /\ use[c] \in Nat
          BY <1>8, <2>1, <5>4 DEF Recency, Numbers
        <5>6. use[b] < use[c] => cache[b.index][v].trdy <= cache[c.index][w].trdy
          BY <5>2, <3>8 DEF Recency, Stamped
        <5>7. use[b] < use[c] => cache[b.index][v].trdy = cache[c.index][w].trdy
          BY <3>5, <3>6, <3>8, <5>6
        <5>8. use[b] < use[c] => use[c] = use[b] + 1 /\ missed[b] /\ ~missed[c]
          BY <3>8, <5>2, <5>7 DEF Recency, Stamped
        <5>. QED BY <2>1, <5>3, <5>5, <5>8
      <4>. QED BY <4>1, <4>2
    <3>. QED BY <3>7, <3>8
  <2>. QED BY <2>3, <2>4
<1>14. a.hit = Cached(cache, e)
  BY <1>3 DEF Cached
<1>. QED BY <1>3, <1>9, <1>11, <1>12, <1>13, <1>14 DEF Recency, a, next, end, use2, mis2
===============================================================================
