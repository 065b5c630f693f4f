------------------------------- MODULE DCacheOps -------------------------------
(***************************************************************************)
(* The data cache of Project04/mips_sim.c and its write buffer as          *)
(* operators: WrBack, the lookup and replacement of accessdCache, and the  *)
(* effect of one access.  Only the timing is simulated there, no data is   *)
(* held; the module is shared by DCache, which specifies the cache alone,  *)
(* and Pipeline, whose MEM stage calls it.                                 *)
(*                                                                         *)
(* dCache is a function [index -> [way -> line]], the live part of         *)
(* dcWrBuff, entries 0 .. bufsize - 1, a sequence.  The trdy of a buffer   *)
(* entry is written and never read, so an entry is its tag and index.      *)
(***************************************************************************)
EXTENDS Integers, Sequences

CONSTANTS DC_NUM_SETS, DC_SET_SIZE, DC_BLOCK_SIZE, DC_WR_BUFF_SIZE,
          MemRdLatency, HitdCLtcy, WrMergLtcy, AddBlk2WrBfLtcy, FlushWrBfLtcy

\* The masks of accessdCache make an index and a tag only of a power of two.
PowersOfTwo == {1, 2, 4, 8, 16, 32, 64, 128, 256, 512, 1024}

ASSUME GeometryAssumption == /\ DC_NUM_SETS \in PowersOfTwo
                             /\ DC_BLOCK_SIZE \in PowersOfTwo
                             /\ DC_SET_SIZE \in Nat \ {0}
                             /\ DC_WR_BUFF_SIZE \in Nat \ {0}

ASSUME LatencyAssumption == /\ MemRdLatency \in Nat \ {0}
                            /\ HitdCLtcy \in Nat \ {0}
                            /\ WrMergLtcy \in Nat
                            /\ AddBlk2WrBfLtcy \in Nat
                            /\ FlushWrBfLtcy \in Nat

Sets == 0 .. DC_NUM_SETS - 1
Ways == 0 .. DC_SET_SIZE - 1

DC_INVALID == "invalid"
DC_VALID   == "valid"
DC_DIRTY   == "dirty"

Line == [tag : Int, status : {DC_INVALID, DC_VALID, DC_DIRTY}, trdy : Nat]

ZeroLine == [tag |-> 0, status |-> DC_INVALID, trdy |-> 0]

\* A buffered block: dcWrBuff[i], or the block a line holds.
WriteBuffer == [tag : Int, index : Sets]

\* Both globals start zeroed.
EmptyCache  == [i \in Sets |-> [w \in Ways |-> ZeroLine]]
EmptyBuffer == <<>>

Contents(buf)    == {buf[k] : k \in 1 .. Len(buf)}
InBuffer(e, buf) == e \in Contents(buf)
-------------------------------------------------------------------------------
(* The address fields.  The code shifts (unsigned)addr, so that a negative *)
(* address has a block of its own; here it is one with a negative number.  *)

Block(addr)      == addr \div DC_BLOCK_SIZE
Index(addr)      == Block(addr) % DC_NUM_SETS
Tag(addr)        == Block(addr) - Index(addr)
EntryOf(addr)    == [tag |-> Tag(addr), index |-> Index(addr)]
-------------------------------------------------------------------------------
(* WrBack: put a block into the write buffer. *)

\* A load empties the buffer first, so that it does not read stale memory.
BufferAtStart(buf, opcode) == IF opcode = "LOAD" THEN <<>> ELSE buf

Merges_TagOnly(buf, e, opcode) ==
    \E b \in Contents(BufferAtStart(buf, opcode)) : b.tag = e.tag

Merges(buf, e, opcode) == InBuffer(e, BufferAtStart(buf, opcode))

IsFull_OffByOne(buf, opcode) == Len(BufferAtStart(buf, opcode)) > DC_WR_BUFF_SIZE

IsFull(buf, opcode) == Len(BufferAtStart(buf, opcode)) >= DC_WR_BUFF_SIZE

Room_NoReset(buf, opcode) == BufferAtStart(buf, opcode)

\* bufsize = 0 after the batch of writes that empties a full buffer.
Room(buf, opcode) == IF IsFull(buf, opcode) THEN <<>> ELSE BufferAtStart(buf, opcode)

\* Write merging is tried before the buffer is emptied for want of room: a
\* merged block leaves with the flush and is not added again.  `written` is
\* what the flushes of this call put into memory.
WrBack(buf, e, opcode) ==
    LET merge == Merges(buf, e, opcode)
        full  == IsFull(buf, opcode)
        flush == opcode = "LOAD" \/ full
    IN  [buf     |-> IF merge THEN Room(buf, opcode) ELSE Append(Room(buf, opcode), e),
         merge   |-> merge,
         flush   |-> flush,
         written |-> IF flush THEN Contents(buf) ELSE {},
         latency |-> (IF opcode = "LOAD" THEN FlushWrBfLtcy ELSE 0)
                     + (IF merge THEN WrMergLtcy ELSE AddBlk2WrBfLtcy)
                     + (IF full THEN FlushWrBfLtcy ELSE 0)]
-------------------------------------------------------------------------------
(* The scan of a set. *)

HitWays_CleanOnly(set, tag) ==
    {w \in Ways : set[w].tag = tag /\ set[w].status = DC_VALID}

HitWays(set, tag) ==
    {w \in Ways : set[w].tag = tag /\ set[w].status # DC_INVALID}

\* A scan that spares the dirty lines.
Candidates_CleanOnly(set, cycle) ==
    {w \in Ways : set[w].trdy < cycle /\ set[w].status # DC_DIRTY}

\* The lines the scan may pick: used before this cycle, strictly.
Candidates(set, cycle) == {w \in Ways : set[w].trdy < cycle}

\* A scan that forgets to lower lruTime.
IsVictim_NoMinimum(set, cycle, w) ==
    \/ Candidates(set, cycle) = {}
    \/ w \in Candidates(set, cycle) /\ \A v \in Candidates(set, cycle) : v <= w

\* lruSlot: the least trdy, the lowest way among equals.  Without a candidate
\* lruSlot is never assigned, and what the code reads is any way at best.
IsVictim(set, cycle, w) ==
    \/ Candidates(set, cycle) = {}
    \/ /\ w \in Candidates(set, cycle)
       /\ \A v \in Candidates(set, cycle) :
             set[w].trdy < set[v].trdy \/ (set[w].trdy = set[v].trdy /\ w <= v)
-------------------------------------------------------------------------------
(* accessdCache, for the block e at a clock cycle.  The result holds the   *)
(* new cache and buffer, the latency returned, the flags the caller        *)
(* reports and what was flushed to memory; each WrBack resets both flags.  *)

Replace(cache, e, w, line) == [cache EXCEPT ![e.index][w] = line]

LoadHit_NotUsed(cache, buf, e, cycle, w) ==
    [cache   |-> cache,
     buf     |-> buf,
     latency |-> HitdCLtcy,
     hit     |-> TRUE, merge |-> FALSE, flush |-> FALSE, written |-> {}]

LoadHit(cache, buf, e, cycle, w) ==
    LET line == cache[e.index][w]
    IN  [cache   |-> Replace(cache, e, w, [line EXCEPT !.trdy = cycle]),
         buf     |-> buf,
         latency |-> HitdCLtcy,
         hit     |-> TRUE, merge |-> FALSE, flush |-> FALSE, written |-> {}]

StoreHit(cache, buf, e, cycle, w) ==
    LET line == cache[e.index][w]
        wb   == WrBack(buf, e, "STORE")
    IN  [cache   |-> Replace(cache, e, w, [line EXCEPT !.trdy   = cycle,
                                                       !.status = DC_DIRTY]),
         buf     |-> wb.buf,
         latency |-> HitdCLtcy + wb.latency,
         hit     |-> TRUE, merge |-> wb.merge, flush |-> wb.flush,
         written |-> wb.written]

Evict_Swapped(cache, buf, opcode, e, w) ==
    LET old == cache[e.index][w]
    IN  IF old.status = DC_DIRTY
          THEN WrBack(buf, [tag |-> e.index, index |-> old.tag], opcode)
          ELSE [buf |-> buf, merge |-> FALSE, flush |-> FALSE, written |-> {}, latency |-> 0]

\* The block that leaves way w is written back when it is dirty.
Evict(cache, buf, opcode, e, w) ==
    LET old == cache[e.index][w]
    IN  IF old.status = DC_DIRTY
          THEN WrBack(buf, [tag |-> old.tag, index |-> e.index], opcode)
          ELSE [buf |-> buf, merge |-> FALSE, flush |-> FALSE, written |-> {}, latency |-> 0]

\* Leaving the status of the replaced line as it was.
LoadMiss_StatusKept(cache, buf, e, cycle, w) ==
    LET ev == Evict(cache, buf, "LOAD", e, w)
    IN  [cache   |-> Replace(cache, e, w, [cache[e.index][w] EXCEPT
                                             !.tag = e.tag,
                                             !.trdy = cycle + MemRdLatency + ev.latency]),
         buf     |-> ev.buf,
         latency |-> MemRdLatency + ev.latency,
         hit     |-> FALSE, merge |-> ev.merge, flush |-> ev.flush,
         written |-> ev.written]

LoadMiss(cache, buf, e, cycle, w) ==
    LET ev      == Evict(cache, buf, "LOAD", e, w)
        latency == MemRdLatency + ev.latency
    IN  [cache   |-> Replace(cache, e, w, [tag |-> e.tag, status |-> DC_VALID,
                                           trdy |-> cycle + latency]),
         buf     |-> ev.buf,
         latency |-> latency,
         hit     |-> FALSE, merge |-> ev.merge, flush |-> ev.flush,
         written |-> ev.written]

\* The new block goes into the buffer as well: that second WrBack forgets the
\* flags of the first, and its latency is not in the line's trdy.  A copy of e
\* flushed by the eviction is older than this store.
StoreMiss(cache, buf, e, cycle, w) ==
    LET ev   == Evict(cache, buf, "STORE", e, w)
        wb   == WrBack(ev.buf, e, "STORE")
        fill == MemRdLatency + ev.latency
    IN  [cache   |-> Replace(cache, e, w, [tag |-> e.tag, status |-> DC_DIRTY,
                                           trdy |-> cycle + fill]),
         buf     |-> wb.buf,
         latency |-> fill + wb.latency,
         hit     |-> FALSE, merge |-> wb.merge, flush |-> wb.flush,
         written |-> (ev.written \ {e}) \cup wb.written]

\* The way an access uses: the first match, else the victim.
IsSlot(set, e, cycle, w) ==
    LET hits == HitWays(set, e.tag)
    IN  IF hits # {} THEN w \in hits /\ \A v \in hits : w <= v
                     ELSE IsVictim(set, cycle, w)

\* The result of an access that uses way w.
AccessDCache(cache, buf, opcode, e, cycle, w) ==
    IF HitWays(cache[e.index], e.tag) # {}
      THEN IF opcode = "LOAD" THEN LoadHit(cache, buf, e, cycle, w)
                              ELSE StoreHit(cache, buf, e, cycle, w)
      ELSE IF opcode = "LOAD" THEN LoadMiss(cache, buf, e, cycle, w)
                              ELSE StoreMiss(cache, buf, e, cycle, w)
===============================================================================
