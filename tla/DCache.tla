-------------------------------- MODULE DCache --------------------------------
(***************************************************************************)
(* The data cache under any sequence of loads and stores of the MEM stage: *)
(* accessdCache of Project04/mips_sim.c with its globals dCache, dcWrBuff  *)
(* and bufsize.  The pipeline starts an access only when the one before is *)
(* over (busy DM_), so the next access comes at `ready` or later; Pipeline *)
(* checks that it does.                                                    *)
(*                                                                         *)
(* The program simulates no data.  `pending` says what a real cache with   *)
(* these decisions would owe to memory: the blocks whose last store no     *)
(* flush of the buffer has written yet.                                    *)
(***************************************************************************)
EXTENDS DCacheOps, FiniteSets

CONSTANTS Addrs,      \* the addresses accessed
          MaxAccess,  \* bound: accesses in a run
          MaxGap      \* bound: idle cycles between two accesses

ASSUME AddrAssumption == Addrs \subseteq Int
ASSUME BoundAssumption == MaxAccess \in Nat /\ MaxGap \in Nat

VARIABLES
    dCache,    \* the lines, by index and way
    buffer,    \* dcWrBuff[0 .. bufsize - 1]
    ready,     \* the first cycle at which the next access can start
    count,     \* accesses so far
    stamp,     \* history: the number of the access that last used a line
    pending,   \* history: blocks stored and not yet flushed to memory
    last       \* history: what the last access was and returned

vars == <<dCache, buffer, ready, count, stamp, pending, last>>

Opcodes == {"LOAD", "STORE"}
Entries == {EntryOf(a) : a \in Addrs}

Init == /\ dCache = EmptyCache
        /\ buffer = EmptyBuffer
        /\ ready = 1
        /\ count = 0
        /\ stamp = [i \in Sets |-> [w \in Ways |-> 0]]
        /\ pending = {}
        /\ last = [hit |-> TRUE, latency |-> 0]

Access(opcode, e, now, w) ==
    LET a == AccessDCache(dCache, buffer, opcode, e, now, w)
    IN  /\ count < MaxAccess
        /\ IsSlot(dCache[e.index], e, now, w)
        /\ dCache' = a.cache
        /\ buffer' = a.buf
        /\ ready' = now + a.latency
        /\ count' = count + 1
        /\ stamp' = [stamp EXCEPT ![e.index][w] = count + 1]
        /\ pending' = (IF opcode = "STORE" THEN pending \cup {e} ELSE pending) \ a.written
        /\ last' = [hit |-> a.hit, latency |-> a.latency]

\* The program has no more memory instructions.
Finished == count = MaxAccess /\ UNCHANGED vars

Next == \/ \E opcode \in Opcodes, e \in Entries, gap \in 0 .. MaxGap, w \in Ways :
              Access(opcode, e, ready + gap, w)
        \/ Finished

Spec == Init /\ [][Next]_vars
-------------------------------------------------------------------------------
TypeOK == /\ dCache \in [Sets -> [Ways -> Line]]
          /\ buffer \in Seq(WriteBuffer)
          /\ ready \in Nat
          /\ count \in Nat
          /\ stamp \in [Sets -> [Ways -> Nat]]
          /\ pending \subseteq WriteBuffer
          /\ last.latency \in Nat

Used(i, w)    == dCache[i][w].status # DC_INVALID
BlockAt(i, w) == [tag |-> dCache[i][w].tag, index |-> i]

\* A block is in at most one way of its set, so the scan that stops at the
\* first match and the one that replaces never make two copies.
UniqueTags == \A i \in Sets : \A v, w \in Ways :
    Used(i, v) /\ Used(i, w) /\ dCache[i][v].tag = dCache[i][w].tag => v = w

\* Whenever the next access comes, every set has a line the scan can pick:
\* lruSlot is never used uninitialised.  It takes two ways, because the line
\* filled last is still too young for the access right after it.
VictimDefined == \A i \in Sets : Candidates(dCache[i], ready) # {}

\* The write buffer never outgrows its array.
BufferBounded == Len(buffer) <= DC_WR_BUFF_SIZE

\* Write merging works: no block is in the buffer twice.
BufferDistinct == \A j, k \in 1 .. Len(buffer) : buffer[j] = buffer[k] => j = k

\* The buffer holds different blocks only, and no more than there is room for.
BufferSafe == BufferBounded /\ BufferDistinct

\* A store is never lost: until a flush has written its block to memory the
\* block is in the buffer, whatever merges, evictions and flushes came since.
NoLostWrite == pending \subseteq Contents(buffer)

\* The time stamps do not contradict the order of use.
TrdyFollowsUse == \A i \in Sets : \A v, w \in Ways :
    stamp[i][v] < stamp[i][w] => dCache[i][v].trdy <= dCache[i][w].trdy

\* No access pays for more than one flush of the buffer.
OneFlush == last.latency <= MemRdLatency + HitdCLtcy + FlushWrBfLtcy
                            + 2 * (WrMergLtcy + AddBlk2WrBfLtcy)

\* A replaced line is an unused one or one of the two least recently used, and
\* a line used by the last access to its set stays when there are three ways.
Replaced(i, w) == stamp'[i][w] # stamp[i][w] /\ ~last'.hit
VictimNearLRU ==
    [][\A i \in Sets, w \in Ways :
         Replaced(i, w) => Cardinality({v \in Ways : stamp[i][v] < stamp[i][w]}) <= 1]_vars

\* A line that was loaded and not stored to since holds what memory holds: a
\* load never reads memory past a buffered store of the same block.
LoadsAreCurrent == \A i \in Sets, w \in Ways :
    dCache[i][w].status = DC_VALID => BlockAt(i, w) \notin pending
===============================================================================
