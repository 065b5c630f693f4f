------------------------------- MODULE DCacheGrow -------------------------------
(***************************************************************************)
(* The data cache of DCache beside one with fewer lines in a set, built    *)
(* from the same source with another DC_SET_SIZE, under the same accesses. *)
(* Each keeps its own clock: a miss makes the next access later, so the    *)
(* time stamps of the two, which decide what is replaced, drift apart.     *)
(***************************************************************************)
EXTENDS DCache

CONSTANT FewerWays

ASSUME FewerAssumption == FewerWays \in Nat \ {0}

VARIABLES smallCache, smallBuffer, smallReady,
          misses, smallMisses    \* history: the misses of either

smallVars == <<smallCache, smallBuffer, smallReady, misses, smallMisses>>

Small == INSTANCE DCacheOps WITH DC_SET_SIZE <- FewerWays

GInit == /\ Init
         /\ smallCache = Small!EmptyCache
         /\ smallBuffer = Small!EmptyBuffer
         /\ smallReady = 1
         /\ misses = 0
         /\ smallMisses = 0

Missed(hit) == IF hit THEN 0 ELSE 1

SmallAccess(opcode, e, now, w) ==
    LET a == Small!AccessDCache(smallCache, smallBuffer, opcode, e, now, w)
    IN  /\ Small!IsSlot(smallCache[e.index], e, now, w)
        /\ smallCache' = a.cache
        /\ smallBuffer' = a.buf
        /\ smallReady' = now + a.latency
        /\ smallMisses' = smallMisses + Missed(a.hit)

Both(opcode, e, gap) ==
    /\ \E w \in Ways : Access(opcode, e, ready + gap, w)
    /\ \E w \in Small!Ways : SmallAccess(opcode, e, smallReady + gap, w)
    /\ misses' = misses + Missed(last'.hit)

GNext == \/ \E opcode \in Opcodes, e \in Entries, gap \in 0 .. MaxGap : Both(opcode, e, gap)
         \/ Finished /\ UNCHANGED smallVars

GSpec == GInit /\ [][GNext]_<<vars, smallVars>>
-------------------------------------------------------------------------------
\* A cache with more lines in a set never misses more often on the same
\* accesses, although neither replaces the line least recently used exactly.
MoreWaysFewerMisses == misses <= smallMisses
===============================================================================
