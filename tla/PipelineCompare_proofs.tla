------------------------- MODULE PipelineCompare_proofs -------------------------
(***************************************************************************)
(* Proofs about PipelineCompare for every program, cache geometry and      *)
(* latencies like those of the code: what the cache adds to the cycles of  *)
(* a program lies between nothing and the time its accesses wait.          *)
(***************************************************************************)
EXTENDS PipelineCompare, Pipeline_proofs

\* Project02's pipeline as one whose memory never is busy: what Pipeline_proofs
\* says of the stages holds of it.
Q == INSTANCE Pipeline_proofs WITH
         at <- at02, ended <- ended02, inst <- inst02, fed <- fed02,
         F <- F02, D <- D02, E <- E02, M <- M02, W <- W02, cycle <- cycle02,
         busy <- FALSE, dcDelay <- 0,
         dCache <- EmptyCache, buffer <- EmptyBuffer, accessed <- Nat, ready <- 1

LEMMA Assumed ==
    Q!GeometryAssumption /\ Q!LatencyAssumption /\ Q!KindAssumption /\ Q!LengthAssumption
<1>1. Q!GeometryAssumption /\ Q!LatencyAssumption
  BY GeometryAssumption, LatencyAssumption
     DEF PowersOfTwo, Q!GeometryAssumption, Q!LatencyAssumption, Q!PowersOfTwo
<1>2. Q!KindAssumption /\ Q!LengthAssumption
  BY KindAssumption, LengthAssumption DEF Codes, Q!Codes, Q!KindAssumption, Q!LengthAssumption
<1>. QED BY <1>1, <1>2

\* What is kept of Project02's pipeline.
Inv02 == Q!IInv /\ Q!CopyInv /\ Q!PaceInv /\ Q!HoldInv

LEMMA SameStart == P02!Init /\ Init => Q!AtStart
BY DEF P02!Init, P02!NOP, Init, Q!AtStart, Q!NOP, Q!NopKind, Q!Numbered

LEMMA Start02 == P02!Init /\ Init => Inv02
BY SameStart, Assumed, Q!StartIInv, Q!StartCopies, Q!StartPace, Q!StartHold DEF Inv02

\* An edge of Project02's pipeline.
LEMMA SameEdge ==
    ASSUME Inv02, P02!Edge, length' = length
    PROVE  Q!Clock(0)
<1>1. F02 \in Q!Stage /\ D02 \in Q!Stage /\ E02 \in Q!Stage /\ M02 \in Q!Stage
  BY DEF Inv02, Q!IInv, Q!TypeInv, Q!TypeOK
<1>2. Q!BusyAfter(0) = FALSE /\ Q!DelayAfter(0) = 0
  BY DEF Q!BusyAfter, Q!DelayAfter
<1>. QED BY <1>1, <1>2 DEF P02!Edge, P02!MovesOn, P02!EAfter, P02!Interlock, P02!Stays, P02!DAfter, P02!Holds,
      P02!Takes, P02!FAfter, P02!IsBranch, Q!Clock, Q!WAfter, Q!MAfter, Q!MovesOn, Q!EAfter, Q!Interlock,
      Q!Stays, Q!DAfter, Q!FAfter, Q!Takes, Q!IsBranch, Q!Stage

\* Its edges and its calls keep what Pipeline_proofs says of it.
LEMMA Edge02Inv ==
    ASSUME Inv02, P02!Edge, length' = length PROVE Inv02'
<1>1. Q!Clock(0) /\ 0 \in Nat
  BY SameEdge
<1>2. Q!IInv'
  <2>1. M02.inst.id \in Nat
    BY DEF Inv02, Q!IInv, Q!TypeInv, Q!TypeOK, Q!Stage, Q!Instruction
  <2>. QED BY <1>1, <2>1, Assumed, Q!EdgeIInv DEF Inv02
<1>3. Q!CopyInv' /\ Q!PaceInv' /\ Q!HoldInv'
  BY <1>1, Assumed, Q!EdgeCopies, Q!EdgePace, Q!EdgeHold DEF Inv02
<1>. QED BY <1>2, <1>3 DEF Inv02

LEMMA Calls02Inv ==
    ASSUME Inv02, Q!Calls \/ UNCHANGED Q!vars PROVE Inv02'
<1>1. [Q!Next]_(Q!vars)
  BY DEF Q!Calls, Q!Next
<1>2. Q!IInv'
  BY <1>1, Assumed, Q!NextIInv DEF Inv02
<1>3. Q!CopyInv'
  <2>1. UNCHANGED <<F02, D02, E02, M02>>
    BY DEF Q!Calls, Q!Feed, Q!FeedNop, Q!Call, Q!EndProgram, Q!Stop, Q!vars, Q!stages
  <2>. QED BY <2>1 DEF Inv02, Q!CopyInv, Q!Copies
<1>4. Q!PaceInv' /\ Q!HoldInv'
  BY Assumed, Q!CallsPace, Q!CallsHold DEF Inv02
<1>. QED BY <1>2, <1>3, <1>4 DEF Inv02

\* The program's calls come to both at once.
LEMMA SameFeed ==
    ASSUME NEW k \in Kinds, CFeed(k), fed = fed02, ended02 <=> ended PROVE Q!Feed(k)
BY DEF CFeed, Feed, Numbered, IsBranch, P02!Feed, P02!Call, P02!stages,
       Q!Feed, Q!Call, Q!Numbered, Q!IsBranch, Q!stages, Q!cacheVars

LEMMA SameEnd == CEndProgram => Q!EndProgram
BY DEF CEndProgram, EndProgram, P02!EndProgram, P02!IsBranch, P02!stages,
       Q!EndProgram, Q!IsBranch, Q!stages, Q!cacheVars

LEMMA SameDrain ==
    ASSUME Inv02, P02!Drain, length' = length PROVE Q!FeedNop \/ Q!Stop
<1>1. P02!Idle <=> Q!Idle
  BY DEF P02!Idle, P02!NOP, Q!Idle, Inv02, Q!HoldInv, Q!PlainsInv, Q!PlainInv, Q!NOP, Q!NopKind,
         Q!Numbered
<1>2. P02!NOP(fed02 + 1) = Q!NOP(fed02 + 1)
  BY DEF P02!NOP, Q!NOP, Q!NopKind, Q!Numbered
<1>. QED BY <1>1, <1>2 DEF P02!Drain, P02!FeedNop, P02!Call, P02!Stop, P02!stages,
       Q!FeedNop, Q!Call, Q!Stop, Q!stages, Q!cacheVars
-------------------------------------------------------------------------------
(* What an access costs. *)

\* The code's latencies: a hit takes a cycle, and what an access waits beyond a
\* cycle is nothing or more than one.
LatenciesLong == /\ HitdCLtcy = 1
                 /\ MemRdLatency # 2
                 /\ 1 \notin {WrMergLtcy, AddBlk2WrBfLtcy, FlushWrBfLtcy}

LEMMA LongOrShort ==
    ASSUME LatenciesLong, NEW cache, NEW buf, NEW opcode, NEW e, NEW now, NEW way
    PROVE  AccessDCache(cache, buf, opcode, e, now, way).latency # 2
<1>. DEFINE Wait == Nat \ {1}
<1>0. \A x, y \in Wait : x + y \in Wait /\ 1 + x # 2 /\ MemRdLatency + x # 2
  BY LatencyAssumption DEF LatenciesLong
<1>1. /\ 0 \in Wait /\ WrMergLtcy \in Wait /\ AddBlk2WrBfLtcy \in Wait /\ FlushWrBfLtcy \in Wait
      /\ HitdCLtcy = 1
  BY LatencyAssumption DEF LatenciesLong
<1>. HIDE DEF Wait
<1>2. ASSUME NEW b, NEW x, NEW op PROVE WrBack(b, x, op).latency \in Wait
  BY <1>0, <1>1 DEF WrBack
<1>3. ASSUME NEW op PROVE Evict(cache, buf, op, e, way).latency \in Wait
  BY <1>1, <1>2 DEF Evict
<1>4. LoadHit(cache, buf, e, now, way).latency # 2
  BY <1>1 DEF LoadHit
<1>5. StoreHit(cache, buf, e, now, way).latency # 2
  BY <1>0, <1>1, <1>2 DEF StoreHit
<1>6. LoadMiss(cache, buf, e, now, way).latency # 2
  BY <1>0, <1>3 DEF LoadMiss
<1>7. StoreMiss(cache, buf, e, now, way).latency # 2
  <2>. DEFINE ev == Evict(cache, buf, "STORE", e, way)
              wb == WrBack(ev.buf, e, "STORE")
  <2>1. ev.latency \in Wait /\ wb.latency \in Wait
    BY <1>2, <1>3
  <2>2. StoreMiss(cache, buf, e, now, way).latency = (MemRdLatency + ev.latency) + wb.latency
    BY DEF StoreMiss
  <2>. HIDE DEF ev, wb
  <2>3. ev.latency + wb.latency \in Wait /\ MemRdLatency + (ev.latency + wb.latency) # 2
    BY <1>0, <2>1
  <2>. QED BY <2>1, <2>2, <2>3, LatencyAssumption DEF Wait
<1>. QED BY <1>4, <1>5, <1>6, <1>7 DEF AccessDCache

\* A load that looks its block up again does not wait.
LEMMA RepeatIsShort ==
    ASSUME LatenciesLong, IInv, CacheInv, NEW way \in Ways, Access(way), accessed' = accessed
    PROVE  AccessDCache(dCache, buffer, M.inst.OPCODE, EntryOf(M.inst.ADDR), cycle + 1, way).latency = 1
<1>. DEFINE e == EntryOf(M.inst.ADDR)
<1>1. M.inst.id \in accessed /\ IsMemory(M.inst) /\ M.valid
  BY DEF Access, Accesses
<1>2. M.inst.OPCODE = "LOAD" /\ HitWays(dCache[e.index], e.tag) # {}
  BY <1>1 DEF CacheInv, HeldInv, Held, IsMemory
<1>3. AccessDCache(dCache, buffer, M.inst.OPCODE, e, cycle + 1, way)
        = LoadHit(dCache, buffer, e, cycle + 1, way)
  BY <1>2 DEF AccessDCache
<1>. QED BY <1>3 DEF LoadHit, LatenciesLong
-------------------------------------------------------------------------------
(* The stalls of the two, those that are not waits for the memory. *)

Skips   == Pace - waited
Skips02 == Q!Pace

\* With s and t stalls, and l and m saying whether the next call begins with an
\* interlock: Project04's pipeline has made as many, but for those its waits took
\* the place of.
Ahead(s, l, t, m) == /\ m => l
                     /\ s + One(l) <= t + One(m)
                     /\ t - s <= waited

\* The same when nothing is left but what is due.
Close(u, v) == u <= v /\ v - u <= waited

Total   == Skips + Rest
Total02 == Skips02 + Q!Rest

LEMMA SkipsAre ==
    /\ IInv /\ waited \in Nat => /\ Skips \in Int
                                 /\ ~busy => cycle = Skips + waited + F.inst.id
    /\ Inv02 => Skips02 \in Int /\ cycle02 = Skips02 + F02.inst.id
<1>1. IInv /\ waited \in Nat => /\ Skips \in Int
                                /\ ~busy => cycle = Skips + waited + F.inst.id
  BY DEF Skips, Pace, IInv, TypeInv, TypeOK, Stage, Instruction
<1>2. Inv02 => Skips02 \in Int /\ cycle02 = Skips02 + F02.inst.id
  BY DEF Skips02, Q!Pace, Inv02, Q!IInv, Q!TypeInv, Q!TypeOK, Q!Stage, Q!Instruction
<1>. QED BY <1>1, <1>2

\* What is kept of Project04's pipeline.
Inv04 == IInv /\ CacheInv /\ PaceInv /\ HoldInv

LEMMA Start04 == Init => Inv04
BY InitIInv, InitCacheInv, InitPace, InitStart, StartHold DEF Inv04

\* How long an edge of Project04's pipeline waits; a wait is as long as the
\* stalls it takes the place of.
LEMMA EdgeCost ==
    ASSUME LatenciesLong, Inv04, waited \in Nat, CEdge
    PROVE  /\ \E delay \in Nat : Clock(delay) /\ (~Accesses => delay = dcDelay)
           /\ Skips' = Skips + One(~busy' /\ at' = "call")
           /\ waited' \in Nat /\ waited <= waited'
           /\ busy' => waited + Rest <= waited'
           /\ cycle' < 5 => waited' = waited
<1>1. /\ IInv /\ CacheInv /\ PaceInv /\ HoldInv
      /\ cycle \in Nat /\ dcDelay \in Nat /\ busy \in BOOLEAN
  BY DEF Inv04, IInv, TypeInv, TypeOK
<1>2. Pace \in Int /\ One(~busy' /\ at' = "call") \in {0, 1} /\ Rest \in 0 .. 2
  BY <1>1, RestBounds DEF Pace, One, IInv, TypeInv, TypeOK, Stage, Instruction
<1>3. ASSUME NEW way \in Ways, Access(way)
      PROVE  \E delay \in Nat \ {0, 2} :
                /\ Clock(delay) /\ Accesses /\ ~busy
                /\ waited' = waited + (delay - 1)
                /\ Pace' = Pace + One(~busy' /\ at' = "call") + (delay - 1)
                /\ cycle >= 4
  <2>. DEFINE delay == AccessDCache(dCache, buffer, M.inst.OPCODE, EntryOf(M.inst.ADDR),
                                   cycle + 1, way).latency
  <2>1. delay \in Nat \ {0, 2} /\ Clock(delay) /\ Accesses
        /\ accessed' = accessed \cup {M.inst.id} /\ ready' = cycle + 1 + delay
    BY <1>3, LatencyPositive, LongOrShort DEF Access
  <2>2. accessed' = accessed => delay = 1
    BY <1>1, <1>3, RepeatIsShort
  <2>. HIDE DEF delay
  <2>3. cycle' = cycle + 1 /\ ~busy
    BY <2>1 DEF Clock, Accesses
  <2>4. waited' = waited + (delay - 1)
    BY <1>1, <2>1, <2>2, <2>3 DEF CEdge
  <2>5. Pace' = Pace + One(~busy' /\ at' = "call") + (delay - 1)
    <3>1. delay \in Nat \ {0} /\ Clock(IF Accesses THEN delay ELSE dcDelay)
      BY <2>1
    <3>. QED BY <1>1, <2>1, <3>1, EdgePaid
  <2>6. M.inst.id # 0
    BY <1>1, <2>1 DEF Accesses, IsMemory, HoldInv, PlainsInv, PlainInv, NOP, NopKind, Numbered
  <2>7. cycle >= 4
    BY <1>1, <2>6 DEF HoldInv, EnteredInv, Entered, IInv, TypeInv, TypeOK, Stage, Instruction
  <2>. QED BY <2>1, <2>3, <2>4, <2>5, <2>7
<1>4. CASE \E way \in Ways : Access(way)
  <2>1. PICK delay \in Nat \ {0, 2} :
                /\ Clock(delay) /\ Accesses /\ ~busy
                /\ waited' = waited + (delay - 1)
                /\ Pace' = Pace + One(~busy' /\ at' = "call") + (delay - 1)
                /\ cycle >= 4
    BY <1>3, <1>4
  <2>2. cycle' = cycle + 1 /\ (busy' => delay > 1)
    BY <1>1, <2>1 DEF Clock, BusyAfter, DelayAfter
  <2>. QED BY <1>1, <1>2, <2>1, <2>2 DEF Skips
<1>5. CASE NoAccess
  <2>1. Clock(dcDelay) /\ ~Accesses /\ accessed' = accessed
    BY <1>5 DEF NoAccess, cacheVars
  <2>2. waited' = waited
    BY <2>1 DEF CEdge
  <2>3. Pace' = Pace + One(~busy' /\ at' = "call")
    <3>1. 1 \in Nat \ {0} /\ Clock(IF Accesses THEN 1 ELSE dcDelay)
      BY <2>1
    <3>2. Pace' = Pace + One(~busy' /\ at' = "call") + (IF Accesses THEN 1 - 1 ELSE 0)
      BY <1>1, <3>1, EdgePaid
    <3>. QED BY <1>2, <2>1, <3>2
  <2>4. busy' => Rest = 0
    <3>1. busy' => busy
      BY <1>1, <2>1 DEF Clock, BusyAfter, IInv, BusyInv
    <3>. QED BY <1>1, <3>1, RestBounds DEF HoldInv
  <2>. QED BY <1>1, <1>2, <2>1, <2>2, <2>3, <2>4 DEF Skips
<1>. QED BY <1>4, <1>5 DEF CEdge, Edge

\* Every step is one of Project04's pipeline or none.
LEMMA IsStep == [CNext]_cvars => [Next]_vars
BY DEF CNext, CFeed, CEndProgram, CEdge, CDrain, CEdge02, CDrain02, CFinished, cvars, Next

LEMMA Step04 == Inv04 /\ [CNext]_cvars => Inv04'
BY IsStep, NextIInv, NextCacheInv, NextPace, NextHold DEF Inv04

\* An edge of Project02's pipeline has no access to wait for.
LEMMA Edge02Cost ==
    ASSUME Inv02, P02!Edge, length' = length
    PROVE  /\ Q!Clock(0) /\ Skips02' = Skips02 + One(at02' = "call")
           /\ at02' = "call" => Q!Rest' = Q!Rest - 1 /\ (Q!Later' <=> Q!Later)
           /\ at02' = "idle" => Q!Rest = 0 /\ (Q!Interlock' <=> Q!Later)
           /\ ended02 /\ at02' = "idle" => Q!Rest' + One(Q!Later') = One(Q!Later)
           /\ at02' \in {"call", "idle"} /\ cycle02' = cycle02 + 1
<1>1. Q!Clock(0) /\ 0 \in Nat /\ Q!IInv /\ Q!CopyInv /\ Q!PaceInv /\ Q!HoldInv
  BY SameEdge DEF Inv02
<1>2. Q!Waiting \/ Q!HoldsUse \/ Q!HoldsNext \/ Q!MovesAll
  BY <1>1, Assumed, Q!EdgeKinds
<1>3. at02' \in {"call", "idle"} /\ cycle02' = cycle02 + 1 /\ inst02.id = F02.inst.id + 1
      /\ cycle02 \in Nat /\ F02.inst.id \in Nat
  BY <1>1, <1>2 DEF Q!Waiting, Q!HoldsUse, Q!HoldsNext, Q!MovesAll, Q!Clock, Q!IInv, Q!TypeInv,
     Q!TypeOK, Q!Stage, Q!Instruction, Q!InOrder, Q!CallInv
<1>4. Skips02' = Skips02 + One(at02' = "call")
  <2>1. F02'.inst.id = F02.inst.id + One(at02' = "idle")
    BY <1>2, <1>3 DEF Q!Waiting, Q!HoldsUse, Q!HoldsNext, Q!MovesAll, One
  <2>. QED BY <1>3, <2>1 DEF Skips02, Q!Pace, One
<1>5. /\ at02' = "call" => Q!Rest' = Q!Rest - 1 /\ (Q!Later' <=> Q!Later)
      /\ at02' = "idle" => Q!Rest = 0 /\ (Q!Interlock' <=> Q!Later)
  BY <1>1, Assumed, Q!EdgeRest
<1>6. ended02 /\ at02' = "idle" => Q!Rest' + Q!One(Q!Later') = Q!One(Q!Later)
  BY <1>1, Assumed, Q!EdgeLast
<1>. QED BY <1>1, <1>3, <1>4, <1>5, <1>6 DEF One, Q!One

-------------------------------------------------------------------------------
(* The two side by side. *)

\* Both have simulated the same instructions.
Together == at = "idle" /\ at02 = "idle" /\ fed = fed02

\* Project04's pipeline runs ahead by no more than a call; when the program has
\* ended Project02's waits until it is drained.
Turns == /\ ended02 <=> ended
         /\ ~ended => fed02 = fed /\ at # "done" /\ (at = "call" => at02 = "call")
         /\ ended /\ at # "done" => at02 = "idle" /\ fed02 = length
         /\ at02 = "done" => at = "done"

\* A number means the same instruction in both.
Stored   == {inst, F.inst, D.inst, E.inst, M.inst, W.inst}
Stored02 == {inst02, F02.inst, D02.inst, E02.inst, M02.inst, W02.inst}
Agree    == \A x \in Stored, y \in Stored02 : x.id = y.id => x = y

\* Where in a call the two are told apart: ahead with what is made and what the
\* call still makes, and at the end of the program close.
Related ==
    IF Together THEN Ahead(Skips, Interlock, Skips02, Q!Interlock)
    ELSE IF ended THEN Close(Total + One(Later), Total02 + One(Q!Later))
    ELSE IF at = "call" THEN Ahead(Total, Later, Total02, Q!Later)
    ELSE Ahead(Skips, Interlock, Total02, Q!Later)

\* The first instruction is written back in the fifth cycle of both.
Started ==
    /\ cycle < 5 => waited = 0
    /\ cycle >= 5 => cycle02 + (IF ~ended /\ at02 = "call" THEN 1 + Q!Rest ELSE 0) >= 5
    /\ ended /\ cycle < 5 => cycle02 = cycle

CmpInv == Inv04 /\ Inv02 /\ waited \in Nat /\ Turns /\ Agree /\ Related /\ Started

LEMMA Known ==
    ASSUME Inv04, Inv02
    PROVE  /\ fed \in Nat /\ fed02 \in Nat /\ length \in Nat /\ cycle \in Nat /\ cycle02 \in Nat
           /\ length <= fed /\ length <= fed02 /\ (~ended => fed = length)
           /\ inst.id = fed /\ inst02.id = fed02
           /\ \A x \in Stored \cup Stored02 : x.id \in Nat
           /\ \A x \in Stored : x.id <= fed
           /\ \A y \in Stored02 : y.id <= fed02
           /\ F.inst.id = IF at = "call" THEN fed - 1 ELSE fed
           /\ F02.inst.id = IF at02 = "call" THEN fed02 - 1 ELSE fed02
<1>1. /\ IInv /\ Q!IInv
  BY DEF Inv04, Inv02
<1>2. /\ fed \in Nat /\ length \in Nat /\ cycle \in Nat
      /\ length <= fed /\ (~ended => fed = length)
      /\ inst.id = fed
      /\ \A x \in Stored : x.id \in Nat
      /\ F.inst.id = IF at = "call" THEN fed - 1 ELSE fed
  BY <1>1 DEF IInv, TypeInv, TypeOK, ProgramInv, CallInv, InOrder, Stored, Stage, Instruction
<1>3. \A x \in Stored : x.id <= fed
  BY <1>1, <1>2 DEF IInv, InOrder, Follows, Stored
<1>4. /\ fed02 \in Nat /\ length \in Nat /\ cycle02 \in Nat
      /\ length <= fed02
      /\ inst02.id = fed02
      /\ \A x \in Stored02 : x.id \in Nat
      /\ F02.inst.id = IF at02 = "call" THEN fed02 - 1 ELSE fed02
  BY <1>1 DEF Q!IInv, Q!TypeInv, Q!TypeOK, Q!ProgramInv, Q!CallInv, Q!InOrder, Stored02,
     Q!Stage, Q!Instruction
<1>5. \A y \in Stored02 : y.id <= fed02
  BY <1>1, <1>4 DEF Q!IInv, Q!InOrder, Q!Follows, Stored02
<1>. QED BY <1>2, <1>3, <1>4, <1>5

\* Steps of Project02's pipeline, and those it takes no part in.
LEMMA Step02 ==
    ASSUME Inv04, Inv02, Turns, [CNext]_cvars PROVE Inv02'
<1>1. CASE \E k \in Kinds : CFeed(k)
  <2>1. PICK k \in Kinds : CFeed(k)
    BY <1>1
  <2>2. ~ended /\ fed = fed02
    BY <2>1 DEF CFeed, Feed, Turns
  <2>3. Q!Feed(k)
    BY <2>1, <2>2, SameFeed DEF Turns
  <2>. QED BY <2>3, Calls02Inv DEF Q!Calls
<1>2. CASE CEndProgram
  BY <1>2, SameEnd, Calls02Inv DEF Q!Calls
<1>3. CASE CEdge02
  BY <1>3, Edge02Inv DEF CEdge02, vars
<1>4. CASE CDrain02
  BY <1>4, SameDrain, Calls02Inv DEF CDrain02, vars, Q!Calls
<1>5. CASE CEdge \/ CDrain \/ CFinished \/ UNCHANGED cvars
  <2>1. UNCHANGED <<vars02, length>>
    BY <1>5 DEF CEdge, Edge, Access, NoAccess, Clock, CDrain, FeedNop, Stop, CFinished, cvars, vars
  <2>2. UNCHANGED Q!vars
    BY <2>1 DEF vars02, Q!vars, Q!stages, Q!cacheVars
  <2>. QED BY <2>2, Calls02Inv
<1>. QED BY <1>1, <1>2, <1>3, <1>4, <1>5 DEF CNext

LEMMA StepTurns ==
    ASSUME Inv04, Inv02, Turns, [CNext]_cvars PROVE Turns'
<1>1. ASSUME NEW k \in Kinds, CFeed(k) PROVE Turns'
  BY <1>1 DEF CFeed, Feed, Call, P02!Feed, P02!Call, Turns
<1>2. CASE CEndProgram
  BY <1>2, Known DEF CEndProgram, EndProgram, P02!EndProgram, Turns
<1>3. CASE CEdge
  <2>1. /\ UNCHANGED <<ended, fed, length, ended02, at02, fed02>>
        /\ at = "call" /\ at' \in {"call", "idle"}
    BY <1>3 DEF CEdge, Edge, Access, NoAccess, Clock, vars02
  <2>. QED BY <2>1 DEF Turns
<1>4. CASE CDrain
  BY <1>4 DEF CDrain, FeedNop, Stop, Call, vars02, Turns
<1>5. CASE CEdge02
  <2>1. /\ UNCHANGED <<ended, fed, length, at, ended02, fed02>>
        /\ at # "call" /\ at02' \in {"call", "idle"} /\ at02 = "call"
    BY <1>5 DEF CEdge02, P02!Edge, vars
  <2>. QED BY <2>1 DEF Turns
<1>6. CASE CDrain02
  BY <1>6 DEF CDrain02, P02!Drain, P02!FeedNop, P02!Stop, P02!Call, vars, Turns
<1>7. CASE CFinished \/ UNCHANGED cvars
  BY <1>7 DEF CFinished, cvars, vars, vars02, Turns
<1>. QED BY <1>1, <1>2, <1>3, <1>4, <1>5, <1>6, <1>7 DEF CNext

LEMMA StepAgree ==
    ASSUME Inv04, Inv02, Turns, Agree, [CNext]_cvars PROVE Agree'
<1>1. /\ \A x \in Stored : x.id \in Nat /\ x.id <= fed
      /\ \A y \in Stored02 : y.id \in Nat /\ y.id <= fed02
      /\ fed \in Nat /\ fed02 \in Nat /\ length \in Nat /\ length <= fed /\ length <= fed02
  BY Known DEF Stored, Stored02
<1>2. CASE \E k \in Kinds : CFeed(k)
  <2>1. PICK k \in Kinds : CFeed(k)
    BY <1>2
  <2>2. fed = fed02
    BY <2>1 DEF CFeed, Feed, Turns
  <2>. DEFINE new == Numbered(k, fed + 1)
  <2>3. inst' = new /\ inst02' = new /\ UNCHANGED <<F, D, E, M, W, F02, D02, E02, M02, W02>>
    BY <2>1, <2>2 DEF CFeed, Feed, Call, P02!Feed, P02!Call, P02!stages, stages
  <2>4. Stored' \subseteq Stored \cup {new} /\ Stored02' \subseteq Stored02 \cup {new}
    BY <2>3 DEF Stored, Stored02
  <2>5. new.id = fed + 1
    BY DEF Numbered
  <2>. HIDE DEF new
  <2>. QED BY <1>1, <2>2, <2>4, <2>5 DEF Agree
<1>3. CASE CDrain /\ FeedNop
  <2>1. fed02 = length /\ inst' = NOP(fed + 1) /\ UNCHANGED <<F, D, E, M, W, vars02>>
    BY <1>3 DEF CDrain, FeedNop, Call, stages, Turns
  <2>2. Stored' \subseteq Stored \cup {NOP(fed + 1)} /\ Stored02' = Stored02
    BY <2>1 DEF Stored, Stored02, vars02
  <2>3. NOP(fed + 1).id = fed + 1
    BY DEF NOP, Numbered
  <2>. QED BY <1>1, <2>1, <2>2, <2>3 DEF Agree
<1>4. CASE CDrain02 /\ P02!FeedNop
  <2>1. inst02' = NOP(fed02 + 1) /\ UNCHANGED <<vars, F02, D02, E02, M02, W02>>
    BY <1>4 DEF CDrain02, P02!FeedNop, P02!Call, P02!stages, P02!NOP, NOP, NopKind, Numbered
  <2>2. Stored' = Stored /\ Stored02' \subseteq Stored02 \cup {NOP(fed02 + 1)}
    BY <2>1 DEF Stored, Stored02, vars, stages
  <2>3. NOP(fed02 + 1).id = fed02 + 1
    BY DEF NOP, Numbered
  <2>4. \A x \in Stored : x.id > length => x = NOP(x.id)
    BY DEF Stored, Inv04, HoldInv, PlainsInv, PlainInv, PaceInv, LatesInv, LateInv
  <2>. QED BY <1>1, <2>2, <2>3, <2>4 DEF Agree
<1>5. CASE CEdge
  <2>1. PICK delay \in Nat : Clock(delay)
    <3>1. \A way \in Ways : Access(way) => \E delay \in Nat : Clock(delay)
      BY LatencyPositive DEF Access, Inv04
    <3>2. NoAccess => Clock(dcDelay) /\ dcDelay \in Nat
      BY DEF NoAccess, Inv04, IInv, TypeInv, TypeOK
    <3>. QED BY <1>5, <3>1, <3>2 DEF CEdge, Edge
  <2>2. Waiting \/ HoldsUse \/ HoldsNext \/ MovesAll
    BY <2>1, EdgeKinds DEF Inv04
  <2>3. W'.inst = M.inst /\ M'.inst \in {M.inst, E.inst} /\ inst' = inst
    BY <2>1, EdgeEffect DEF Inv04, Clock
  <2>4. Stored' \subseteq Stored
    BY <2>2, <2>3 DEF Stored, Waiting, HoldsUse, HoldsNext, MovesAll
  <2>5. Stored02' = Stored02
    BY <1>5 DEF CEdge, vars02, Stored02
  <2>. QED BY <2>4, <2>5 DEF Agree
<1>6. CASE CEdge02
  <2>1. Q!Clock(0) /\ Q!IInv
    BY <1>6, Edge02Cost DEF CEdge02, vars, Inv02
  <2>2. Q!Waiting \/ Q!HoldsUse \/ Q!HoldsNext \/ Q!MovesAll
    BY <2>1, Assumed, Q!EdgeKinds
  <2>3. W02'.inst = M02.inst /\ M02'.inst \in {M02.inst, E02.inst} /\ inst02' = inst02
    BY <2>1, Assumed, Q!EdgeEffect DEF Q!Clock
  <2>4. Stored02' \subseteq Stored02
    BY <2>2, <2>3 DEF Stored02, Q!Waiting, Q!HoldsUse, Q!HoldsNext, Q!MovesAll
  <2>5. Stored' = Stored
    BY <1>6 DEF CEdge02, vars, stages, Stored
  <2>. QED BY <2>4, <2>5 DEF Agree
<1>7. CASE CEndProgram \/ (CDrain /\ Stop) \/ (CDrain02 /\ P02!Stop) \/ CFinished \/ UNCHANGED cvars
  <2>1. UNCHANGED <<inst, F, D, E, M, W, inst02, F02, D02, E02, M02, W02>>
    BY <1>7 DEF CEndProgram, EndProgram, P02!EndProgram, CDrain, Stop, CDrain02, P02!Stop, CFinished,
       cvars, vars, vars02, stages, P02!stages
  <2>2. Stored' = Stored /\ Stored02' = Stored02
    BY <2>1 DEF Stored, Stored02
  <2>. QED BY <2>2 DEF Agree
<1>. QED BY <1>2, <1>3, <1>4, <1>5, <1>6, <1>7 DEF CNext, CDrain, CDrain02, P02!Drain

\* Between calls an interlock that Project02's pipeline no longer makes belongs to
\* a transfer and not to a load that the transfer uses, so being ahead before the
\* next call is being ahead with what the call makes.
LEMMA LevelAhead ==
    ASSUME Inv04, Inv02, Agree, Together, waited \in Nat,
           Ahead(Skips, Interlock, Skips02, Q!Interlock)
    PROVE  Ahead(Total, Later, Total02, Q!Later)
<1>. DEFINE B == IsBranch(F.inst)
            U == Uses(D.inst, F.inst)
<1>1. /\ F.valid /\ F02.valid
      /\ F.inst \in Stored /\ D.inst \in Stored /\ E.inst \in Stored
      /\ F02.inst \in Stored02 /\ D02.inst \in Stored02 /\ E02.inst \in Stored02
      /\ F.inst.id = F02.inst.id /\ F.inst.id \in Nat
      /\ (E02.valid <=> D02.valid) /\ D02.valid
  BY Known DEF Together, Inv04, Inv02, PaceInv, ValidInv, Q!PaceInv, Q!ValidInv, Stored, Stored02
<1>2. /\ Skips \in Int /\ Skips02 \in Int
  BY SkipsAre DEF Inv04
<1>3. /\ Follows(E, D) /\ Follows(D, F) /\ Follows(E02, D02) /\ Follows(D02, F02)
      /\ \A x \in Stored \cup Stored02 : x.id \in Nat
  BY Known DEF Inv04, Inv02, IInv, InOrder, Q!IInv, Q!InOrder, Q!Follows, Follows
<1>4. /\ Same(D, F) => F.inst = NOP(0) /\ D.inst = F.inst
      /\ Same(E, D) => E.inst = D.inst /\ Held0(D.inst)
  BY <1>1 DEF Inv04, CacheInv, CopyInv, Copies, PaceInv, CopiedInv, HoldInv, FreshInv, Same
<1>5. /\ D02.inst.id = F02.inst.id => F02.inst = NOP(0) /\ D02.inst = F02.inst
      /\ E02.inst.id = D02.inst.id => E02.inst = D02.inst /\ Held0(D02.inst)
  BY <1>1 DEF Inv02, Q!CopyInv, Q!Copies, Q!PaceInv, Q!CopiedInv, Q!HoldInv, Q!FreshInv, Q!Same,
     Q!Held0, Held0, Q!IsBranch, IsBranch, Q!NOP, NOP, Q!NopKind, NopKind, Q!Numbered, Numbered
<1>6. F.inst = F02.inst /\ D.inst = D02.inst
  <2>1. F.inst = F02.inst
    BY <1>1 DEF Agree
  <2>2. NOP(0).id = 0
    BY DEF NOP, Numbered
  <2>3. D.inst.id = D02.inst.id
    BY <1>1, <1>3, <1>4, <1>5, <2>1, <2>2 DEF Follows, Same
  <2>. QED BY <1>1, <2>1, <2>3 DEF Agree
<1>7. \A i : Held0(i) => i.OPCODE # "LOAD"
  BY DEF Held0, IsBranch, NOP, NopKind, Numbered
<1>8. Interlock /\ ~Q!Interlock => ~U
  <2>. SUFFICES ASSUME Interlock, ~Q!Interlock PROVE D02.inst.OPCODE # "LOAD"
    BY <1>6 DEF Uses
  <2>1. E.inst # E02.inst
    BY <1>1, <1>6 DEF Interlock, Q!Interlock
  <2>2. E.inst.id # E02.inst.id
    BY <1>1, <2>1 DEF Agree
  <2>3. ~Same(E, D)
    BY <1>4, <1>7 DEF Interlock
  <2>4. E02.inst.id = D02.inst.id
    BY <1>1, <1>3, <1>6, <2>2, <2>3 DEF Follows, Same
  <2>. QED BY <1>5, <1>7, <2>4
<1>9. /\ Rest = One(Interlock \/ B) + One(~Interlock /\ B /\ U)
      /\ Later <=> U /\ ~(B /\ ~Interlock)
      /\ Q!Rest = One(Q!Interlock \/ B) + One(~Q!Interlock /\ B /\ U)
      /\ Q!Later <=> U /\ ~(B /\ ~Q!Interlock)
  BY <1>1, <1>6 DEF Rest, Later, Copied, Q!Rest, Q!Later, Q!Copied, One, Q!One, Uses, Q!Uses,
     IsBranch, Q!IsBranch
<1>. HIDE DEF B, U
<1>10. (Q!Interlock => Interlock) /\ Skips + One(Interlock) <= Skips02 + One(Q!Interlock)
       /\ Skips02 - Skips <= waited
  BY DEF Ahead
<1>. QED BY <1>2, <1>8, <1>9, <1>10 DEF Ahead, One, Total, Total02

\* Which case of Related comes after a step.
LEMMA StepRelated ==
    ASSUME LatenciesLong, CmpInv, [CNext]_cvars PROVE Related'
<1>. USE DEF One
<1>1. /\ Inv04 /\ Inv02 /\ Turns /\ Agree /\ Related /\ waited \in Nat
      /\ Skips \in Int /\ Skips02 \in Int /\ Rest \in Int /\ Q!Rest \in Int
      /\ Total = Skips + Rest /\ Total02 = Skips02 + Q!Rest
  BY SkipsAre, RestBounds DEF CmpInv, Inv04, Total, Total02, Q!Rest, Q!One
<1>2. Together => Ahead(Total, Later, Total02, Q!Later)
  BY <1>1, LevelAhead DEF Related
<1>3. Together => Close(Total + One(Later), Total02 + One(Q!Later))
  BY <1>1, <1>2 DEF Ahead, Close
<1>. HIDE DEF One
<1>4. ASSUME UNCHANGED <<F, D, E, busy, cycle, waited, F02, D02, E02, cycle02>>,
             busy => dcDelay' = dcDelay
      PROVE  /\ Skips' = Skips /\ Skips02' = Skips02 /\ Rest' = Rest /\ Q!Rest' = Q!Rest
             /\ Total' = Total /\ Total02' = Total02
             /\ (Interlock' <=> Interlock) /\ (Q!Interlock' <=> Q!Interlock)
             /\ (Later' <=> Later) /\ (Q!Later' <=> Q!Later)
  <2>1. Interlock' = Interlock /\ Q!Interlock' = Q!Interlock
    BY <1>4 DEF Interlock, Q!Interlock
  <2>2. Rest' = Rest /\ Later' = Later /\ Q!Rest' = Q!Rest /\ Q!Later' = Q!Later
    BY <1>4, <2>1 DEF Rest, Later, Copied, Same, Q!Rest, Q!Later, Q!Copied, Q!Same
  <2>3. Pace' = Pace /\ Q!Pace' = Q!Pace
    BY <1>4 DEF Pace, Q!Pace
  <2>. QED BY <1>4, <2>1, <2>2, <2>3 DEF Skips, Skips02, Total, Total02
<1>5. at # "call" => ~busy
  BY <1>1 DEF Inv04, IInv, BusyInv
<1>6. CASE \E k \in Kinds : CFeed(k)
  <2>1. /\ at = "idle" /\ at' = "call" /\ at02 = "idle" /\ ~ended
        /\ UNCHANGED <<ended, F, D, E, busy, cycle, waited, F02, D02, E02, cycle02>>
    BY <1>6 DEF CFeed, Feed, Call, P02!Feed, P02!Call, P02!stages, stages
  <2>2. Together /\ ~Together' /\ ~ended'
    BY <1>1, <2>1 DEF Together, Turns
  <2>. QED BY <1>2, <1>4, <1>5, <2>1, <2>2 DEF Related, Ahead, One
<1>7. CASE CEndProgram
  <2>1. /\ Together /\ Together'
        /\ UNCHANGED <<F, D, E, busy, cycle, waited, F02, D02, E02, cycle02, dcDelay>>
    BY <1>1, <1>7, Zenon DEF CEndProgram, EndProgram, P02!EndProgram, P02!stages, stages, Turns, Together
  <2>. QED BY <1>1, <1>4, <2>1 DEF Related, Ahead, One
<1>8. CASE CDrain \/ CDrain02
  <2>1. /\ ended /\ ended' /\ at # "call"
        /\ UNCHANGED <<F, D, E, busy, cycle, waited, F02, D02, E02, cycle02>>
    BY <1>1, <1>8, Zenon DEF CDrain, FeedNop, Stop, Call, CDrain02, P02!Drain, P02!FeedNop, P02!Stop,
       P02!Call, P02!stages, stages, vars, vars02, Turns
  <2>2. ~Together'
    BY <1>1, <1>8 DEF CDrain, FeedNop, Stop, Call, CDrain02, vars, Together
  <2>3. Close(Total + One(Later), Total02 + One(Q!Later))
    BY <1>1, <1>3, <2>1 DEF Related
  <2>. QED BY <1>4, <1>5, <2>1, <2>2, <2>3 DEF Related, Close, One
<1>9. CASE CFinished \/ UNCHANGED cvars
  <2>1. UNCHANGED <<at, ended, fed, F, D, E, busy, dcDelay, cycle, waited, at02, fed02, F02, D02, E02, cycle02>>
    BY <1>9 DEF CFinished, cvars, vars, vars02, stages
  <2>2. Together' <=> Together
    BY <2>1 DEF Together
  <2>. QED BY <1>1, <1>4, <2>1, <2>2 DEF Related, Close, Ahead, One
<1>10. CASE CEdge
  <2>1. /\ UNCHANGED <<F02, D02, E02, cycle02, at02, fed02, ended02, fed, ended>>
        /\ at = "call" /\ at' \in {"call", "idle"}
    BY <1>10 DEF CEdge, Edge, Access, NoAccess, Clock, vars02
  <2>2. /\ \E delay \in Nat : Clock(delay)
        /\ Skips' = Skips + One(~busy' /\ at' = "call")
        /\ waited' \in Nat /\ waited <= waited'
        /\ busy' => waited + Rest <= waited'
    BY <1>1, <1>10, EdgeCost DEF CmpInv
  <2>3. /\ busy' => /\ Rest' = 0 /\ at' = "call"
                    /\ Later => Later'
                    /\ One(Later') <= Rest + One(Later)
        /\ ~busy' /\ at' = "call" => Rest' = Rest - 1 /\ (Later' <=> Later)
        /\ at' = "idle" => Rest = 0 /\ (Interlock' <=> Later)
    BY <1>1, <2>2, EdgeRest DEF Inv04, CacheInv
  <2>4. ended /\ at' = "idle" => Rest' + One(Later') = One(Later)
    BY <1>1, <2>2, EdgeLast DEF Inv04, CacheInv
  <2>5. Total02' = Total02 /\ (Q!Later' <=> Q!Later)
    <3>1. Q!Interlock' = Q!Interlock
      BY <2>1 DEF Q!Interlock
    <3>. QED BY <2>1, <3>1 DEF Total02, Skips02, Q!Pace, Q!Rest, Q!Later, Q!Copied, Q!Same
  <2>6. Total' = Skips' + Rest' /\ Rest' \in Int
    BY DEF Total, Rest, One
  <2>7. CASE ended
    <3>1. ~Together'
      <4>1. inst.id = fed /\ F.inst.id = fed - 1 /\ F.inst.id \in Nat /\ fed \in Nat
            /\ length \in Nat
        BY <1>1, <2>1, Known DEF Stored
      <4>2. inst.OPCODE = "NOP" /\ NopInv(inst) /\ fed02 = length
        BY <1>1, <2>1, <2>7 DEF Turns, Inv04, IInv, ProgramInv, HoldInv, EndInv
      <4>3. fed # fed02
        BY <4>1, <4>2 DEF NopInv
      <4>. QED BY <2>1, <4>3 DEF Together
    <3>. DEFINE u == Skips + Rest + One(Later)
                v == Total02 + One(Q!Later)
    <3>2. u <= v /\ v - u <= waited /\ u \in Int /\ v \in Int
      BY <1>1, <2>1, <2>7 DEF Related, Together, Close, One
    <3>3. v' = v
      BY <2>5 DEF One
    <3>4. Total' + One(Later') <= v /\ v - (Total' + One(Later')) <= waited'
      <4>. HIDE DEF v
      <4>1. CASE busy'
        BY <1>1, <2>2, <2>3, <2>6, <3>2, <4>1 DEF One
      <4>2. CASE ~busy' /\ at' = "call"
        BY <1>1, <2>2, <2>3, <2>6, <3>2, <4>2 DEF One
      <4>3. CASE ~busy' /\ at' = "idle"
        <5>1. Total' + One(Later') = u
          <6>1. Skips' = Skips + 0 /\ Rest = 0 /\ Rest' + One(Later') = One(Later)
            BY <2>2, <2>3, <2>4, <2>7, <4>3 DEF One
          <6>2. One(Later') \in Int /\ One(Later) \in Int
            BY DEF One
          <6>. QED BY <1>1, <2>6, <6>1, <6>2
        <5>. QED BY <1>1, <2>2, <3>2, <5>1
      <4>. QED BY <2>1, <4>1, <4>2, <4>3
    <3>. QED BY <2>1, <2>7, <3>1, <3>3, <3>4 DEF Related, Close
  <2>8. CASE ~ended
    <3>1. ~Together /\ ~Together' /\ at02 = "call"
      BY <1>1, <2>1, <2>8 DEF Together, Turns
    <3>2. Ahead(Total, Later, Total02, Q!Later)
      BY <1>1, <2>1, <2>8, <3>1 DEF Related
    <3>3. /\ Q!Later => Later
          /\ Total + One(Later) <= Total02 + One(Q!Later)
          /\ Total02 - Total <= waited
      BY <3>2 DEF Ahead
    <3>4. CASE at' = "idle"
      <4>1. Skips' = Total /\ (Interlock' <=> Later)
        BY <1>1, <2>2, <2>3, <3>4 DEF One
      <4>. QED BY <1>1, <2>1, <2>2, <2>5, <2>8, <3>1, <3>3, <3>4, <4>1 DEF Related, Ahead, One
    <3>5. CASE busy'
      <4>1. Total' = Total - Rest /\ (Later => Later') /\ One(Later') <= Rest + One(Later)
            /\ at' = "call"
        BY <1>1, <2>2, <2>3, <2>6, <3>5 DEF One
      <4>. QED BY <1>1, <2>1, <2>2, <2>5, <2>8, <3>1, <3>3, <3>5, <4>1 DEF Related, Ahead, One
    <3>6. CASE ~busy' /\ at' = "call"
      <4>1. Total' = Total /\ (Later' <=> Later)
        BY <1>1, <2>2, <2>3, <2>6, <3>6 DEF One
      <4>. QED BY <1>1, <2>1, <2>2, <2>5, <2>8, <3>1, <3>3, <3>6, <4>1 DEF Related, Ahead, One
    <3>. QED BY <2>1, <3>4, <3>5, <3>6
  <2>. QED BY <2>7, <2>8
<1>11. CASE CEdge02
  <2>1. /\ UNCHANGED <<F, D, E, busy, dcDelay, cycle, waited, at, fed, fed02, ended, ended02>>
        /\ P02!Edge /\ length' = length /\ at # "call" /\ at02 = "call"
    BY <1>11 DEF CEdge02, P02!Edge, vars, stages
  <2>2. /\ Skips02' = Skips02 + One(at02' = "call")
        /\ at02' = "call" => Q!Rest' = Q!Rest - 1 /\ (Q!Later' <=> Q!Later)
        /\ at02' = "idle" => Q!Rest = 0 /\ (Q!Interlock' <=> Q!Later)
        /\ ended02 /\ at02' = "idle" => Q!Rest' + One(Q!Later') = One(Q!Later)
        /\ at02' \in {"call", "idle"}
    BY <1>1, <2>1, Edge02Cost
  <2>3. /\ Skips' = Skips /\ Total' = Total /\ (Interlock' <=> Interlock) /\ (Later' <=> Later)
    <3>1. Interlock' = Interlock
      BY <2>1 DEF Interlock
    <3>. QED BY <2>1, <3>1 DEF Total, Skips, Pace, Rest, Later, Copied, Same
  <2>4. Total02' = Skips02' + Q!Rest' /\ Q!Rest' \in Int /\ ~Together
    BY <2>1 DEF Total02, Together, Q!Rest, Q!One
  <2>5. CASE ended
    <3>1. at = "done" /\ ~Together'
      BY <1>1, <2>1, <2>5 DEF Turns, Together
    <3>2. Close(Total + One(Later), Total02 + One(Q!Later))
      BY <1>1, <2>4, <2>5 DEF Related
    <3>3. Total02' + One(Q!Later') = Total02 + One(Q!Later)
      <4>1. One(Q!Later') \in Int /\ One(Q!Later) \in Int
        BY DEF One
      <4>2. CASE at02' = "call"
        <5>1. Skips02' = Skips02 + 1 /\ Q!Rest' = Q!Rest - 1 /\ One(Q!Later') = One(Q!Later)
          BY <2>2, <4>2 DEF One
        <5>. QED BY <1>1, <2>4, <4>1, <5>1
      <4>3. CASE at02' = "idle"
        <5>1. Skips02' = Skips02 + 0 /\ Q!Rest = 0 /\ Q!Rest' + One(Q!Later') = One(Q!Later)
          BY <1>1, <2>2, <2>5, <4>3 DEF One, Turns
        <5>. QED BY <1>1, <2>4, <4>1, <5>1
      <4>. QED BY <2>2, <4>2, <4>3
    <3>4. One(Later') = One(Later)
      BY <2>3 DEF One
    <3>. QED BY <2>1, <2>3, <2>5, <3>1, <3>2, <3>3, <3>4 DEF Related, Close
  <2>6. CASE ~ended
    <3>1. Ahead(Skips, Interlock, Total02, Q!Later) /\ fed02 = fed /\ at = "idle"
      <4>1. at = "idle"
        BY <1>1, <2>1, <2>6 DEF Turns, Inv04, IInv, TypeInv, TypeOK
      <4>. QED BY <1>1, <2>1, <2>4, <2>6, <4>1 DEF Related, Turns
    <3>2. Together' <=> at02' = "idle"
      BY <2>1, <3>1 DEF Together
    <3>3. /\ Q!Later => Interlock
          /\ Skips + One(Interlock) <= Total02 + One(Q!Later)
          /\ Total02 - Skips <= waited
      BY <3>1 DEF Ahead
    <3>4. CASE at02' = "idle"
      <4>1. Skips02' = Total02 /\ (Q!Interlock' <=> Q!Later)
        BY <1>1, <2>2, <3>4 DEF One
      <4>. QED BY <2>1, <2>3, <3>2, <3>3, <3>4, <4>1 DEF Related, Ahead, One
    <3>5. CASE at02' = "call"
      <4>1. Total02' = Total02 /\ (Q!Later' <=> Q!Later)
        BY <1>1, <2>2, <2>4, <3>5 DEF One
      <4>. QED BY <2>1, <2>3, <2>6, <3>1, <3>2, <3>3, <3>5, <4>1 DEF Related, Ahead, One
    <3>. QED BY <2>2, <3>4, <3>5
  <2>. QED BY <2>5, <2>6
<1>. QED BY <1>6, <1>7, <1>8, <1>9, <1>10, <1>11 DEF CNext

LEMMA StepStarted ==
    ASSUME LatenciesLong, CmpInv, [CNext]_cvars PROVE Started'
<1>1. /\ Inv04 /\ Inv02 /\ Turns /\ Agree /\ Related /\ Started /\ waited \in Nat
      /\ Skips \in Int /\ Skips02 \in Int /\ Rest \in 0 .. 2
      /\ Total = Skips + Rest /\ Total02 = Skips02 + Q!Rest
      /\ cycle \in Nat /\ cycle02 \in Nat
      /\ cycle02 = Skips02 + F02.inst.id
  BY SkipsAre, Known, RestBounds DEF CmpInv, Total, Total02, Inv04
<1>2. /\ Q!Rest \in 0 .. 2 /\ Q!Rest' \in 0 .. 2
      /\ F.inst.id = (IF at = "call" THEN fed - 1 ELSE fed)
      /\ F02.inst.id = (IF at02 = "call" THEN fed02 - 1 ELSE fed02)
      /\ F.inst.id \in Nat /\ F02.inst.id \in Nat
      /\ fed \in Nat /\ fed02 \in Nat
  BY <1>1, Known DEF Q!Rest, Q!One, Stored, Stored02
<1>3. cycle - F.inst.id <= Pace /\ Pace \in Int /\ (~busy => Pace = cycle - F.inst.id)
  BY <1>1, <1>2 DEF Pace, Inv04, IInv, BusyInv, TypeInv, TypeOK
<1>4. CASE \E k \in Kinds : CFeed(k)
  <2>1. /\ at02 = "idle" /\ ~ended /\ UNCHANGED <<ended, cycle, cycle02, waited>>
    BY <1>4 DEF CFeed, Feed, Call, P02!Feed, P02!Call
  <2>. QED BY <1>1, <1>2, <2>1 DEF Started
<1>5. CASE CEndProgram
  <2>1. /\ at = "idle" /\ at02 = "idle" /\ at02' = "idle" /\ ~ended
        /\ UNCHANGED <<cycle, cycle02, waited>>
    BY <1>5 DEF CEndProgram, EndProgram, P02!EndProgram
  <2>2. cycle < 5 => cycle02 = cycle
    <3>1. Together /\ fed = fed02 /\ ~busy
      BY <1>1, <2>1 DEF Together, Turns, Inv04, IInv, BusyInv
    <3>2. /\ Q!Interlock => Interlock
          /\ Skips + One(Interlock) <= Skips02 + One(Q!Interlock)
          /\ Skips02 - Skips <= waited
      BY <1>1, <3>1 DEF Related, Ahead
    <3>3. cycle < 5 => waited = 0 /\ Skips = Pace
      BY <1>1, <1>3 DEF Started, Skips
    <3>4. cycle < 5 => Skips = Skips02
      BY <1>1, <3>2, <3>3 DEF One
    <3>. QED BY <1>1, <1>2, <1>3, <2>1, <3>1, <3>3, <3>4
  <2>. QED BY <1>1, <2>1, <2>2 DEF Started
<1>6. CASE CEdge
  <2>1. /\ at = "call" /\ cycle' = cycle + 1
        /\ UNCHANGED <<ended, at02, cycle02, F02, D02, E02>>
    BY <1>6 DEF CEdge, Edge, Access, NoAccess, Clock, vars02
  <2>2. cycle' < 5 => waited' = waited
    BY <1>1, <1>6, EdgeCost
  <2>3. Q!Rest' = Q!Rest
    BY <2>1 DEF Q!Rest, Q!Interlock
  <2>4. CASE ended
    <3>1. cycle >= 5
      BY <1>1, <2>1, <2>4 DEF Inv04, HoldInv, EndInv
    <3>. QED BY <1>1, <2>1, <2>4, <3>1 DEF Started
  <2>5. CASE ~ended
    <3>1. at02 = "call" /\ fed02 = fed /\ ~Together
      BY <1>1, <2>1, <2>5 DEF Turns, Together
    <3>2. /\ Q!Later => Later
          /\ Total + One(Later) <= Total02 + One(Q!Later)
          /\ Total02 - Total <= waited
      BY <1>1, <2>1, <2>5, <3>1 DEF Related, Ahead
    <3>3. cycle < 5 => waited = 0 /\ Skips = Pace /\ Total = Total02
      BY <1>1, <1>2, <1>3, <3>2 DEF Started, Skips, One
    <3>4. cycle = 4 => cycle02 + 1 + Q!Rest >= 5
      BY <1>1, <1>2, <1>3, <2>1, <3>1, <3>3
    <3>. QED BY <1>1, <1>2, <2>1, <2>2, <2>3, <2>5, <3>1, <3>4 DEF Started
  <2>. QED BY <2>4, <2>5
<1>7. CASE CEdge02
  <2>1. /\ UNCHANGED <<cycle, waited, ended, ended02>>
        /\ P02!Edge /\ length' = length /\ at02 = "call"
    BY <1>7 DEF CEdge02, P02!Edge, vars
  <2>2. /\ at02' = "call" => Q!Rest' = Q!Rest - 1
        /\ at02' = "idle" => Q!Rest = 0
        /\ at02' \in {"call", "idle"} /\ cycle02' = cycle02 + 1
    BY <1>1, <2>1, Edge02Cost
  <2>3. ended => cycle02 >= 5
    BY <1>1, <2>1 DEF Inv02, Q!HoldInv, Q!EndInv, Turns
  <2>. QED BY <1>1, <1>2, <2>1, <2>2, <2>3 DEF Started
<1>8. CASE CDrain \/ CDrain02
  <2>1. ended /\ ended' /\ UNCHANGED <<cycle, cycle02, waited>>
    BY <1>1, <1>8 DEF CDrain, FeedNop, Stop, Call, CDrain02, P02!Drain, P02!FeedNop, P02!Stop,
       P02!Call, vars, vars02, Turns
  <2>. QED BY <1>1, <2>1 DEF Started
<1>9. CASE CFinished \/ UNCHANGED cvars
  <2>1. UNCHANGED <<ended, at02, cycle, cycle02, waited, F02, D02, E02>>
    BY <1>9 DEF CFinished, cvars, vars, vars02
  <2>2. Q!Rest' = Q!Rest
    BY <2>1 DEF Q!Rest, Q!Interlock
  <2>. QED BY <1>1, <2>1, <2>2 DEF Started
<1>. QED BY <1>4, <1>5, <1>6, <1>7, <1>8, <1>9 DEF CNext

LEMMA InitCmp == CInit => CmpInv
<1>. SUFFICES ASSUME CInit PROVE CmpInv
  OBVIOUS
<1>1. Inv04 /\ Inv02
  BY Start04, Start02 DEF CInit
<1>2. /\ at = "idle" /\ at02 = "idle" /\ fed = 0 /\ fed02 = 0 /\ cycle = 0 /\ cycle02 = 0 /\ waited = 0
      /\ inst = NOP(0) /\ inst02 = NOP(0)
      /\ F.inst = NOP(0) /\ D = F /\ E = F /\ M = F /\ W = F
      /\ F02.inst = NOP(0) /\ D02 = F02 /\ E02 = F02 /\ M02 = F02 /\ W02 = F02
  BY DEF CInit, Init, P02!Init, P02!NOP, NOP, NopKind, Numbered
<1>3. ~ended /\ ~ended02 /\ ~busy
  BY Zenon DEF CInit, Init, P02!Init
<1>4. Turns
  BY <1>2, <1>3 DEF Turns
<1>5. Agree
  BY <1>2 DEF Agree, Stored, Stored02
<1>6. Related
  <2>1. NOP(0).id = 0 /\ NOP(0).OPCODE = "NOP"
    BY DEF NOP, NopKind, Numbered
  <2>2. ~Interlock /\ ~Q!Interlock /\ Skips = 0 /\ Skips02 = 0
    BY <1>2, <1>3, <2>1 DEF Interlock, Q!Interlock, Skips, Pace, Skips02, Q!Pace
  <2>. QED BY <1>2, <2>2 DEF Related, Together, Ahead, One
<1>7. Started
  BY <1>2, <1>3 DEF Started
<1>. QED BY <1>1, <1>2, <1>4, <1>5, <1>6, <1>7 DEF CmpInv

LEMMA StepCmp == ASSUME LatenciesLong, CmpInv, [CNext]_cvars PROVE CmpInv'
<1>1. Inv04' /\ Inv02' /\ Turns' /\ Agree'
  BY Step04, Step02, StepTurns, StepAgree DEF CmpInv
<1>2. Related' /\ Started'
  BY StepRelated, StepStarted
<1>3. waited' \in Nat
  <2>1. CEdge => waited' \in Nat
    BY EdgeCost DEF CmpInv
  <2>2. ~CEdge => waited' = waited
    BY DEF CNext, CFeed, CEndProgram, CDrain, CEdge02, CDrain02, CFinished, cvars
  <2>. QED BY <2>1, <2>2 DEF CmpInv
<1>. QED BY <1>1, <1>2, <1>3 DEF CmpInv
-------------------------------------------------------------------------------
\* At the end both are drained and nothing is owed.
LEMMA CostAtEnd ==
    ASSUME CmpInv, at = "done", at02 = "done" PROVE cycle - cycle02 \in 0 .. waited
<1>1. /\ Inv04 /\ Inv02 /\ Turns /\ Related /\ Started /\ waited \in Nat
      /\ Skips \in Int /\ Skips02 \in Int
      /\ cycle \in Nat /\ cycle02 \in Nat /\ cycle02 = Skips02 + F02.inst.id
      /\ F.inst.id = fed /\ F02.inst.id = fed02 /\ fed \in Nat /\ fed02 \in Nat
      /\ W.inst.id \in Nat /\ W02.inst.id \in Nat /\ length \in Nat
  BY SkipsAre, Known DEF CmpInv, Inv04, Stored, Stored02
<1>2. ended /\ ~busy /\ ~Together
  BY <1>1 DEF Turns, Together, Inv04, IInv, BusyInv
<1>3. cycle = Skips + waited + fed
  BY <1>1, <1>2, SkipsAre DEF Inv04
<1>4. /\ W.inst.id > 0 <=> cycle >= 5
      /\ W02.inst.id > 0 <=> cycle02 >= 5
  BY <1>1 DEF Inv04, HoldInv, EnteredInv, Entered, Inv02, Q!HoldInv, Q!EnteredInv, Q!Entered
<1>5. cycle < 5 => cycle02 = cycle
  BY <1>1, <1>2 DEF Started
<1>6. cycle >= 5 => cycle02 >= 5
  BY <1>1, <1>2 DEF Started
<1>7. CASE cycle >= 5
  <2>1. fed = length + 5
    BY <1>1, <1>4, <1>7, FedAtEnd DEF Inv04
  <2>2. fed02 = length + 5
    BY <1>1, <1>4, <1>6, <1>7, Assumed, Q!FedAtEnd DEF Inv02
  <2>3. /\ D.inst.id > length /\ E.inst.id > length /\ F.inst.id > length
        /\ D02.inst.id > length /\ E02.inst.id > length /\ F02.inst.id > length
    BY <1>1, <2>1, <2>2, Known DEF Inv04, Inv02, IInv, InOrder, Q!IInv, Q!InOrder, Q!Follows, Follows,
       Stored, Stored02
  <2>4. /\ D.inst.OPCODE = "NOP" /\ E.inst.OPCODE = "NOP" /\ F.inst.OPCODE = "NOP"
        /\ D02.inst.OPCODE = "NOP" /\ E02.inst.OPCODE = "NOP" /\ F02.inst.OPCODE = "NOP"
    BY <1>1, <2>3 DEF Inv04, PaceInv, LatesInv, LateInv, Inv02, Q!PaceInv, Q!LatesInv, Q!LateInv
  <2>5. Rest = 0 /\ One(Later) = 0
    BY <2>4 DEF Rest, Later, Interlock, Uses, IsBranch, One
  <2>6. Q!Rest = 0 /\ One(Q!Later) = 0
    BY <2>4 DEF Q!Rest, Q!Later, Q!Interlock, Q!Uses, Q!IsBranch, One, Q!One
  <2>7. Total = Skips /\ Total02 = Skips02
    BY <1>1, <2>5, <2>6 DEF Total, Total02
  <2>8. Skips <= Skips02 /\ Skips02 - Skips <= waited
    <3>1. Close(Total + One(Later), Total02 + One(Q!Later))
      BY <1>1, <1>2 DEF Related
    <3>. QED BY <1>1, <2>5, <2>6, <2>7, <3>1 DEF Close
  <2>. QED BY <1>1, <1>3, <2>1, <2>2, <2>8
<1>. QED BY <1>1, <1>5, <1>7

\* For programs of every length and latencies like the code's (LatenciesLong), the
\* cache makes no program faster, and slower by no more than its accesses wait.
THEOREM CacheCost == ASSUME LatenciesLong PROVE CSpec => []CostIsWaits
<1>1. CmpInv => CostIsWaits
  <2>. SUFFICES ASSUME CmpInv, Level PROVE cycle - cycle02 \in 0 .. waited
    BY DEF CostIsWaits
  <2>1. CASE at = "done" /\ at02 = "done"
    BY <2>1, CostAtEnd
  <2>2. CASE at = "idle" /\ at02 = "idle" /\ fed = fed02
    <3>1. /\ Skips \in Int /\ Skips02 \in Int /\ waited \in Nat
          /\ cycle02 = Skips02 + F02.inst.id
          /\ F.inst.id = fed /\ F02.inst.id = fed02 /\ fed \in Nat
      BY <2>2, SkipsAre, Known DEF CmpInv, Inv04
    <3>2. cycle = Skips + waited + fed
      BY <2>2, <3>1, SkipsAre DEF CmpInv, Inv04, IInv, BusyInv
    <3>3. /\ Q!Interlock => Interlock
          /\ Skips + One(Interlock) <= Skips02 + One(Q!Interlock)
          /\ Skips02 - Skips <= waited
      BY <2>2 DEF CmpInv, Related, Together, Ahead
    <3>4. Skips <= Skips02
      BY <3>1, <3>3 DEF One
    <3>. QED BY <2>2, <3>1, <3>2, <3>3, <3>4
  <2>. QED BY <2>1, <2>2 DEF Level
<1>. QED BY <1>1, InitCmp, StepCmp, PTL DEF CSpec
===============================================================================
