---------------------------- MODULE Pipeline_proofs ----------------------------
(***************************************************************************)
(* Proofs about Pipeline for every program, every cache geometry and all   *)
(* latencies: instructions pass the stages in order, none is skipped or    *)
(* hidden behind a bubble, no call leaves a cache miss unfinished, and no  *)
(* access starts before the one before it is over.                         *)
(***************************************************************************)
EXTENDS Pipeline, DCacheLemmas
-------------------------------------------------------------------------------
(* The inductive invariant. *)

TypeInv == TypeOK /\ inst \in Instruction

\* The instruction of the current call is the last one fed.
CallInv == inst.id = fed

\* A bubble never is the first copy of an instruction in its stage.
Leads(a, b) == b.inst.id # a.inst.id => ~b.stall
ShownInv == Leads(W, M) /\ Leads(M, E) /\ Leads(E, D) /\ Leads(D, F)

\* DM_ is busy exactly while there is delay left, and then inside a call.
BusyInv == /\ busy <=> dcDelay > 0
           /\ busy => at = "call"

\* Every load and store accesses the cache before or as it enters W.
AccessedByWrite == IsMemory(W.inst) => W.inst.id \in accessed

\* A load or store that did not access the cache yet will do so on the next
\* edge.
AccessInv == /\ IsMemory(M.inst) /\ M.inst.id \notin accessed => M.valid /\ ~busy
             /\ AccessedByWrite

\* The delay left is the time to the end of the last access.
ReadyInv == IF busy THEN ready = cycle + 1 + dcDelay ELSE ready <= cycle + 1

\* Only instruction 0 and those after the program are NOPs.
NopInv(i) == i.OPCODE = "NOP" => i.id = 0 \/ (ended /\ i.id > length)
ProgramInv == /\ length <= fed
              /\ ~ended => length = fed
              /\ NopInv(inst) /\ NopInv(F.inst) /\ NopInv(D.inst) /\ NopInv(E.inst)
              /\ NopInv(M.inst) /\ NopInv(W.inst)
              /\ at = "done" => W.inst.OPCODE = "NOP"

IInv == /\ TypeInv /\ CallInv /\ InOrder /\ ShownInv
        /\ BusyInv /\ AccessInv /\ ReadyInv /\ ProgramInv

\* The pipeline before the first call, whatever the cache has seen.
AtStart == /\ at = "idle" /\ ended = FALSE /\ inst = NOP(0) /\ fed = 0 /\ length = 0
           /\ F = [valid |-> TRUE, stall |-> FALSE, inst |-> NOP(0)]
           /\ D = F /\ E = F /\ M = F /\ W = F
           /\ busy = FALSE /\ dcDelay = 0 /\ cycle = 0
           /\ accessed \subseteq Nat /\ ready = 1

\* The initial state satisfies the invariant.
LEMMA StartIInv == AtStart => IInv
<1>. SUFFICES ASSUME AtStart PROVE IInv
  OBVIOUS
<1>1. F.inst = NOP(0) /\ F.valid = TRUE /\ F.stall = FALSE /\ D = F /\ E = F /\ M = F /\ W = F
  BY DEF AtStart
<1>2. NOP(0).id = 0 /\ NOP(0).OPCODE = "NOP" /\ inst = NOP(0)
  BY DEF AtStart, NOP, NopKind, Numbered
<1>. HIDE DEF NOP
<1>3. TypeInv /\ CallInv /\ BusyInv /\ ReadyInv
  <2>1. NOP(0) \in Instruction
    BY DEF NOP, NopKind, Numbered, Instruction
  <2>2. {F, D, E, M, W} \subseteq Stage
    BY <1>1, <2>1 DEF AtStart, Stage
  <2>3. busy \in BOOLEAN /\ ended \in BOOLEAN /\ ~busy
    BY Zenon DEF AtStart
  <2>4. /\ at = "idle" /\ dcDelay = 0 /\ fed = 0 /\ length = 0 /\ cycle = 0 /\ ready = 1
        /\ accessed \subseteq Nat
    BY DEF AtStart
  <2>5. dcDelay \in Nat /\ fed \in Nat /\ length \in 0 .. fed /\ cycle \in Nat /\ ready \in Nat
        /\ accessed \subseteq Nat
    BY <2>4
  <2>6. TypeInv
    BY <1>2, <2>1, <2>2, <2>3, <2>4, <2>5, Zenon DEF TypeInv, TypeOK
  <2>7. CallInv
    BY <1>2, <2>4 DEF CallInv
  <2>8. BusyInv /\ ReadyInv
    BY <2>3, <2>4 DEF BusyInv, ReadyInv
  <2>. QED BY <2>6, <2>7, <2>8
<1>4. InOrder /\ ShownInv
  BY <1>1, <1>2 DEF AtStart, InOrder, Follows, ShownInv, Leads
<1>5. AccessInv
  BY <1>1, <1>2 DEF AccessInv, AccessedByWrite, IsMemory
<1>6. ProgramInv
  BY <1>1, <1>2 DEF AtStart, ProgramInv, NopInv
<1>. QED BY <1>3, <1>4, <1>5, <1>6 DEF IInv

LEMMA InitStart == Init => AtStart
BY DEF Init, AtStart

LEMMA InitIInv == Init => IInv
BY InitStart, StartIInv

\* A stage that moves on or stays, field by field.
LEMMA StageMoves ==
    ASSUME NEW s \in Stage, NEW flag \in BOOLEAN
    PROVE  /\ MovesOn(s) \in Stage /\ Stays(s, flag) \in Stage
           /\ MovesOn(s).inst = s.inst /\ MovesOn(s).valid /\ (MovesOn(s).stall <=> s.stall)
           /\ Stays(s, flag).inst = s.inst /\ ~Stays(s, flag).valid /\ (Stays(s, flag).stall <=> flag)
BY DEF MovesOn, Stays, Stage

\* A call that starts keeps it.
LEMMA CallIInv ==
    ASSUME IInv, NEW i \in Instruction, Call(i), i.id = fed + 1,
           \/ ~ended /\ length' = length + 1 /\ i.OPCODE # "NOP"
           \/ ended /\ length' = length
    PROVE  IInv'
<1>1. /\ at = "idle" /\ at' = "call" /\ inst' = i /\ fed' = fed + 1 /\ dcDelay' = 0
      /\ UNCHANGED <<ended, F, D, E, M, W, busy, cycle, accessed, ready>>
  BY DEF Call, stages, cacheVars
<1>2. ~busy /\ dcDelay = 0 /\ fed \in Nat /\ length \in Nat
  BY <1>1 DEF IInv, TypeInv, TypeOK, BusyInv
<1>3. TypeInv' /\ CallInv' /\ BusyInv' /\ ReadyInv'
  BY <1>1, <1>2 DEF IInv, TypeInv, TypeOK, CallInv, BusyInv, ReadyInv
<1>4. InOrder' /\ ShownInv'
  BY <1>1, <1>2 DEF IInv, InOrder, Follows, ShownInv, Leads
<1>5. AccessInv'
  BY <1>1 DEF IInv, AccessInv, AccessedByWrite
<1>6. ProgramInv'
  BY <1>1, <1>2 DEF IInv, ProgramInv, NopInv, InOrder, Follows, TypeInv, TypeOK
<1>. QED BY <1>3, <1>4, <1>5, <1>6 DEF IInv

\* What an edge does to the stages, one clause for each way a stage can go.
LEMMA EdgeEffect ==
    ASSUME IInv, NEW delay \in Nat, Clock(delay)
    PROVE  /\ W'.inst = M.inst /\ W'.valid /\ (W'.stall <=> M.stall)
           /\ M'.valid <=> ~busy'
           /\ E'.valid => M'.valid
           /\ D'.valid <=> E'.valid
           /\ IF M'.valid THEN M'.inst = E.inst /\ (M'.stall <=> E.stall)
                          ELSE M'.inst = M.inst /\ M'.stall
           /\ IF E'.valid THEN E'.inst = D.inst /\ (E'.stall <=> D.stall)
                          ELSE E'.inst = E.inst /\ (E'.stall <=> ~W'.stall /\ ~M'.stall)
           /\ IF D'.valid THEN D'.inst = F.inst /\ (D'.stall <=> F.stall)
                          ELSE /\ D'.inst = D.inst
                               /\ D'.stall => ~W'.stall /\ ~M'.stall /\ ~E'.stall
           /\ \/ at' = "idle" /\ F'.inst = inst /\ ~F'.stall /\ D'.valid /\ M'.valid
              \/ /\ at' = "call" /\ F'.inst = F.inst
                 /\ F'.stall => ~W'.stall /\ ~M'.stall /\ ~E'.stall /\ ~D'.stall
                 /\ D'.valid => IsBranch(F.inst)
           /\ M'.valid /\ ~E'.valid => E.inst.OPCODE = "LOAD"
           /\ {F', D', E', M', W'} \subseteq Stage
<1>1. /\ W' = WAfter
      /\ M' = MAfter(W', busy') /\ E' = EAfter(W', M') /\ D' = DAfter(W', M', E')
      /\ F' = FAfter(W', M', E', D')
      /\ at' = IF Takes(W', M', E', D') THEN "idle" ELSE "call"
      /\ inst' = inst
  BY DEF Clock
<1>2. /\ F \in Stage /\ D \in Stage /\ E \in Stage /\ M \in Stage /\ W \in Stage
      /\ inst \in Instruction /\ busy \in BOOLEAN
  BY DEF IInv, TypeInv, TypeOK
<1>3. busy' \in BOOLEAN
  <2>1. busy' = BusyAfter(delay)
    BY DEF Clock
  <2>. QED BY <1>2, <2>1 DEF BusyAfter, DelayAfter
<1>w. W' \in Stage /\ W'.inst = M.inst /\ W'.valid /\ (W'.stall <=> M.stall)
  BY <1>1, <1>2, StageMoves DEF WAfter
<1>m. /\ M' \in Stage /\ (M'.valid <=> ~busy')
      /\ IF M'.valid THEN M'.inst = E.inst /\ (M'.stall <=> E.stall)
                     ELSE M'.inst = M.inst /\ M'.stall
  <2>1. CASE ~busy'
    BY <1>1, <1>2, <1>w, <2>1, StageMoves DEF MAfter
  <2>2. CASE busy'
    <3>. DEFINE flag == IF W'.stall THEN M.stall /\ busy' ELSE TRUE
    <3>1. flag \in BOOLEAN /\ flag
      BY <1>2, <1>w, <2>2 DEF Stage
    <3>2. M' = Stays(M, flag)
      BY <1>1, <2>2 DEF MAfter
    <3>. HIDE DEF flag
    <3>. QED BY <1>2, <2>2, <3>1, <3>2, StageMoves
  <2>. QED BY <2>1, <2>2
<1>e. /\ E' \in Stage /\ (E'.valid => M'.valid)
      /\ IF E'.valid THEN E'.inst = D.inst /\ (E'.stall <=> D.stall)
                     ELSE E'.inst = E.inst /\ (E'.stall <=> ~W'.stall /\ ~M'.stall)
      /\ M'.valid /\ ~E'.valid => E.inst.OPCODE = "LOAD"
  <2>. DEFINE moves == W'.valid /\ M'.valid /\ ~Interlock
              flag  == ~W'.stall /\ ~M'.stall
  <2>1. CASE moves
    BY <1>1, <1>2, <2>1, StageMoves DEF EAfter
  <2>2. CASE ~moves
    <3>1. flag \in BOOLEAN
      OBVIOUS
    <3>2. E' = Stays(E, flag)
      BY <1>1, <2>2 DEF EAfter
    <3>3. E' \in Stage /\ E'.inst = E.inst /\ ~E'.valid /\ (E'.stall <=> flag)
      <4>. HIDE DEF flag
      <4>. QED BY <1>2, <3>1, <3>2, StageMoves
    <3>4. M'.valid => E.inst.OPCODE = "LOAD"
      BY <1>w, <2>2 DEF Interlock
    <3>. QED BY <3>3, <3>4
  <2>. QED BY <2>1, <2>2
<1>d. /\ D' \in Stage /\ (D'.valid <=> E'.valid)
      /\ IF D'.valid THEN D'.inst = F.inst /\ (D'.stall <=> F.stall)
                     ELSE /\ D'.inst = D.inst
                          /\ D'.stall => ~W'.stall /\ ~M'.stall /\ ~E'.stall
  <2>. DEFINE flag == ~W'.stall /\ ~M'.stall /\ ~E'.stall
  <2>1. CASE E'.valid
    BY <1>1, <1>2, <1>w, <1>e, <2>1, StageMoves DEF DAfter
  <2>2. CASE ~E'.valid
    <3>1. flag \in BOOLEAN
      OBVIOUS
    <3>2. D' = Stays(D, flag)
      BY <1>1, <2>2 DEF DAfter
    <3>3. D' \in Stage /\ D'.inst = D.inst /\ ~D'.valid /\ (D'.stall <=> flag)
      <4>. HIDE DEF flag
      <4>. QED BY <1>2, <3>1, <3>2, StageMoves
    <3>. QED BY <2>2, <3>3
  <2>. QED BY <2>1, <2>2
<1>f. /\ F' \in Stage
      /\ \/ at' = "idle" /\ F'.inst = inst /\ ~F'.stall /\ D'.valid /\ M'.valid
         \/ /\ at' = "call" /\ F'.inst = F.inst
            /\ F'.stall => ~W'.stall /\ ~M'.stall /\ ~E'.stall /\ ~D'.stall
            /\ D'.valid => IsBranch(F.inst)
  <2>. DEFINE flag == ~W'.stall /\ ~M'.stall /\ ~E'.stall /\ ~D'.stall
  <2>1. CASE Takes(W', M', E', D')
    <3>1. F' = [valid |-> TRUE, stall |-> FALSE, inst |-> inst] /\ at' = "idle"
      BY <1>1, <2>1 DEF FAfter
    <3>2. D'.valid /\ M'.valid
      BY <2>1 DEF Takes
    <3>. QED BY <1>2, <3>1, <3>2 DEF Stage
  <2>2. CASE ~Takes(W', M', E', D')
    <3>1. flag \in BOOLEAN
      OBVIOUS
    <3>2. F' = Stays(F, flag) /\ at' = "call"
      BY <1>1, <2>2 DEF FAfter
    <3>3. F' \in Stage /\ F'.inst = F.inst /\ (F'.stall <=> flag)
      <4>. HIDE DEF flag
      <4>. QED BY <1>2, <3>1, <3>2, StageMoves
    <3>4. D'.valid => IsBranch(F.inst)
      BY <1>w, <1>e, <1>d, <2>2 DEF Takes
    <3>. QED BY <3>2, <3>3, <3>4
  <2>. QED BY <2>1, <2>2
<1>. QED BY <1>w, <1>m, <1>e, <1>d, <1>f

\* An edge keeps the invariant, whatever positive latency an access has.
LEMMA EdgeIInv ==
    ASSUME IInv, NEW delay \in Nat, Clock(delay),
           \/ /\ Accesses /\ delay > 0
              /\ accessed' = accessed \cup {M.inst.id} /\ ready' = cycle + 1 + delay
           \/ /\ Accesses => M.inst.id \in accessed
              /\ delay = dcDelay /\ accessed' = accessed /\ ready' = ready
    PROVE  IInv'
<1>. USE DEF IInv
<1>1. /\ at = "call" /\ cycle' = cycle + 1 /\ inst' = inst /\ ended' = ended
      /\ fed' = fed /\ length' = length
      /\ dcDelay' = DelayAfter(delay) /\ (busy' <=> BusyAfter(delay))
      /\ at' \in {"idle", "call"}
  BY DEF Clock
<1>2. /\ F \in Stage /\ D \in Stage /\ E \in Stage /\ M \in Stage /\ W \in Stage
      /\ inst \in Instruction /\ busy \in BOOLEAN /\ dcDelay \in Nat /\ cycle \in Nat
      /\ fed \in Nat /\ ready \in Nat /\ accessed \subseteq Nat
  BY DEF TypeInv, TypeOK
<1>3. dcDelay' \in Nat /\ (busy' <=> dcDelay' > 0)
  <2>1. busy => delay > 0
    BY <1>2 DEF BusyInv, Accesses
  <2>. QED BY <1>1, <1>2, <2>1 DEF DelayAfter, BusyAfter
<1>4. busy' \in BOOLEAN
  BY Zenon DEF Clock, BusyAfter
<1>5. busy' => M'.valid = FALSE /\ at' = "call"
  BY EdgeEffect, <1>4 DEF Stage
<1>6. TypeInv'
  <2>1. accessed' \subseteq Nat
    <3>1. M.inst.id \in Nat
      BY <1>2 DEF Stage, Instruction
    <3>2. accessed' = accessed \cup {M.inst.id} \/ accessed' = accessed
      OBVIOUS
    <3>. QED BY <1>2, <3>1, <3>2, Zenon
  <2>2. ready' \in Nat
    BY <1>2
  <2>3. {F', D', E', M', W'} \subseteq Stage
    BY EdgeEffect
  <2>4. cycle' \in Nat
    BY <1>1, <1>2
  <2>5. length \in 0 .. fed /\ ended \in BOOLEAN
    BY DEF TypeInv, TypeOK
  <2>6. at' \in {"idle", "call", "done"}
    BY <1>1
  <2>. QED BY <1>1, <1>2, <1>3, <1>4, <2>1, <2>2, <2>3, <2>4, <2>5, <2>6, Zenon DEF TypeInv, TypeOK
<1>7. CallInv'
  BY <1>1 DEF CallInv
<1>8. InOrder'
  BY <1>1, <1>2, EdgeEffect DEF InOrder, Follows, CallInv, Stage, Instruction
<1>9. ShownInv'
  BY EdgeEffect DEF ShownInv, Leads
<1>10. BusyInv'
  BY <1>3, <1>5 DEF BusyInv
<1>11. AccessInv'
  <2>1. AccessedByWrite'
    <3>1. W'.inst = M.inst
      BY EdgeEffect
    <3>2. IsMemory(M.inst) => M.inst.id \in accessed'
      BY DEF AccessInv, Accesses
    <3>. QED BY <3>1, <3>2 DEF AccessedByWrite, IsMemory
  <2>2. CASE busy'
    <3>1. M'.inst = M.inst
      BY EdgeEffect, <1>5, <2>2
    <3>2. busy \/ Accesses
      BY <1>1, <1>2, <2>2 DEF BusyAfter, BusyInv
    <3>3. IsMemory(M.inst) => M.inst.id \in accessed'
      BY <3>2 DEF AccessInv
    <3>. QED BY <2>1, <3>1, <3>3 DEF AccessInv, IsMemory
  <2>3. CASE ~busy'
    BY <2>1, <2>3, EdgeEffect DEF AccessInv
  <2>. QED BY <2>2, <2>3
<1>12. ReadyInv'
  BY <1>1, <1>2 DEF ReadyInv, BusyInv, Accesses, DelayAfter, BusyAfter
<1>13. ProgramInv'
  BY <1>1, EdgeEffect DEF ProgramInv, NopInv
<1>. QED BY <1>6, <1>7, <1>8, <1>9, <1>10, <1>11, <1>12, <1>13

LEMMA NextIInv == IInv /\ [Next]_vars => IInv'
<1>. SUFFICES ASSUME IInv, [Next]_vars PROVE IInv'
  OBVIOUS
<1>. USE DEF IInv
<1>1. ASSUME NEW k \in Kinds, Feed(k) PROVE IInv'
  <2>. DEFINE i == Numbered(k, fed + 1)
  <2>1. /\ i \in Instruction /\ i.id = fed + 1 /\ i.OPCODE # "NOP"
    BY KindAssumption DEF Numbered, Instruction, Codes, TypeInv, TypeOK
  <2>2. Call(i) /\ ~ended /\ length' = length + 1
    BY <1>1 DEF Feed
  <2>. HIDE DEF i
  <2>. QED BY <2>1, <2>2, CallIInv
<1>2. CASE EndProgram
  BY <1>2 DEF EndProgram, stages, cacheVars, TypeInv, TypeOK, CallInv, InOrder, Follows,
     ShownInv, Leads, BusyInv, AccessInv, AccessedByWrite, ReadyInv, ProgramInv, NopInv
<1>3. CASE FeedNop
  <2>. DEFINE i == NOP(fed + 1)
  <2>1. /\ i \in Instruction /\ i.id = fed + 1
    BY DEF NOP, NopKind, Numbered, Instruction, TypeInv, TypeOK
  <2>2. Call(i) /\ ended /\ length' = length
    BY <1>3 DEF FeedNop
  <2>. HIDE DEF i
  <2>. QED BY <2>1, <2>2, CallIInv
<1>4. CASE Stop
  BY <1>4 DEF Stop, Idle, stages, cacheVars, TypeInv, TypeOK, CallInv, InOrder, Follows,
     ShownInv, Leads, BusyInv, AccessInv, AccessedByWrite, ReadyInv, ProgramInv, NopInv
<1>5. ASSUME NEW way \in Ways, Access(way) PROVE IInv'
  <2>. DEFINE a == AccessDCache(dCache, buffer, M.inst.OPCODE, EntryOf(M.inst.ADDR), cycle + 1, way)
              delay == a.latency
  <2>1. delay \in Nat /\ delay > 0
    BY LatencyPositive
  <2>2. /\ Accesses /\ Clock(delay) /\ accessed' = accessed \cup {M.inst.id}
        /\ ready' = cycle + 1 + delay
    BY <1>5 DEF Access
  <2>. HIDE DEF delay
  <2>. QED BY <2>1, <2>2, EdgeIInv
<1>6. CASE NoAccess
  <2>1. dcDelay \in Nat
    BY DEF TypeInv, TypeOK
  <2>2. ~Accesses /\ Clock(dcDelay) /\ accessed' = accessed /\ ready' = ready
    BY <1>6 DEF NoAccess, cacheVars
  <2>. QED BY <2>1, <2>2, EdgeIInv
<1>7. CASE UNCHANGED vars
  BY <1>7 DEF vars, stages, cacheVars, TypeInv, TypeOK, CallInv, InOrder, Follows,
     ShownInv, Leads, BusyInv, AccessInv, AccessedByWrite, ReadyInv, ProgramInv, NopInv,
     IsMemory
<1>. QED BY <1>1, <1>2, <1>3, <1>4, <1>5, <1>6, <1>7 DEF Next, Edge, Finished

THEOREM Invariance == Spec => []IInv
<1>. QED BY InitIInv, NextIInv, PTL DEF Spec
-------------------------------------------------------------------------------
(* The properties. *)

\* Every variable has its type; the delay of a miss is never counted below 0.
THEOREM TypeCorrect == Spec => []TypeOK
<1>1. IInv => TypeOK
  BY DEF IInv, TypeInv
<1>. QED BY <1>1, Invariance, PTL

\* No stall of timing_simulation makes it skip, drop or reorder an instruction.
THEOREM OrderKept == Spec => []InOrder
<1>1. IInv => InOrder
  BY DEF IInv
<1>. QED BY <1>1, Invariance, PTL

\* The call that starts a miss also waits for its end, the local dc_delay and
\* the flag in P->DM_ never disagree between calls, and accessdCache is never
\* called while an access is in progress.
THEOREM MissesPaid == Spec => []AccessTimed
<1>1. IInv => DelayNotLost
  BY DEF IInv, TypeInv, TypeOK, BusyInv, DelayNotLost
<1>2. IInv => AccessSpaced
  BY DEF IInv, ReadyInv, AccessSpaced, Accesses
<1>. QED BY <1>1, <1>2, Invariance, PTL DEF AccessTimed

\* Every load and store reaches the data cache before it is written back.
THEOREM NoAccessSkipped == Spec => []AccessedByWrite
<1>1. IInv => AccessedByWrite
  BY DEF IInv, AccessInv
<1>. QED BY <1>1, Invariance, PTL

LEMMA WrittenAtEnd ==
    ASSUME IInv, at = "done", length >= 5 PROVE W.inst.id > length
<1>1. /\ F.inst.id \in Nat /\ D.inst.id \in Nat /\ E.inst.id \in Nat
      /\ M.inst.id \in Nat /\ W.inst.id \in Nat /\ fed \in Nat /\ length \in Nat
  BY DEF IInv, TypeInv, TypeOK, Stage, Instruction
<1>2. W.inst.id >= fed - 4 /\ length <= fed
  BY <1>1 DEF IInv, InOrder, Follows, ProgramInv
<1>3. W.inst.id # 0
  BY <1>1, <1>2
<1>. QED BY <1>3 DEF IInv, ProgramInv, NopInv

\* The drain loop writes back every instruction of a program of five or more.
THEOREM LongProgramsDrain == Spec => []Drained
<1>1. IInv => Drained
  BY WrittenAtEnd DEF Drained
<1>. QED BY <1>1, Invariance, PTL

\* The write back stage shows every instruction: what enters it is never the
\* bubble a stall has left behind.
THEOREM NoneHidden == Spec => EachShown
<1>1. IInv /\ [Next]_vars => [W'.inst.id # W.inst.id => ~W'.stall]_vars
  <2>. SUFFICES ASSUME IInv, [Next]_vars, W'.inst.id # W.inst.id PROVE ~W'.stall
    OBVIOUS
  <2>1. ASSUME NEW delay \in Nat, Clock(delay) PROVE ~W'.stall
    <3>1. W'.inst = M.inst /\ (W'.stall <=> M.stall)
      BY <2>1, EdgeEffect
    <3>. QED BY <3>1 DEF IInv, ShownInv, Leads
  <2>2. ASSUME NEW way \in Ways, Access(way) PROVE ~W'.stall
    <3>. DEFINE delay == AccessDCache(dCache, buffer, M.inst.OPCODE, EntryOf(M.inst.ADDR),
                                   cycle + 1, way).latency
    <3>1. delay \in Nat /\ Clock(delay)
      BY <2>2, LatencyPositive DEF Access
    <3>. HIDE DEF delay
    <3>. QED BY <2>1, <3>1
  <2>3. CASE NoAccess
    BY <2>1, <2>3 DEF NoAccess, IInv, TypeInv, TypeOK
  <2>4. W' # W => Edge
    BY DEF Next, Feed, FeedNop, Call, EndProgram, Stop, Finished, vars, stages
  <2>. QED BY <2>2, <2>3, <2>4 DEF Edge
<1>. QED BY <1>1, Invariance, PTL DEF Spec, EachShown
-------------------------------------------------------------------------------
(* The cache of the pipeline. *)

\* What accessed the cache is not younger than what is in M.
OlderInv == \A n \in accessed : n <= M.inst.id

\* Stages that hold the same instruction hold copies of it, and not of a store:
\* only the interlock and the hold of a branch leave a copy behind.
Copies(a, b) == a.inst.id = b.inst.id => a.inst = b.inst /\ a.inst.OPCODE # "STORE"
CopyInv == Copies(M, E) /\ Copies(E, D) /\ Copies(D, F)

\* While an instruction that accessed the cache is in M its block is in the
\* cache, and it does so again only as a load.
Held(cache, i) == HitWays(cache[EntryOf(i.ADDR).index], EntryOf(i.ADDR).tag) # {}
HeldInv == M.inst.id \in accessed =>
              /\ IsMemory(M.inst) => Held(dCache, M.inst)
              /\ M.valid => M.inst.OPCODE # "STORE"

CacheInv == /\ GoodCache(dCache) /\ GoodBuffer(buffer)
            /\ OlderInv /\ CopyInv /\ HeldInv

LEMMA StartCopies == AtStart => CopyInv
BY DEF AtStart, NOP, NopKind, Numbered, CopyInv, Copies

LEMMA InitCacheInv == Init => CacheInv
<1>. SUFFICES ASSUME Init PROVE CacheInv
  OBVIOUS
<1>1. GoodCache(dCache)
  BY DEF Init, GoodCache, EmptyCache, ZeroLine, Line
<1>2. GoodBuffer(buffer)
  BY GeometryFacts DEF Init, EmptyBuffer, GoodBuffer, Distinct
<1>3. OlderInv /\ HeldInv
  BY DEF Init, OlderInv, HeldInv
<1>4. CopyInv
  BY InitStart, StartCopies
<1>. QED BY <1>1, <1>2, <1>3, <1>4 DEF CacheInv

\* An edge leaves no other copies.
LEMMA EdgeCopies ==
    ASSUME IInv, CopyInv, NEW delay \in Nat, Clock(delay)
    PROVE  CopyInv'
<1>1. /\ M.inst.id \in Nat /\ E.inst.id \in Nat /\ D.inst.id \in Nat /\ F.inst.id \in Nat
      /\ Follows(M, E) /\ Follows(E, D) /\ Follows(D, F)
      /\ inst.id = F.inst.id + 1
  BY DEF IInv, TypeInv, TypeOK, Stage, Instruction, InOrder, CallInv, Clock
<1>2. Copies(M', E')
  BY <1>1, EdgeEffect DEF CopyInv, Copies
<1>3. Copies(E', D')
  BY <1>1, EdgeEffect DEF CopyInv, Copies
<1>4. Copies(D', F')
  BY <1>1, EdgeEffect DEF CopyInv, Copies, Follows, IsBranch
<1>. QED BY <1>2, <1>3, <1>4 DEF CopyInv, Copies

\* What an edge does to the instructions that accessed the cache.
LEMMA EdgeCacheInv ==
    ASSUME IInv, CacheInv, NEW delay \in Nat, Clock(delay),
           \/ accessed' = accessed \cup {M.inst.id} /\ Held(dCache', M.inst)
           \/ accessed' = accessed /\ dCache' = dCache
    PROVE  OlderInv' /\ CopyInv' /\ HeldInv'
<1>1. /\ M.inst.id \in Nat /\ E.inst.id \in Nat /\ D.inst.id \in Nat /\ F.inst.id \in Nat
      /\ fed \in Nat /\ accessed \subseteq Nat
      /\ Follows(M, E) /\ Follows(E, D) /\ Follows(D, F)
      /\ inst.id = F.inst.id + 1
  BY DEF IInv, TypeInv, TypeOK, Stage, Instruction, InOrder, CallInv, Clock
<1>2. \/ M'.inst = M.inst /\ ~M'.valid
      \/ M'.inst = E.inst /\ M'.valid
  BY EdgeEffect
<1>3. OlderInv'
  <2>1. M'.inst.id \in Nat /\ M.inst.id <= M'.inst.id
    BY <1>1, <1>2 DEF Follows
  <2>2. SUFFICES ASSUME NEW n \in accessed' PROVE n <= M'.inst.id
    BY DEF OlderInv
  <2>3. n \in accessed \/ n = M.inst.id
    OBVIOUS
  <2>4. n \in Nat /\ n <= M.inst.id
    <3>1. CASE n = M.inst.id
      BY <1>1, <3>1
    <3>2. CASE n \in accessed
      <4>1. OlderInv
        BY DEF CacheInv
      <4>. QED BY <1>1, <3>2, <4>1 DEF OlderInv
    <3>. QED BY <2>3, <3>1, <3>2
  <2>. QED BY <1>1, <2>1, <2>4
<1>4. CopyInv'
  BY EdgeCopies DEF CacheInv
<1>5. HeldInv'
  <2>1. CASE M'.inst = M.inst /\ ~M'.valid
    BY <2>1 DEF CacheInv, HeldInv, Held, IsMemory
  <2>2. CASE M'.inst = E.inst /\ M'.valid
    <3>1. E.inst.id \in accessed' => E.inst.id = M.inst.id
      BY <1>1 DEF CacheInv, OlderInv, Follows
    <3>2. E.inst.id = M.inst.id => E.inst = M.inst /\ E.inst.OPCODE # "STORE"
      BY DEF CacheInv, CopyInv, Copies
    <3>3. M.inst.id \in accessed' /\ IsMemory(M.inst) => Held(dCache', M.inst)
      BY DEF CacheInv, HeldInv
    <3>. QED BY <2>2, <3>1, <3>2, <3>3 DEF HeldInv, Held, IsMemory
  <2>. QED BY <1>2, <2>1, <2>2
<1>. QED BY <1>3, <1>4, <1>5

\* An access is one of DCacheLemmas.
LEMMA AccessFacts ==
    ASSUME IInv, CacheInv, NEW way \in Ways, Access(way)
    PROVE  /\ EntryOf(M.inst.ADDR) \in WriteBuffer /\ M.inst.OPCODE \in {"LOAD", "STORE"}
           /\ GoodCache(dCache') /\ GoodBuffer(buffer') /\ Held(dCache', M.inst)
           /\ accessed' = accessed \cup {M.inst.id}
<1>. DEFINE e == EntryOf(M.inst.ADDR)
<1>1. M.inst.ADDR \in Int /\ cycle + 1 \in Nat
  BY DEF IInv, TypeInv, TypeOK, Stage, Instruction
<1>2. e \in WriteBuffer
  BY <1>1, EntryOfTyped
<1>3. M.inst.OPCODE \in {"LOAD", "STORE"} /\ IsSlot(dCache[e.index], e, cycle + 1, way)
  BY DEF Access, Accesses, IsMemory
<1>4. /\ dCache' = AccessDCache(dCache, buffer, M.inst.OPCODE, e, cycle + 1, way).cache
      /\ buffer' = AccessDCache(dCache, buffer, M.inst.OPCODE, e, cycle + 1, way).buf
      /\ accessed' = accessed \cup {M.inst.id}
  BY DEF Access
<1>. QED BY <1>1, <1>2, <1>3, <1>4, AccessHolds DEF CacheInv, Held

LEMMA NextCacheInv == IInv /\ CacheInv /\ [Next]_vars => CacheInv'
<1>. SUFFICES ASSUME IInv, CacheInv, [Next]_vars PROVE CacheInv'
  OBVIOUS
<1>1. ASSUME NEW way \in Ways, Access(way) PROVE CacheInv'
  <2>. DEFINE delay == AccessDCache(dCache, buffer, M.inst.OPCODE, EntryOf(M.inst.ADDR),
                                   cycle + 1, way).latency
  <2>1. delay \in Nat /\ Clock(delay)
    BY <1>1, LatencyPositive DEF Access
  <2>2. /\ GoodCache(dCache') /\ GoodBuffer(buffer') /\ Held(dCache', M.inst)
        /\ accessed' = accessed \cup {M.inst.id}
    BY <1>1, AccessFacts
  <2>. HIDE DEF delay
  <2>3. OlderInv' /\ CopyInv' /\ HeldInv'
    BY <2>1, <2>2, EdgeCacheInv
  <2>. QED BY <2>2, <2>3 DEF CacheInv, GoodCache, GoodBuffer, Distinct
<1>2. CASE NoAccess
  <2>1. /\ dcDelay \in Nat /\ Clock(dcDelay)
        /\ dCache' = dCache /\ buffer' = buffer /\ accessed' = accessed
    BY <1>2 DEF NoAccess, cacheVars, IInv, TypeInv, TypeOK
  <2>2. OlderInv' /\ CopyInv' /\ HeldInv'
    BY <2>1, EdgeCacheInv
  <2>. QED BY <2>1, <2>2 DEF CacheInv, GoodCache, GoodBuffer, Distinct
<1>3. CASE ~Edge
  <2>1. UNCHANGED <<F, D, E, M, dCache, buffer, accessed>>
    BY <1>3 DEF Next, Feed, FeedNop, Call, EndProgram, Stop, Finished, vars, stages, cacheVars
  <2>. QED BY <2>1 DEF CacheInv, GoodCache, GoodBuffer, Distinct, OlderInv, CopyInv, Copies,
              HeldInv, Held, IsMemory
<1>. QED BY <1>1, <1>2, <1>3 DEF Edge

LEMMA CacheInvariance == Spec => [](IInv /\ CacheInv)
BY InitIInv, NextIInv, InitCacheInv, NextCacheInv, PTL DEF Spec

\* The lookup that a copy of a load repeats always hits and leaves the buffer as
\* it is, in every geometry: nothing came in between.
THEOREM RepeatsHit == Spec => RepeatHits
<1>1. IInv /\ CacheInv /\ [Next]_vars =>
         [M.inst.id \in accessed /\ Accesses /\ cycle' # cycle =>
            ready' = cycle' + HitdCLtcy /\ buffer' = buffer]_vars
  <2>. SUFFICES ASSUME IInv, CacheInv, [Next]_vars, M.inst.id \in accessed, Accesses, cycle' # cycle
                PROVE  ready' = cycle' + HitdCLtcy /\ buffer' = buffer
    OBVIOUS
  <2>1. PICK way \in Ways : Access(way)
    BY DEF Next, Feed, FeedNop, Call, EndProgram, Stop, Finished, vars, stages, Edge, NoAccess
  <2>. DEFINE e == EntryOf(M.inst.ADDR)
              a == AccessDCache(dCache, buffer, M.inst.OPCODE, e, cycle + 1, way)
  <2>2. M.inst.OPCODE = "LOAD" /\ HitWays(dCache[e.index], e.tag) # {}
    BY DEF CacheInv, HeldInv, Held, Accesses, IsMemory
  <2>3. a = LoadHit(dCache, buffer, e, cycle + 1, way)
    BY <2>2 DEF AccessDCache
  <2>4. a.latency = HitdCLtcy /\ a.buf = buffer
    BY <2>3 DEF LoadHit
  <2>5. ready' = cycle + 1 + a.latency /\ buffer' = a.buf /\ cycle' = cycle + 1
    BY <2>1 DEF Access, Clock
  <2>. QED BY <2>4, <2>5
<1>. QED BY <1>1, CacheInvariance, PTL DEF Spec, RepeatHits
-------------------------------------------------------------------------------
(* The line to replace. *)

\* No line is used later than the last access ends, and all but one are used
\* earlier.
YoungInv == \A i \in Sets :
    /\ \A w \in Ways : dCache[i][w].trdy <= ready
    /\ \A v, w \in Ways : v # w => dCache[i][v].trdy < ready \/ dCache[i][w].trdy < ready

LEMMA InitYoung == Init => YoungInv
BY DEF Init, YoungInv, EmptyCache, ZeroLine

LEMMA NextYoung == IInv /\ CacheInv /\ YoungInv /\ [Next]_vars => YoungInv'
<1>. SUFFICES ASSUME IInv, CacheInv, YoungInv, [Next]_vars PROVE YoungInv'
  OBVIOUS
<1>1. ASSUME NEW way \in Ways, Access(way) PROVE YoungInv'
  <2>. DEFINE e   == EntryOf(M.inst.ADDR)
              now == cycle + 1
              a   == AccessDCache(dCache, buffer, M.inst.OPCODE, e, now, way)
  <2>1. now \in Nat /\ ready \in Nat /\ ready <= now
    BY <1>1 DEF IInv, TypeInv, TypeOK, ReadyInv, Access, Accesses
  <2>2. e \in WriteBuffer /\ M.inst.OPCODE \in {"LOAD", "STORE"} /\ e.index \in Sets
    BY <1>1, AccessFacts DEF WriteBuffer
  <2>3. IsSlot(dCache[e.index], e, now, way) /\ dCache' = a.cache /\ ready' = now + a.latency
    BY <1>1 DEF Access
  <2>4. PICK line : AccessOutcome(a, dCache, buffer, M.inst.OPCODE, e, now, way, line)
    BY <2>1, <2>2, <2>3, AccessGood DEF CacheInv
  <2>. HIDE DEF a, now, e
  <2>5. /\ line \in Line /\ line.trdy \in Nat /\ line.trdy <= ready'
        /\ ready' \in Nat /\ ready < ready'
        /\ dCache' = [dCache EXCEPT ![e.index][way] = line]
    BY <2>1, <2>3, <2>4 DEF AccessOutcome, Replace, Line
  <2>6. /\ dCache \in [Sets -> [Ways -> Line]]
        /\ \A i \in Sets, v \in Ways :
              dCache'[i][v] = IF i = e.index /\ v = way THEN line ELSE dCache[i][v]
    BY <2>2, <2>5 DEF CacheInv, GoodCache
  <2>7. \A i \in Sets, v \in Ways : dCache[i][v].trdy \in Nat /\ dCache[i][v].trdy <= ready
    BY <2>6 DEF YoungInv, Line
  <2>8. \A i \in Sets, v \in Ways :
           /\ dCache'[i][v].trdy <= ready'
           /\ i # e.index \/ v # way => dCache'[i][v].trdy < ready'
    <3>. SUFFICES ASSUME NEW i \in Sets, NEW v \in Ways
                  PROVE  /\ dCache'[i][v].trdy <= ready'
                         /\ i # e.index \/ v # way => dCache'[i][v].trdy < ready'
      OBVIOUS
    <3>1. CASE i = e.index /\ v = way
      BY <2>5, <2>6, <3>1
    <3>2. CASE ~(i = e.index /\ v = way)
      <4>1. dCache'[i][v] = dCache[i][v]
        BY <2>6, <3>2
      <4>. QED BY <2>1, <2>5, <2>7, <4>1
    <3>. QED BY <3>1, <3>2
  <2>. QED BY <2>8 DEF YoungInv
<1>2. CASE NoAccess
  BY <1>2 DEF NoAccess, cacheVars, YoungInv
<1>3. CASE ~Edge
  <2>1. dCache' = dCache /\ ready' = ready
    BY <1>3 DEF Next, Feed, FeedNop, Call, EndProgram, Stop, Finished, vars, cacheVars
  <2>. QED BY <2>1 DEF YoungInv
<1>. QED BY <1>1, <1>2, <1>3 DEF Edge

\* With two lines in a set the pipeline never makes accessdCache use lruSlot
\* unset: what DCache assumes of the times of accesses is what the stages do.
VictimFound == at = "call" /\ Accesses =>
                  Candidates(dCache[EntryOf(M.inst.ADDR).index], cycle + 1) # {}
THEOREM ReplacementFound == ASSUME DC_SET_SIZE > 1 PROVE Spec => []VictimFound
<1>1. IInv /\ CacheInv /\ YoungInv => VictimFound
  <2>. SUFFICES ASSUME IInv, CacheInv, YoungInv, Accesses
                PROVE  Candidates(dCache[EntryOf(M.inst.ADDR).index], cycle + 1) # {}
    BY DEF VictimFound
  <2>. DEFINE i == EntryOf(M.inst.ADDR).index
  <2>1. cycle \in Nat /\ ready \in Nat /\ ready <= cycle + 1 /\ M.inst.ADDR \in Int
    BY DEF IInv, TypeInv, TypeOK, ReadyInv, Accesses, Stage, Instruction
  <2>2. i \in Sets
    BY <2>1, EntryOfTyped DEF WriteBuffer
  <2>3. 0 \in Ways /\ 1 \in Ways
    BY GeometryFacts DEF Ways
  <2>. HIDE DEF i
  <2>4. dCache[i][0].trdy < ready \/ dCache[i][1].trdy < ready
    BY <2>2, <2>3 DEF YoungInv
  <2>5. dCache[i][0].trdy \in Nat /\ dCache[i][1].trdy \in Nat
    BY <2>2, <2>3 DEF CacheInv, GoodCache, Line
  <2>6. dCache[i][0].trdy < cycle + 1 \/ dCache[i][1].trdy < cycle + 1
    BY <2>1, <2>4, <2>5
  <2>. QED BY <2>3, <2>6 DEF Candidates, i
<1>. QED BY <1>1, InitYoung, NextYoung, InitCacheInv, NextCacheInv, InitIInv, NextIInv, PTL DEF Spec
-------------------------------------------------------------------------------
(* The refinement. *)

Waits(s)   == IsMemory(s.inst) /\ s.inst.id \notin accessed
InFlight   == {s.inst.id : s \in {t \in {F, D, E, M, W} : IsMemory(t.inst)}} \ accessed

\* What waits is in the stages before W.
LEMMA InFlightIs ==
    ASSUME IInv
    PROVE  \A n : n \in InFlight <=> \E s \in {F, D, E, M} : n = s.inst.id /\ Waits(s)
BY DEF InFlight, Waits, IInv, AccessInv, AccessedByWrite

LEMMA InitTrace == Init => Trace!Init
<1>. SUFFICES ASSUME Init PROVE Trace!Init
  OBVIOUS
<1>1. F.inst = NOP(0) /\ D = F /\ E = F /\ M = F /\ W = F
      /\ NOP(0).OPCODE = "NOP" /\ NOP(0).id = 0
  BY DEF Init, NOP, NopKind, Numbered
<1>. QED BY <1>1 DEF Trace!Init, IsMemory

\* An edge drops nothing but what is in M, and brings in the call's instruction.
LEMMA StageFlow ==
    ASSUME IInv, NEW delay \in Nat, Clock(delay)
    PROVE  /\ \A t \in {F', D', E', M'} :
                 t.inst \in {F.inst, D.inst, E.inst, M.inst} \/ (t.inst = inst /\ at' = "idle")
           /\ \A s \in {F, D, E} : \E t \in {F', D', E', M'} : t.inst = s.inst
           /\ IF at' = "idle" THEN F'.inst = inst ELSE F'.inst = F.inst
           /\ inst.id = F.inst.id + 1
           /\ W'.inst = M.inst
<1>1. /\ M'.inst = IF M'.valid THEN E.inst ELSE M.inst
      /\ E'.inst = IF E'.valid THEN D.inst ELSE E.inst
      /\ D'.inst = IF D'.valid THEN F.inst ELSE D.inst
      /\ E'.valid => M'.valid
      /\ D'.valid <=> E'.valid
      /\ \/ at' = "idle" /\ F'.inst = inst /\ D'.valid
         \/ at' = "call" /\ F'.inst = F.inst
      /\ W'.inst = M.inst
  BY EdgeEffect
<1>2. inst.id = F.inst.id + 1
  <2>1. F.inst.id = fed - 1 /\ inst.id = fed /\ fed \in Nat
    BY DEF IInv, TypeInv, TypeOK, InOrder, CallInv, Clock
  <2>. QED BY <2>1
<1>3. \A t \in {F', D', E', M'} :
         t.inst \in {F.inst, D.inst, E.inst, M.inst} \/ (t.inst = inst /\ at' = "idle")
  BY <1>1
<1>4. M'.inst = E.inst \/ E'.inst = E.inst
  BY <1>1
<1>5. E'.inst = D.inst \/ D'.inst = D.inst
  BY <1>1
<1>6. D'.inst = F.inst \/ F'.inst = F.inst
  BY <1>1
<1>7. \A s \in {F, D, E} : \E t \in {F', D', E', M'} : t.inst = s.inst
  BY <1>4, <1>5, <1>6
<1>8. IF at' = "idle" THEN F'.inst = inst ELSE F'.inst = F.inst
  BY <1>1
<1>. QED BY <1>1, <1>2, <1>3, <1>7, <1>8

\* An edge is a step of the trace.
LEMMA EdgeTrace ==
    ASSUME IInv, IInv', CacheInv, CacheInv', NEW delay \in Nat, Clock(delay),
           \/ Accesses /\ accessed' = accessed \cup {M.inst.id}
           \/ ~Accesses /\ accessed' = accessed
    PROVE  Trace!Next
<1>. DEFINE entering == IF at' = "idle" /\ IsMemory(inst) THEN {F.inst.id + 1} ELSE {}
            leaving  == IF M.inst.id \in InFlight THEN {M.inst.id} ELSE {}
<1>1. /\ M.inst.id \in Nat /\ E.inst.id \in Nat /\ D.inst.id \in Nat /\ F.inst.id \in Nat
      /\ W.inst.id \in Nat
      /\ W.inst.id <= M.inst.id /\ M.inst.id <= W.inst.id + 1
      /\ M.inst.id <= E.inst.id /\ E.inst.id <= D.inst.id /\ D.inst.id <= F.inst.id
  BY DEF IInv, TypeInv, TypeOK, Stage, Instruction, InOrder, Follows
<1>2. F'.inst.id \in {F.inst.id, F.inst.id + 1}
  BY StageFlow
<1>3. entering \subseteq {F'.inst.id} \ {F.inst.id}
  BY <1>1, StageFlow
<1>4. IsMemory(M.inst) => M.inst.id \in accessed'
  BY DEF IInv, AccessInv, Accesses
<1>5. \A n \in leaving : Trace!First(n)
  <2>. SUFFICES ASSUME M.inst.id \in InFlight, NEW k \in InFlight PROVE M.inst.id <= k
    BY DEF Trace!First, InFlight
  <2>1. PICK s \in {F, D, E, M} : k = s.inst.id
    BY InFlightIs
  <2>. QED BY <1>1, <2>1
<1>6. \A s \in {F, D, E, M} : s.inst.id = M.inst.id => s.inst = M.inst
  <2>1. E.inst.id = M.inst.id => E.inst = M.inst
    BY DEF CacheInv, CopyInv, Copies
  <2>2. D.inst.id = E.inst.id => D.inst = E.inst
    BY DEF CacheInv, CopyInv, Copies
  <2>3. F.inst.id = D.inst.id => F.inst = D.inst
    BY DEF CacheInv, CopyInv, Copies
  <2>. QED BY <1>1, <2>1, <2>2, <2>3
<1>7. \A n : n \in InFlight' <=> \E t \in {F', D', E', M'} : n = t.inst.id /\ Waits(t)'
  <2>1. \A n : n \in InFlight' <=> \E t \in {F', D', E', M', W'} :
                  n = t.inst.id /\ IsMemory(t.inst) /\ t.inst.id \notin accessed'
    BY DEF InFlight, IsMemory
  <2>2. ~(IsMemory(W'.inst) /\ W'.inst.id \notin accessed')
    BY DEF IInv, AccessInv, AccessedByWrite, IsMemory
  <2>. QED BY <2>1, <2>2 DEF Waits, IsMemory
<1>8. InFlight' = (InFlight \ leaving) \cup entering
  <2>1. ASSUME NEW n \in InFlight' PROVE n \in (InFlight \ leaving) \cup entering
    <3>1. PICK t \in {F', D', E', M'} : n = t.inst.id /\ Waits(t)'
      BY <1>7, <2>1
    <3>2. IsMemory(t.inst) /\ n \notin accessed'
      BY <3>1 DEF Waits, IsMemory
    <3>3. CASE t.inst = inst /\ at' = "idle"
      BY <3>1, <3>2, <3>3, StageFlow
    <3>4. ASSUME NEW s \in {F, D, E, M}, t.inst = s.inst PROVE n \in InFlight \ leaving
      <4>1. n = s.inst.id /\ IsMemory(s.inst) /\ n \notin accessed
        BY <3>1, <3>2, <3>4
      <4>2. n \in InFlight
        BY <4>1, InFlightIs DEF Waits
      <4>3. n # M.inst.id
        BY <1>4, <1>6, <3>2, <4>1
      <4>. QED BY <4>2, <4>3
    <3>5. t.inst \in {F.inst, D.inst, E.inst, M.inst} \/ (t.inst = inst /\ at' = "idle")
      BY StageFlow
    <3>. QED BY <3>3, <3>4, <3>5
  <2>2. ASSUME NEW n \in InFlight \ leaving PROVE n \in InFlight'
    <3>1. PICK s \in {F, D, E, M} : n = s.inst.id /\ IsMemory(s.inst) /\ n \notin accessed
      BY <2>2, InFlightIs DEF Waits
    <3>2. n # M.inst.id
      BY <2>2
    <3>3. n \notin accessed'
      BY <3>1, <3>2
    <3>4. s \in {F, D, E}
      BY <3>1, <3>2
    <3>5. PICK t \in {F', D', E', M'} : t.inst = s.inst
      BY <3>4, StageFlow
    <3>. QED BY <1>7, <3>1, <3>3, <3>5 DEF Waits, IsMemory
  <2>3. ASSUME NEW n \in entering PROVE n \in InFlight'
    <3>1. n = F.inst.id + 1 /\ at' = "idle" /\ IsMemory(inst)
      BY <2>3
    <3>2. F'.inst = inst /\ n = inst.id
      BY <3>1, StageFlow
    <3>3. n \notin accessed'
      <4>1. \A k \in accessed : k <= M.inst.id
        BY DEF CacheInv, OlderInv
      <4>2. n \notin accessed /\ n # M.inst.id
        BY <1>1, <3>1, <4>1
      <4>. QED BY <4>2
    <3>. QED BY <1>7, <3>1, <3>2, <3>3 DEF Waits, IsMemory
  <2>. QED BY <2>1, <2>2, <2>3
<1>9. W'.inst.id \in {W.inst.id, W.inst.id + 1} /\ W'.inst.id <= F.inst.id
  BY <1>1, StageFlow
<1>10. W'.inst.id \notin InFlight'
  <2>1. M.inst.id \notin entering
    BY <1>1
  <2>2. M.inst.id \notin InFlight \ leaving
    OBVIOUS
  <2>. QED BY <1>8, <2>1, <2>2, StageFlow
<1>. HIDE DEF entering, leaving
<1>11. \A e, l : e = entering /\ l = leaving => Trace!Edge(e, l)
  BY <1>2, <1>3, <1>5, <1>8, <1>9, <1>10 DEF Trace!Edge, InFlight
<1>12. entering \in {{}, {F.inst.id + 1}}
  BY DEF entering
<1>13. leaving \in {{}} \cup {{n} : n \in InFlight}
  BY DEF leaving
<1>14. \E e \in {{}, {F.inst.id + 1}}, l \in {{}} \cup {{n} : n \in InFlight} : Trace!Edge(e, l)
  BY <1>11, <1>12, <1>13, Zenon
<1>. QED BY <1>14, Zenon DEF Trace!Next, InFlight

\* A step of the pipeline is a step of the trace or leaves it alone.
LEMMA NextTrace ==
    IInv /\ IInv' /\ CacheInv /\ CacheInv' /\ [Next]_vars => [Trace!Next]_(Trace!vars)
<1>. SUFFICES ASSUME IInv, IInv', CacheInv, CacheInv', [Next]_vars
              PROVE  Trace!Next \/ UNCHANGED Trace!vars
  OBVIOUS
<1>1. ASSUME NEW way \in Ways, Access(way) PROVE Trace!Next
  <2>. DEFINE delay == AccessDCache(dCache, buffer, M.inst.OPCODE, EntryOf(M.inst.ADDR),
                                   cycle + 1, way).latency
  <2>1. delay \in Nat /\ Clock(delay) /\ Accesses /\ accessed' = accessed \cup {M.inst.id}
    BY <1>1, LatencyPositive DEF Access
  <2>. HIDE DEF delay
  <2>. QED BY <2>1, EdgeTrace
<1>2. CASE NoAccess
  <2>1. dcDelay \in Nat /\ Clock(dcDelay) /\ ~Accesses /\ accessed' = accessed
    BY <1>2 DEF NoAccess, cacheVars, IInv, TypeInv, TypeOK
  <2>. QED BY <2>1, EdgeTrace
<1>3. CASE ~Edge
  <2>1. UNCHANGED <<F, D, E, M, W, accessed>>
    BY <1>3 DEF Next, Feed, FeedNop, Call, EndProgram, Stop, Finished, vars, stages, cacheVars
  <2>. QED BY <2>1 DEF Trace!vars, IsMemory
<1>. QED BY <1>1, <1>2, <1>3 DEF Edge

\* The five stages implement the in-order trace, for every program, geometry
\* and latency: each load and store reaches the cache, in order, before it is
\* written back.
THEOREM TraceImplemented == Spec => ImplementsTrace
BY InitTrace, NextTrace, CacheInvariance, PTL DEF Spec, ImplementsTrace, Trace!Spec
-------------------------------------------------------------------------------
(* How long a program takes. *)

\* Stages next to each other hold the same instruction when a transfer was held,
\* a load interlocked or an access was waited for; before the program, all do.
Same(a, b) == a.inst.id = b.inst.id
Held0(i)   == IsBranch(i) \/ i = NOP(0)
CopiedInv  == /\ Same(D, F) => Held0(F.inst)
              /\ Same(E, D) => Held0(D.inst)
              /\ Same(M, E) => Held0(E.inst) \/ E.inst.OPCODE = "LOAD"
              /\ Same(W, M) => Held0(M.inst) \/ IsMemory(M.inst)

\* The memory is busy with the instruction in M.
BusyMemInv == busy => IsMemory(M.inst)

\* What follows the program are NOPs, and the first that is written back ends
\* the drain.
LateInv(i) == i.id > length => i.OPCODE = "NOP"
LatesInv   == /\ LateInv(inst) /\ LateInv(F.inst) /\ LateInv(D.inst) /\ LateInv(E.inst)
              /\ LateInv(M.inst) /\ LateInv(W.inst)
WrittenInv == /\ W.inst.id <= length + 1
              /\ at = "call" => W.inst.id <= length

\* E and D are bubbles together, F with them or, held back, alone.
ValidInv == /\ D.valid <=> E.valid
            /\ F.valid => D.valid
            /\ at # "call" => F.valid

PaceInv == CopiedInv /\ BusyMemInv /\ LatesInv /\ WrittenInv /\ ValidInv

LEMMA StartPace == AtStart => PaceInv
<1>. SUFFICES ASSUME AtStart PROVE PaceInv
  OBVIOUS
<1>1. /\ F.inst = NOP(0) /\ F.valid = TRUE /\ D = F /\ E = F /\ M = F /\ W = F
      /\ inst = NOP(0) /\ length = 0 /\ at = "idle"
  BY DEF AtStart
<1>2. ~busy
  BY Zenon DEF AtStart
<1>3. NOP(0).id = 0 /\ NOP(0).OPCODE = "NOP"
  BY DEF NOP, NopKind, Numbered
<1>. QED BY <1>1, <1>2, <1>3 DEF PaceInv, CopiedInv, Held0, BusyMemInv, LatesInv, LateInv,
            WrittenInv, ValidInv

LEMMA InitPace == Init => PaceInv
BY InitStart, StartPace

\* What an edge does is one of four things: wait for the memory, hold back what
\* needs a load, hold back what follows a transfer, or move on.
Waiting   == /\ busy' /\ at' = "call"
             /\ ~E'.valid /\ ~D'.valid /\ ~F'.valid
             /\ E'.inst = E.inst /\ D'.inst = D.inst /\ F'.inst = F.inst
HoldsUse  == /\ ~busy' /\ at' = "call" /\ Interlock
             /\ ~E'.valid /\ ~D'.valid /\ ~F'.valid
             /\ E'.inst = E.inst /\ D'.inst = D.inst /\ F'.inst = F.inst
HoldsNext == /\ ~busy' /\ at' = "call" /\ ~Interlock /\ IsBranch(F.inst) /\ F.valid
             /\ E'.valid /\ D'.valid /\ ~F'.valid
             /\ E'.inst = D.inst /\ D'.inst = F.inst /\ F'.inst = F.inst
MovesAll  == /\ ~busy' /\ at' = "idle" /\ ~Interlock /\ ~(IsBranch(F.inst) /\ F.valid)
             /\ E'.valid /\ D'.valid /\ F'.valid
             /\ E'.inst = D.inst /\ D'.inst = F.inst /\ F'.inst = inst

LEMMA EdgeKinds ==
    ASSUME IInv, NEW delay \in Nat, Clock(delay)
    PROVE  Waiting \/ HoldsUse \/ HoldsNext \/ MovesAll
<1>1. /\ F \in Stage /\ D \in Stage /\ E \in Stage /\ M \in Stage /\ W \in Stage
      /\ {F', D', E', M', W'} \subseteq Stage
  BY EdgeEffect DEF IInv, TypeInv, TypeOK
<1>2. /\ W'.valid
      /\ M'.valid <=> ~busy'
      /\ E' = EAfter(W', M') /\ D' = DAfter(W', M', E') /\ F' = FAfter(W', M', E', D')
      /\ at' = IF Takes(W', M', E', D') THEN "idle" ELSE "call"
  BY EdgeEffect DEF Clock
<1>3. /\ D'.valid <=> E'.valid
      /\ E'.valid => M'.valid
      /\ IF E'.valid THEN E'.inst = D.inst ELSE E'.inst = E.inst
      /\ IF D'.valid THEN D'.inst = F.inst ELSE D'.inst = D.inst
  BY EdgeEffect
<1>4. E'.valid <=> M'.valid /\ ~Interlock
  <2>1. CASE M'.valid /\ ~Interlock
    BY <1>1, <1>2, <2>1 DEF EAfter, MovesOn, Stage
  <2>2. CASE ~(M'.valid /\ ~Interlock)
    BY <1>1, <1>2, <2>2 DEF EAfter, Stays, Stage
  <2>. QED BY <2>1, <2>2
<1>5. Takes(W', M', E', D') <=> D'.valid /\ ~(IsBranch(F.inst) /\ F.valid)
  BY <1>2, <1>3 DEF Takes
<1>6. CASE Takes(W', M', E', D')
  <2>1. F' = [valid |-> TRUE, stall |-> FALSE, inst |-> inst] /\ at' = "idle"
    BY <1>2, <1>6 DEF FAfter
  <2>. QED BY <1>2, <1>3, <1>4, <1>5, <1>6, <2>1 DEF MovesAll
<1>7. CASE ~Takes(W', M', E', D')
  <2>1. F'.inst = F.inst /\ ~F'.valid /\ at' = "call"
    BY <1>1, <1>2, <1>7 DEF FAfter, Stays, Stage
  <2>. QED BY <1>2, <1>3, <1>4, <1>5, <1>7, <2>1 DEF Waiting, HoldsUse, HoldsNext
<1>. QED BY <1>6, <1>7

LEMMA EdgePace ==
    ASSUME IInv, CopyInv, PaceInv, NEW delay \in Nat, Clock(delay),
           ~Accesses => delay = dcDelay
    PROVE  PaceInv'
<1>1. /\ F.inst.id \in Nat /\ D.inst.id \in Nat /\ E.inst.id \in Nat /\ M.inst.id \in Nat
      /\ W.inst.id \in Nat /\ length \in Nat /\ dcDelay \in Nat /\ busy \in BOOLEAN
      /\ at = "call" /\ inst.id = F.inst.id + 1
  BY DEF IInv, TypeInv, TypeOK, Stage, Instruction, InOrder, CallInv, Clock
<1>2. /\ inst' = inst /\ length' = length /\ (busy' <=> BusyAfter(delay))
  BY DEF Clock
<1>3. Waiting \/ HoldsUse \/ HoldsNext \/ MovesAll
  BY EdgeKinds
<1>4. /\ W'.inst = M.inst
      /\ M'.inst = IF busy' THEN M.inst ELSE E.inst
  BY EdgeEffect
<1>5. busy' => IsMemory(M.inst)
  <2>1. busy' => busy \/ Accesses
    BY <1>1, <1>2 DEF BusyAfter, IInv, BusyInv
  <2>. QED BY <2>1 DEF Accesses, PaceInv, BusyMemInv
<1>6. BusyMemInv'
  BY <1>4, <1>5 DEF BusyMemInv, IsMemory
<1>7. CopiedInv'
  <2>1. /\ Same(D, F) => Held0(F.inst)
        /\ Same(E, D) => Held0(D.inst)
        /\ Same(M, E) => Held0(E.inst) \/ E.inst.OPCODE = "LOAD"
        /\ Same(W, M) => Held0(M.inst) \/ IsMemory(M.inst)
    BY DEF PaceInv, CopiedInv
  <2>2. /\ Same(M, E) => M.inst = E.inst
        /\ Same(E, D) => E.inst = D.inst
        /\ Same(D, F) => D.inst = F.inst
    BY DEF CopyInv, Copies, Same
  <2>3. (Same(D, F) => Held0(F.inst))'
    BY <1>1, <1>3, <2>1, <2>2 DEF Same, Held0, IsBranch, Waiting, HoldsUse, HoldsNext, MovesAll,
             NOP, NopKind, Numbered
  <2>4. (Same(E, D) => Held0(D.inst))'
    BY <1>1, <1>3, <2>1, <2>2 DEF Same, Held0, IsBranch, Waiting, HoldsUse, HoldsNext, MovesAll,
             NOP, NopKind, Numbered
  <2>5. (Same(M, E) => Held0(E.inst) \/ E.inst.OPCODE = "LOAD")'
    BY <1>1, <1>3, <1>4, <2>1, <2>2 DEF Same, Held0, IsBranch, Waiting, HoldsUse, HoldsNext, MovesAll,
             Interlock, NOP, NopKind, Numbered
  <2>6. (Same(W, M) => Held0(M.inst) \/ IsMemory(M.inst))'
    BY <1>1, <1>4, <1>5, <2>1, <2>2 DEF Same, Held0, IsBranch, IsMemory, NOP, NopKind, Numbered
  <2>. QED BY <2>3, <2>4, <2>5, <2>6 DEF CopiedInv
<1>8. LatesInv'
  BY <1>2, <1>3, <1>4 DEF PaceInv, LatesInv, LateInv, Waiting, HoldsUse, HoldsNext, MovesAll
<1>9. WrittenInv'
  <2>1. M.inst.id <= W.inst.id + 1 /\ W.inst.id <= length
    BY <1>1 DEF PaceInv, WrittenInv, IInv, InOrder, Follows
  <2>2. M.inst.id <= E.inst.id /\ E.inst.id <= D.inst.id /\ D.inst.id <= F.inst.id
    BY <1>1 DEF IInv, InOrder, Follows
  <2>3. ASSUME M.inst.id > length PROVE at' = "idle"
    <3>1. M.inst.OPCODE = "NOP" /\ E.inst.OPCODE = "NOP" /\ F.inst.OPCODE = "NOP"
      BY <1>1, <2>2, <2>3 DEF PaceInv, LatesInv, LateInv
    <3>2. ~busy' /\ ~Interlock /\ ~IsBranch(F.inst)
      BY <1>5, <3>1 DEF IsMemory, Interlock, IsBranch
    <3>. QED BY <1>3, <3>2 DEF Waiting, HoldsUse, HoldsNext, MovesAll
  <2>. QED BY <1>1, <1>2, <1>4, <2>1, <2>3 DEF WrittenInv
<1>10. ValidInv'
  BY <1>3 DEF ValidInv, Waiting, HoldsUse, HoldsNext, MovesAll
<1>. QED BY <1>6, <1>7, <1>8, <1>9, <1>10 DEF PaceInv

\* What the child does outside timing_simulation.
Calls == (\E k \in Kinds : Feed(k)) \/ EndProgram \/ FeedNop \/ Stop

LEMMA CallsPace ==
    ASSUME IInv, PaceInv, Calls \/ UNCHANGED vars
    PROVE  PaceInv'
<1>1. /\ UNCHANGED <<F, D, E, M, W, busy>>
      /\ length \in Nat /\ fed \in Nat
      /\ \A i \in {F.inst, D.inst, E.inst, M.inst, W.inst} : i.id \in Nat
  BY DEF Calls, Feed, FeedNop, Call, EndProgram, Stop, vars, stages, cacheVars,
     IInv, TypeInv, TypeOK, Stage, Instruction
<1>2. CopiedInv' /\ BusyMemInv'
  BY <1>1 DEF PaceInv, CopiedInv, Same, Held0, IsBranch, NOP, BusyMemInv, IsMemory
<1>3. ASSUME NEW k \in Kinds, Feed(k) PROVE LatesInv' /\ WrittenInv' /\ ValidInv'
  <2>1. /\ length' = length + 1 /\ inst' = Numbered(k, fed + 1) /\ at = "idle" /\ at' = "call"
        /\ fed = length
    BY <1>3 DEF Feed, Call, IInv, ProgramInv
  <2>2. inst'.id = length'
    BY <1>1, <2>1 DEF Numbered
  <2>3. LatesInv'
    BY <1>1, <2>1, <2>2 DEF PaceInv, LatesInv, LateInv
  <2>. QED BY <1>1, <2>1, <2>3 DEF PaceInv, WrittenInv, ValidInv
<1>4. CASE FeedNop
  <2>1. /\ length' = length /\ inst' = NOP(fed + 1) /\ at = "idle" /\ at' = "call"
        /\ W.inst.OPCODE # "NOP"
    BY <1>4 DEF FeedNop, Call, Idle
  <2>2. inst'.OPCODE = "NOP"
    BY <2>1 DEF NOP, NopKind, Numbered
  <2>3. W.inst.id <= length
    BY <1>1, <2>1 DEF PaceInv, LatesInv, LateInv
  <2>. QED BY <1>1, <1>2, <2>1, <2>2, <2>3 DEF PaceInv, LatesInv, LateInv, WrittenInv, ValidInv
<1>5. CASE EndProgram \/ Stop \/ UNCHANGED vars
  <2>1. /\ length' = length /\ inst' = inst
        /\ at' = at \/ (at = "idle" /\ at' = "done")
    BY <1>5 DEF EndProgram, Stop, vars
  <2>. QED BY <1>1, <1>2, <2>1 DEF PaceInv, LatesInv, LateInv, WrittenInv, ValidInv
<1>. QED BY <1>2, <1>3, <1>4, <1>5 DEF Calls, PaceInv

LEMMA NextPace == IInv /\ CacheInv /\ PaceInv /\ [Next]_vars => PaceInv'
<1>. SUFFICES ASSUME IInv, CacheInv, PaceInv, [Next]_vars PROVE PaceInv'
  OBVIOUS
<1>1. ASSUME NEW way \in Ways, Access(way) PROVE PaceInv'
  <2>. DEFINE delay == AccessDCache(dCache, buffer, M.inst.OPCODE, EntryOf(M.inst.ADDR),
                                   cycle + 1, way).latency
  <2>1. delay \in Nat /\ Clock(delay) /\ Accesses
    BY <1>1, LatencyPositive DEF Access
  <2>. HIDE DEF delay
  <2>. QED BY <2>1, EdgePace DEF CacheInv
<1>2. CASE NoAccess
  <2>1. dcDelay \in Nat /\ Clock(dcDelay)
    BY <1>2 DEF NoAccess, IInv, TypeInv, TypeOK
  <2>. QED BY <2>1, EdgePace DEF CacheInv
<1>3. CASE ~Edge
  BY <1>3, CallsPace DEF Next, Finished, Calls
<1>. QED BY <1>1, <1>2, <1>3 DEF Edge

LEMMA PaceInvariance == Spec => [](IInv /\ CacheInv /\ PaceInv)
BY InitPace, NextPace, InitIInv, NextIInv, InitCacheInv, NextCacheInv, PTL DEF Spec

\* Five calls drain the pipeline: at the end no two stages hold the same NOP.
LEMMA FedAtEnd ==
    ASSUME IInv, PaceInv, at = "done", W.inst.id # 0
    PROVE  fed = length + 5
<1>1. /\ F.inst.id \in Nat /\ D.inst.id \in Nat /\ E.inst.id \in Nat /\ M.inst.id \in Nat
      /\ W.inst.id \in Nat /\ length \in Nat /\ fed \in Nat
  BY DEF IInv, TypeInv, TypeOK, Stage, Instruction
<1>2. W.inst.id = length + 1
  BY <1>1 DEF PaceInv, WrittenInv, IInv, ProgramInv, NopInv
<1>3. /\ W.inst.id <= M.inst.id /\ M.inst.id <= E.inst.id
      /\ E.inst.id <= D.inst.id /\ D.inst.id <= F.inst.id
  BY <1>1 DEF IInv, InOrder, Follows
<1>4. ASSUME NEW i \in {F.inst, D.inst, E.inst, M.inst}
      PROVE  i.OPCODE = "NOP" /\ ~Held0(i) /\ ~IsMemory(i)
  <2>1. i.OPCODE = "NOP" /\ i.id # 0
    BY <1>1, <1>2, <1>3 DEF PaceInv, LatesInv, LateInv
  <2>. QED BY <2>1 DEF Held0, IsBranch, IsMemory, NOP, NopKind, Numbered
<1>5. ~Same(D, F) /\ ~Same(E, D) /\ ~Same(M, E) /\ ~Same(W, M)
  BY <1>4 DEF PaceInv, CopiedInv
<1>. QED BY <1>1, <1>2, <1>5 DEF IInv, InOrder, Follows, Same

\* A program of five instructions or more is drained with five NOPs, however its
\* stalls are spread: the count does not depend on where the last ones fell.
FiveToDrain == at = "done" /\ length >= 5 => fed = length + 5
THEOREM DrainOfFive == Spec => []FiveToDrain
<1>1. IInv /\ PaceInv => FiveToDrain
  <2>. SUFFICES ASSUME IInv, PaceInv, at = "done", length >= 5 PROVE fed = length + 5
    BY DEF FiveToDrain
  <2>1. W.inst.id > length /\ length \in Nat
    BY WrittenAtEnd DEF IInv, TypeInv, TypeOK
  <2>. QED BY <2>1, FedAtEnd
<1>. QED BY <1>1, PaceInvariance, PTL

\* The cycles of the calls that returned and the stalls that are not waits for the
\* memory: the rest of an access is counted when it starts.
Pace == cycle - F.inst.id + (IF busy THEN dcDelay - 1 ELSE 0)

One(P) == IF P THEN 1 ELSE 0

\* The stalls that the instructions in the pipeline may still ask for.
Uses(a, b) == a.OPCODE = "LOAD" /\ (b.RS = a.RD \/ b.RT = a.RD)
Debt == One(Interlock) + One(Uses(D.inst, F.inst)) + One(IsBranch(F.inst) /\ F.valid)

\* What an instruction behind another adds to it.
Charge(before, i) == One(IsBranch(i)) + One(Uses(before, i))

LEMMA EdgePaid ==
    ASSUME IInv, NEW delay \in Nat \ {0}, Clock(IF Accesses THEN delay ELSE dcDelay)
    PROVE  /\ Pace \in Int
           /\ Pace' = Pace + One(~busy' /\ at' = "call") + (IF Accesses THEN delay - 1 ELSE 0)
<1>. DEFINE d == IF Accesses THEN delay ELSE dcDelay
<1>1. /\ cycle \in Nat /\ dcDelay \in Nat /\ busy \in BOOLEAN /\ F.inst.id \in Nat
      /\ inst.id = F.inst.id + 1 /\ (busy <=> dcDelay > 0) /\ (Accesses => ~busy)
      /\ (Accesses => dcDelay = 0)
  BY DEF IInv, TypeInv, TypeOK, Stage, Instruction, InOrder, CallInv, BusyInv, Clock, Accesses
<1>2. d \in Nat /\ cycle' = cycle + 1 /\ dcDelay' = DelayAfter(d) /\ (busy' <=> BusyAfter(d))
  BY <1>1 DEF Clock
<1>3. Waiting \/ HoldsUse \/ HoldsNext \/ MovesAll
  BY <1>1, EdgeKinds
<1>4. F'.inst.id = F.inst.id + One(at' = "idle")
  BY <1>1, <1>3 DEF One, Waiting, HoldsUse, HoldsNext, MovesAll
<1>5. One(~busy' /\ at' = "call") = 1 - One(at' = "idle") - One(busy')
  BY <1>3 DEF One, Waiting, HoldsUse, HoldsNext, MovesAll
<1>6. CASE Accesses
  <2>1. d = delay /\ ~busy /\ dcDelay' = delay - 1 /\ (busy' <=> delay - 1 > 0)
    BY <1>1, <1>2, <1>6 DEF DelayAfter, BusyAfter
  <2>. QED BY <1>1, <1>2, <1>4, <1>5, <1>6, <2>1 DEF Pace, One
<1>7. CASE ~Accesses
  <2>1. d = dcDelay /\ (busy' <=> busy /\ dcDelay - 1 > 0) /\ (busy => dcDelay' = dcDelay - 1)
    BY <1>1, <1>2, <1>7 DEF DelayAfter, BusyAfter
  <2>. QED BY <1>1, <1>2, <1>4, <1>5, <1>7, <2>1 DEF Pace, One
<1>. QED BY <1>6, <1>7

\* No stall is made that an instruction does not ask for, and none twice.
LEMMA EdgeDebt ==
    ASSUME IInv, NEW delay \in Nat, Clock(delay)
    PROVE  One(~busy' /\ at' = "call") + Debt'
             <= Debt + (IF at' = "idle" THEN Charge(F.inst, inst) ELSE 0)
<1>1. Waiting \/ HoldsUse \/ HoldsNext \/ MovesAll
  BY EdgeKinds
<1>2. Uses(D.inst, F.inst) => ~IsBranch(D.inst)
  BY DEF Uses, IsBranch
<1>3. CASE Waiting
  BY <1>3 DEF Waiting, Debt, One, Interlock, Uses, IsBranch
<1>4. CASE HoldsUse
  BY <1>4 DEF HoldsUse, Debt, One, Interlock, Uses, IsBranch
<1>5. CASE HoldsNext
  <2>1. ~Uses(F.inst, F.inst)
    BY <1>5 DEF HoldsNext, Uses, IsBranch
  <2>. QED BY <1>5, <2>1 DEF HoldsNext, Debt, One, Interlock, Uses, IsBranch
<1>6. CASE MovesAll
  BY <1>6 DEF MovesAll, Debt, One, Interlock, Uses, IsBranch, Charge
<1>. QED BY <1>1, <1>3, <1>4, <1>5, <1>6
-------------------------------------------------------------------------------
(* What a call still holds up. *)

\* The stalls that the call makes from here if no access waits: an interlock,
\* or the hold of what follows a transfer and the interlock of that transfer.
Rest == IF F.valid
          THEN One(Interlock \/ IsBranch(F.inst))
                 + One(~Interlock /\ IsBranch(F.inst) /\ Uses(D.inst, F.inst))
          ELSE One(Interlock)

\* F's instruction will be in D and E when the call returns.
Copied == IF F.valid THEN IsBranch(F.inst) /\ ~Interlock ELSE Same(D, F)

\* The next call will begin with an interlock.
Later == Uses(D.inst, F.inst) /\ ~Copied

\* F takes an instruction when it becomes valid.
FreshInv == /\ F.valid /\ Same(D, F) => F.inst = NOP(0)
            /\ at # "call" => F.inst = inst

\* One NOP differs from another in its number alone.
PlainInv(i) == i.id = 0 \/ i.OPCODE = "NOP" => i = NOP(i.id)
PlainsInv   == /\ PlainInv(inst) /\ PlainInv(F.inst) /\ PlainInv(D.inst) /\ PlainInv(E.inst)
               /\ PlainInv(M.inst) /\ PlainInv(W.inst)

\* Nothing delays the first instruction: each edge brings it a stage further.
Entered(s, n) == s.inst.id > 0 <=> cycle >= n
EnteredInv    == /\ Entered(F, 1) /\ Entered(D, 2) /\ Entered(E, 3)
                 /\ Entered(M, 4) /\ Entered(W, 5)

\* While the memory is busy all before it are bubbles.
LockInv == busy => ~E.valid /\ ~F.valid

\* A program ends with a transfer and is followed by NOPs.
EndInv == ended => /\ F.inst.OPCODE # "LOAD"
                   /\ at = "call" => inst.OPCODE = "NOP" /\ cycle >= 5

HoldInv == FreshInv /\ PlainsInv /\ EnteredInv /\ LockInv /\ EndInv

LEMMA StartHold == AtStart => HoldInv
<1>. SUFFICES ASSUME AtStart PROVE HoldInv
  OBVIOUS
<1>1. /\ F.inst = NOP(0) /\ D = F /\ E = F /\ M = F /\ W = F /\ inst = NOP(0)
      /\ at = "idle" /\ cycle = 0
  BY DEF AtStart
<1>2. ~busy /\ ~ended
  BY Zenon DEF AtStart
<1>3. NOP(0).id = 0
  BY DEF NOP, NopKind, Numbered
<1>. QED BY <1>1, <1>2, <1>3 DEF HoldInv, FreshInv, PlainsInv, PlainInv, EnteredInv, Entered,
              LockInv, EndInv

LEMMA CallsHold ==
    ASSUME IInv, HoldInv, Calls \/ UNCHANGED vars
    PROVE  HoldInv'
<1>1. /\ UNCHANGED <<F, D, E, M, W, busy, cycle>>
      /\ fed \in Nat /\ length \in Nat /\ cycle \in Nat
      /\ inst.id = fed
  BY DEF Calls, Feed, FeedNop, Call, EndProgram, Stop, vars, stages, cacheVars,
     IInv, TypeInv, TypeOK, CallInv
<1>2. EnteredInv' /\ LockInv'
  BY <1>1 DEF HoldInv, EnteredInv, Entered, LockInv
<1>3. ASSUME NEW k \in Kinds, Feed(k) PROVE FreshInv' /\ PlainsInv' /\ EndInv'
  <2>1. /\ inst' = Numbered(k, fed + 1) /\ at' = "call" /\ ~ended /\ ~ended'
    BY <1>3, Zenon DEF Feed, Call
  <2>2. inst'.id # 0 /\ inst'.OPCODE # "NOP"
    BY <1>1, <2>1, KindAssumption DEF Numbered, Codes
  <2>. QED BY <1>1, <2>1, <2>2 DEF HoldInv, FreshInv, Same, PlainsInv, PlainInv, NOP, EndInv
<1>4. CASE FeedNop
  <2>1. /\ inst' = NOP(fed + 1) /\ at' = "call" /\ W.inst.OPCODE # "NOP" /\ ended
    BY <1>4, Zenon DEF FeedNop, Call, Idle
  <2>2. inst'.id = fed + 1 /\ inst'.OPCODE = "NOP" /\ W.inst.id # 0
    BY <2>1 DEF NOP, NopKind, Numbered, HoldInv, PlainsInv, PlainInv
  <2>3. cycle >= 5
    BY <1>1, <2>2 DEF HoldInv, EnteredInv, Entered, IInv, TypeInv, TypeOK, Stage, Instruction
  <2>4. PlainsInv'
    BY <1>1, <2>1, <2>2 DEF HoldInv, PlainsInv, PlainInv, NOP
  <2>5. FreshInv'
    BY <1>1, <2>1 DEF HoldInv, FreshInv, Same, NOP
  <2>. QED BY <1>1, <1>2, <2>1, <2>2, <2>3, <2>4, <2>5 DEF HoldInv, EndInv
<1>5. CASE EndProgram
  <2>1. /\ at = "idle" /\ at' = "idle" /\ IsBranch(inst) /\ inst' = inst
        /\ F.inst = inst
    BY <1>5 DEF EndProgram, HoldInv, FreshInv
  <2>2. PlainsInv'
    BY <1>1, <2>1 DEF HoldInv, PlainsInv, PlainInv, NOP
  <2>3. FreshInv'
    BY <1>1, <2>1 DEF HoldInv, FreshInv, Same, NOP
  <2>. QED BY <1>1, <1>2, <2>1, <2>2, <2>3 DEF HoldInv, EndInv, IsBranch
<1>6. CASE Stop \/ UNCHANGED vars
  <2>1. /\ inst' = inst /\ (ended' <=> ended)
        /\ at' = at \/ (at = "idle" /\ at' = "done")
    BY <1>6 DEF Stop, vars
  <2>2. PlainsInv'
    BY <1>1, <2>1 DEF HoldInv, PlainsInv, PlainInv, NOP
  <2>3. FreshInv'
    BY <1>1, <2>1 DEF HoldInv, FreshInv, Same, NOP
  <2>. QED BY <1>1, <1>2, <2>1, <2>2, <2>3 DEF HoldInv, EndInv
<1>. QED BY <1>2, <1>3, <1>4, <1>5, <1>6 DEF Calls, HoldInv

\* The memory is busy with a load or store.
LEMMA BusyWith ==
    ASSUME IInv, PaceInv, NEW delay \in Nat, Clock(delay), ~Accesses => delay = dcDelay, busy'
    PROVE  IsMemory(M.inst)
<1>1. busy' <=> BusyAfter(delay)
  BY DEF Clock
<1>2. busy \/ Accesses
  BY <1>1 DEF BusyAfter, IInv, BusyInv
<1>. QED BY <1>2 DEF Accesses, PaceInv, BusyMemInv

LEMMA EdgeHold ==
    ASSUME IInv, CopyInv, PaceInv, HoldInv, NEW delay \in Nat, Clock(delay),
           ~Accesses => delay = dcDelay
    PROVE  HoldInv'
<1>1. /\ F.inst.id \in Nat /\ D.inst.id \in Nat /\ E.inst.id \in Nat /\ M.inst.id \in Nat
      /\ W.inst.id \in Nat /\ cycle \in Nat /\ busy \in BOOLEAN
      /\ M.inst.id <= E.inst.id /\ E.inst.id <= D.inst.id /\ D.inst.id <= F.inst.id
      /\ at = "call" /\ inst.id = F.inst.id + 1
      /\ cycle' = cycle + 1 /\ inst' = inst /\ (ended' <=> ended)
  BY DEF IInv, TypeInv, TypeOK, Stage, Instruction, InOrder, Follows, CallInv, Clock
<1>2. Waiting \/ HoldsUse \/ HoldsNext \/ MovesAll
  BY EdgeKinds
<1>3. W'.inst = M.inst /\ M'.inst = IF busy' THEN M.inst ELSE E.inst
  BY EdgeEffect
<1>4. \A i \in {F.inst, D.inst, E.inst, M.inst} :
         i.id = 0 => ~IsBranch(i) /\ i.OPCODE # "LOAD" /\ ~IsMemory(i)
  BY DEF HoldInv, PlainsInv, PlainInv, NOP, NopKind, Numbered, IsBranch, IsMemory
<1>5. FreshInv'
  BY <1>1, <1>2 DEF FreshInv, Same, Waiting, HoldsUse, HoldsNext, MovesAll
<1>6. PlainsInv'
  BY <1>1, <1>2, <1>3 DEF HoldInv, PlainsInv, PlainInv, NOP, Waiting, HoldsUse, HoldsNext, MovesAll
<1>7. EnteredInv'
  <2>1. Waiting => M.inst.id > 0
    BY <1>1, <1>4, BusyWith DEF Waiting
  <2>2. HoldsUse => E.inst.id > 0
    BY <1>1, <1>4 DEF HoldsUse, Interlock
  <2>3. HoldsNext => F.inst.id > 0
    BY <1>1, <1>4 DEF HoldsNext
  <2>. QED BY <1>1, <1>2, <1>3, <2>1, <2>2, <2>3 DEF HoldInv, EnteredInv, Entered, Waiting, HoldsUse,
              HoldsNext, MovesAll
<1>8. LockInv'
  BY <1>2 DEF LockInv, Waiting, HoldsUse, HoldsNext, MovesAll
<1>9. EndInv'
  BY <1>1, <1>2 DEF HoldInv, EndInv, Waiting, HoldsUse, HoldsNext, MovesAll
<1>. QED BY <1>5, <1>6, <1>7, <1>8, <1>9 DEF HoldInv

LEMMA RestBounds ==
    /\ Rest \in 0 .. 2
    /\ LockInv /\ busy => Rest = 0
BY DEF Rest, One, LockInv, Interlock

\* A stall was due; a wait takes the place of all that are; a call that returns
\* has made its stalls.
LEMMA EdgeRest ==
    ASSUME IInv, CopyInv, PaceInv, HoldInv, NEW delay \in Nat, Clock(delay)
    PROVE  /\ busy' => /\ Rest' = 0 /\ at' = "call"
                       /\ Later => Later'
                       /\ One(Later') <= Rest + One(Later)
           /\ ~busy' /\ at' = "call" => Rest' = Rest - 1 /\ (Later' <=> Later)
           /\ at' = "idle" => Rest = 0 /\ (Interlock' <=> Later)
<1>1. Waiting \/ HoldsUse \/ HoldsNext \/ MovesAll
  BY EdgeKinds
<1>2. \A i \in {F.inst, D.inst, E.inst} : i = NOP(0) => ~IsBranch(i) /\ i.OPCODE # "LOAD"
  BY DEF NOP, NopKind, Numbered, IsBranch
<1>3. Same(D, F) => D.inst = F.inst /\ F.inst.OPCODE # "LOAD"
  BY <1>2 DEF CopyInv, Copies, Same, PaceInv, CopiedInv, Held0, IsBranch
<1>4. Same(D, F) => ~Uses(D.inst, F.inst)
  BY <1>3 DEF Uses
<1>5. CASE Waiting
  BY <1>4, <1>5 DEF Waiting, Rest, Later, Copied, One, Interlock, Same, HoldInv, FreshInv
<1>6. CASE HoldsUse
  BY <1>4, <1>6 DEF HoldsUse, Rest, Later, Copied, One, Interlock, Same, HoldInv, FreshInv
<1>7. CASE HoldsNext
  BY <1>4, <1>7 DEF HoldsNext, Rest, Later, Copied, One, Interlock, Same, Uses
<1>8. CASE MovesAll
  BY <1>4, <1>8 DEF MovesAll, Rest, Later, Copied, One, Interlock, Same, Uses
<1>. QED BY <1>1, <1>5, <1>6, <1>7, <1>8

\* What follows the program asks for nothing: only what was due is made.
LEMMA EdgeLast ==
    ASSUME IInv, CopyInv, PaceInv, HoldInv, NEW delay \in Nat, Clock(delay),
           ended, at' = "idle"
    PROVE  Rest' + One(Later') = One(Later)
<1>1. MovesAll
  BY EdgeKinds DEF Waiting, HoldsUse, HoldsNext
<1>2. F.inst.OPCODE # "LOAD" /\ inst.OPCODE = "NOP"
  BY DEF HoldInv, EndInv, Clock
<1>3. F'.valid /\ F'.inst.OPCODE = "NOP" /\ D'.inst.OPCODE # "LOAD"
  BY <1>1, <1>2 DEF MovesAll
<1>4. Interlock' <=> Later
  BY EdgeRest
<1>. QED BY <1>3, <1>4 DEF Rest, Later, Copied, Uses, One, IsBranch

LEMMA NextHold == IInv /\ CacheInv /\ PaceInv /\ HoldInv /\ [Next]_vars => HoldInv'
<1>. SUFFICES ASSUME IInv, CacheInv, PaceInv, HoldInv, [Next]_vars PROVE HoldInv'
  OBVIOUS
<1>1. ASSUME NEW way \in Ways, Access(way) PROVE HoldInv'
  <2>. DEFINE delay == AccessDCache(dCache, buffer, M.inst.OPCODE, EntryOf(M.inst.ADDR),
                                   cycle + 1, way).latency
  <2>1. delay \in Nat /\ Clock(delay) /\ Accesses
    BY <1>1, LatencyPositive DEF Access
  <2>. HIDE DEF delay
  <2>. QED BY <2>1, EdgeHold DEF CacheInv
<1>2. CASE NoAccess
  <2>1. dcDelay \in Nat /\ Clock(dcDelay)
    BY <1>2 DEF NoAccess, IInv, TypeInv, TypeOK
  <2>. QED BY <2>1, EdgeHold DEF CacheInv
<1>3. CASE ~Edge
  BY <1>3, CallsHold DEF Next, Finished, Calls
<1>. QED BY <1>1, <1>2, <1>3 DEF Edge

LEMMA HoldInvariance == Spec => [](IInv /\ CacheInv /\ PaceInv /\ HoldInv)
<1>1. Init => HoldInv
  BY InitStart, StartHold
<1>. QED BY <1>1, NextHold, InitPace, NextPace, InitIInv, NextIInv, InitCacheInv, NextCacheInv, PTL
         DEF Spec
-------------------------------------------------------------------------------
(* How long a call takes. *)

\* The longest access, when the buffer has room for two blocks.
AccessMost == MemRdLatency + HitdCLtcy + FlushWrBfLtcy + 2 * Tidy

\* The edges left of a call, at most: those of an access that waits, which is the
\* last of the call, or those of the stalls that are due and of one such access.
Left == IF busy THEN dcDelay ELSE Rest + AccessMost

\* A call stalls twice at most, and waits for one access.
CallMost == AccessMost + 2

LEMMA LongestAccess ==
    ASSUME DC_WR_BUFF_SIZE > 1, IInv, CacheInv, NEW way \in Ways, Access(way)
    PROVE  \E delay \in Nat \ {0} : delay <= AccessMost /\ Clock(delay) /\ Accesses
<1>. DEFINE delay == AccessDCache(dCache, buffer, M.inst.OPCODE, EntryOf(M.inst.ADDR),
                                 cycle + 1, way).latency
<1>1. delay \in Nat \ {0} /\ Clock(delay) /\ Accesses
  BY LatencyPositive DEF Access
<1>2. EntryOf(M.inst.ADDR) \in WriteBuffer /\ M.inst.OPCODE \in {"LOAD", "STORE"}
  BY AccessFacts
<1>3. delay <= AccessMost
  BY <1>2, AccessCost DEF CacheInv, AccessMost
<1>. HIDE DEF delay
<1>. QED BY <1>1, <1>3

\* Every edge that does not end the call brings its end nearer.
LEMMA EdgeLeft ==
    ASSUME DC_WR_BUFF_SIZE > 1, IInv, CacheInv, PaceInv, HoldInv, Edge
    PROVE  /\ Left \in Nat /\ Left' \in Nat /\ Left >= 1
           /\ at' = "call" => Left' < Left
           /\ at = "call" /\ at' \in {"call", "idle"}
           /\ cycle' = cycle + 1 /\ fed' = fed /\ length' = length
<1>1. /\ dcDelay \in Nat /\ busy \in BOOLEAN /\ (busy <=> dcDelay > 0)
      /\ AccessMost \in Nat \ {0}
  BY LatencyAssumption DEF IInv, TypeInv, TypeOK, BusyInv, AccessMost, Tidy
<1>2. Rest \in 0 .. 2 /\ Rest' \in 0 .. 2 /\ (busy => Rest = 0)
  BY RestBounds DEF Rest, One, HoldInv
<1>3. PICK delay \in Nat : /\ Clock(delay)
                           /\ ~busy => delay <= AccessMost
                           /\ busy => delay = dcDelay
  <2>1. ASSUME NEW way \in Ways, Access(way)
        PROVE  \E delay \in Nat : /\ Clock(delay)
                                  /\ ~busy => delay <= AccessMost
                                  /\ busy => delay = dcDelay
    BY <2>1, LongestAccess DEF Accesses
  <2>2. NoAccess => Clock(dcDelay)
    BY DEF NoAccess
  <2>. QED BY <1>1, <2>1, <2>2 DEF Edge
<1>4. /\ at = "call" /\ at' \in {"call", "idle"} /\ cycle' = cycle + 1
      /\ fed' = fed /\ length' = length
      /\ dcDelay' = DelayAfter(delay) /\ (busy' <=> BusyAfter(delay))
  BY <1>3 DEF Clock
<1>5. /\ busy' => Rest' = 0
      /\ ~busy' /\ at' = "call" => Rest' = Rest - 1
  BY <1>3, EdgeRest DEF CacheInv
<1>6. busy' => dcDelay' = delay - 1 /\ dcDelay' \in Nat /\ delay >= 1
  BY <1>1, <1>3, <1>4 DEF DelayAfter, BusyAfter
<1>7. Left \in Nat /\ Left' \in Nat /\ Left >= 1
  BY <1>1, <1>2, <1>6 DEF Left, AccessMost
<1>8. at' = "call" => Left' < Left
  <2>1. CASE busy'
    BY <1>1, <1>2, <1>3, <1>6, <2>1 DEF Left
  <2>2. CASE ~busy' /\ at' = "call"
    <3>1. ~busy
      BY <1>2, <1>5, <2>2
    <3>. QED BY <1>1, <1>2, <1>5, <2>2, <3>1 DEF Left, AccessMost
  <2>. QED BY <2>1, <2>2
<1>. QED BY <1>4, <1>7, <1>8

\* Every call returns: its edges count down.  The stalls due when an access begins
\* to wait pass while it does, and after it nothing holds F.
CallsEnd == [][at = "call" /\ at' = "call" => Left' < Left /\ Left' \in Nat]_vars
THEOREM CallsReturn == ASSUME DC_WR_BUFF_SIZE > 1 PROVE Spec => CallsEnd
<1>1. IInv /\ CacheInv /\ PaceInv /\ HoldInv /\ [Next]_vars =>
        [at = "call" /\ at' = "call" => Left' < Left /\ Left' \in Nat]_vars
  <2>. SUFFICES ASSUME IInv, CacheInv, PaceInv, HoldInv, Next, vars' # vars,
                       at = "call", at' = "call"
                PROVE  Left' < Left /\ Left' \in Nat
    OBVIOUS
  <2>1. Edge
    BY DEF Next, Feed, FeedNop, Call, EndProgram, Stop, Finished
  <2>. QED BY <2>1, EdgeLeft
<1>. QED BY <1>1, HoldInvariance, PTL DEF Spec, CallsEnd

\* What the calls so far have taken and the one that runs may still take.
TimeInv == cycle + (IF at = "call" THEN Left ELSE 0) <= CallMost * fed

LEMMA NextTime ==
    ASSUME DC_WR_BUFF_SIZE > 1, IInv, CacheInv, PaceInv, HoldInv, TimeInv, [Next]_vars
    PROVE  TimeInv'
<1>1. /\ AccessMost \in Nat /\ CallMost \in Nat /\ cycle \in Nat /\ fed \in Nat
      /\ Rest \in 0 .. 2
  BY RestBounds, LatencyAssumption DEF IInv, TypeInv, TypeOK, CallMost, AccessMost, Tidy
<1>2. CASE Edge
  <2>1. /\ Left \in Nat /\ Left' \in Nat /\ Left >= 1
        /\ at' = "call" => Left' < Left
        /\ at = "call" /\ at' \in {"call", "idle"}
        /\ cycle' = cycle + 1 /\ fed' = fed
    BY <1>2, EdgeLeft
  <2>2. cycle + Left <= CallMost * fed
    BY <2>1 DEF TimeInv
  <2>3. CallMost * fed \in Nat /\ (CallMost * fed)' = CallMost * fed
    BY <1>1, <2>1 DEF CallMost, AccessMost, Tidy
  <2>4. CASE at' = "call"
    <3>1. cycle' + Left' <= CallMost * fed
      <4>1. \A a, b, c, n \in Nat : a < b /\ c + b <= n => (c + 1) + a <= n
        OBVIOUS
      <4>2. Left' < Left
        BY <2>1, <2>4, Zenon
      <4>3. cycle \in Nat /\ Left \in Nat /\ Left' \in Nat /\ CallMost * fed \in Nat
        BY <1>1, <2>1, <2>3, Zenon
      <4>4. (cycle + 1) + Left' <= CallMost * fed
        BY <2>2, <4>1, <4>2, <4>3, Zenon
      <4>. QED BY <2>1, <4>4, Zenon
    <3>. QED BY <2>3, <2>4, <3>1 DEF TimeInv
  <2>5. CASE at' = "idle"
    <3>1. cycle' <= CallMost * fed /\ cycle' + 0 = cycle'
      BY <1>1, <2>1, <2>2, <2>3
    <3>. QED BY <2>3, <2>5, <3>1 DEF TimeInv
  <2>. QED BY <2>1, <2>4, <2>5
<1>3. CASE (\E k \in Kinds : Feed(k)) \/ FeedNop
  <2>1. /\ at = "idle" /\ at' = "call" /\ fed' = fed + 1
        /\ UNCHANGED <<F, D, E, busy, cycle>>
    BY <1>3 DEF Feed, FeedNop, Call, stages
  <2>2. Left' = Rest + AccessMost
    <3>1. Rest' = Rest /\ AccessMost' = AccessMost
      BY <2>1 DEF Rest, Interlock, AccessMost, Tidy
    <3>2. ~busy'
      BY <2>1 DEF IInv, BusyInv
    <3>. QED BY <3>1, <3>2 DEF Left
  <2>3. cycle <= CallMost * fed /\ CallMost * fed \in Nat
    BY <1>1, <2>1 DEF TimeInv
  <2>4. CallMost * (fed + 1) = CallMost * fed + CallMost /\ CallMost' = CallMost
    BY <1>1 DEF CallMost, AccessMost, Tidy
  <2>. QED BY <1>1, <2>1, <2>2, <2>3, <2>4 DEF TimeInv, CallMost
<1>4. CASE EndProgram \/ Stop \/ Finished \/ UNCHANGED vars
  <2>1. /\ UNCHANGED <<F, D, E, busy, dcDelay, cycle, fed>>
        /\ at' = at \/ (at = "idle" /\ at' = "done")
    BY <1>4 DEF EndProgram, Stop, Finished, vars, stages
  <2>2. Left' = Left /\ CallMost' = CallMost
    BY <2>1 DEF Left, Rest, Interlock, CallMost, AccessMost, Tidy
  <2>. QED BY <2>1, <2>2 DEF TimeInv
<1>. QED BY <1>2, <1>3, <1>4 DEF Next

LEMMA InitTime == Init => TimeInv
<1>. SUFFICES ASSUME Init PROVE TimeInv
  OBVIOUS
<1>1. at = "idle" /\ cycle = 0 /\ fed = 0
  BY DEF Init
<1>2. CallMost \in Nat
  BY LatencyAssumption DEF CallMost, AccessMost, Tidy
<1>. QED BY <1>1, <1>2 DEF TimeInv

\* A run has no more cycles than its length and the latencies allow, drain and
\* all.
CyclesBounded == cycle <= CallMost * (length + 5)

LEMMA TimeIsBound == IInv /\ PaceInv /\ TimeInv => CyclesBounded
<1>. SUFFICES ASSUME IInv, PaceInv, TimeInv PROVE CyclesBounded
  OBVIOUS
<1>1. /\ fed \in Nat /\ length \in Nat /\ cycle \in Nat /\ CallMost \in Nat
      /\ W.inst.id \in Nat /\ M.inst.id \in Nat /\ E.inst.id \in Nat /\ D.inst.id \in Nat
      /\ F.inst.id \in Nat
  BY LatencyAssumption DEF CallMost, AccessMost, Tidy, IInv, TypeInv, TypeOK, Stage, Instruction
<1>2. fed <= length + 5
  BY <1>1 DEF PaceInv, WrittenInv, IInv, InOrder, Follows
<1>3. cycle <= CallMost * fed
  <2>1. Left \in Nat
    BY <1>1, LatencyAssumption DEF Left, Rest, One, AccessMost, Tidy, IInv, TypeInv, TypeOK
  <2>2. CallMost * fed \in Nat
    BY <1>1
  <2>. QED BY <1>1, <2>1, <2>2 DEF TimeInv
<1>4. \A m, a, b \in Nat : a <= b => m * a <= m * b
  OBVIOUS
<1>5. CallMost * fed <= CallMost * (length + 5) /\ CallMost * fed \in Nat
      /\ CallMost * (length + 5) \in Nat
  BY <1>1, <1>2, <1>4
<1>. QED BY <1>1, <1>3, <1>5 DEF CyclesBounded

\* However its accesses fall, neither a call nor the drain goes on for ever.
THEOREM RunsEnd == ASSUME DC_WR_BUFF_SIZE > 1 PROVE Spec => []CyclesBounded
<1>. QED BY InitTime, NextTime, TimeIsBound, HoldInvariance, PTL DEF Spec
===============================================================================
