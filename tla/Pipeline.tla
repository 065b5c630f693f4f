------------------------------- MODULE Pipeline -------------------------------
(***************************************************************************)
(* timing_simulation of Project04/mips_sim.c, the five stage pipeline with *)
(* its data cache, driven as the child process drives it: one call for     *)
(* every instruction of the program, then calls with NOP until the write   *)
(* back stage holds one.                                                   *)
(*                                                                         *)
(* One Edge is one pass of the `again` loop, one rising clock edge.  The   *)
(* stage variables of the function are copies of P->stages taken at the    *)
(* call and put back at its end; nothing reads P->stages in between, so    *)
(* one variable stands for both.  A stalled stage keeps a copy of its      *)
(* instruction while the original moves on; such a copy is a bubble when   *)
(* its stall flag is set.  FPU_, ALU_ and IM_ are never busy in the code.  *)
(***************************************************************************)
EXTENDS DCacheOps

CONSTANTS Kinds,      \* the instructions of the programs: their timing fields
          MaxInst,    \* bound: the longest program
          MaxCycle    \* bound: the cycles of a run

Codes == {"ALU", "FPU", "BRANCH", "JMP", "JR", "LOAD", "STORE", "MOVE"}

ASSUME KindAssumption == Kinds \subseteq
    [OPCODE : Codes, RS : Nat, RT : Nat, RD : Nat, ADDR : Int]
ASSUME LengthAssumption == MaxInst \in Nat /\ MaxCycle \in Nat

VARIABLES
    at,        \* where the child is: "idle" between calls, "call", "done"
    ended,     \* the program's last instruction was simulated
    inst,      \* *inst, the instruction of the current call
    fed,       \* history: calls so far; call n brings instruction number n
    length,    \* history: calls so far with an instruction of the program
    F, D, E, M, W,   \* the stages
    busy,      \* P->DM_.busy
    dcDelay,   \* dc_delay, local to a call
    cycle,     \* *M_P_cycle
    dCache, buffer,
    accessed,  \* history: the instructions that accessed the cache
    ready      \* history: the cycle at which the last access is over

cacheVars == <<dCache, buffer, accessed, ready>>
stages    == <<F, D, E, M, W>>
vars      == <<at, ended, inst, fed, length, stages, busy, dcDelay, cycle, cacheVars>>

\* An instruction with the number of the call that brought it.
Numbered(k, n) == [OPCODE |-> k.OPCODE, RS |-> k.RS, RT |-> k.RT, RD |-> k.RD,
                   ADDR |-> k.ADDR, id |-> n]

NopKind == [OPCODE |-> "NOP", RS |-> 0, RT |-> 0, RD |-> 0, ADDR |-> 0]
NOP(n)  == Numbered(NopKind, n)

IsMemory(i) == i.OPCODE \in {"LOAD", "STORE"}
IsBranch(i) == i.OPCODE \in {"BRANCH", "JMP", "JR"}

Init == /\ at = "idle"
        /\ ended = FALSE
        /\ inst = NOP(0)
        /\ fed = 0
        /\ length = 0
        /\ F = [valid |-> TRUE, stall |-> FALSE, inst |-> NOP(0)]
        /\ D = F /\ E = F /\ M = F /\ W = F
        /\ busy = FALSE
        /\ dcDelay = 0
        /\ cycle = 0
        /\ dCache = EmptyCache
        /\ buffer = EmptyBuffer
        /\ accessed = {}
        /\ ready = 1
-------------------------------------------------------------------------------
(* The child's calls. *)

Call(i) == /\ at = "idle"
           /\ at' = "call"
           /\ inst' = i
           /\ fed' = fed + 1
           /\ dcDelay' = 0
           /\ UNCHANGED <<ended, stages, busy, cycle, cacheVars>>

\* A program of MaxInst instructions ends like every other, with a branch.
Feed(k) == /\ ~ended
           /\ \/ fed + 1 < MaxInst
              \/ fed + 1 = MaxInst /\ IsBranch(k)
           /\ length' = length + 1
           /\ Call(Numbered(k, fed + 1))

\* A program ends with the control transfer to address 0.
EndProgram == /\ at = "idle"
              /\ ~ended
              /\ IsBranch(inst)
              /\ ended' = TRUE
              /\ UNCHANGED <<at, inst, fed, length, stages, busy, dcDelay, cycle, cacheVars>>

\* Looking at MEM instead of WB.
Idle_AtMem == M.inst.OPCODE = "NOP"

Idle == W.inst.OPCODE = "NOP"

FeedNop == /\ ended
           /\ ~Idle
           /\ length' = length
           /\ Call(NOP(fed + 1))

Stop == /\ at = "idle"
        /\ ended
        /\ Idle
        /\ at' = "done"
        /\ UNCHANGED <<ended, inst, fed, length, stages, busy, dcDelay, cycle, cacheVars>>
-------------------------------------------------------------------------------
(* A clock edge.  The stages are updated from W to F; each operator takes  *)
(* the stages after it as already updated and reads the others as before.  *)

MovesOn(stage) == [stage EXCEPT !.valid = TRUE]

Stays(stage, stall) == [stage EXCEPT !.stall = stall, !.valid = FALSE]

\* Forgetting the stores.
Accesses_LoadsOnly == M.inst.OPCODE = "LOAD" /\ M.valid /\ ~busy

\* "The first time this LW or SW computes its delay."
Accesses == IsMemory(M.inst) /\ M.valid /\ ~busy

\* Counting without the test of busy.
DelayAfter_Always(delay) == delay - 1

\* DM_.busy and dc_delay after the edge, from the delay before it.
DelayAfter(delay) == IF busy \/ delay > 0 THEN delay - 1 ELSE delay

\* Waiting a cycle too long.
BusyAfter_OneMore(delay) == (busy \/ delay > 0) /\ DelayAfter(delay) >= 0

BusyAfter(delay) == (busy \/ delay > 0) /\ DelayAfter(delay) > 0

WAfter == MovesOn(M)

\* Moving on while the cache is busy.
MAfter_IgnoresBusy(w, stillBusy) == MovesOn(E)

MAfter(w, stillBusy) ==
    IF ~stillBusy /\ w.valid
      THEN MovesOn(E)
      ELSE Stays(M, IF w.stall THEN M.stall /\ stillBusy ELSE TRUE)

\* A load in E whose target the instruction in D reads: D waits until the load
\* is in M.
Interlock == /\ E.inst.OPCODE = "LOAD" /\ E.valid
             /\ D.inst.RS = E.inst.RD \/ D.inst.RT = E.inst.RD

\* Marking E a bubble although a stage after it is one already.
EAfter_NoTest(w, m) ==
    IF w.valid /\ m.valid /\ ~Interlock
      THEN MovesOn(D)
      ELSE Stays(E, TRUE)

EAfter(w, m) ==
    IF w.valid /\ m.valid /\ ~Interlock
      THEN MovesOn(D)
      ELSE Stays(E, ~w.stall /\ ~m.stall)

\* Without the tests of the stages after D.
DAfter_Always(w, m, e) == MovesOn(F)

DAfter(w, m, e) ==
    IF w.valid /\ m.valid /\ e.valid
      THEN MovesOn(F)
      ELSE Stays(D, ~w.stall /\ ~m.stall /\ ~e.stall)

\* A branch that never finds out that it has held the next one back.
Takes_BranchStays(w, m, e, d) ==
    w.valid /\ m.valid /\ e.valid /\ d.valid /\ ~IsBranch(F.inst)

\* A branch in F holds the next instruction back for a cycle.
Takes(w, m, e, d) == /\ w.valid /\ m.valid /\ e.valid /\ d.valid
                     /\ ~(IsBranch(F.inst) /\ F.valid)

FAfter(w, m, e, d) ==
    IF Takes(w, m, e, d)
      THEN [valid |-> TRUE, stall |-> FALSE, inst |-> inst]
      ELSE Stays(F, ~w.stall /\ ~m.stall /\ ~e.stall /\ ~d.stall)

\* The stages, the DM component and the cycle count after an edge on which
\* dc_delay is `delay` once a cache access, if there was one, has set it.
Clock(delay) ==
    LET w == WAfter
        m == MAfter(w, BusyAfter(delay))
        e == EAfter(w, m)
        d == DAfter(w, m, e)
    IN  /\ at = "call"
        /\ cycle' = cycle + 1
        /\ dcDelay' = DelayAfter(delay)
        /\ busy' = BusyAfter(delay)
        /\ W' = w
        /\ M' = m
        /\ E' = e
        /\ D' = d
        /\ F' = FAfter(w, m, e, d)
        /\ at' = IF Takes(w, m, e, d) THEN "idle" ELSE "call"
        /\ UNCHANGED <<ended, inst, fed, length>>

Access(way) ==
    LET e == EntryOf(M.inst.ADDR)
        a == AccessDCache(dCache, buffer, M.inst.OPCODE, e, cycle + 1, way)
    IN  /\ cycle < MaxCycle
        /\ Accesses
        /\ IsSlot(dCache[e.index], e, cycle + 1, way)
        /\ Clock(a.latency)
        /\ dCache' = a.cache
        /\ buffer' = a.buf
        /\ accessed' = accessed \cup {M.inst.id}
        /\ ready' = cycle + 1 + a.latency

NoAccess == /\ cycle < MaxCycle
            /\ ~Accesses
            /\ Clock(dcDelay)
            /\ UNCHANGED cacheVars

Edge == NoAccess \/ \E way \in Ways : Access(way)

\* The child has stopped, or the bound on the cycles has stopped it in a call.
Finished == (at = "done" \/ cycle = MaxCycle) /\ UNCHANGED vars

Next == \/ \E k \in Kinds : Feed(k)
        \/ EndProgram
        \/ FeedNop
        \/ Stop
        \/ Edge
        \/ Finished

Spec     == Init /\ [][Next]_vars
DrainSpec == Spec /\ WF_vars(Edge \/ FeedNop \/ Stop)
-------------------------------------------------------------------------------
Instruction == [OPCODE : Codes \cup {"NOP"}, RS : Nat, RT : Nat, RD : Nat,
                ADDR : Int, id : Nat]
Stage == [valid : BOOLEAN, stall : BOOLEAN, inst : Instruction]

TypeOK == /\ at \in {"idle", "call", "done"}
          /\ ended \in BOOLEAN
          /\ fed \in Nat
          /\ length \in 0 .. fed
          /\ {F, D, E, M, W} \subseteq Stage
          /\ busy \in BOOLEAN
          /\ dcDelay \in Nat
          /\ cycle \in Nat
          /\ accessed \subseteq Nat
          /\ ready \in Nat

\* b is the same instruction as a or the next one.
Follows(a, b) == b.inst.id \in {a.inst.id, a.inst.id + 1}

\* No instruction is skipped and none overtakes another: neighbouring stages
\* hold the same or consecutive instructions, whatever stalls came together.
InOrder == /\ Follows(W, M) /\ Follows(M, E) /\ Follows(E, D) /\ Follows(D, F)
           /\ F.inst.id = (IF at = "call" THEN fed - 1 ELSE fed)

\* Every instruction is shown in W: the first copy of it to get there is never
\* a bubble.
EachShown == [][W'.inst.id # W.inst.id => ~W'.stall]_vars

\* A call never returns with the data memory busy: the rest of a miss would be
\* forgotten, because dc_delay is a local variable that the next call zeroes.
DelayNotLost == at # "call" => ~busy /\ dcDelay <= 0

\* An access starts when the one before is over.
AccessSpaced == at = "call" /\ Accesses => ready <= cycle + 1

\* The time of a miss is paid in full and once: it is not forgotten between
\* calls and the next access does not start within it.
AccessTimed == DelayNotLost /\ AccessSpaced

\* The load interlock leaves a copy of the load in E, which moves to M with its
\* valid flag set and is looked up again.  Nothing has come in between: this is
\* always a hit and writes nothing back, so it costs the cycle of the bubble.
RepeatHits ==
    [][M.inst.id \in accessed /\ Accesses /\ cycle' # cycle =>
         ready' = cycle' + HitdCLtcy /\ buffer' = buffer]_vars

Trace == INSTANCE PipelineTrace WITH
             issued  <- F.inst.id,
             waiting <- {s.inst.id : s \in {t \in {F, D, E, M, W} : IsMemory(t.inst)}} \ accessed,
             written <- W.inst.id

\* Whatever stalls meet, the stages implement the in-order trace: every load and
\* store accesses the cache, before it is written back and after all older ones.
ImplementsTrace == Trace!Spec

\* When the child stops, every instruction of a program of five or more has
\* left W: W holds a NOP that was fed after the last of them.
Drained == at = "done" /\ length >= 5 => W.inst.id > length

\* No combination of stalls holds F for ever: every call returns, and when the
\* program has ended the drain ends.
ChildProgresses ==
    at = "call" \/ ended ~> (at = "idle" /\ ~ended) \/ at = "done"
-------------------------------------------------------------------------------
(* What comments and documents say and the code does not do.               *)

\* An addition that reads the register a load in E writes waits in D until the
\* load is in M.  INSN_LW writes the register RT names.
LoadInUse == /\ E.inst.OPCODE = "LOAD" /\ ~E.stall
             /\ M.inst.id # E.inst.id
             /\ D.inst.OPCODE = "ALU" /\ D.inst.RS = E.inst.RT

LoadUseWaits == [][LoadInUse => E'.inst.id = E.inst.id]_vars

\* A branch stays in F for a cycle in which nothing is fetched.
BranchWaits ==
    [][IsBranch(D'.inst) /\ D'.inst.id # D.inst.id => F'.inst.id = D'.inst.id]_vars
===============================================================================
