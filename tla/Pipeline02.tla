------------------------------ MODULE Pipeline02 ------------------------------
(***************************************************************************)
(* timing_simulation of Project02/mips_sim.c, the pipeline before it had a *)
(* data cache, with the calls the child process makes.  Nothing sets       *)
(* DM_.busy in this project, so MEM and WB never wait; what is left are    *)
(* the load interlock and the hold of a branch, and a call takes at most a *)
(* few edges.  One Edge is one pass of its `again` loop.  Instructions     *)
(* carry the number of the call that brought them, as in Pipeline.         *)
(***************************************************************************)
EXTENDS Naturals

CONSTANTS MaxInst       \* bound: the longest program

VARIABLES
    at,                 \* where the child is: "idle" between calls, "call", "done"
    ended,              \* the program's last instruction was simulated
    inst,               \* *inst, the instruction of the current call
    fed,                \* history: calls so far
    F, D, E, M, W,      \* the stages
    cycle               \* *M_P_cycle

stages == <<F, D, E, M, W>>
vars   == <<at, ended, inst, fed, stages, cycle>>

NOP(n) == [OPCODE |-> "NOP", RS |-> 0, RT |-> 0, RD |-> 0, ADDR |-> 0, id |-> n]

IsBranch(i) == i.OPCODE \in {"BRANCH", "JMP", "JR"}

Init == /\ at = "idle"
        /\ ended = FALSE
        /\ inst = NOP(0)
        /\ fed = 0
        /\ F = [valid |-> TRUE, stall |-> FALSE, inst |-> NOP(0)]
        /\ D = F /\ E = F /\ M = F /\ W = F
        /\ cycle = 0
-------------------------------------------------------------------------------
(* The child's calls. *)

Call(i) == /\ at = "idle"
           /\ at' = "call"
           /\ inst' = i
           /\ fed' = fed + 1
           /\ UNCHANGED <<ended, stages, cycle>>

Feed(i) == /\ ~ended
           /\ fed < MaxInst
           /\ Call(i)

EndProgram == /\ at = "idle"
              /\ ~ended
              /\ IsBranch(inst)
              /\ ended' = TRUE
              /\ UNCHANGED <<at, inst, fed, stages, cycle>>

\* memcmp of the instruction in W with INSTR_TIMSIM_NOP.
Idle == W.inst = NOP(W.inst.id)

FeedNop == ended /\ ~Idle /\ Call(NOP(fed + 1))

Stop == /\ at = "idle"
        /\ ended
        /\ Idle
        /\ at' = "done"
        /\ UNCHANGED <<ended, inst, fed, stages, cycle>>
-------------------------------------------------------------------------------
(* A clock edge, from W to F. *)

MovesOn(stage) == [stage EXCEPT !.valid = TRUE]

Stays(stage, stall) == [stage EXCEPT !.stall = stall, !.valid = FALSE]

\* The load in E has not been held back yet, and D names its RD.
Interlock == /\ E.inst.OPCODE = "LOAD" /\ E.valid
             /\ D.inst.RS = E.inst.RD \/ D.inst.RT = E.inst.RD

\* W and M move on at every edge; E has M's new stall flag to look at.
Holds(m, e) == ~M.stall /\ ~m.stall /\ ~e.stall

EAfter(m) == IF Interlock THEN Stays(E, ~M.stall /\ ~m.stall) ELSE MovesOn(D)

DAfter(m, e) == IF e.valid THEN MovesOn(F) ELSE Stays(D, Holds(m, e))

Takes(e, d) == e.valid /\ d.valid /\ ~(IsBranch(F.inst) /\ F.valid)

FAfter(m, e, d) == IF Takes(e, d) THEN [valid |-> TRUE, stall |-> FALSE, inst |-> inst]
                                  ELSE Stays(F, Holds(m, e) /\ ~d.stall)

Edge ==
    LET m == MovesOn(E)
        e == EAfter(m)
        d == DAfter(m, e)
    IN  /\ at = "call"
        /\ cycle' = cycle + 1
        /\ W' = MovesOn(M)
        /\ M' = m
        /\ E' = e
        /\ D' = d
        /\ F' = FAfter(m, e, d)
        /\ at' = IF Takes(e, d) THEN "idle" ELSE "call"
        /\ UNCHANGED <<ended, inst, fed>>

Drain == FeedNop \/ Stop
===============================================================================
