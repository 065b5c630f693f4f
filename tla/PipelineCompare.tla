---------------------------- MODULE PipelineCompare ----------------------------
(***************************************************************************)
(* The pipelines of Project02 and Project04 on the same instructions: what *)
(* the data cache does to the number of cycles.  Each program instruction  *)
(* is fed to both; a call of the second runs when the call of the first    *)
(* has returned.  After the program each drains on its own.                *)
(***************************************************************************)
EXTENDS Pipeline

VARIABLES
    at02, ended02, inst02, fed02, F02, D02, E02, M02, W02, cycle02,
    waited     \* history: what the accesses took beyond a cycle each

vars02 == <<at02, ended02, inst02, fed02, F02, D02, E02, M02, W02, cycle02>>

P02 == INSTANCE Pipeline02 WITH
           at <- at02, ended <- ended02, inst <- inst02, fed <- fed02,
           F <- F02, D <- D02, E <- E02, M <- M02, W <- W02, cycle <- cycle02

cvars == <<vars, vars02, waited>>

CInit == Init /\ P02!Init /\ waited = 0

CFeed(k) == /\ Feed(k)
            /\ P02!Feed(Numbered(k, fed02 + 1))
            /\ UNCHANGED waited

CEndProgram == EndProgram /\ P02!EndProgram /\ UNCHANGED waited

CEdge == /\ Edge
         /\ waited' = waited + (IF accessed' = accessed THEN 0 ELSE ready' - cycle' - 1)
         /\ UNCHANGED vars02

CDrain == (FeedNop \/ Stop) /\ UNCHANGED <<vars02, waited>>

CEdge02 == at # "call" /\ P02!Edge /\ UNCHANGED <<vars, waited>>

CDrain02 == at = "done" /\ P02!Drain /\ UNCHANGED <<vars, waited>>

CFinished == /\ cycle = MaxCycle \/ (at = "done" /\ at02 = "done")
             /\ UNCHANGED cvars

CNext == \/ \E k \in Kinds : CFeed(k)
         \/ CEndProgram \/ CEdge \/ CDrain \/ CEdge02 \/ CDrain02 \/ CFinished

CSpec == CInit /\ [][CNext]_cvars
-------------------------------------------------------------------------------
\* Both have simulated the same instructions, or all of them.
Level == \/ at = "idle" /\ at02 = "idle" /\ fed = fed02
         \/ at = "done" /\ at02 = "done"

\* The cache never makes a program faster, and slower by no more than its
\* accesses took beyond a cycle each.  The stalls of a miss clear the valid flags
\* that the load interlock and the hold of a branch look at, so with a miss either
\* can be skipped that Project02's pipeline makes; yet no cycle is won, and no
\* stall that meets a miss costs a cycle of its own on top.
CostIsWaits == Level => cycle - cycle02 \in 0 .. waited
===============================================================================
