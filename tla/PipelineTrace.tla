----------------------------- MODULE PipelineTrace -----------------------------
(***************************************************************************)
(* What the pipeline promises about a program, apart from its stalls:      *)
(* instructions are issued one after the other, those that load or store   *)
(* access the data memory once each and in their order, and instructions   *)
(* are written back in order, no load or store before its access.  An      *)
(* instruction is its number.  One clock edge may do all three.            *)
(***************************************************************************)
EXTENDS Naturals

VARIABLES issued,   \* the last instruction that was issued
          waiting,  \* the loads and stores issued and not yet done
          written   \* the last instruction that was written back

vars == <<issued, waiting, written>>

Init == issued = 0 /\ waiting = {} /\ written = 0

First(n) == n \in waiting /\ \A k \in waiting : n <= k

\* `entering` is the new instruction if it is a load or a store, `leaving` the
\* one that accesses the memory.
Edge(entering, leaving) ==
    /\ issued' \in {issued, issued + 1}
    /\ entering \subseteq {issued'} \ {issued}
    /\ \A n \in leaving : First(n)
    /\ waiting' = (waiting \ leaving) \cup entering
    /\ written' \in {written, written + 1}
    /\ written' <= issued
    /\ written' \notin waiting'

Next == \E entering \in {{}, {issued + 1}},
           leaving \in {{}} \cup {{n} : n \in waiting} : Edge(entering, leaving)

Spec == Init /\ [][Next]_vars
===============================================================================
