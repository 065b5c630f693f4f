------------------------------ MODULE InstStream ------------------------------
(***************************************************************************)
(* What the pair of processes started by Execution() promises, with no     *)
(* process, ring or semaphore in it: the functional simulator (the parent) *)
(* sends the executed instructions, the timing simulator (the child)       *)
(* receives each of them once, in order and at most Capacity behind, and   *)
(* the count that main() prints is taken when all of them were received.   *)
(***************************************************************************)
EXTENDS Naturals, Sequences

CONSTANTS Inst,       \* the instructions
          Capacity    \* how far the receiver may be behind

VARIABLES sent,       \* instructions sent, oldest first
          rcvd,       \* instructions received, oldest first
          closed,     \* TRUE once the program ended (pc = 0)
          reported,   \* TRUE once the cycle count was read
          result      \* the instructions that count accounts for

vars == <<sent, rcvd, closed, reported, result>>

Init == /\ sent = <<>>
        /\ rcvd = <<>>
        /\ closed = FALSE
        /\ reported = FALSE
        /\ result = <<>>

Send(i) == /\ ~closed
           /\ Len(sent) - Len(rcvd) < Capacity
           /\ sent' = Append(sent, i)
           /\ UNCHANGED <<rcvd, closed, reported, result>>

Close == /\ ~closed
         /\ sent # <<>>
         /\ closed' = TRUE
         /\ UNCHANGED <<sent, rcvd, reported, result>>

Receive == /\ Len(rcvd) < Len(sent)
           /\ rcvd' = Append(rcvd, sent[Len(rcvd) + 1])
           /\ UNCHANGED <<sent, closed, reported, result>>

Report == /\ closed
          /\ rcvd = sent
          /\ ~reported
          /\ reported' = TRUE
          /\ result' = rcvd
          /\ UNCHANGED <<sent, rcvd, closed>>

Next == \/ \E i \in Inst : Send(i)
        \/ Close
        \/ Receive
        \/ Report

Spec == Init /\ [][Next]_vars
===============================================================================
