------------------------------- MODULE MultCount -------------------------------
(***************************************************************************)
(* Execution() and mult_compute() of Project01/mips_sim.c: the parent      *)
(* interprets the program and pushes every instruction it fetches, the     *)
(* child adds up the cycles a multi-cycle machine takes for them.          *)
(*                                                                         *)
(* It differs from module Execution (Project04) in what surrounds the      *)
(* ring: an instruction is pushed before it is executed, finish is set     *)
(* after the loop, and the child reads finish after it has emptied the     *)
(* ring and does not come back.  sem_wait and sem_post are left out:       *)
(* instnRAW is a global of each process, worth 1, that its owner takes and *)
(* gives back in turn, so it never blocks (Execution models it).           *)
(*                                                                         *)
(* Instruction n of the run is the number n; mult_routing is a function of *)
(* the instructions counted, `tallied` in the segment.                     *)
(***************************************************************************)
EXTENDS Integers, Sequences

CONSTANTS TEXT_SZ,    \* slots of the ring, data->insts
          MaxInst     \* bound: the longest program run, in instructions

ASSUME RingAssumption    == TEXT_SZ \in Nat \ {0}
ASSUME ProgramAssumption == MaxInst \in Nat \ {0}

VARIABLES
    finish,      \* data->finish
    inst_begin,  \* data->inst_begin
    inst_end,    \* data->inst_end
    insts,       \* data->insts
    tallied,     \* what data->mult_routing adds up
    ppc,         \* where the parent is
    more,        \* the parent's pc # 0
    reported,    \* what the parent's mult_routing adds up
    cpc,         \* where the child is
    creg         \* the child's copy of inst_begin in inst_begin++

segment == <<finish, inst_begin, inst_end, insts, tallied>>
parent  == <<ppc, more, reported>>
child   == <<cpc, creg>>
vars    == <<segment, parent, child>>

Slots == 0 .. TEXT_SZ - 1

ParentPCs == {"init", "fetch", "full1", "full2", "write", "advance", "copy", "run",
              "finish", "waitpid", "done", "dead"}
ChildPCs  == {"scan", "tally", "load", "store", "finish", "exit"}

Issued == [n \in 1 .. inst_end |-> n]

ParentGoes(from, to) == ppc = from /\ ppc' = to
ChildGoes(from, to)  == cpc = from /\ cpc' = to

Init == /\ finish = FALSE
        /\ inst_begin = 0
        /\ inst_end = 0
        /\ insts = [s \in Slots |-> 0]
        /\ tallied = <<>>
        /\ ppc = "init"
        /\ more = TRUE
        /\ reported = <<>>
        /\ cpc = "scan"
        /\ creg = 0
-------------------------------------------------------------------------------
(* The parent. *)

\* memset(data, 0, ...) of a segment that is zero already.
InitSegment == /\ ParentGoes("init", "fetch")
               /\ finish' = FALSE
               /\ inst_begin' = 0
               /\ inst_end' = 0
               /\ insts' = [s \in Slots |-> 0]
               /\ tallied' = <<>>
               /\ UNCHANGED <<more, reported, child>>

\* A loop that does not look at pc.
Fetch_Always == /\ ParentGoes("fetch", "full1")
                /\ UNCHANGED <<segment, more, reported, child>>

\* for (;pc;) with read_mem and InstDecode.
Fetch == /\ IF more THEN ParentGoes("fetch", "full1") ELSE ParentGoes("fetch", "finish")
         /\ UNCHANGED <<segment, more, reported, child>>

\* The two reads of the full test; a full ring is tested again and again.
Full1 == /\ IF inst_begin % TEXT_SZ = inst_end % TEXT_SZ
              THEN ParentGoes("full1", "full2")
              ELSE ParentGoes("full1", "write")
         /\ UNCHANGED <<segment, more, reported, child>>

\* <= for <.
Full2_EmptyIsFull == /\ IF inst_begin <= inst_end THEN ParentGoes("full2", "full1")
                                                  ELSE ParentGoes("full2", "write")
                     /\ UNCHANGED <<segment, more, reported, child>>

\* if for while: the test is not repeated.
Full2_NoLoop == /\ ParentGoes("full2", "write")
                /\ UNCHANGED <<segment, more, reported, child>>

Full2 == /\ IF inst_begin < inst_end THEN ParentGoes("full2", "full1")
                                     ELSE ParentGoes("full2", "write")
         /\ UNCHANGED <<segment, more, reported, child>>

Write == /\ ParentGoes("write", "advance")
         /\ insts' = [insts EXCEPT ![inst_end % TEXT_SZ] = inst_end + 1]
         /\ UNCHANGED <<finish, inst_begin, inst_end, tallied, more, reported, child>>

Advance == /\ ParentGoes("advance", "copy")
           /\ inst_end' = inst_end + 1
           /\ UNCHANGED <<finish, inst_begin, insts, tallied, more, reported, child>>

\* mult_routing = data->mult_routing, overwritten at the end.
CopyCount == /\ ParentGoes("copy", "run")
             /\ reported' = tallied
             /\ UNCHANGED <<segment, more, child>>

\* The switch over the instruction; it may set pc to 0, and at MaxInst it does.
Execute == /\ ParentGoes("run", "fetch")
           /\ \/ more' = FALSE
              \/ inst_end < MaxInst /\ more' = TRUE
           /\ UNCHANGED <<segment, reported, child>>

\* The NULL read_mem returns for a bad pc, and after the push exit(-1) or the
\* NULL for a bad data address.
Fault == /\ \/ ParentGoes("fetch", "dead") /\ more
            \/ ParentGoes("run", "dead")
         /\ UNCHANGED <<segment, more, reported, child>>

SetFinish == /\ ParentGoes("finish", "waitpid")
             /\ finish' = TRUE
             /\ UNCHANGED <<inst_begin, inst_end, insts, tallied, more, reported, child>>

WaitChild == /\ ParentGoes("waitpid", "done")
             /\ cpc = "exit"
             /\ reported' = tallied
             /\ UNCHANGED <<segment, more, child>>

Parent == \/ InitSegment \/ Fetch \/ Full1 \/ Full2 \/ Write \/ Advance
          \/ CopyCount \/ Execute \/ Fault \/ SetFinish \/ WaitChild
-------------------------------------------------------------------------------
(* The child. *)

\* The test of mult_compute's for loop.
Scan == /\ IF inst_begin < inst_end THEN ChildGoes("scan", "tally")
                                    ELSE ChildGoes("scan", "finish")
        /\ UNCHANGED <<segment, parent, creg>>

\* Reading the slot after the cursor.
Tally_NextSlot == /\ ChildGoes("tally", "load")
                  /\ tallied' = Append(tallied, insts[(inst_begin + 1) % TEXT_SZ])
                  /\ UNCHANGED <<finish, inst_begin, inst_end, insts, parent, creg>>

\* data->mult_routing += the cycles of data->insts[inst_begin % TEXT_SZ].
Tally == /\ ChildGoes("tally", "load")
         /\ tallied' = Append(tallied, insts[inst_begin % TEXT_SZ])
         /\ UNCHANGED <<finish, inst_begin, inst_end, insts, parent, creg>>

\* data->inst_begin++ is a load and a store.
LoadBegin == /\ ChildGoes("load", "store")
             /\ creg' = inst_begin
             /\ UNCHANGED <<segment, parent>>

StoreBegin == /\ ChildGoes("store", "scan")
              /\ inst_begin' = creg + 1
              /\ UNCHANGED <<finish, inst_end, insts, tallied, parent, creg>>

TestFinish == /\ IF finish THEN ChildGoes("finish", "exit")
                           ELSE ChildGoes("finish", "scan")
              /\ UNCHANGED <<segment, parent, creg>>

Child == Scan \/ Tally \/ LoadBegin \/ StoreBegin \/ TestFinish
-------------------------------------------------------------------------------
Ended == /\ ppc \in {"done", "dead"}
         /\ cpc = "exit"
         /\ UNCHANGED vars

Next == Parent \/ Child \/ Ended

Spec     == Init /\ [][Next]_vars
FairSpec == Spec /\ WF_vars(Parent) /\ WF_vars(Child)
-------------------------------------------------------------------------------
TypeOK == /\ finish \in BOOLEAN
          /\ inst_begin \in Nat
          /\ inst_end \in 0 .. MaxInst
          /\ insts \in [Slots -> 0 .. MaxInst]
          /\ tallied \in Seq(0 .. MaxInst)
          /\ ppc \in ParentPCs
          /\ more \in BOOLEAN
          /\ reported \in Seq(0 .. MaxInst)
          /\ cpc \in ChildPCs
          /\ creg \in Nat

\* The child never passes the parent, the parent is never more than a ring
\* ahead, and no slot is overwritten before it is counted.
RingSafe == /\ inst_begin <= inst_end /\ inst_end <= inst_begin + TEXT_SZ
            /\ \A k \in inst_begin .. inst_end - 1 : insts[k % TEXT_SZ] = k + 1

\* Instructions are counted in program order, none twice and none that was not
\* pushed: the count is never too high.
TalliedInOrder == /\ Len(tallied) <= inst_end
                  /\ \A n \in 1 .. Len(tallied) : tallied[n] = n

\* The child does not leave before the parent has pushed everything.
ExitAfterFinish == cpc = "exit" => finish /\ ~more

\* What is missing in the reported count is at most what the ring holds.
LossBounded == ppc = "done" => inst_end - Len(reported) <= TEXT_SZ

\* The run of a program that ends and does not abort, ends.
Terminates == <>(ppc = "dead" \/ (ppc = "done" /\ cpc = "exit"))
-------------------------------------------------------------------------------
(* What the comments say and the code does not do.                         *)

\* The reported count covers every instruction the program executed.  The child
\* reads finish after the ring was empty once, and what was pushed in between
\* is never counted.
CountComplete == ppc = "done" => reported = Issued
===============================================================================
