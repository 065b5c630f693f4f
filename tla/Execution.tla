------------------------------- MODULE Execution -------------------------------
(***************************************************************************)
(* Execution() of Project04/mips_sim.c: the parent process interprets the  *)
(* program and pushes every executed instruction into a ring in a System V *)
(* shared memory segment, the child process takes them out, feeds them to  *)
(* timing_simulation and leaves the cycle count in the segment.            *)
(*                                                                         *)
(* One action is one step of one process between two accesses of the other *)
(* process to the segment.  Programs are abstracted to the number of       *)
(* instructions they execute: instruction n of the run is the number n     *)
(* (1, 2, ...), 0 is a slot the parent cleared and MaxInst + 1 whatever an *)
(* earlier run left in a slot.  data->pipeline and                         *)
(* data->mips_pipeline_cycle are a function of the instructions fed to     *)
(* timing_simulation since they were cleared; `fed` is that sequence.      *)
(* The pipeline itself is module Pipeline.                                 *)
(***************************************************************************)
EXTENDS Integers, Sequences

CONSTANTS TEXT_SZ,    \* slots of the ring, data->insts
          MaxInst     \* bound: the longest program run, in instructions

ASSUME RingAssumption    == TEXT_SZ \in Nat \ {0}
ASSUME ProgramAssumption == MaxInst \in Nat \ {0}

VARIABLES
    sem,        \* instnRAW: a plain global, so fork gives each process its own
    finish,     \* data->finish
    inst_begin, \* data->inst_begin, the child's cursor
    inst_end,   \* data->inst_end, the parent's cursor
    insts,      \* data->insts
    fed,        \* what data->pipeline and data->mips_pipeline_cycle stand for
    ppc,        \* where the parent is
    more,       \* the parent's pc # 0
    counted,    \* pipeline_cycle, as the instructions the count covers
    cpc,        \* where the child is
    creg        \* the child's copy of inst_begin in inst_begin++

segment  == <<finish, inst_begin, inst_end, insts, fed>>
parent   == <<ppc, more, counted>>
child    == <<cpc, creg>>
vars     == <<sem, segment, parent, child>>

Procs == {"parent", "child"}
Slots == 0 .. TEXT_SZ - 1
Stale == MaxInst + 1

ParentPCs == {"init_wait", "init", "init_post", "run", "wait", "full1", "full2",
              "spin_post", "spin_wait", "write", "advance", "finish", "post",
              "waitpid", "done", "dead"}
ChildPCs  == {"wait", "finish", "check", "take", "load", "store", "post",
              "drain", "drain_take", "drain_load", "drain_store",
              "last_post", "exit"}

\* The instructions that entered the ring, in program order.
Issued == [n \in 1 .. inst_end |-> n]
-------------------------------------------------------------------------------
(* sem_wait and sem_post on the caller's own copy of instnRAW. *)

SemWait(p) == /\ sem[p] > 0
              /\ sem' = [sem EXCEPT ![p] = @ - 1]

SemPost(p) == sem' = [sem EXCEPT ![p] = @ + 1]

\* Sem_init(&instnRAW, 1, 2).
SemInit_Two == sem = [p \in Procs |-> 2]

SemInit == sem = [p \in Procs |-> 1]

ParentGoes(from, to) == ppc = from /\ ppc' = to

ChildGoes(from, to)  == cpc = from /\ cpc' = to

Init == /\ SemInit
        /\ finish = FALSE
        /\ inst_begin = 0
        /\ inst_end = 0
        /\ insts = [s \in Slots |-> 0]
        /\ fed = <<>>
        /\ ppc = "init_wait"
        /\ more = TRUE
        /\ counted = <<>>
        /\ cpc = "wait"
        /\ creg = 0

\* The segment is found by key and removed only at the end of a run: after a
\* run that was killed, or whose parent aborted, shmget returns the old one.
LeftoverInit == /\ SemInit
                /\ finish \in BOOLEAN
                /\ inst_end \in 0 .. MaxInst
                /\ inst_begin \in 0 .. inst_end
                /\ insts = [s \in Slots |-> Stale]
                /\ fed = <<>>
                /\ ppc = "init_wait"
                /\ more = TRUE
                /\ counted = <<>>
                /\ cpc = "wait"
                /\ creg = 0
-------------------------------------------------------------------------------
(* The parent. *)

ParentInitWait == /\ ParentGoes("init_wait", "init")
                  /\ SemWait("parent")
                  /\ UNCHANGED <<segment, more, counted, child>>

\* memset(data, 0, ...), then the five valid flags, which the child's first
\* timing_simulation reads.
ParentInitSegment == /\ ParentGoes("init", "init_post")
                     /\ finish' = FALSE
                     /\ inst_begin' = 0
                     /\ inst_end' = 0
                     /\ insts' = [s \in Slots |-> 0]
                     /\ fed' = <<>>
                     /\ UNCHANGED <<sem, more, counted, child>>

ParentInitPost == /\ ParentGoes("init_post", "run")
                  /\ SemPost("parent")
                  /\ UNCHANGED <<segment, more, counted, child>>

\* read_mem, InstDecode, function_simulation and FUCDecode2TIM of the next
\* instruction; it may set pc to 0, and at MaxInst it does.
FunctionSimulation == /\ ParentGoes("run", "wait")
                      /\ \/ more' = FALSE
                         \/ inst_end + 1 < MaxInst /\ more' = TRUE
                      /\ UNCHANGED <<sem, segment, counted, child>>

\* exit(-1) on an unimplemented instruction, or the NULL that read_mem
\* returns for an address outside the memory.
ParentFault == /\ ParentGoes("run", "dead")
               /\ UNCHANGED <<sem, segment, more, counted, child>>

ParentWait == /\ ParentGoes("wait", "full1")
              /\ SemWait("parent")
              /\ UNCHANGED <<segment, more, counted, child>>

\* The two conjuncts of the full test read the child's cursor one after the
\* other, and the child may move between them.

\* Pushing without the full test.
Full1_NoTest == /\ ParentGoes("full1", "write")
                /\ UNCHANGED <<sem, segment, more, counted, child>>

Full1 == /\ IF inst_begin % TEXT_SZ = inst_end % TEXT_SZ
              THEN ParentGoes("full1", "full2")
              ELSE ParentGoes("full1", "write")
         /\ UNCHANGED <<sem, segment, more, counted, child>>

Full2 == /\ IF inst_begin < inst_end
              THEN ParentGoes("full2", "spin_post")
              ELSE ParentGoes("full2", "write")
         /\ UNCHANGED <<sem, segment, more, counted, child>>

SpinPost == /\ ParentGoes("spin_post", "spin_wait")
            /\ SemPost("parent")
            /\ UNCHANGED <<segment, more, counted, child>>

SpinWait == /\ ParentGoes("spin_wait", "full1")
            /\ SemWait("parent")
            /\ UNCHANGED <<segment, more, counted, child>>

Write == /\ ParentGoes("write", "advance")
         /\ insts' = [insts EXCEPT ![inst_end % TEXT_SZ] = inst_end + 1]
         /\ UNCHANGED <<sem, finish, inst_begin, inst_end, fed, more, counted, child>>

\* Setting finish with the first instruction.
Advance_FinishFirst == /\ ParentGoes("advance", "finish")
                       /\ inst_end' = inst_end + 1
                       /\ finish' = TRUE
                       /\ UNCHANGED <<sem, inst_begin, insts, fed, more, counted, child>>

Advance == /\ ParentGoes("advance", "finish")
           /\ inst_end' = inst_end + 1
           /\ UNCHANGED <<sem, finish, inst_begin, insts, fed, more, counted, child>>

\* Leaving finish at 0.
SetFinish_Forgotten == /\ ParentGoes("finish", "post")
                       /\ UNCHANGED <<sem, segment, more, counted, child>>

SetFinish == /\ ParentGoes("finish", "post")
             /\ finish' = (finish \/ ~more)
             /\ UNCHANGED <<sem, inst_begin, inst_end, insts, fed, more, counted, child>>

ParentPost == /\ ppc = "post"
              /\ ppc' = IF more THEN "run" ELSE "waitpid"
              /\ SemPost("parent")
              /\ UNCHANGED <<segment, more, counted, child>>

\* waitpid(pid), then pipeline_cycle = data->mips_pipeline_cycle; the segment
\* is detached and removed.
WaitChild == /\ ParentGoes("waitpid", "done")
             /\ cpc = "exit"
             /\ counted' = fed
             /\ UNCHANGED <<sem, segment, more, child>>

Parent == \/ ParentInitWait \/ ParentInitSegment \/ ParentInitPost
          \/ FunctionSimulation \/ ParentFault
          \/ ParentWait \/ Full1 \/ Full2 \/ SpinPost \/ SpinWait
          \/ Write \/ Advance \/ SetFinish \/ ParentPost \/ WaitChild
-------------------------------------------------------------------------------
(* The child. *)

ChildWait == /\ ChildGoes("wait", "finish")
             /\ SemWait("child")
             /\ UNCHANGED <<segment, parent, creg>>

ChildFinish == /\ IF finish THEN ChildGoes("finish", "drain")
                            ELSE ChildGoes("finish", "check")
               /\ UNCHANGED <<sem, segment, parent, creg>>

\* Always leaving one instruction in the ring.
ChildCheck_OffByOne == /\ IF inst_begin + 1 < inst_end THEN ChildGoes("check", "take")
                                                       ELSE ChildGoes("check", "post")
                       /\ UNCHANGED <<sem, segment, parent, creg>>

ChildCheck == /\ IF inst_begin < inst_end THEN ChildGoes("check", "take")
                                          ELSE ChildGoes("check", "post")
              /\ UNCHANGED <<sem, segment, parent, creg>>

\* timing_simulation(&data->insts[begin % TEXT_SZ], ...); the slot is read at
\* its last clock edge.
Take(from, to) == /\ ChildGoes(from, to)
                  /\ fed' = Append(fed, insts[inst_begin % TEXT_SZ])
                  /\ UNCHANGED <<sem, finish, inst_begin, inst_end, insts, parent, creg>>

\* data->inst_begin++ is a load and a store.
LoadBegin(from, to) == /\ ChildGoes(from, to)
                       /\ creg' = inst_begin
                       /\ UNCHANGED <<sem, segment, parent>>

StoreBegin(from, to) == /\ ChildGoes(from, to)
                        /\ inst_begin' = creg + 1
                        /\ UNCHANGED <<sem, finish, inst_end, insts, fed, parent, creg>>

ChildTake      == Take("take", "load")
ChildLoad      == LoadBegin("load", "store")
ChildStore     == StoreBegin("store", "post")

ChildPost == /\ ChildGoes("post", "wait")
             /\ SemPost("child")
             /\ UNCHANGED <<segment, parent, creg>>

\* while(begin < end) after the break; then NOPs until the pipeline is idle,
\* which only touches what `fed` stands for (module Pipeline).
ChildDrain == /\ IF inst_begin < inst_end THEN ChildGoes("drain", "drain_take")
                                          ELSE ChildGoes("drain", "last_post")
              /\ UNCHANGED <<sem, segment, parent, creg>>

DrainTake  == Take("drain_take", "drain_load")
DrainLoad  == LoadBegin("drain_load", "drain_store")

\* if for while in the loop after the break.
DrainStore_NoLoop == StoreBegin("drain_store", "last_post")
DrainStore == StoreBegin("drain_store", "drain")

ChildLastPost == /\ ChildGoes("last_post", "exit")
                 /\ SemPost("child")
                 /\ UNCHANGED <<segment, parent, creg>>

Child == \/ ChildWait \/ ChildFinish \/ ChildCheck
         \/ ChildTake \/ ChildLoad \/ ChildStore \/ ChildPost
         \/ ChildDrain \/ DrainTake \/ DrainLoad \/ DrainStore
         \/ ChildLastPost
-------------------------------------------------------------------------------
\* Both processes have ended.
Ended == /\ ppc \in {"done", "dead"}
         /\ cpc = "exit"
         /\ UNCHANGED vars

Next == Parent \/ Child \/ Ended

Fairness == WF_vars(Parent) /\ WF_vars(Child)

Spec         == Init /\ [][Next]_vars
FairSpec     == Spec /\ Fairness
LeftoverSpec == LeftoverInit /\ [][Next]_vars /\ Fairness
-------------------------------------------------------------------------------
TypeOK == /\ sem \in [Procs -> 0 .. 1]
          /\ finish \in BOOLEAN
          /\ inst_begin \in Nat
          /\ inst_end \in 0 .. MaxInst
          /\ insts \in [Slots -> 0 .. Stale]
          /\ fed \in Seq(0 .. Stale)
          /\ ppc \in ParentPCs
          /\ more \in BOOLEAN
          /\ counted \in Seq(0 .. Stale)
          /\ cpc \in ChildPCs
          /\ creg \in Nat

\* The ring never holds more than TEXT_SZ instructions and the child never
\* passes the parent, although the full test, the push and the take are not
\* exclusive: each process waits on a semaphore of its own.
RingBounded == inst_begin <= inst_end /\ inst_end <= inst_begin + TEXT_SZ

\* Between the cursors each slot holds the instruction that was pushed there:
\* the parent's write never lands on one the child has still to read.
SlotsIntact == \A k \in inst_begin .. inst_end - 1 : insts[k % TEXT_SZ] = k + 1

\* Neither cursor and no slot is ever lost to the other process.
RingSafe == RingBounded /\ SlotsIntact

\* timing_simulation is fed the executed instructions in program order, each
\* at most once and none that was not pushed.
FedInOrder == /\ Len(fed) <= inst_end
              /\ \A n \in 1 .. Len(fed) : fed[n] = n

\* The child leaves only with every instruction of the program simulated.
ExitComplete == cpc = "exit" => finish /\ fed = Issued

\* The pipeline count that main() prints covers exactly the instructions the
\* program executed.
CountComplete == ppc = "done" => counted = Issued

\* A run of a program that ends and does not abort, ends: the parent's spin on
\* a full ring and the child's spin on an empty one never become a livelock.
Terminates == <>(ppc = "dead" \/ (ppc = "done" /\ cpc = "exit"))

\* After the parent aborts, the child simulates everything that was pushed ...
OrphanDrains == ppc = "dead" ~> fed = Issued

\* ... and then polls the empty ring for ever: nobody sets finish.
OrphanNeverExits == ppc = "dead" => cpc # "exit" /\ ~finish

Stream == INSTANCE InstStream WITH
              Inst     <- 1 .. MaxInst,
              Capacity <- TEXT_SZ,
              sent     <- Issued,
              rcvd     <- fed,
              closed   <- finish,
              reported <- (ppc = "done"),
              result   <- counted

\* The two processes implement the bounded, in-order, loss-free stream.
ImplementsStream == Stream!Spec
===============================================================================
