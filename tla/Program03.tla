------------------------------- MODULE Program03 -------------------------------
(***************************************************************************)
(* The whole program of Project03/mips_sim.c: main loads the files, the    *)
(* parent executes the instructions and pushes what the timing simulator   *)
(* needs of each, the child takes them through the pipeline with its data  *)
(* cache, and main reports.  The functions are those Project04 took over:  *)
(* FunctionSim is extended, Loader and Pipeline are instantiated.          *)
(*                                                                         *)
(* The ring between the two processes is a queue here.  That it is one, in *)
(* spite of its semaphores, is what module Execution shows; the slot of an *)
(* instruction is free again when its call has returned.                   *)
(***************************************************************************)
EXTENDS FunctionSim

CONSTANTS DC_NUM_SETS, DC_SET_SIZE, DC_BLOCK_SIZE, DC_WR_BUFF_SIZE,
          MemRdLatency, HitdCLtcy, WrMergLtcy, AddBlk2WrBfLtcy, FlushWrBfLtcy,
          MaxCycle,                   \* as in Pipeline
          Files, BAD, AddressSpace,   \* as in Loader
          TEXT_SZ                     \* instructions the ring holds

ASSUME RingAssumption == TEXT_SZ \in Nat \ {0}

\* What is in a file: words, in a set that TLC need not count, and BAD.
Text == {w \in Int : w \in Int32} \cup {BAD}

ASSUME FilesAssumption == Files \subseteq [data : Seq(Text), input : Seq(Text)]
ASSUME BadAssumption == BAD \notin Int32

\* No file is longer than the address space.
ASSUME SpaceAssumption ==
    /\ AddressSpace \in Nat /\ AddressSpace > MEMSIZE
    /\ \A file \in Files : /\ 4 * Len(file.data) <= AddressSpace
                           /\ Entry + 4 * Len(file.input) <= AddressSpace

VARIABLES
    phase, rest, word, files,              \* as in Loader
    queue,                                 \* insts[inst_begin .. inst_end - 1]
    finish,
    at, ended, fetched, fed, length,       \* as in Pipeline, `fetched` its inst
    F, D, E, M, W, busy, dcDelay, cycle, dCache, buffer, lookups, ready,
    pipeline_cycle,                        \* what main prints, 0 before
    used,      \* history: the loads and stores of the program
    looked,    \* history: the first lookup of each load and store in the cache
    stalls,    \* history: cycles for which the program asks the pipeline to wait
    waits      \* history: cycles for which lookups keep the data memory busy

\* What the parent pushes.
Traced == [OPCODE : Kinds \ {"NOP"}, RS : 0 .. 63, RT : 0 .. 63, RD : 0 .. 63, ADDR : Int32]

L == INSTANCE Loader
P == INSTANCE Pipeline WITH inst <- fetched, accessed <- lookups,
                            Kinds <- Traced, MaxInst <- MaxSteps + 1

ASSUME CacheAssumption == P!GeometryAssumption /\ P!LatencyAssumption
ASSUME CycleAssumption == MaxCycle \in Nat

loading == <<phase, rest, word, files>>
shared  == <<queue, finish>>
child   == <<at, ended, fetched, fed, length, F, D, E, M, W, busy, dcDelay, cycle,
             dCache, buffer, lookups, ready>>
history == <<used, looked, stalls, waits>>
allVars == <<vars, loading, shared, child, history, pipeline_cycle>>

ProgramInit == /\ L!LoaderInit
               /\ \E g, h \in Garbage : Registers(g, h)
               /\ queue = <<>>
               /\ finish = FALSE
               /\ P!Init
               /\ pipeline_cycle = 0
               /\ used = <<>> /\ looked = <<>>
               /\ stalls = 0 /\ waits = 0
-------------------------------------------------------------------------------
(* main and the parent *)

LoadFiles == /\ L!Load
             /\ UNCHANGED <<r, f, dead, last, accessed, mult_cycle, sigle_routing>>
             /\ UNCHANGED <<shared, child, history, pipeline_cycle>>

StartExecution == /\ phase = "loaded"
                  /\ phase' = "run"
                  /\ pc' = Entry
                  /\ UNCHANGED <<mem, r, f, dead, last, accessed, mult_cycle, sigle_routing>>
                  /\ UNCHANGED <<rest, word, files, shared, child, history, pipeline_cycle>>

RType == INSN_SLL \/ INSN_ADD
IType == \/ INSN_ADDI \/ INSN_SLTI \/ INSN_MOVE \/ INSN_BEQ \/ INSN_BNE
         \/ INSN_LW \/ INSN_SW \/ INSN_LWC1 \/ INSN_SWC1
JType == INSN_J \/ INSN_JR
FType == INSN_ADDS \/ INSN_MULS

function_simulation == RType \/ IType \/ JType \/ FType

\* The slot the child still reads is not free before its call has returned.
Room == Len(queue) + (IF at = "call" /\ ~ended THEN 1 ELSE 0) < TEXT_SZ

\* Does the instruction make the pipeline wait: a transfer holds the next one
\* back, a load those that name its RD.
IsTransfer == last'.OPCODE \in {"BRANCH", "JMP", "JR"}
Interlocks == last.OPCODE = "LOAD" /\ last.RD \in {last'.RS, last'.RT}

\* One turn of the parent's loop.  It is local up to the push.
Turn == /\ phase = "run"
        /\ Room
        /\ function_simulation
        /\ queue' = Append(queue, last')
        /\ used' = IF last'.OPCODE \in {"LOAD", "STORE"}
                     THEN Append(used, [OPCODE |-> last'.OPCODE, ADDR |-> accessed',
                                        ownBase |-> /\ inst.OPCODE = OPCODES["OP_LW"]
                                                    /\ inst.RT = inst.RS])
                     ELSE used
        /\ stalls' = stalls + (IF IsTransfer THEN 1 ELSE 0) + (IF Interlocks THEN 1 ELSE 0)
        /\ UNCHANGED <<loading, finish, child, looked, waits, pipeline_cycle>>

\* Only pc decides.
Finish == /\ phase = "run" /\ pc = 0 /\ ~finish
          /\ finish' = TRUE
          /\ UNCHANGED <<vars, loading, queue, child, history, pipeline_cycle>>

\* A NULL dereferenced or exit(-1).
Abort == /\ phase = "run"
         /\ NullRead \/ FloatOverrun \/ Unimplemented
         /\ UNCHANGED <<loading, shared, child, history, pipeline_cycle>>

\* After waitpid.
Report == /\ finish /\ at = "done"
          /\ pipeline_cycle = 0
          /\ pipeline_cycle' = cycle
          /\ UNCHANGED <<vars, loading, shared, child, history>>
-------------------------------------------------------------------------------
(* The child *)

Take == /\ queue # <<>>
        /\ P!Feed(Head(queue))
        /\ queue' = Tail(queue)
        /\ UNCHANGED <<vars, loading, finish, history, pipeline_cycle>>

\* finish alone, with instructions left in the ring.
SeesEnd_Early == finish

SeesEnd == finish /\ queue = <<>>

LeaveLoop == /\ SeesEnd
             /\ P!EndProgram
             /\ UNCHANGED <<vars, loading, shared, history, pipeline_cycle>>

Drain == /\ P!FeedNop \/ P!Stop
         /\ UNCHANGED <<vars, loading, shared, history, pipeline_cycle>>

accessdCache == /\ \E way \in P!Ways : P!Access(way)
                /\ looked' = IF M.inst.id \in lookups
                               THEN looked
                               ELSE Append(looked, [OPCODE |-> M.inst.OPCODE,
                                                    ADDR   |-> M.inst.ADDR])
                /\ waits' = waits + (ready' - cycle') - 1
                /\ UNCHANGED <<used, stalls>>

timing_simulation == /\ \/ accessdCache
                        \/ P!NoAccess /\ UNCHANGED history
                     /\ UNCHANGED <<vars, loading, shared, pipeline_cycle>>
-------------------------------------------------------------------------------
reported == pipeline_cycle > 0

\* The program runs on at the bound, or the parent is dead: the child has taken
\* what there is and polls.
Polls == /\ phase = "run" /\ ~Running /\ pc # 0
         /\ queue = <<>> /\ at = "idle"
         /\ UNCHANGED allVars

\* Main has returned, or the bound on the cycles has stopped the child.
Over == (reported \/ cycle = MaxCycle) /\ UNCHANGED allVars

Parent == LoadFiles \/ StartExecution \/ Turn \/ Finish \/ Abort \/ Report
Child  == Take \/ LeaveLoop \/ Drain \/ timing_simulation

Step == Child \/ Parent

ProgramNext == Step \/ Polls \/ Over

\* Only that the machine goes on while either process can; which of them moves
\* is free.  (The waits of both for the other are not steps here.)
ProgramSpec == ProgramInit /\ [][ProgramNext]_allVars /\ WF_allVars(Step)
-------------------------------------------------------------------------------
ImageIntact   == L!ImageIntact
BadWordFloods == L!BadWordFloods

\* The cache, a process, a ring and several stages away from the program, looks
\* up what the program accesses: the same loads and stores, in the same order, at
\* the addresses they used (but for a load over its own base), and all of them
\* before the count of a program of five instructions or more is printed.
CacheSeesProgram ==
    /\ Len(looked) <= Len(used)
    /\ \A k \in 1 .. Len(looked) :
          /\ looked[k].OPCODE = used[k].OPCODE
          /\ used[k].ownBase \/ looked[k].ADDR = used[k].ADDR
    /\ reported /\ sigle_routing >= 5 => Len(looked) = Len(used)

\* The count printed: one cycle for each instruction and for each of the five NOPs
\* that drain the pipeline, the lookups' waits whole, and at most the stalls the
\* program asks for.
CyclesExplained ==
    reported /\ sigle_routing >= 5 =>
        pipeline_cycle - (sigle_routing + 5 + waits) \in 0 .. stalls

IsHex(file) == \A k \in 1 .. Len(file) : file[k] # BAD

\* A program in files of numbers that comes to address 0 is reported: neither
\* process waits for ever on the other, however the lookups delay the child.
EndIsReported ==
    IsHex(files.data) /\ IsHex(files.input) ~> reported \/ dead \/ sigle_routing = MaxSteps
===============================================================================
