------------------------------ MODULE FunctionSim ------------------------------
(***************************************************************************)
(* The functional simulator of Project04: FUCDecode2TIM of decode.c, the   *)
(* INSN_ functions of function_sim.c and function_simulation, run by the   *)
(* for (;pc;) loop of Execution().  One action is one turn of that loop;   *)
(* the push into the ring is module Execution, here `last` is the          *)
(* INSTR_TIMSIM record that is pushed.  What ADDS and MULS compute is one  *)
(* of FloatResults.                                                        *)
(***************************************************************************)
EXTENDS MainMem

CONSTANTS Programs,      \* the contents ./input may have
          Garbage,       \* what malloc may leave in a register
          FloatResults,  \* what a float operation may yield
          MaxSteps       \* bound: instructions executed

ASSUME ProgramAssumption ==
    Programs \subseteq Seq(Int32) /\ Garbage \subseteq Int32 /\ FloatResults \subseteq Int32
ASSUME BoundAssumption == MaxSteps \in Nat

VARIABLES mem, r, f,     \* memory bytes, integer and float registers
          pc,
          dead,          \* exit(-1), a NULL dereferenced, or the end of f passed
          last,          \* the record pushed for the last instruction
          accessed,      \* ghost: the address that instruction read or wrote
          mult_cycle, sigle_routing

vars == <<mem, r, f, pc, dead, last, accessed, mult_cycle, sigle_routing>>

Regs      == 0 .. 31
FloatRegs == 0 .. 15
ireg_size == 32

Kinds == {"NOP", "ALU", "FPU", "BRANCH", "JMP", "JR", "LOAD", "STORE", "MOVE"}
-------------------------------------------------------------------------------
(* decode.c *)

\* Adding the register number for its contents.
FUCDecode2TIM_RegNumber(kind, inst, regs) ==
    LET shift == IF kind = "FPU" THEN ireg_size ELSE 0
    IN [OPCODE |-> kind,
        RS     |-> inst.RS + shift,
        RT     |-> inst.RT + shift,
        RD     |-> inst.RD + shift,
        ADDR   |-> Add32(inst.RS, inst.IMM)]

\* regs are the registers after the instruction was executed.
FUCDecode2TIM(kind, inst, regs) ==
    LET shift == IF kind = "FPU" THEN ireg_size ELSE 0
    IN [OPCODE |-> kind,
        RS     |-> inst.RS + shift,
        RT     |-> inst.RT + shift,
        RD     |-> inst.RD + shift,
        ADDR   |-> Add32(regs[inst.RS], inst.IMM)]
-------------------------------------------------------------------------------
(* Memory as loaded, the registers of init(), and the record before the    *)
(* program, a NOP.                                                         *)

\* init(): g and h are what malloc left in r and f.
Registers(g, h) ==
    /\ r = [i \in Regs |-> CASE i \in {28, 31} -> 0
                            [] i = 29 -> SP
                            [] OTHER  -> g]
    /\ f = [i \in FloatRegs |-> h]
    /\ dead = FALSE
    /\ last = [OPCODE |-> "NOP", RS |-> 0, RT |-> 0, RD |-> 0, ADDR |-> 0]
    /\ accessed = 0
    /\ mult_cycle = 0
    /\ sigle_routing = 0

Start(input, g, h) == /\ mem = readinst_data(ZeroMem, input)
                      /\ Registers(g, h)
                      /\ pc = Entry

Init == \E input \in Programs, g, h \in Garbage : Start(input, g, h)

Running == pc # 0 /\ ~dead /\ sigle_routing < MaxSteps

inst == InstDecode(read_mem(mem, pc))
Addr == Add32(r[inst.RS], inst.IMM)
Next4 == pc + 4

Insn(op)   == Running /\ InRange(pc) /\ inst.OPCODE = OPCODES[op]
InsnR(fun) == Running /\ InRange(pc) /\ inst.OPCODE = OP_RTYPE /\ inst.FUNC = FUNCS_R[fun]
InsnF(fun) == Running /\ InRange(pc) /\ inst.OPCODE = OP_FTYPE /\ inst.FUNC = FUNCS_F[fun]

\* What follows every INSN_ function in function_simulation and in the loop.
Retire(kind, cycles, next, regs, used) ==
    /\ r' = regs
    /\ pc' = next
    /\ mult_cycle' = mult_cycle + cycles
    /\ sigle_routing' = sigle_routing + 1
    /\ last' = FUCDecode2TIM(kind, inst, regs)
    /\ accessed' = used
    /\ UNCHANGED dead

SetRegister(kind, reg, value) ==
    /\ Retire(kind, 5, Next4, [r EXCEPT ![reg] = value], 0)
    /\ UNCHANGED <<mem, f>>

Transfer(kind, next) == Retire(kind, 3, next, r, 0) /\ UNCHANGED <<mem, f>>

Branch(taken) == Transfer("BRANCH", IF taken THEN Next4 + inst.IMM * 4 ELSE Next4)
-------------------------------------------------------------------------------
INSN_SLL  == InsnR("OP_SLL") /\ SetRegister("ALU", inst.RD, Shl(r[inst.RT], inst.SHAMT))
INSN_ADD  == InsnR("OP_ADD") /\ SetRegister("ALU", inst.RD, Add32(r[inst.RS], r[inst.RT]))
INSN_ADDI == Insn("OP_ADDI") /\ SetRegister("ALU", inst.RT, Addr)
INSN_SLTI == /\ Insn("OP_SLTI")
             /\ SetRegister("ALU", inst.RT, IF r[inst.RS] < inst.IMM THEN 1 ELSE 0)
INSN_MOVE == Insn("OP_MOVE") /\ SetRegister("MOVE", inst.RT, r[inst.RS])

INSN_BEQ == Insn("OP_BEQ") /\ Branch(r[inst.RS] = r[inst.RT])
INSN_BNE == Insn("OP_BNE") /\ Branch(r[inst.RS] # r[inst.RT])

\* The label is an address in bytes, not a word number.
INSN_J  == Insn("OP_J") /\ Transfer("JMP", inst.LABEL)
INSN_JR == InsnR("OP_JR") /\ Transfer("JR", r[inst.RS])

INSN_LW == /\ Insn("OP_LW")
           /\ InRange(Addr)
           /\ Retire("LOAD", 5, Next4, [r EXCEPT ![inst.RT] = read_mem(mem, Addr)], Addr)
           /\ UNCHANGED <<mem, f>>

INSN_LWC1 == /\ Insn("OP_LWC1")
             /\ InRange(Addr)
             /\ inst.RT \in FloatRegs
             /\ f' = [f EXCEPT ![inst.RT] = read_mem(mem, Addr)]
             /\ Retire("LOAD", 5, Next4, r, Addr)
             /\ UNCHANGED mem

\* The base register left out of the address that is written.
INSN_SW_NoBase == /\ Insn("OP_SW")
                  /\ mem' = write_mem(mem, inst.IMM, r[inst.RT])
                  /\ Retire("STORE", 5, Next4, r, Addr)
                  /\ UNCHANGED f

INSN_SW == /\ Insn("OP_SW")
           /\ mem' = write_mem(mem, Addr, r[inst.RT])
           /\ Retire("STORE", 5, Next4, r, Addr)
           /\ UNCHANGED f

INSN_SWC1 == /\ Insn("OP_SWC1")
             /\ inst.RT \in FloatRegs
             /\ mem' = write_mem(mem, Addr, f[inst.RT])
             /\ Retire("STORE", 5, Next4, r, Addr)
             /\ UNCHANGED f

FloatOp(cycles) == /\ {inst.RS, inst.RT, inst.RD} \subseteq FloatRegs
                   /\ \E v \in FloatResults : f' = [f EXCEPT ![inst.RD] = v]
                   /\ Retire("FPU", cycles, Next4, r, 0)
                   /\ UNCHANGED mem

INSN_ADDS == InsnF("OP_ADDS") /\ FloatOp(6)
INSN_MULS == InsnF("OP_MULS") /\ FloatOp(8)
-------------------------------------------------------------------------------
Dies == /\ dead' = TRUE
        /\ UNCHANGED <<mem, r, f, pc, last, accessed, mult_cycle, sigle_routing>>

\* The NULL of read_mem is dereferenced: by the fetch, by INSN_LW and INSN_LWC1.
NullRead == /\ Running
            /\ \/ ~InRange(pc)
               \/ (Insn("OP_LW") \/ Insn("OP_LWC1")) /\ ~InRange(Addr)
            /\ Dies

\* A register field is 5 bits wide but f has 16 entries: what happens behind its
\* end is undefined and not followed.
FloatOverrun == /\ \/ /\ Insn("OP_LWC1") \/ Insn("OP_SWC1")
                      /\ inst.RT \notin FloatRegs
                   \/ /\ InsnF("OP_ADDS") \/ InsnF("OP_MULS")
                      /\ ~({inst.RS, inst.RT, inst.RD} \subseteq FloatRegs)
                /\ Dies

\* The three default: exit(-1).
Unimplemented == /\ Running
                 /\ InRange(pc)
                 /\ \A op \in DOMAIN OPCODES : inst.OPCODE # OPCODES[op]
                 /\ \A fun \in DOMAIN FUNCS_R : ~InsnR(fun)
                 /\ \A fun \in DOMAIN FUNCS_F : ~InsnF(fun)
                 /\ Dies

\* The loop is left, or the bound reached.
Ended == ~Running /\ UNCHANGED vars

Next == \/ INSN_SLL \/ INSN_ADD \/ INSN_ADDI \/ INSN_SLTI \/ INSN_MOVE
        \/ INSN_BEQ \/ INSN_BNE \/ INSN_J \/ INSN_JR
        \/ INSN_LW \/ INSN_LWC1 \/ INSN_SW \/ INSN_SWC1
        \/ INSN_ADDS \/ INSN_MULS
        \/ NullRead \/ FloatOverrun \/ Unimplemented \/ Ended

Spec == Init /\ [][Next]_vars
-------------------------------------------------------------------------------
\* INSTR_TIMSIM without IMM, which timing_simulation never reads.
INSTR_TIMSIM == [OPCODE : Kinds, RS : 0 .. 63, RT : 0 .. 63, RD : 0 .. 63, ADDR : Int32]

TypeOK == /\ mem \in [0 .. MEMSIZE - 1 -> 0 .. 255]
          /\ r \in [Regs -> Int32]
          /\ f \in [FloatRegs -> Int32]
          /\ pc \in Int
          /\ dead \in BOOLEAN
          /\ last \in INSTR_TIMSIM
          /\ accessed \in Int32
          /\ mult_cycle \in Nat
          /\ sigle_routing \in 0 .. MaxSteps

\* Before the last instruction of a program that ends there is always a jump or
\* a branch: falling through to address 0 past the end of the address space is
\* stopped by the fetch.  The timing simulator is never left with a program that
\* just runs out (module Pipeline, EndProgram).
EndsWithTransfer == pc = 0 => last.OPCODE \in {"BRANCH", "JMP", "JR"}

\* The address the data cache is asked for is the one the program used, unless
\* the instruction is a load that overwrites its own base register.
AddressTraced == \/ last.OPCODE = "STORE"
                 \/ last.OPCODE = "LOAD" /\ last.RT # last.RS
                 => last.ADDR = accessed

\* Memory, the program in it included, changes only in the four bytes at the
\* address of a store the timing simulator gets to see.
StoresTraced == [][mem' # mem =>
                     /\ last'.OPCODE = "STORE"
                     /\ \A a \in DOMAIN mem :
                          mem'[a] # mem[a] => a \in last'.ADDR .. last'.ADDR + 3]_vars

\* A stored word is read back as it was, whatever its sign and alignment, until
\* the next instruction; a store outside the memory is lost.
StoreReadsBack == [][last'.OPCODE = "STORE" /\ sigle_routing' # sigle_routing =>
                       IF InRange(accessed')
                         THEN read_mem(mem', accessed') \in {r[last'.RT]}
                                \union {f[k] : k \in FloatRegs \intersect {last'.RT}}
                         ELSE mem' = mem]_vars
===============================================================================
