----------------------------- MODULE FunctionSim01 -----------------------------
(***************************************************************************)
(* The parent of Project01/mips_sim.c as a machine: init, test_for_memrw,  *)
(* the loader and the for (;pc;) loop of Execution with its INSN_          *)
(* functions.  One action is one turn of the loop.  Unlike Project04 it    *)
(* pushes the decoded instruction before it executes it, main() runs the   *)
(* memory test, which leaves a float behind, and f has an entry for every  *)
(* register number.  The ring itself is module MultCount.                  *)
(***************************************************************************)
EXTENDS MainMem

CONSTANTS TestAddr,      \* addr of test_for_memrw, 256 in the code
          TestFloat,     \* the bits of 0.12
          FloatResults, MaxSteps   \* as in FunctionSim

VARIABLES mem, r, f, pc,
          dead,          \* exit(-1), or a NULL dereferenced
          pushed,        \* the instruction pushed last
          sigle_routing

vars == <<mem, r, f, pc, dead, pushed, sigle_routing>>

Regs == 0 .. 31

\* g and h: what malloc left in r and f.
Start(input, g, h) ==
    /\ mem = readinst_data(write_mem(ZeroMem, TestAddr, TestFloat), input)
    /\ r = [i \in Regs |-> CASE i \in {28, 31} -> 0
                            [] i = 29 -> SP
                            [] OTHER  -> g]
    /\ f = [i \in Regs |-> h]
    /\ pc = Entry
    /\ dead = FALSE
    /\ pushed = InstDecode(0)
    /\ sigle_routing = 0

Running == pc # 0 /\ ~dead /\ sigle_routing < MaxSteps
Fetched == Running /\ InRange(pc)

inst  == InstDecode(read_mem(mem, pc))
Addr  == Add32(r[inst.RS], inst.IMM)
Loads == InRange(Addr)

Insn(op)   == inst.OPCODE = OPCODES[op]
InsnR(fun) == inst.OPCODE = OP_RTYPE /\ inst.FUNC = FUNCS_R[fun]
InsnF(fun) == inst.OPCODE = OP_FTYPE /\ inst.FUNC = FUNCS_F[fun]

\* The push, and the end of a turn of the loop.
Turn(next) == /\ Fetched
              /\ pc' = next
              /\ pushed' = inst
              /\ sigle_routing' = sigle_routing + 1
              /\ UNCHANGED dead
-------------------------------------------------------------------------------
(* The INSN_ functions, by what they change. *)

SetInteger(reg, value) == /\ r' = [r EXCEPT ![reg] = value]
                          /\ Turn(pc + 4)
                          /\ UNCHANGED <<mem, f>>

\* The register number taken from the field of the immediate instructions.
SetsRD_IntoRT == \/ InsnR("OP_SLL") /\ SetInteger(inst.RT, Shl(r[inst.RT], inst.SHAMT))
                 \/ InsnR("OP_ADD") /\ SetInteger(inst.RT, Add32(r[inst.RS], r[inst.RT]))

SetsRD == \/ InsnR("OP_SLL") /\ SetInteger(inst.RD, Shl(r[inst.RT], inst.SHAMT))
          \/ InsnR("OP_ADD") /\ SetInteger(inst.RD, Add32(r[inst.RS], r[inst.RT]))

SetsRT == \/ Insn("OP_ADDI") /\ SetInteger(inst.RT, Addr)
          \/ Insn("OP_SLTI") /\ SetInteger(inst.RT, IF r[inst.RS] < inst.IMM THEN 1 ELSE 0)
          \/ Insn("OP_MOVE") /\ SetInteger(inst.RT, r[inst.RS])
          \/ Insn("OP_LW") /\ Loads /\ SetInteger(inst.RT, read_mem(mem, Addr))

SetFloat(reg, value) == /\ f' = [f EXCEPT ![reg] = value]
                        /\ Turn(pc + 4)
                        /\ UNCHANGED <<mem, r>>

SetsFloat == \/ Insn("OP_LWC1") /\ Loads /\ SetFloat(inst.RT, read_mem(mem, Addr))
             \/ /\ InsnF("OP_ADDS") \/ InsnF("OP_MULS")
                /\ \E v \in FloatResults : SetFloat(inst.RD, v)

Store(word) == /\ mem' = write_mem(mem, Addr, word)
               /\ Turn(pc + 4)
               /\ UNCHANGED <<r, f>>

Stores == \/ Insn("OP_SW") /\ Store(r[inst.RT])
          \/ Insn("OP_SWC1") /\ Store(f[inst.RT])

Goto(next) == Turn(next) /\ UNCHANGED <<mem, r, f>>

Branch(taken) == Goto(IF taken THEN pc + 4 + inst.IMM * 4 ELSE pc + 4)

Transfers == \/ Insn("OP_J") /\ Goto(inst.LABEL)
             \/ InsnR("OP_JR") /\ Goto(r[inst.RS])
             \/ Insn("OP_BEQ") /\ Branch(r[inst.RS] = r[inst.RT])
             \/ Insn("OP_BNE") /\ Branch(r[inst.RS] # r[inst.RT])
-------------------------------------------------------------------------------
\* One of the three default: exit(-1).
Unknown == /\ \A op \in DOMAIN OPCODES : ~Insn(op)
           /\ \A fun \in DOMAIN FUNCS_R : ~InsnR(fun)
           /\ \A fun \in DOMAIN FUNCS_F : ~InsnF(fun)

\* The end of the parent: by a fetch outside the memory, or after the push.
Dies(record) == /\ dead' = TRUE
                /\ pushed' = record
                /\ UNCHANGED <<mem, r, f, pc, sigle_routing>>

FetchFault == Running /\ ~InRange(pc) /\ Dies(pushed)

Fault == /\ Fetched
         /\ \/ Unknown
            \/ (Insn("OP_LW") \/ Insn("OP_LWC1")) /\ ~Loads
         /\ Dies(inst)

Ended == ~Running /\ UNCHANGED vars

Next == \/ SetsRD \/ SetsRT \/ SetsFloat \/ Stores \/ Transfers
        \/ FetchFault \/ Fault \/ Ended
===============================================================================
