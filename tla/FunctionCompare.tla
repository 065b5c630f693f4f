---------------------------- MODULE FunctionCompare ----------------------------
(***************************************************************************)
(* The functional simulators of Project04 and Project01 side by side: the  *)
(* same memory image, the same contents of what malloc returned, and a     *)
(* turn of both loops at a time.  When one has stopped the other goes on   *)
(* alone.                                                                  *)
(***************************************************************************)
EXTENDS FunctionSim

CONSTANTS TestAddr, TestFloat   \* as in FunctionSim01

ASSUME TestAssumption == TestAddr \in Nat /\ TestFloat \in Int32

VARIABLES mem01, r01, f01, pc01, dead01, pushed01, sigle_routing01,
          touched    \* history: something read the word the memory test left

vars01 == <<mem01, r01, f01, pc01, dead01, pushed01, sigle_routing01>>
cvars  == <<vars, vars01, touched>>

P01 == INSTANCE FunctionSim01 WITH
           mem <- mem01, r <- r01, f <- f01, pc <- pc01, dead <- dead01,
           pushed <- pushed01, sigle_routing <- sigle_routing01

TestWord == TestAddr .. TestAddr + 3

\* Two memories that differ in the word of the test only.
SameMemory(m, n) == \A a \in DOMAIN m \ TestWord : m[a] = n[a]

CInit == /\ \E input \in Programs, g, h \in Garbage :
              Start(input, g, h) /\ P01!Start(input, g, h)
         /\ touched = FALSE

\* Both are built with the same float arithmetic.
SameFloats == (InsnF("OP_ADDS") \/ InsnF("OP_MULS")) /\ ~dead' =>
                 f01'[inst.RD] = f'[inst.RD]

\* The fetch, and the load if it is one.
Touches == /\ P01!Running
           /\ \/ (pc01 .. pc01 + 3) \intersect TestWord # {}
              \/ /\ P01!Insn("OP_LW") \/ P01!Insn("OP_LWC1")
                 /\ (P01!Addr .. P01!Addr + 3) \intersect TestWord # {}

CNext == /\ Next
         /\ P01!Next
         /\ SameFloats
         /\ touched' = (touched \/ Touches)

CSpec == CInit /\ [][CNext]_cvars
-------------------------------------------------------------------------------
\* Splitting Project01's file into Project04's kept what programs do: as long as
\* nothing reads what the memory test left at TestAddr, the machines agree after
\* every instruction, and where Project04 gives up Project01 does as well, unless
\* the instruction names one of the float registers Project04 has not got.
SameMachine == ~touched =>
    IF dead
      THEN dead01 \/ ~({inst.RS, inst.RT, inst.RD} \subseteq FloatRegs)
      ELSE /\ ~dead01
           /\ <<r, pc, sigle_routing>> = <<r01, pc01, sigle_routing01>>
           /\ SameMemory(mem, mem01)
           /\ \A k \in FloatRegs : f[k] = f01[k]
===============================================================================
