------------------------------ MODULE MCPipeline ------------------------------
(***************************************************************************)
(* Instructions to run Pipeline with: an addition that reads the register  *)
(* the loads write, loads of two blocks and a store to one of them that    *)
(* meet in one set, and a jump.  RD of a load is bits 11 to 15 of its      *)
(* immediate operand, as InstDecode cuts them.                             *)
(***************************************************************************)
EXTENDS Pipeline

Add(rs, rt, rd) == [OPCODE |-> "ALU", RS |-> rs, RT |-> rt, RD |-> rd, ADDR |-> 0]
Lw(rt, rd, addr) == [OPCODE |-> "LOAD", RS |-> 29, RT |-> rt, RD |-> rd, ADDR |-> addr]
Sw(rt, rd, addr) == [OPCODE |-> "STORE", RS |-> 29, RT |-> rt, RD |-> rd, ADDR |-> addr]
J                == [OPCODE |-> "JMP", RS |-> 0, RT |-> 0, RD |-> 0, ADDR |-> 0]

\* lw $2 with an immediate of 4096 (RD = 2), and with a small one (RD = 0).
MixedKinds == {Add(2, 3, 4), Lw(2, 2, 4096), Lw(2, 0, 8), Sw(3, 0, 16), J}
===============================================================================
