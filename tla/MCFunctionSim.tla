----------------------------- MODULE MCFunctionSim -----------------------------
(***************************************************************************)
(* FunctionSim and FunctionCompare with 64 bytes of memory: four words of  *)
(* data, the program from 16, the memory test at 48, two floats at the     *)
(* top.  The programs are those of two and three of the words below, the   *)
(* third a load, a store or a transfer.                                    *)
(***************************************************************************)
EXTENDS FunctionCompare

\* Instruction words, with the top bit as the sign.
Top(op)               == (IF op >= 32 THEN op - 64 ELSE op) * 67108864
IWord(op, rs, rt, imm) == Top(OPCODES[op]) + rs * 2097152 + rt * 65536 + (imm % 65536)
RWord(op, rs, rt, rd, shamt, fun) ==
    Top(op) + rs * 2097152 + rt * 65536 + rd * 2048 + shamt * 64 + fun

\* Loads and stores, one of each below, at and behind the end of the memory, one
\* into the program, one load over its own base.
Accesses == {IWord("OP_LW", 1, 1, 0), IWord("OP_LW", 0, 2, 6),
             IWord("OP_SW", 29, 2, 0), IWord("OP_SW", 29, 29, 2), IWord("OP_SW", 0, 1, 20),
             IWord("OP_LWC1", 29, 1, -4), IWord("OP_SWC1", 0, 1, 9)}

Transfers == {IWord("OP_BEQ", 1, 2, -6), IWord("OP_BNE", 1, 2, -2),
              Top(2) + 0, Top(2) + 20,
              RWord(0, 31, 0, 0, 0, 8), RWord(0, 1, 0, 0, 0, 8)}

Arithmetic == {IWord("OP_ADDI", 1, 1, -4), IWord("OP_SLTI", 1, 2, 1),
               IWord("OP_MOVE", 1, 2, 0),
               RWord(0, 0, 1, 2, 29, 0), RWord(0, 1, 2, 1, 0, 32),
               RWord(17, 1, 1, 1, 0, 0), RWord(17, 1, 1, 2, 0, 2)}

\* An unknown opcode, an unknown FUNC of both kinds, float registers past f.
Faults == {Top(63), RWord(0, 0, 0, 0, 0, 63), RWord(17, 0, 0, 0, 0, 1),
           RWord(17, 1, 16, 1, 0, 0), IWord("OP_SWC1", 0, 16, 0)}

Good == Accesses \union Transfers \union Arithmetic

MCPrograms == {<<a, b>> : a \in Good, b \in Good \union Faults}
                \union {<<a, b, c>> : a \in Good, b \in Accesses \union Arithmetic,
                                      c \in Accesses \union Transfers}
MCFloats   == <<0, 1065353216>>
MCData     == <<0, -1, 40, MinInt>>
MCResults  == {1065353216, -1082130432}
===============================================================================
