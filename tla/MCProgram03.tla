------------------------------ MODULE MCProgram03 ------------------------------
(***************************************************************************)
(* Program03 with 96 bytes of memory: data from 0, the program from 16,    *)
(* two floats at 56, the stack pointer at 72.  The programs are loops of   *)
(* two turns around two of the words of Body, or three of Memory.          *)
(***************************************************************************)
EXTENDS Program03

\* Instruction words, with the top bit as the sign.
Top(op)               == (IF op >= 32 THEN op - 64 ELSE op) * 67108864
IWord(op, rs, rt, imm) == Top(OPCODES[op]) + rs * 2097152 + rt * 65536 + (imm % 65536)
RWord(op, rs, rt, rd, shamt, fun) ==
    Top(op) + rs * 2097152 + rt * 65536 + rd * 2048 + shamt * 64 + fun

ReturnWord == RWord(0, 31, 0, 0, 0, 8)

\* lw $2, 12($gp); lw $2, 0($2) over its own base; sw $1, 8($gp); sw $2, 8($sp)
Memory == {IWord("OP_LW", 28, 2, 12), IWord("OP_LW", 2, 2, 0),
           IWord("OP_SW", 28, 1, 8), IWord("OP_SW", 29, 2, 8)}

\* And lw $3, 0($sp); lwc1 $f1, 64($1); swc1 $f1, 4($gp); an addition that names
\* $0 as loads with small offsets do in their RD; a multiplication.
Body == Memory \cup {IWord("OP_LW", 29, 3, 0), IWord("OP_LWC1", 1, 1, 64),
                     IWord("OP_SWC1", 28, 1, 4),
                     RWord(0, 2, 0, 3, 0, 32), RWord(17, 1, 2, 3, 0, 2)}

Loop(body) == <<IWord("OP_ADDI", 28, 1, 2)>> \o body
                \o <<IWord("OP_ADDI", 1, 1, -1),
                     IWord("OP_BNE", 28, 1, -2 - Len(body)), ReturnWord>>

Short == <<IWord("OP_SW", 28, 1, 0), ReturnWord>>

\* The instructions the loops have not got, with a jump over one word.
Tour == <<RWord(0, 0, 1, 2, 2, 0), IWord("OP_SLTI", 1, 2, 9), IWord("OP_MOVE", 29, 4, 0),
          RWord(17, 1, 2, 3, 0, 0), IWord("OP_BEQ", 1, 28, 1), Top(2) + 44,
          Top(63), ReturnWord>>

\* Twelve words, of which the floats cover the last two.
Long == <<ReturnWord>> \o [k \in 1 .. 11 |-> k]

MCData   == <<4, 12, 8, 12>>
LongData == MCData \o [k \in 1 .. 12 |-> -k]

MCInputs == {Loop(<<x, y>>) : x, y \in Body}
              \cup {Loop(<<x, y, z>>) : x, y, z \in Memory}
              \cup {Short, Tour, Long, <<Top(63)>>, <<RWord(17, 1, 16, 1, 0, 0)>>}

MCFiles == {[data |-> MCData, input |-> i] : i \in MCInputs}
             \cup {[data |-> LongData, input |-> i] : i \in {Short, Long}}
             \cup {[data |-> <<8, BAD, 9>>, input |-> Short],
                   [data |-> MCData, input |-> <<ReturnWord, BAD>>]}

MCFloats  == <<0, 1065353216>>
MCResults == {1065353216}
===============================================================================
