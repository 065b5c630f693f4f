-------------------------------- MODULE MainMem --------------------------------
(***************************************************************************)
(* What the functional simulators of Project01 and Project04 share: the    *)
(* memory of mainmem.h, the loader readinst_data, InstDecode of decode.c   *)
(* and the operation codes of mips_sim.h.  (Project01 holds the same text  *)
(* in mips_sim.c.)                                                         *)
(*                                                                         *)
(* A 32-bit word is the signed number it is as a C int.  A float is its    *)
(* bit pattern.                                                            *)
(***************************************************************************)
EXTENDS Integers, Sequences

\* Powers of two.
Bit8  == 256
Bit11 == 8 * Bit8
Bit16 == Bit8 * Bit8
Bit21 == 32 * Bit16
Bit24 == Bit8 * Bit16
Bit26 == 4 * Bit24

\* The range of a C int.
MaxInt == 127 * Bit24 + (Bit24 - 1)
MinInt == -MaxInt - 1
Int32  == MinInt .. MaxInt

CONSTANTS MEMSIZE,       \* bytes of memory, 0x80000 in the code
          Entry,         \* where the program starts, 0x1000 in the code
          SP,            \* r[29] of init, 0x8000 in the code
          Frame,         \* fp of readinst_data, SP - 268 in the code
          FloatInit,     \* the bits of 0.0, 1.0, ...: 64 of them in the code
          DataFile       \* the words of ./data

ASSUME MemoryAssumption == /\ MEMSIZE \in 4 .. MaxInt
                           /\ Entry \in Nat \ {0}
                           /\ SP \in Int32
                           /\ Frame \in Nat
ASSUME WordsAssumption == DataFile \in Seq(Int32) /\ FloatInit \in Seq(Int32)
-------------------------------------------------------------------------------
(* 32-bit arithmetic. *)

Add32(a, b) == IF b > 0 /\ a > MaxInt - b THEN (a + MinInt) + (b + MinInt)
               ELSE IF b < 0 /\ a < MinInt - b THEN (a - MinInt) + (b - MinInt)
               ELSE a + b

\* x << n for n in 0 .. 31, one stage for each bit of n.
Shl1(x)  == Add32(x, x)
Shl2(x)  == Shl1(Shl1(x))
Shl4(x)  == Shl2(Shl2(x))
Shl8(x)  == Shl4(Shl4(x))
Shl16(x) == Shl8(Shl8(x))
Stage(on, shifted, x) == IF on % 2 = 1 THEN shifted ELSE x
Shl(x, n) == LET a == Stage(n, Shl1(x), x)
                 b == Stage(n \div 2, Shl2(a), a)
                 c == Stage(n \div 4, Shl4(b), b)
                 d == Stage(n \div 8, Shl8(c), c)
             IN Stage(n \div 16, Shl16(d), d)

\* A byte whose higher neighbours are not cut off.
Byte_Uncut(word, j) == CASE j = 0 -> word
                         [] j = 1 -> word \div Bit8
                         [] j = 2 -> word \div Bit16
                         [] j = 3 -> word \div Bit24

\* Byte j of a word, little-endian.
Byte(word, j) == (CASE j = 0 -> word
                    [] j = 1 -> word \div Bit8
                    [] j = 2 -> word \div Bit16
                    [] j = 3 -> word \div Bit24) % Bit8

SignExtend(half) == IF half >= 128 * Bit8 THEN half - Bit16 ELSE half
-------------------------------------------------------------------------------
(* mainmem.h *)

\* The size added in 32 bits: the last words of the address space wrap to 0.
InRange_Wraps(a) == a \in 0 .. MEMSIZE - 4 \/ a \in -4 .. -1

\* address + size > MEMSIZE, with a negative address a large unsigned number.
InRange(a) == a \in 0 .. MEMSIZE - 4

read_mem(m, a) == LET b(k) == IF a + k \in DOMAIN m THEN m[a + k] ELSE 0
                  IN b(0) + Bit8 * b(1) + Bit16 * b(2)
                       + Bit24 * (IF b(3) > 127 THEN b(3) - 256 ELSE b(3))

\* A store that does not check the address.
write_mem_Unchecked(m, a, word) ==
    [m EXCEPT ![a] = Byte(word, 0), ![a + 1] = Byte(word, 1),
              ![a + 2] = Byte(word, 2), ![a + 3] = Byte(word, 3)]

\* A word that does not fit is reported and dropped.
write_mem(m, a, word) ==
    IF InRange(a)
      THEN [m EXCEPT ![a] = Byte(word, 0), ![a + 1] = Byte(word, 1),
                     ![a + 2] = Byte(word, 2), ![a + 3] = Byte(word, 3)]
      ELSE m

\* Storing words from base on, one after the other, changes byte a.
Writes(a, base, words) ==
    LET k == (a - base) \div 4
    IN k \in 0 .. Len(words) - 1 /\ InRange(base + 4 * k)

write_words(m, base, words) ==
    [a \in DOMAIN m |-> IF Writes(a, base, words)
                          THEN Byte(words[(a - base) \div 4 + 1], (a - base) % 4)
                          ELSE m[a]]

ZeroMem == [a \in 0 .. MEMSIZE - 1 |-> 0]

\* ./data from 0 up, ./input from Entry up, then the floats over both.
readinst_data(m, input) ==
    write_words(write_words(write_words(m, 0, DataFile), Entry, input),
                Frame, FloatInit)
-------------------------------------------------------------------------------
(* decode.c and mips_sim.h *)

InstDecode(insn) == [OPCODE |-> (insn \div Bit26) % 64,
                     RS     |-> (insn \div Bit21) % 32,
                     RT     |-> (insn \div Bit16) % 32,
                     RD     |-> (insn \div Bit11) % 32,
                     IMM    |-> SignExtend(insn % Bit16),
                     SHAMT  |-> (insn \div 64) % 32,
                     FUNC   |-> insn % 64,
                     LABEL  |-> insn % Bit26]

OPCODES == [OP_J |-> 2, OP_BEQ |-> 4, OP_BNE |-> 5, OP_ADDI |-> 8, OP_SLTI |-> 10,
            OP_LW |-> 35, OP_SW |-> 43, OP_MOVE |-> 47, OP_LWC1 |-> 49, OP_SWC1 |-> 57]
FUNCS_R == [OP_SLL |-> 0, OP_JR |-> 8, OP_ADD |-> 32]
FUNCS_F == [OP_ADDS |-> 0, OP_MULS |-> 2]
OP_RTYPE == 0
OP_FTYPE == 17
===============================================================================
