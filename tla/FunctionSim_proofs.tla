-------------------------- MODULE FunctionSim_proofs ---------------------------
(***************************************************************************)
(* Proofs about FunctionSim for every program and memory size: what the    *)
(* functional simulator promises the timing simulator about its trace, and *)
(* that Project01's machine does the same.                                 *)
(***************************************************************************)
EXTENDS FunctionCompare, TLAPS
-------------------------------------------------------------------------------
(* Words and bytes. *)

LEMMA Bounds == MaxInt \in Nat /\ MinInt \in Int /\ MinInt = -MaxInt - 1
  BY DEF MaxInt, MinInt, Bit24, Bit16, Bit8

LEMMA SumIsWord == ASSUME NEW a \in Int32, NEW b \in Int32 PROVE Add32(a, b) \in Int32
  BY Bounds, SMT DEF Add32, Int32

LEMMA ShiftIsWord ==
    ASSUME NEW x \in Int32, NEW n \in 0 .. 31 PROVE Shl(x, n) \in Int32
<1>1. \A y \in Int32 : Shl1(y) \in Int32
  BY SumIsWord DEF Shl1
<1>2. \A y \in Int32 : Shl2(y) \in Int32
  BY <1>1 DEF Shl2
<1>3. \A y \in Int32 : Shl4(y) \in Int32
  BY <1>2 DEF Shl4
<1>4. \A y \in Int32 : Shl8(y) \in Int32
  BY <1>3 DEF Shl8
<1>5. \A y \in Int32 : Shl16(y) \in Int32
  BY <1>4 DEF Shl16
<1>. DEFINE a == Stage(n, Shl1(x), x)
            b == Stage(n \div 2, Shl2(a), a)
            c == Stage(n \div 4, Shl4(b), b)
            d == Stage(n \div 8, Shl8(c), c)
<1>6. a \in Int32
  BY <1>1, Zenon DEF Stage
<1>7. b \in Int32
  <2>. HIDE DEF a
  <2>. QED BY <1>2, <1>6, Zenon DEF Stage
<1>8. c \in Int32
  <2>. HIDE DEF b
  <2>. QED BY <1>3, <1>7, Zenon DEF Stage
<1>9. d \in Int32
  <2>. HIDE DEF c
  <2>. QED BY <1>4, <1>8, Zenon DEF Stage
<1>10. Stage(n \div 16, Shl16(d), d) \in Int32
  <2>. HIDE DEF d
  <2>. QED BY <1>5, <1>9, Zenon DEF Stage
<1>. QED BY <1>10, Zenon DEF Shl

LEMMA ByteRange == ASSUME NEW w \in Int32, NEW j \in 0 .. 3 PROVE Byte(w, j) \in 0 .. 255
  BY Bounds, SMT DEF Byte, Int32, Bit24, Bit16, Bit8

\* A digit in front of a number below B.
LEMMA Digit ==
    ASSUME NEW B \in Nat \ {0}, NEW lo \in 0 .. B - 1, NEW n \in Nat, NEW d \in -n .. n - 1
    PROVE  /\ lo + B * d \in -(B * n) .. B * n - 1
           /\ d >= 0 => lo + B * d >= 0
<1>1. B * d <= B * (n - 1) /\ -(B * n) <= B * d
  <2>1. B * (n - 1 - d) >= 0 /\ B * (d + n) >= 0
    BY SMT
  <2>. QED BY <2>1, SMT
<1>2. B * (n - 1) = B * n - B /\ B * d \in Int /\ B * n \in Int
  BY SMT
<1>3. d >= 0 => B * d >= 0
  BY SMT
<1>. QED BY <1>1, <1>2, <1>3, SMT

Memories == [0 .. MEMSIZE - 1 -> 0 .. 255]

\* Four bytes of the memory are a word.
LEMMA ReadIsWord ==
    ASSUME NEW m \in Memories, NEW a \in Int, InRange(a)
    PROVE  read_mem(m, a) \in Int32
<1>. DEFINE b(k) == IF a + k \in DOMAIN m THEN m[a + k] ELSE 0
<1>1. \A k \in 0 .. 3 : b(k) \in 0 .. 255
  BY MemoryAssumption DEF Memories, InRange
<1>2. b(0) \in 0 .. 255 /\ b(1) \in 0 .. 255 /\ b(2) \in 0 .. 255 /\ b(3) \in 0 .. 255
  BY <1>1
<1>3. read_mem(m, a) = b(0) + Bit8 * b(1) + Bit16 * b(2)
                         + Bit24 * (IF b(3) > 127 THEN b(3) - 256 ELSE b(3))
  BY Zenon DEF read_mem
<1>. HIDE DEF b
<1>4. Bit16 \in Nat \ {0} /\ Bit24 \in Nat \ {0}
  BY SMT DEF Bit24, Bit16, Bit8
<1>5. b(0) + Bit8 * b(1) \in 0 .. Bit16 - 1
  <2>1. Bit8 \in Nat \ {0} /\ b(0) \in 0 .. Bit8 - 1
    BY <1>2 DEF Bit8
  <2>2. /\ b(0) + Bit8 * b(1) \in -(Bit8 * 256) .. Bit8 * 256 - 1
        /\ b(0) + Bit8 * b(1) >= 0
    BY <1>2, <2>1, Digit
  <2>3. Bit8 * 256 = Bit16
    BY DEF Bit16, Bit8
  <2>. QED BY <1>4, <2>2, <2>3
<1>6. /\ (b(0) + Bit8 * b(1)) + Bit16 * b(2) \in -(Bit16 * 256) .. Bit16 * 256 - 1
      /\ (b(0) + Bit8 * b(1)) + Bit16 * b(2) >= 0
  BY <1>2, <1>4, <1>5, Digit
<1>7. b(0) + Bit8 * b(1) + Bit16 * b(2) \in 0 .. Bit24 - 1
  BY <1>2, <1>4, <1>5, <1>6, SMT DEF Bit24, Bit8
<1>8. DEFINE top == IF b(3) > 127 THEN b(3) - 256 ELSE b(3)
<1>9. top \in -128 .. 127
  BY <1>2
<1>10. (b(0) + Bit8 * b(1) + Bit16 * b(2)) + Bit24 * top
          \in -(Bit24 * 128) .. Bit24 * 128 - 1
  BY <1>4, <1>7, <1>9, Digit
<1>11. Bit24 * 128 - 1 = MaxInt /\ -(Bit24 * 128) = MinInt
  BY <1>4, SMT DEF MaxInt, MinInt
<1>. QED BY <1>3, <1>10, <1>11 DEF Int32

LEMMA WriteIsMemory ==
    ASSUME NEW m \in Memories, NEW base \in Int, NEW words \in Seq(Int32)
    PROVE  write_words(m, base, words) \in Memories
<1>. SUFFICES ASSUME NEW a \in 0 .. MEMSIZE - 1
              PROVE  (IF Writes(a, base, words)
                        THEN Byte(words[(a - base) \div 4 + 1], (a - base) % 4)
                        ELSE m[a]) \in 0 .. 255
  BY DEF write_words, Memories
<1>1. CASE Writes(a, base, words)
  <2>1. (a - base) \div 4 + 1 \in 1 .. Len(words)
    BY <1>1, MemoryAssumption DEF Writes
  <2>2. words[(a - base) \div 4 + 1] \in Int32
    BY <2>1
  <2>3. (a - base) % 4 \in 0 .. 3
    BY MemoryAssumption
  <2>. QED BY <1>1, <2>2, <2>3, ByteRange
<1>2. CASE ~Writes(a, base, words)
  BY <1>2 DEF Memories
<1>. QED BY <1>1, <1>2

\* Four entries replaced, wherever they are.
LEMMA FourReplaced ==
    ASSUME NEW S, NEW V, NEW m \in [S -> V], NEW a \in Int,
           NEW b0 \in V, NEW b1 \in V, NEW b2 \in V, NEW b3 \in V
    PROVE  LET n == [m EXCEPT ![a] = b0, ![a + 1] = b1, ![a + 2] = b2, ![a + 3] = b3]
           IN  /\ n \in [S -> V]
               /\ \A x \in S : x \notin {a, a + 1, a + 2, a + 3} => n[x] = m[x]
  OBVIOUS

\* A store leaves a memory, and changes four bytes of it at most.
LEMMA StoreIsMemory ==
    ASSUME NEW m \in Memories, NEW a \in Int, NEW word \in Int32
    PROVE  /\ write_mem(m, a, word) \in Memories
           /\ \A x \in 0 .. MEMSIZE - 1 : x \notin a .. a + 3 => write_mem(m, a, word)[x] = m[x]
<1>1. CASE InRange(a)
  <2>1. /\ Byte(word, 0) \in 0 .. 255 /\ Byte(word, 1) \in 0 .. 255
        /\ Byte(word, 2) \in 0 .. 255 /\ Byte(word, 3) \in 0 .. 255
    BY ByteRange
  <2>2. m \in [0 .. MEMSIZE - 1 -> 0 .. 255]
    BY DEF Memories
  <2>3. /\ write_mem(m, a, word) \in [0 .. MEMSIZE - 1 -> 0 .. 255]
        /\ \A x \in 0 .. MEMSIZE - 1 :
              x \notin {a, a + 1, a + 2, a + 3} => write_mem(m, a, word)[x] = m[x]
    BY <1>1, <2>1, <2>2, FourReplaced, Zenon DEF write_mem
  <2>4. {a, a + 1, a + 2, a + 3} \subseteq a .. a + 3
    OBVIOUS
  <2>. QED BY <2>3, <2>4, Zenon DEF Memories
<1>2. CASE ~InRange(a)
  BY <1>2 DEF write_mem
<1>. QED BY <1>1, <1>2

\* A word is what its bytes say.
LEMMA FourDigits ==
    ASSUME NEW w \in Int
    PROVE  w = (w % 256) + 256 * ((w \div 256) % 256) + 65536 * ((w \div 65536) % 256)
                 + 16777216 * (w \div 16777216)
  BY SMTT(30)

\* The sign is in the top byte.
LEMMA TopByte ==
    ASSUME NEW w \in Int32
    PROVE  LET t == w \div Bit24
           IN  t = IF t % 256 > 127 THEN (t % 256) - 256 ELSE t % 256
<1>0. Bit24 = 16777216
  BY SMT DEF Bit24, Bit16, Bit8
<1>1. w \in Int /\ -MaxInt - 1 <= w /\ w <= MaxInt
  BY Bounds, SMT DEF Int32
<1>2. w \div 16777216 \in -128 .. 127
  <2>1. MaxInt = 2147483647
    BY <1>0, SMT DEF MaxInt
  <2>. QED BY <1>1, <2>1, SMTT(30)
<1>. QED BY <1>0, <1>2, SMTT(30)

LEMMA BytesAreWord ==
    ASSUME NEW m, NEW a \in Int, NEW w \in Int32,
           \A j \in 0 .. 3 : a + j \in DOMAIN m /\ m[a + j] = Byte(w, j)
    PROVE  read_mem(m, a) = w
<1>1. w \in Int
  BY Bounds DEF Int32
<1>2. /\ Byte(w, 0) = w % 256 /\ Byte(w, 1) = (w \div 256) % 256
      /\ Byte(w, 2) = (w \div 65536) % 256 /\ Byte(w, 3) = (w \div 16777216) % 256
  BY SMT DEF Byte, Bit24, Bit16, Bit8
<1>. DEFINE t == w \div 16777216
            b(k) == IF a + k \in DOMAIN m THEN m[a + k] ELSE 0
<1>3. b(0) = Byte(w, 0) /\ b(1) = Byte(w, 1) /\ b(2) = Byte(w, 2) /\ b(3) = Byte(w, 3)
  OBVIOUS
<1>4. read_mem(m, a) = b(0) + Bit8 * b(1) + Bit16 * b(2)
                         + Bit24 * (IF b(3) > 127 THEN b(3) - 256 ELSE b(3))
  BY Zenon DEF read_mem
<1>5. t = IF t % 256 > 127 THEN (t % 256) - 256 ELSE t % 256
  BY TopByte, SMT DEF Bit24, Bit16, Bit8
<1>. HIDE DEF b
<1>6. read_mem(m, a) = (w % 256) + 256 * ((w \div 256) % 256)
                         + 65536 * ((w \div 65536) % 256) + 16777216 * t
  <2>. HIDE DEF t
  <2>1. (IF b(3) > 127 THEN b(3) - 256 ELSE b(3)) = t
    BY <1>2, <1>3, <1>5, SMT DEF t
  <2>2. read_mem(m, a) = b(0) + Bit8 * b(1) + Bit16 * b(2) + Bit24 * t
    BY <1>4, <2>1, Zenon
  <2>3. Bit8 = 256 /\ Bit16 = 65536 /\ Bit24 = 16777216
    BY SMT DEF Bit24, Bit16, Bit8
  <2>. QED BY <1>2, <1>3, <2>2, <2>3, SMT
<1>. QED BY <1>1, <1>6, FourDigits, SMT

\* The four bytes of a store.
LEMMA FourStored ==
    ASSUME NEW S, NEW V, NEW m \in [S -> V], NEW a \in Int, a .. a + 3 \subseteq S,
           NEW b0, NEW b1, NEW b2, NEW b3
    PROVE  LET n == [m EXCEPT ![a] = b0, ![a + 1] = b1, ![a + 2] = b2, ![a + 3] = b3]
           IN  n[a] = b0 /\ n[a + 1] = b1 /\ n[a + 2] = b2 /\ n[a + 3] = b3
  OBVIOUS

LEMMA StoredBytes ==
    ASSUME NEW m \in Memories, NEW a \in Int, InRange(a), NEW w, NEW j \in 0 .. 3
    PROVE  write_mem(m, a, w)[a + j] = Byte(w, j)
<1>1. a .. a + 3 \subseteq 0 .. MEMSIZE - 1
  BY MemoryAssumption DEF InRange
<1>2. m \in [0 .. MEMSIZE - 1 -> 0 .. 255]
  BY DEF Memories
<1>3. /\ write_mem(m, a, w)[a] = Byte(w, 0) /\ write_mem(m, a, w)[a + 1] = Byte(w, 1)
      /\ write_mem(m, a, w)[a + 2] = Byte(w, 2) /\ write_mem(m, a, w)[a + 3] = Byte(w, 3)
  BY <1>1, <1>2, FourStored DEF write_mem
<1>4. j = 0 \/ j = 1 \/ j = 2 \/ j = 3
  OBVIOUS
<1>. QED BY <1>3, <1>4

\* A stored word is read back.
LEMMA ReadBack ==
    ASSUME NEW m \in Memories, NEW a \in Int, InRange(a), NEW w \in Int32
    PROVE  read_mem(write_mem(m, a, w), a) = w
<1>1. DOMAIN write_mem(m, a, w) = 0 .. MEMSIZE - 1
  BY StoreIsMemory DEF Memories
<1>2. \A j \in 0 .. 3 : a + j \in 0 .. MEMSIZE - 1
  BY MemoryAssumption DEF InRange
<1>3. ASSUME NEW j \in 0 .. 3
      PROVE  a + j \in DOMAIN write_mem(m, a, w) /\ write_mem(m, a, w)[a + j] = Byte(w, j)
  BY <1>1, <1>2, StoredBytes
<1>. QED BY <1>3, BytesAreWord
-------------------------------------------------------------------------------
(* Decoding. *)

LEMMA RemainderRange == ASSUME NEW x \in Int, NEW n \in Nat \ {0} PROVE x % n \in 0 .. n - 1
  BY SMT

LEMMA QuotientInt == ASSUME NEW x \in Int, NEW n \in Nat \ {0} PROVE x \div n \in Int
  BY SMT

LEMMA Powers == /\ Bit8 \in Nat \ {0} /\ Bit11 \in Nat \ {0} /\ Bit16 \in Nat \ {0}
                /\ Bit21 \in Nat \ {0} /\ Bit24 \in Nat \ {0} /\ Bit26 \in Nat \ {0}
                /\ Bit16 <= MaxInt /\ Int32 \subseteq Int
<1>1. Bit8 \in Nat \ {0}
  BY DEF Bit8
<1>2. Bit11 \in Nat \ {0} /\ Bit16 \in Nat \ {0}
  BY <1>1 DEF Bit11, Bit16
<1>3. Bit21 \in Nat \ {0} /\ Bit24 \in Nat \ {0}
  BY <1>1, <1>2 DEF Bit21, Bit24
<1>4. Bit26 \in Nat \ {0}
  BY <1>3 DEF Bit26
<1>5. Bit16 <= Bit24
  BY <1>1, <1>2 DEF Bit24
<1>6. Bit16 <= MaxInt
  BY <1>2, <1>3, <1>5 DEF MaxInt
<1>7. Int32 \subseteq Int
  BY Bounds DEF Int32
<1>. QED BY <1>1, <1>2, <1>3, <1>4, <1>6, <1>7

Decoded(i) == /\ i.RS \in Regs /\ i.RT \in Regs /\ i.RD \in Regs
              /\ i.SHAMT \in 0 .. 31
              /\ i.IMM \in Int32
              /\ i.LABEL \in Nat

LEMMA DecodeRanges == ASSUME NEW insn \in Int32 PROVE Decoded(InstDecode(insn))
<1>. insn \in Int
  BY Powers
<1>. DEFINE Five(n) == (insn \div n) % 32 \in 0 .. 31
<1>1. ASSUME NEW n \in Nat \ {0} PROVE Five(n)
  <2>1. insn \div n \in Int
    BY QuotientInt
  <2>. QED BY <2>1, RemainderRange
<1>5. Five(Bit21) /\ Five(Bit16) /\ Five(Bit11) /\ Five(64)
  <2>. HIDE DEF Five
  <2>. QED BY <1>1, Powers
<1>4. /\ (insn \div Bit21) % 32 \in 0 .. 31
      /\ (insn \div Bit16) % 32 \in 0 .. 31
      /\ (insn \div Bit11) % 32 \in 0 .. 31
      /\ (insn \div 64) % 32 \in 0 .. 31
  BY <1>5
<1>2. insn % Bit16 \in 0 .. Bit16 - 1 /\ insn % Bit26 \in Nat
  BY Powers, RemainderRange
<1>3. SignExtend(insn % Bit16) \in Int32
  BY <1>2, Powers, Bounds DEF SignExtend, Int32
<1>. QED BY <1>2, <1>3, <1>4, Zenon DEF InstDecode, Decoded, Regs

\* The instruction the program counter is at.
LEMMA InstRanges ==
    ASSUME TypeOK, InRange(pc) PROVE Decoded(inst) /\ Addr \in Int32
<1>1. read_mem(mem, pc) \in Int32
  BY ReadIsWord DEF TypeOK, Memories
<1>2. Decoded(inst)
  BY <1>1, DecodeRanges, Zenon DEF inst
<1>. QED BY <1>2, SumIsWord DEF Addr, TypeOK, Decoded
-------------------------------------------------------------------------------
(* What every executed instruction does. *)

LEMMA RetireEffect ==
    ASSUME TypeOK, Running, InRange(pc),
           NEW kind \in Kinds, NEW cycles \in Nat, NEW next \in Int,
           NEW regs \in [Regs -> Int32], NEW used \in Int32,
           Retire(kind, cycles, next, regs, used)
    PROVE  /\ r' = regs /\ pc' = next /\ accessed' = used
           /\ dead' \in BOOLEAN /\ mult_cycle' \in Nat /\ sigle_routing' \in 0 .. MaxSteps
           /\ last' \in INSTR_TIMSIM
           /\ last'.OPCODE = kind
           /\ kind # "FPU" => last'.RS = inst.RS /\ last'.RT = inst.RT
           /\ last'.ADDR = Add32(regs[inst.RS], inst.IMM)
<1>1. Decoded(inst)
  BY InstRanges
<1>2. last' = FUCDecode2TIM(kind, inst, regs)
  BY DEF Retire
<1>3. Add32(regs[inst.RS], inst.IMM) \in Int32
  BY <1>1, SumIsWord DEF Decoded
<1>4. last' \in INSTR_TIMSIM
  BY <1>1, <1>2, <1>3 DEF FUCDecode2TIM, INSTR_TIMSIM, Decoded, Regs, ireg_size
<1>5. /\ last'.OPCODE = kind
      /\ kind # "FPU" => last'.RS = inst.RS /\ last'.RT = inst.RT
      /\ last'.ADDR = Add32(regs[inst.RS], inst.IMM)
  BY <1>1, <1>2 DEF FUCDecode2TIM, Decoded, Regs
<1>6. /\ r' = regs /\ pc' = next /\ accessed' = used
      /\ dead' \in BOOLEAN /\ mult_cycle' \in Nat /\ sigle_routing' \in 0 .. MaxSteps
  BY BoundAssumption DEF Retire, TypeOK, Running
<1>. QED BY <1>4, <1>5, <1>6

IInv == TypeOK /\ EndsWithTransfer /\ AddressTraced

\* After an instruction that is fetched inside the memory the next address is not 0.
LEMMA NextNotZero == ASSUME InRange(pc) PROVE Next4 \in Int /\ Next4 # 0
  BY MemoryAssumption, Bounds DEF Next4, InRange

LEMMA SetRegisterStep ==
    ASSUME TypeOK, Running, InRange(pc),
           NEW kind \in {"ALU", "MOVE"}, NEW reg \in Regs, NEW value \in Int32,
           SetRegister(kind, reg, value)
    PROVE  IInv' /\ last'.OPCODE # "STORE"
<1>1. [r EXCEPT ![reg] = value] \in [Regs -> Int32]
  BY DEF TypeOK
<1>2. 0 \in Int32
  BY Bounds DEF Int32
<1>3. /\ r' \in [Regs -> Int32] /\ pc' = Next4 /\ accessed' = 0
      /\ dead' \in BOOLEAN /\ mult_cycle' \in Nat /\ sigle_routing' \in 0 .. MaxSteps
      /\ last' \in INSTR_TIMSIM
      /\ last'.OPCODE = kind
  <2>1. Retire(kind, 5, Next4, [r EXCEPT ![reg] = value], 0)
    BY DEF SetRegister
  <2>2. kind \in Kinds /\ 5 \in Nat /\ Next4 \in Int
    BY NextNotZero DEF Kinds
  <2>. QED BY <1>1, <1>2, <2>1, <2>2, RetireEffect
<1>4. TypeOK'
  BY <1>2, <1>3, NextNotZero DEF SetRegister, TypeOK
<1>. QED BY <1>3, <1>4, NextNotZero DEF IInv, EndsWithTransfer, AddressTraced

LEMMA TransferStep ==
    ASSUME TypeOK, Running, InRange(pc),
           NEW kind \in {"BRANCH", "JMP", "JR"}, NEW next \in Int,
           Transfer(kind, next)
    PROVE  IInv' /\ last'.OPCODE # "STORE"
<1>1. 0 \in Int32
  BY Bounds DEF Int32
<1>2. /\ r' = r /\ pc' = next /\ accessed' = 0
      /\ dead' \in BOOLEAN /\ mult_cycle' \in Nat /\ sigle_routing' \in 0 .. MaxSteps
      /\ last' \in INSTR_TIMSIM
      /\ last'.OPCODE = kind
  <2>1. Retire(kind, 3, next, r, 0)
    BY DEF Transfer
  <2>2. kind \in Kinds /\ 3 \in Nat
    BY DEF Kinds
  <2>3. r \in [Regs -> Int32]
    BY DEF TypeOK
  <2>. QED BY <1>1, <2>1, <2>2, <2>3, RetireEffect
<1>3. TypeOK'
  BY <1>1, <1>2 DEF Transfer, TypeOK
<1>. QED BY <1>2, <1>3 DEF IInv, EndsWithTransfer, AddressTraced

\* A load into register file regs: the traced address is the one used unless
\* the base register was replaced.
LEMMA LoadStep ==
    ASSUME TypeOK, Running, InRange(pc),
           NEW regs \in [Regs -> Int32],
           regs[inst.RS] = r[inst.RS] \/ inst.RT = inst.RS,
           Retire("LOAD", 5, Next4, regs, Addr),
           mem' = mem, f' \in [FloatRegs -> Int32]
    PROVE  IInv' /\ last'.OPCODE # "STORE"
<1>1. Decoded(inst) /\ Addr \in Int32
  BY InstRanges
<1>2. "LOAD" \in Kinds /\ 5 \in Nat /\ Next4 \in Int /\ "LOAD" # "FPU"
  BY NextNotZero DEF Kinds
<1>3. /\ r' = regs /\ pc' = Next4 /\ accessed' = Addr
      /\ dead' \in BOOLEAN /\ mult_cycle' \in Nat /\ sigle_routing' \in 0 .. MaxSteps
      /\ last' \in INSTR_TIMSIM
      /\ last'.OPCODE = "LOAD"
      /\ last'.RS = inst.RS /\ last'.RT = inst.RT
      /\ last'.ADDR = Add32(regs[inst.RS], inst.IMM)
  BY <1>1, <1>2, RetireEffect
<1>4. TypeOK'
  BY <1>1, <1>3, NextNotZero DEF TypeOK
<1>5. last'.RT # last'.RS => last'.ADDR = accessed'
  BY <1>3 DEF Addr
<1>. QED BY <1>3, <1>4, <1>5, NextNotZero DEF IInv, EndsWithTransfer, AddressTraced

\* A store of a word, from either register file.
LEMMA StoreStep ==
    ASSUME TypeOK, Running, InRange(pc),
           NEW word \in Int32,
           mem' = write_mem(mem, Addr, word), f' = f,
           Retire("STORE", 5, Next4, r, Addr)
    PROVE  /\ IInv'
           /\ last'.OPCODE = "STORE"
           /\ \A a \in DOMAIN mem : mem'[a] # mem[a] => a \in last'.ADDR .. last'.ADDR + 3
           /\ last'.RT = inst.RT
           /\ IF InRange(accessed') THEN read_mem(mem', accessed') = word ELSE mem' = mem
<1>1. Decoded(inst) /\ Addr \in Int32 /\ Addr \in Int
  BY InstRanges, Powers
<1>2. /\ "STORE" \in Kinds /\ 5 \in Nat /\ Next4 \in Int /\ "STORE" # "FPU"
      /\ r \in [Regs -> Int32]
  BY NextNotZero DEF Kinds, TypeOK
<1>3. /\ r' = r /\ pc' = Next4 /\ accessed' = Addr
      /\ dead' \in BOOLEAN /\ mult_cycle' \in Nat /\ sigle_routing' \in 0 .. MaxSteps
      /\ last' \in INSTR_TIMSIM
      /\ last'.OPCODE = "STORE"
      /\ last'.RT = inst.RT
      /\ last'.ADDR = Add32(r[inst.RS], inst.IMM)
  BY <1>1, <1>2, RetireEffect
<1>4. last'.ADDR = Addr
  BY <1>3 DEF Addr
<1>5. mem' \in Memories
  <2>1. mem \in Memories
    BY DEF TypeOK, Memories
  <2>. QED BY <1>1, <2>1, StoreIsMemory
<1>6. TypeOK'
  BY <1>1, <1>3, <1>5, NextNotZero DEF TypeOK, Memories
<1>7. ASSUME NEW a \in DOMAIN mem, mem'[a] # mem[a]
      PROVE  a \in Addr .. Addr + 3
  <2>1. mem \in Memories /\ a \in 0 .. MEMSIZE - 1
    BY DEF TypeOK, Memories
  <2>. QED BY <1>1, <1>7, <2>1, StoreIsMemory
<1>8. IF InRange(accessed') THEN read_mem(mem', accessed') = word ELSE mem' = mem
  <2>1. CASE InRange(Addr)
    <3>1. mem \in Memories
      BY DEF TypeOK, Memories
    <3>2. read_mem(mem', Addr) = word
      BY <1>1, <2>1, <3>1, ReadBack
    <3>. QED BY <1>3, <2>1, <3>2, Zenon
  <2>2. CASE ~InRange(Addr)
    BY <1>3, <2>2 DEF write_mem
  <2>. QED BY <2>1, <2>2
<1>9. IInv'
  BY <1>3, <1>4, <1>6, NextNotZero DEF IInv, EndsWithTransfer, AddressTraced
<1>. QED BY <1>3, <1>4, <1>7, <1>8, <1>9, Zenon
-------------------------------------------------------------------------------
(* The invariant. *)

LEMMA InitIInv == Init => IInv
<1>. SUFFICES ASSUME Init PROVE IInv
  OBVIOUS
<1>0. PICK input \in Programs, g \in Garbage, h \in Garbage : Start(input, g, h)
  BY DEF Init
<1>1. 0 \in Int32 /\ SP \in Int32 /\ 0 \in Int /\ MEMSIZE \in Nat
  BY MemoryAssumption, Bounds DEF Int32
<1>2. mem \in Memories
  <2>1. mem = readinst_data(ZeroMem, input)
    BY <1>0 DEF Start, Registers
  <2>. DEFINE data  == write_words(ZeroMem, 0, DataFile)
              text  == write_words(data, Entry, input)
  <2>2. ZeroMem \in Memories
    BY DEF Memories, ZeroMem
  <2>3. data \in Memories
    BY <1>1, <2>2, WriteIsMemory, WordsAssumption
  <2>4. text \in Memories
    <3>. HIDE DEF data
    <3>1. Entry \in Int /\ input \in Seq(Int32)
      BY MemoryAssumption, ProgramAssumption
    <3>. QED BY <2>3, <3>1, WriteIsMemory
  <2>5. write_words(text, Frame, FloatInit) \in Memories
    <3>. HIDE DEF text
    <3>1. Frame \in Int
      BY MemoryAssumption
    <3>. QED BY <2>4, <3>1, WriteIsMemory, WordsAssumption
  <2>. QED BY <2>1, <2>5, Zenon DEF readinst_data
<1>3. r \in [Regs -> Int32]
  BY <1>0, <1>1, ProgramAssumption DEF Start, Registers
<1>4. f \in [FloatRegs -> Int32]
  BY <1>0, ProgramAssumption DEF Start, Registers
<1>5. last \in INSTR_TIMSIM /\ last.OPCODE = "NOP"
  BY <1>0, <1>1 DEF Start, Registers, INSTR_TIMSIM, Kinds
<1>6. pc \in Int /\ pc # 0
  BY <1>0, MemoryAssumption DEF Start, Registers
<1>7. TypeOK
  <2>1. /\ dead \in BOOLEAN /\ accessed \in Int32
        /\ mult_cycle \in Nat /\ sigle_routing \in 0 .. MaxSteps
    <3>1. dead = FALSE /\ accessed = 0 /\ mult_cycle = 0 /\ sigle_routing = 0
      BY <1>0 DEF Start, Registers
    <3>2. 0 \in 0 .. MaxSteps
      BY BoundAssumption
    <3>. QED BY <1>1, <3>1, <3>2
  <2>. QED BY <1>2, <1>3, <1>4, <1>5, <1>6, <2>1 DEF TypeOK, Memories
<1>. QED BY <1>5, <1>6, <1>7 DEF IInv, EndsWithTransfer, AddressTraced

\* A store leaves the word of its register in memory, or memory as it was.
StoredWord == IF InRange(accessed')
                THEN read_mem(mem', accessed') \in {r[last'.RT]}
                       \union {f[k] : k \in FloatRegs \intersect {last'.RT}}
                ELSE mem' = mem

\* A step keeps IInv, changes memory only as StoresTraced says and stores what
\* StoreReadsBack says.
StepOK == /\ IInv'
          /\ last'.OPCODE = "STORE" /\ sigle_routing' # sigle_routing => StoredWord
          /\ mem' # mem =>
               /\ last'.OPCODE = "STORE"
               /\ \A a \in DOMAIN mem : mem'[a] # mem[a] => a \in last'.ADDR .. last'.ADDR + 3

LEMMA NextStep == IInv /\ [Next]_vars => StepOK
<1>. SUFFICES ASSUME IInv, [Next]_vars PROVE StepOK
  OBVIOUS
<1>. TypeOK
  BY DEF IInv
<1>0. ASSUME InRange(pc) PROVE Decoded(inst) /\ Addr \in Int32
  BY <1>0, InstRanges
<1>1. CASE INSN_SLL
  <2>1. Running /\ InRange(pc) /\ SetRegister("ALU", inst.RD, Shl(r[inst.RT], inst.SHAMT))
    BY <1>1 DEF INSN_SLL, InsnR
  <2>2. inst.RD \in Regs /\ Shl(r[inst.RT], inst.SHAMT) \in Int32
    BY <1>0, <2>1, ShiftIsWord DEF Decoded, TypeOK
  <2>. QED BY <2>1, <2>2, SetRegisterStep DEF StepOK, SetRegister
<1>2. CASE INSN_ADD
  <2>1. Running /\ InRange(pc) /\ SetRegister("ALU", inst.RD, Add32(r[inst.RS], r[inst.RT]))
    BY <1>2 DEF INSN_ADD, InsnR
  <2>2. inst.RD \in Regs /\ Add32(r[inst.RS], r[inst.RT]) \in Int32
    BY <1>0, <2>1, SumIsWord DEF Decoded, TypeOK
  <2>. QED BY <2>1, <2>2, SetRegisterStep DEF StepOK, SetRegister
<1>3. CASE INSN_ADDI
  <2>1. Running /\ InRange(pc) /\ SetRegister("ALU", inst.RT, Addr)
    BY <1>3 DEF INSN_ADDI, Insn
  <2>2. inst.RT \in Regs /\ Addr \in Int32
    BY <1>0, <2>1 DEF Decoded
  <2>. QED BY <2>1, <2>2, SetRegisterStep DEF StepOK, SetRegister
<1>4. CASE INSN_SLTI
  <2>. DEFINE v == IF r[inst.RS] < inst.IMM THEN 1 ELSE 0
  <2>1. Running /\ InRange(pc) /\ SetRegister("ALU", inst.RT, v)
    BY <1>4 DEF INSN_SLTI, Insn
  <2>2. v \in Int32
    BY Bounds, Powers DEF Int32
  <2>3. inst.RT \in Regs
    BY <1>0, <2>1 DEF Decoded
  <2>. HIDE DEF v
  <2>. QED BY <2>1, <2>2, <2>3, SetRegisterStep DEF StepOK, SetRegister
<1>5. CASE INSN_MOVE
  <2>1. Running /\ InRange(pc) /\ SetRegister("MOVE", inst.RT, r[inst.RS])
    BY <1>5 DEF INSN_MOVE, Insn
  <2>2. inst.RT \in Regs /\ r[inst.RS] \in Int32
    BY <1>0, <2>1 DEF Decoded, TypeOK
  <2>. QED BY <2>1, <2>2, SetRegisterStep DEF StepOK, SetRegister
<1>6. CASE INSN_BEQ \/ INSN_BNE
  <2>1. Running /\ InRange(pc) /\ \E taken \in BOOLEAN : Branch(taken)
    BY <1>6 DEF INSN_BEQ, INSN_BNE, Insn
  <2>2. PICK taken \in BOOLEAN : Branch(taken)
    BY <2>1
  <2>. DEFINE next == IF taken THEN Next4 + inst.IMM * 4 ELSE Next4
  <2>3. next \in Int
    <3>1. Next4 \in Int
      BY <2>1, NextNotZero
    <3>2. inst.IMM \in Int
      BY <1>0, <2>1, Powers DEF Decoded
    <3>. QED BY <3>1, <3>2
  <2>4. Transfer("BRANCH", next)
    BY <2>2 DEF Branch
  <2>. HIDE DEF next
  <2>. QED BY <2>1, <2>3, <2>4, TransferStep DEF StepOK, Transfer
<1>7. CASE INSN_J
  <2>1. Running /\ InRange(pc) /\ Transfer("JMP", inst.LABEL)
    BY <1>7 DEF INSN_J, Insn
  <2>2. inst.LABEL \in Int
    BY <1>0, <2>1 DEF Decoded
  <2>. QED BY <2>1, <2>2, TransferStep DEF StepOK, Transfer
<1>8. CASE INSN_JR
  <2>1. Running /\ InRange(pc) /\ Transfer("JR", r[inst.RS])
    BY <1>8 DEF INSN_JR, InsnR
  <2>2. r[inst.RS] \in Int
    BY <1>0, <2>1, Powers DEF Decoded, TypeOK
  <2>. QED BY <2>1, <2>2, TransferStep DEF StepOK, Transfer
<1>9. CASE INSN_LW
  <2>. DEFINE regs == [r EXCEPT ![inst.RT] = read_mem(mem, Addr)]
  <2>1. /\ Running /\ InRange(pc) /\ InRange(Addr)
        /\ Retire("LOAD", 5, Next4, regs, Addr) /\ mem' = mem /\ f' = f
    BY <1>9 DEF INSN_LW, Insn
  <2>2. read_mem(mem, Addr) \in Int32
    BY <1>0, <2>1, ReadIsWord, Powers DEF TypeOK, Memories
  <2>3. regs \in [Regs -> Int32] /\ (regs[inst.RS] = r[inst.RS] \/ inst.RT = inst.RS)
    BY <1>0, <2>1, <2>2 DEF TypeOK, Decoded
  <2>4. f' \in [FloatRegs -> Int32]
    BY <2>1 DEF TypeOK
  <2>. HIDE DEF regs
  <2>. QED BY <2>1, <2>3, <2>4, LoadStep DEF StepOK
<1>10. CASE INSN_LWC1
  <2>1. /\ Running /\ InRange(pc) /\ InRange(Addr)
        /\ Retire("LOAD", 5, Next4, r, Addr) /\ mem' = mem
        /\ f' = [f EXCEPT ![inst.RT] = read_mem(mem, Addr)]
    BY <1>10 DEF INSN_LWC1, Insn
  <2>2. read_mem(mem, Addr) \in Int32
    BY <1>0, <2>1, ReadIsWord, Powers DEF TypeOK, Memories
  <2>3. f' \in [FloatRegs -> Int32] /\ r \in [Regs -> Int32]
    BY <2>1, <2>2 DEF TypeOK
  <2>. QED BY <2>1, <2>3, LoadStep DEF StepOK
<1>11. CASE INSN_SW
  <2>1. /\ Running /\ InRange(pc) /\ mem' = write_mem(mem, Addr, r[inst.RT]) /\ f' = f
        /\ Retire("STORE", 5, Next4, r, Addr)
    BY <1>11 DEF INSN_SW, Insn
  <2>2. r[inst.RT] \in Int32
    BY <1>0, <2>1 DEF TypeOK, Decoded
  <2>. QED BY <2>1, <2>2, StoreStep DEF StepOK, StoredWord
<1>12. CASE INSN_SWC1
  <2>1. /\ Running /\ InRange(pc) /\ mem' = write_mem(mem, Addr, f[inst.RT]) /\ f' = f
        /\ Retire("STORE", 5, Next4, r, Addr) /\ inst.RT \in FloatRegs
    BY <1>12 DEF INSN_SWC1, Insn
  <2>2. f[inst.RT] \in Int32
    BY <2>1 DEF TypeOK
  <2>3. last'.RT = inst.RT /\ inst.RT \in FloatRegs
    BY <2>1, <2>2, StoreStep
  <2>4. f[inst.RT] \in {f[k] : k \in FloatRegs \intersect {last'.RT}}
    BY <2>3
  <2>. QED BY <2>1, <2>2, <2>4, StoreStep DEF StepOK, StoredWord
<1>13. CASE INSN_ADDS \/ INSN_MULS
  <2>1. PICK cycles \in {6, 8} : Running /\ InRange(pc) /\ FloatOp(cycles)
    BY <1>13 DEF INSN_ADDS, INSN_MULS, InsnF
  <2>2. /\ Retire("FPU", cycles, Next4, r, 0) /\ mem' = mem
        /\ \E v \in FloatResults : f' = [f EXCEPT ![inst.RD] = v]
    BY <2>1 DEF FloatOp
  <2>3. f' \in [FloatRegs -> Int32] /\ r \in [Regs -> Int32] /\ 0 \in Int32
    <3>1. 0 \in Int32
      BY Bounds DEF Int32
    <3>. QED BY <2>2, <3>1, ProgramAssumption DEF TypeOK
  <2>4. "FPU" \in Kinds /\ cycles \in Nat /\ Next4 \in Int
    BY <2>1, NextNotZero DEF Kinds
  <2>5. /\ r' = r /\ pc' = Next4 /\ accessed' = 0
        /\ dead' \in BOOLEAN /\ mult_cycle' \in Nat /\ sigle_routing' \in 0 .. MaxSteps
        /\ last' \in INSTR_TIMSIM
        /\ last'.OPCODE = "FPU"
    BY <2>1, <2>2, <2>3, <2>4, RetireEffect
  <2>6. TypeOK'
    BY <2>2, <2>3, <2>4, <2>5 DEF TypeOK
  <2>. QED BY <2>1, <2>2, <2>5, <2>6, NextNotZero
           DEF StepOK, IInv, EndsWithTransfer, AddressTraced
<1>14. CASE Dies
  BY <1>14 DEF Dies, StepOK, IInv, TypeOK, EndsWithTransfer, AddressTraced
<1>15. CASE UNCHANGED vars
  BY <1>15 DEF vars, StepOK, IInv, TypeOK, EndsWithTransfer, AddressTraced
<1>. QED BY <1>1, <1>2, <1>3, <1>4, <1>5, <1>6, <1>7, <1>8, <1>9, <1>10, <1>11, <1>12,
            <1>13, <1>14, <1>15
         DEF Next, NullRead, FloatOverrun, Unimplemented, Ended

\* TypeOK, EndsWithTransfer and AddressTraced together are inductive.
LEMMA Invariance == Spec => []IInv
<1>1. IInv /\ [Next]_vars => IInv'
  BY NextStep DEF StepOK
<1>. QED BY InitIInv, <1>1, PTL DEF Spec

\* Registers, memory and trace keep their ranges in every program, on every input.
THEOREM TypeCorrect == Spec => []TypeOK
<1>1. IInv => TypeOK
  BY DEF IInv
<1>. QED BY <1>1, Invariance, PTL

\* A program that ends ends with a jump or a branch: what Execution and Pipeline
\* assume of the last instruction they are given.
THEOREM LastIsTransfer == Spec => []EndsWithTransfer
<1>1. IInv => EndsWithTransfer
  BY DEF IInv
<1>. QED BY <1>1, Invariance, PTL

\* The data cache is asked for the address the program used, except by a load
\* over its own base register.
THEOREM AddressesAgree == Spec => []AddressTraced
<1>1. IInv => AddressTraced
  BY DEF IInv
<1>. QED BY <1>1, Invariance, PTL

\* Memory changes only where a traced store says.
THEOREM MemoryFollowsTrace == Spec => StoresTraced
<1>1. IInv /\ [Next]_vars =>
        [mem' # mem =>
           /\ last'.OPCODE = "STORE"
           /\ \A a \in DOMAIN mem :
                mem'[a] # mem[a] => a \in last'.ADDR .. last'.ADDR + 3]_vars
  BY NextStep DEF StepOK
<1>. QED BY <1>1, Invariance, PTL DEF Spec, StoresTraced

\* A stored word is read back as it was, whatever its sign and alignment; a store
\* outside the memory is lost.
THEOREM WordsSurvive == Spec => StoreReadsBack
<1>1. IInv /\ [Next]_vars =>
        [last'.OPCODE = "STORE" /\ sigle_routing' # sigle_routing =>
           IF InRange(accessed')
             THEN read_mem(mem', accessed') \in {r[last'.RT]}
                    \union {f[k] : k \in FloatRegs \intersect {last'.RT}}
             ELSE mem' = mem]_vars
  BY NextStep DEF StepOK, StoredWord
<1>. QED BY <1>1, Invariance, PTL DEF Spec, StoreReadsBack
-------------------------------------------------------------------------------
(* Project01's machine, in step with this one.  Its operators read the same text. *)

LEMMA SharedText ==
    /\ \A m, a : P01!read_mem(m, a) = read_mem(m, a)
    /\ \A m, a, w : P01!write_mem(m, a, w) = write_mem(m, a, w)
    /\ \A m, input : P01!readinst_data(m, input) = readinst_data(m, input)
    /\ \A a : P01!InRange(a) <=> InRange(a)
    /\ \A w : P01!InstDecode(w) = InstDecode(w)
    /\ \A a, b : P01!Add32(a, b) = Add32(a, b)
    /\ \A a, n : P01!Shl(a, n) = Shl(a, n)
    /\ P01!ZeroMem = ZeroMem
<1>1. \A m, a : P01!read_mem(m, a) = read_mem(m, a)
  BY Zenon DEF P01!read_mem, P01!Bit8, P01!Bit16, P01!Bit24, read_mem, Bit8, Bit16, Bit24
<1>2. \A a : P01!InRange(a) <=> InRange(a)
  BY Zenon DEF P01!InRange, InRange
<1>3. \A w, j : P01!Byte(w, j) = Byte(w, j)
  BY Zenon DEF P01!Byte, P01!Bit8, P01!Bit16, P01!Bit24, Byte, Bit8, Bit16, Bit24
<1>4. \A m, a, w : P01!write_mem(m, a, w) = write_mem(m, a, w)
  BY <1>2, <1>3, Zenon DEF P01!write_mem, write_mem
<1>5. \A m, b, words : P01!write_words(m, b, words) = write_words(m, b, words)
  BY Zenon DEF P01!write_words, P01!Writes, P01!InRange, P01!Byte, P01!Bit8, P01!Bit16,
               P01!Bit24, write_words, Writes, InRange, Byte, Bit8, Bit16, Bit24
<1>6. \A m, input : P01!readinst_data(m, input) = readinst_data(m, input)
  BY <1>5, Zenon DEF P01!readinst_data, readinst_data
<1>7. \A w : P01!InstDecode(w) = InstDecode(w)
  BY Zenon DEF P01!InstDecode, P01!SignExtend, P01!Bit8, P01!Bit11, P01!Bit16, P01!Bit21,
               P01!Bit24, P01!Bit26, InstDecode, SignExtend, Bit8, Bit11, Bit16, Bit21,
               Bit24, Bit26
<1>8. \A a, b : P01!Add32(a, b) = Add32(a, b)
  BY Zenon DEF P01!Add32, P01!MaxInt, P01!MinInt, P01!Bit8, P01!Bit16, P01!Bit24,
               Add32, MaxInt, MinInt, Bit8, Bit16, Bit24
<1>9. \A a, n : P01!Shl(a, n) = Shl(a, n)
  <2>1. \A x : P01!Shl1(x) = Shl1(x)
    BY <1>8, Zenon DEF P01!Shl1, Shl1
  <2>2. \A x : P01!Shl2(x) = Shl2(x)
    BY <2>1, Zenon DEF P01!Shl2, Shl2
  <2>3. \A x : P01!Shl4(x) = Shl4(x)
    BY <2>2, Zenon DEF P01!Shl4, Shl4
  <2>4. \A x : P01!Shl8(x) = Shl8(x)
    BY <2>3, Zenon DEF P01!Shl8, Shl8
  <2>5. \A x : P01!Shl16(x) = Shl16(x)
    BY <2>4, Zenon DEF P01!Shl16, Shl16
  <2>6. \A on, s, x : P01!Stage(on, s, x) = Stage(on, s, x)
    BY Zenon DEF P01!Stage, Stage
  <2>. SUFFICES ASSUME NEW x, NEW n PROVE P01!Shl(x, n) = Shl(x, n)
    OBVIOUS
  <2>. DEFINE a  == Stage(n, Shl1(x), x)
              a1 == P01!Stage(n, P01!Shl1(x), x)
              b  == Stage(n \div 2, Shl2(a), a)
              b1 == P01!Stage(n \div 2, P01!Shl2(a1), a1)
              c  == Stage(n \div 4, Shl4(b), b)
              c1 == P01!Stage(n \div 4, P01!Shl4(b1), b1)
              d  == Stage(n \div 8, Shl8(c), c)
              d1 == P01!Stage(n \div 8, P01!Shl8(c1), c1)
              e  == Stage(n \div 16, Shl16(d), d)
              e1 == P01!Stage(n \div 16, P01!Shl16(d1), d1)
  <2>7. P01!Shl(x, n) = e1 /\ Shl(x, n) = e
    BY Zenon DEF P01!Shl, Shl
  <2>. HIDE DEF a, a1, b, b1, c, c1, d, d1, e, e1
  <2>8. a = a1
    BY <2>1, <2>6, Zenon DEF a, a1
  <2>9. b = b1
    BY <2>2, <2>6, <2>8, Zenon DEF b, b1
  <2>10. c = c1
    BY <2>3, <2>6, <2>9, Zenon DEF c, c1
  <2>11. d = d1
    BY <2>4, <2>6, <2>10, Zenon DEF d, d1
  <2>12. e = e1
    BY <2>5, <2>6, <2>11, Zenon DEF e, e1
  <2>. QED BY <2>7, <2>12, Zenon
<1>10. P01!ZeroMem = ZeroMem
  BY Zenon DEF P01!ZeroMem, ZeroMem
<1>. QED BY <1>1, <1>2, <1>4, <1>6, <1>7, <1>8, <1>9, <1>10, Zenon

\* What each instruction does in Project01, and that nothing else does it.
LEMMA Effect01 ==
    ASSUME P01!Next, P01!Fetched
    PROVE  LET i == P01!inst
               R(fun) == i.OPCODE = 0 /\ i.FUNC = fun
           IN /\ R(0) => P01!SetInteger(i.RD, P01!Shl(r01[i.RT], i.SHAMT))
              /\ R(32) => P01!SetInteger(i.RD, P01!Add32(r01[i.RS], r01[i.RT]))
              /\ R(8) => P01!Goto(r01[i.RS])
              /\ i.OPCODE = 8 => P01!SetInteger(i.RT, P01!Addr)
              /\ i.OPCODE = 10 => P01!SetInteger(i.RT, IF r01[i.RS] < i.IMM THEN 1 ELSE 0)
              /\ i.OPCODE = 47 => P01!SetInteger(i.RT, r01[i.RS])
              /\ i.OPCODE = 35 => IF P01!Loads
                                    THEN P01!SetInteger(i.RT, P01!read_mem(mem01, P01!Addr))
                                    ELSE dead01' = TRUE
              /\ i.OPCODE = 49 => IF P01!Loads
                                    THEN P01!SetFloat(i.RT, P01!read_mem(mem01, P01!Addr))
                                    ELSE dead01' = TRUE
              /\ i.OPCODE = 17 /\ i.FUNC \in {0, 2} =>
                    \E v \in FloatResults : P01!SetFloat(i.RD, v)
              /\ i.OPCODE = 43 => P01!Store(r01[i.RT])
              /\ i.OPCODE = 57 => P01!Store(f01[i.RT])
              /\ i.OPCODE = 2 => P01!Goto(i.LABEL)
              /\ i.OPCODE = 4 => P01!Branch(r01[i.RS] = r01[i.RT])
              /\ i.OPCODE = 5 => P01!Branch(r01[i.RS] # r01[i.RT])
              /\ P01!Unknown => dead01' = TRUE
<1>. DEFINE i      == P01!inst
            R(fun) == i.OPCODE = 0 /\ i.FUNC = fun
<1>1. /\ P01!Insn("OP_J") <=> i.OPCODE = 2
      /\ P01!Insn("OP_BEQ") <=> i.OPCODE = 4
      /\ P01!Insn("OP_BNE") <=> i.OPCODE = 5
      /\ P01!Insn("OP_ADDI") <=> i.OPCODE = 8
      /\ P01!Insn("OP_SLTI") <=> i.OPCODE = 10
      /\ P01!Insn("OP_LW") <=> i.OPCODE = 35
      /\ P01!Insn("OP_SW") <=> i.OPCODE = 43
      /\ P01!Insn("OP_MOVE") <=> i.OPCODE = 47
      /\ P01!Insn("OP_LWC1") <=> i.OPCODE = 49
      /\ P01!Insn("OP_SWC1") <=> i.OPCODE = 57
  BY DEF P01!Insn, P01!OPCODES
<1>2. /\ P01!InsnR("OP_SLL") <=> R(0)
      /\ P01!InsnR("OP_JR") <=> R(8)
      /\ P01!InsnR("OP_ADD") <=> R(32)
  BY DEF P01!InsnR, P01!OP_RTYPE, P01!FUNCS_R
<1>3. /\ P01!InsnF("OP_ADDS") <=> i.OPCODE = 17 /\ i.FUNC = 0
      /\ P01!InsnF("OP_MULS") <=> i.OPCODE = 17 /\ i.FUNC = 2
  BY DEF P01!InsnF, P01!OP_FTYPE, P01!FUNCS_F
<1>4. \/ P01!SetsRD \/ P01!SetsRT \/ P01!SetsFloat \/ P01!Stores \/ P01!Transfers \/ P01!Fault
  BY Zenon DEF P01!Next, P01!Fetched, P01!FetchFault, P01!Ended
<1>. DEFINE a1 == P01!SetInteger(i.RD, P01!Shl(r01[i.RT], i.SHAMT))
            a2 == P01!SetInteger(i.RD, P01!Add32(r01[i.RS], r01[i.RT]))
            a3 == P01!Goto(r01[i.RS])
            a4 == P01!SetInteger(i.RT, P01!Addr)
            a5 == P01!SetInteger(i.RT, IF r01[i.RS] < i.IMM THEN 1 ELSE 0)
            a6 == P01!SetInteger(i.RT, r01[i.RS])
            a7 == P01!SetInteger(i.RT, P01!read_mem(mem01, P01!Addr))
            a8 == P01!SetFloat(i.RT, P01!read_mem(mem01, P01!Addr))
            a9 == \E v \in FloatResults : P01!SetFloat(i.RD, v)
            a10 == P01!Store(r01[i.RT])
            a11 == P01!Store(f01[i.RT])
            a12 == P01!Goto(i.LABEL)
            a13 == P01!Branch(r01[i.RS] = r01[i.RT])
            a14 == P01!Branch(r01[i.RS] # r01[i.RT])
            d   == dead01' = TRUE
            ok  == P01!Loads
<1>5. P01!SetsRD => (R(0) /\ a1) \/ (R(32) /\ a2)
  BY <1>2, Zenon DEF P01!SetsRD
<1>6. P01!SetsRT => \/ i.OPCODE = 8 /\ a4
                    \/ i.OPCODE = 10 /\ a5
                    \/ i.OPCODE = 47 /\ a6
                    \/ i.OPCODE = 35 /\ ok /\ a7
  BY <1>1, Zenon DEF P01!SetsRT
<1>7. P01!SetsFloat => \/ i.OPCODE = 49 /\ ok /\ a8
                       \/ i.OPCODE = 17 /\ (i.FUNC = 0 \/ i.FUNC = 2) /\ a9
  BY <1>1, <1>3, Zenon DEF P01!SetsFloat
<1>8. P01!Stores => \/ i.OPCODE = 43 /\ a10
                    \/ i.OPCODE = 57 /\ a11
  BY <1>1, Zenon DEF P01!Stores
<1>9. P01!Transfers => \/ i.OPCODE = 2 /\ a12
                       \/ R(8) /\ a3
                       \/ i.OPCODE = 4 /\ a13
                       \/ i.OPCODE = 5 /\ a14
  BY <1>1, <1>2, Zenon DEF P01!Transfers
<1>10. P01!Fault => d /\ (P01!Unknown \/ ((i.OPCODE = 35 \/ i.OPCODE = 49) /\ ~ok))
  BY <1>1, Zenon DEF P01!Fault, P01!Dies
<1>11. P01!Unknown => /\ i.OPCODE \notin {2, 4, 5, 8, 10, 35, 43, 47, 49, 57}
                      /\ ~R(0) /\ ~R(8) /\ ~R(32)
                      /\ ~(i.OPCODE = 17 /\ i.FUNC = 0) /\ ~(i.OPCODE = 17 /\ i.FUNC = 2)
  <2>1. /\ {"OP_J", "OP_BEQ", "OP_BNE", "OP_ADDI", "OP_SLTI", "OP_LW", "OP_SW", "OP_MOVE",
            "OP_LWC1", "OP_SWC1"} \subseteq DOMAIN P01!OPCODES
        /\ {"OP_SLL", "OP_JR", "OP_ADD"} \subseteq DOMAIN P01!FUNCS_R
        /\ {"OP_ADDS", "OP_MULS"} \subseteq DOMAIN P01!FUNCS_F
    BY DEF P01!OPCODES, P01!FUNCS_R, P01!FUNCS_F
  <2>. SUFFICES ASSUME P01!Unknown
                PROVE  /\ i.OPCODE \notin {2, 4, 5, 8, 10, 35, 43, 47, 49, 57}
                       /\ ~R(0) /\ ~R(8) /\ ~R(32)
                       /\ ~(i.OPCODE = 17 /\ i.FUNC = 0)
                       /\ ~(i.OPCODE = 17 /\ i.FUNC = 2)
    OBVIOUS
  <2>2. /\ \A op \in DOMAIN P01!OPCODES : ~P01!Insn(op)
        /\ \A fun \in DOMAIN P01!FUNCS_R : ~P01!InsnR(fun)
        /\ \A fun \in DOMAIN P01!FUNCS_F : ~P01!InsnF(fun)
    BY Zenon DEF P01!Unknown
  <2>3. /\ ~P01!Insn("OP_J") /\ ~P01!Insn("OP_BEQ") /\ ~P01!Insn("OP_BNE")
        /\ ~P01!Insn("OP_ADDI") /\ ~P01!Insn("OP_SLTI") /\ ~P01!Insn("OP_LW")
        /\ ~P01!Insn("OP_SW") /\ ~P01!Insn("OP_MOVE") /\ ~P01!Insn("OP_LWC1")
        /\ ~P01!Insn("OP_SWC1")
    BY <2>1, <2>2, Zenon
  <2>4. /\ ~P01!InsnR("OP_SLL") /\ ~P01!InsnR("OP_JR") /\ ~P01!InsnR("OP_ADD")
        /\ ~P01!InsnF("OP_ADDS") /\ ~P01!InsnF("OP_MULS")
    BY <2>1, <2>2, Zenon
  <2>. QED BY <1>1, <1>2, <1>3, <2>3, <2>4, Zenon
<1>. HIDE DEF i, a1, a2, a3, a4, a5, a6, a7, a8, a9, a10, a11, a12, a13, a14, d, ok
<1>12. /\ R(0) => a1
       /\ R(32) => a2
       /\ R(8) => a3
       /\ i.OPCODE = 8 => a4
       /\ i.OPCODE = 10 => a5
       /\ i.OPCODE = 47 => a6
       /\ i.OPCODE = 35 => IF ok THEN a7 ELSE d
       /\ i.OPCODE = 49 => IF ok THEN a8 ELSE d
       /\ i.OPCODE = 17 /\ i.FUNC \in {0, 2} => a9
       /\ i.OPCODE = 43 => a10
       /\ i.OPCODE = 57 => a11
       /\ i.OPCODE = 2 => a12
       /\ i.OPCODE = 4 => a13
       /\ i.OPCODE = 5 => a14
       /\ P01!Unknown => d
  <2>1. CASE P01!SetsRD
    BY <1>5, <1>11, <2>1
  <2>2. CASE P01!SetsRT
    BY <1>6, <1>11, <2>2
  <2>3. CASE P01!SetsFloat
    BY <1>7, <1>11, <2>3
  <2>4. CASE P01!Stores
    BY <1>8, <1>11, <2>4
  <2>5. CASE P01!Transfers
    BY <1>9, <1>11, <2>5
  <2>6. CASE P01!Fault
    BY <1>10, <1>11, <2>6
  <2>. QED BY <1>4, <2>1, <2>2, <2>3, <2>4, <2>5, <2>6, Zenon
<1>. QED BY <1>12, Zenon
         DEF i, a1, a2, a3, a4, a5, a6, a7, a8, a9, a10, a11, a12, a13, a14, d, ok

\* The two machines agree.
Alive == /\ ~dead /\ ~dead01
         /\ r01 = r /\ pc01 = pc /\ sigle_routing01 = sigle_routing
         /\ mem01 \in Memories /\ SameMemory(mem, mem01)
         /\ f01 \in [Regs -> Int32] /\ \A k \in FloatRegs : f[k] = f01[k]

Agree == ~touched =>
    IF dead THEN dead01 \/ ~({inst.RS, inst.RT, inst.RD} \subseteq FloatRegs) ELSE Alive

LEMMA SameWord ==
    ASSUME NEW m \in Memories, NEW n \in Memories, SameMemory(m, n),
           NEW a \in Int, InRange(a), (a .. a + 3) \cap TestWord = {}
    PROVE  read_mem(m, a) = read_mem(n, a)
<1>1. \A k \in 0 .. 3 : a + k \in 0 .. MEMSIZE - 1 /\ a + k \in a .. a + 3
  BY MemoryAssumption DEF InRange
<1>2. DOMAIN m = 0 .. MEMSIZE - 1 /\ DOMAIN n = 0 .. MEMSIZE - 1
  BY DEF Memories
<1>3. \A k \in 0 .. 3 : m[a + k] = n[a + k]
  BY <1>1, <1>2 DEF SameMemory
<1>. DEFINE b(k) == IF a + k \in DOMAIN m THEN m[a + k] ELSE 0
            c(k) == IF a + k \in DOMAIN n THEN n[a + k] ELSE 0
<1>4. /\ read_mem(m, a) = b(0) + Bit8 * b(1) + Bit16 * b(2)
                            + Bit24 * (IF b(3) > 127 THEN b(3) - 256 ELSE b(3))
      /\ read_mem(n, a) = c(0) + Bit8 * c(1) + Bit16 * c(2)
                            + Bit24 * (IF c(3) > 127 THEN c(3) - 256 ELSE c(3))
  BY Zenon DEF read_mem
<1>5. \A k \in 0 .. 3 : b(k) = c(k)
  BY <1>1, <1>2, <1>3
<1>6. 0 \in 0 .. 3 /\ 1 \in 0 .. 3 /\ 2 \in 0 .. 3 /\ 3 \in 0 .. 3
  OBVIOUS
<1>. HIDE DEF b, c
<1>7. b(0) = c(0) /\ b(1) = c(1) /\ b(2) = c(2) /\ b(3) = c(3)
  BY <1>5, <1>6, Zenon
<1>. QED BY <1>4, <1>7

LEMMA SameStored ==
    ASSUME NEW m \in Memories, NEW n \in Memories, SameMemory(m, n),
           NEW a \in Int, NEW w \in Int32
    PROVE  SameMemory(write_mem(m, a, w), write_mem(n, a, w))
<1>1. CASE InRange(a)
  <2>1. /\ write_mem(m, a, w) \in Memories /\ write_mem(n, a, w) \in Memories
        /\ DOMAIN m = 0 .. MEMSIZE - 1
    BY StoreIsMemory DEF Memories
  <2>2. ASSUME NEW x \in 0 .. MEMSIZE - 1, x \notin TestWord
        PROVE  write_mem(m, a, w)[x] = write_mem(n, a, w)[x]
    <3>1. CASE x \in a .. a + 3
      <4>1. x - a \in 0 .. 3 /\ x = a + (x - a)
        BY <3>1, MemoryAssumption
      <4>. QED BY <1>1, <4>1, StoredBytes
    <3>2. CASE x \notin a .. a + 3
      <4>1. write_mem(m, a, w)[x] = m[x] /\ write_mem(n, a, w)[x] = n[x]
        BY <3>2, StoreIsMemory
      <4>. QED BY <2>1, <2>2, <4>1 DEF SameMemory
    <3>. QED BY <3>1, <3>2
  <2>. QED BY <2>1, <2>2 DEF SameMemory, Memories
<1>2. CASE ~InRange(a)
  BY <1>2 DEF write_mem
<1>. QED BY <1>1, <1>2

\* Both fetch and decode the same instruction.
LEMMA SameInst ==
    ASSUME TypeOK, Alive, P01!Running, ~Touches, InRange(pc)
    PROVE  P01!Fetched /\ P01!inst = inst /\ P01!Addr = Addr
<1>1. (pc .. pc + 3) \cap TestWord = {}
  BY Zenon DEF Touches, Alive
<1>2. read_mem(mem, pc) = read_mem(mem01, pc)
  BY <1>1, SameWord DEF Alive, TypeOK, Memories
<1>3. P01!inst = inst
  BY <1>2, SharedText, Zenon DEF P01!inst, inst, Alive
<1>4. P01!Addr = Addr
  BY <1>3, SharedText, Zenon DEF P01!Addr, Addr, Alive
<1>5. P01!Fetched
  BY SharedText, Zenon DEF P01!Fetched, Alive
<1>. QED BY <1>3, <1>4, <1>5

LEMMA BothSetRegister ==
    ASSUME TypeOK, Alive, NEW kind, NEW reg, NEW value,
           SetRegister(kind, reg, value), P01!SetInteger(reg, value)
    PROVE  Alive'
  BY DEF SetRegister, Retire, P01!SetInteger, P01!Turn, Next4, Alive, SameMemory

LEMMA BothTransfer ==
    ASSUME TypeOK, Alive, NEW kind, NEW next,
           Transfer(kind, next), P01!Goto(next)
    PROVE  Alive'
  BY DEF Transfer, Retire, P01!Goto, P01!Turn, Alive, SameMemory

LEMMA BothStore ==
    ASSUME TypeOK, Alive, NEW word \in Int32, Addr \in Int, P01!Addr = Addr,
           mem' = write_mem(mem, Addr, word), f' = f,
           Retire("STORE", 5, Next4, r, Addr), P01!Store(word)
    PROVE  Alive'
<1>1. mem \in Memories /\ mem01 \in Memories /\ SameMemory(mem, mem01)
  BY DEF TypeOK, Alive, Memories
<1>2. /\ mem01' = write_mem(mem01, Addr, word)
      /\ r01' = r01 /\ f01' = f01 /\ pc01' = pc01 + 4 /\ dead01' = dead01
      /\ sigle_routing01' = sigle_routing01 + 1
  BY SharedText, Zenon DEF P01!Store, P01!Turn
<1>3. mem01' \in Memories /\ SameMemory(mem', mem01')
  BY <1>1, <1>2, StoreIsMemory, SameStored
<1>4. r' = r /\ pc' = pc + 4 /\ dead' = dead /\ sigle_routing' = sigle_routing + 1
  BY Zenon DEF Retire, Next4
<1>. QED BY <1>2, <1>3, <1>4 DEF Alive

LEMMA BothSetFloat ==
    ASSUME TypeOK, Alive, NEW kind, NEW cycles, NEW used, NEW reg \in FloatRegs,
           NEW v \in Int32, NEW v01 \in Int32, f'[reg] = f01'[reg],
           f' = [f EXCEPT ![reg] = v], mem' = mem,
           Retire(kind, cycles, Next4, r, used), P01!SetFloat(reg, v01)
    PROVE  Alive'
<1>1. /\ f01' = [f01 EXCEPT ![reg] = v01] /\ mem01' = mem01 /\ r01' = r01
      /\ pc01' = pc01 + 4 /\ dead01' = dead01 /\ sigle_routing01' = sigle_routing01 + 1
  BY Zenon DEF P01!SetFloat, P01!Turn
<1>2. r' = r /\ pc' = pc + 4 /\ dead' = dead /\ sigle_routing' = sigle_routing + 1
  BY Zenon DEF Retire, Next4
<1>3. f01 \in [Regs -> Int32] /\ f \in [FloatRegs -> Int32] /\ FloatRegs \subseteq Regs
  BY DEF Alive, TypeOK, FloatRegs, Regs
<1>4. f01' \in [Regs -> Int32]
  BY <1>1, <1>3
<1>5. ASSUME NEW k \in FloatRegs PROVE f'[k] = f01'[k]
  <2>1. CASE k = reg
    BY <2>1
  <2>2. CASE k # reg
    <3>1. f'[k] = f[k] /\ f01'[k] = f01[k]
      BY <1>1, <1>3, <2>2
    <3>. QED BY <3>1 DEF Alive
  <2>. QED BY <2>1, <2>2
<1>6. mem01' \in Memories /\ SameMemory(mem', mem01')
  BY <1>1 DEF Alive
<1>. QED BY <1>1, <1>2, <1>4, <1>5, <1>6 DEF Alive

\* Neither of two dead machines moves, nor one that is dead.
LEMMA DeadStays == dead /\ Next => UNCHANGED vars
  BY Zenon DEF Next, INSN_SLL, INSN_ADD, INSN_ADDI, INSN_SLTI, INSN_MOVE, INSN_BEQ, INSN_BNE,
               INSN_J, INSN_JR, INSN_LW, INSN_LWC1, INSN_SW, INSN_SWC1, INSN_ADDS, INSN_MULS,
               NullRead, FloatOverrun, Unimplemented, Ended, Insn, InsnR, InsnF, Running

LEMMA Stays01 == ~P01!Running /\ P01!Next => UNCHANGED vars01
<1>. SUFFICES ASSUME ~P01!Running, P01!Next PROVE UNCHANGED vars01
  OBVIOUS
<1>1. ~P01!Fetched
  BY DEF P01!Fetched
<1>2. /\ ~P01!SetsRD /\ ~P01!SetsRT /\ ~P01!SetsFloat /\ ~P01!Stores /\ ~P01!Transfers
      /\ ~P01!Fault /\ ~P01!FetchFault
  BY <1>1, Zenon DEF P01!SetsRD, P01!SetsRT, P01!SetsFloat, P01!Stores, P01!Transfers,
        P01!Fault, P01!FetchFault, P01!SetInteger, P01!SetFloat, P01!Store, P01!Goto,
        P01!Branch, P01!Turn
<1>. QED BY <1>2, Zenon DEF P01!Next, P01!Ended, P01!vars, vars01

\* Outside the memory neither fetches.
LEMMA FetchOutside ==
    ASSUME TypeOK, Alive, Running, ~InRange(pc), Next, P01!Next
    PROVE  dead' /\ dead01'
<1>1. dead'
  BY Zenon DEF Next, INSN_SLL, INSN_ADD, INSN_ADDI, INSN_SLTI, INSN_MOVE, INSN_BEQ, INSN_BNE,
               INSN_J, INSN_JR, INSN_LW, INSN_LWC1, INSN_SW, INSN_SWC1, INSN_ADDS, INSN_MULS,
               NullRead, FloatOverrun, Unimplemented, Ended, Insn, InsnR, InsnF, Dies
<1>2. ~P01!Fetched /\ P01!Running
  BY SharedText, Zenon DEF P01!Fetched, P01!Running, Running, Alive
<1>3. dead01' = TRUE
  BY <1>2, Zenon DEF P01!SetsRD, P01!SetsRT, P01!SetsFloat, P01!Stores, P01!Transfers,
        P01!Fault, P01!FetchFault, P01!SetInteger, P01!SetFloat, P01!Store, P01!Goto,
        P01!Branch, P01!Turn, P01!Next, P01!Ended, P01!Dies
<1>. QED BY <1>1, <1>3

\* A turn of both loops on the same instruction.
LEMMA SameTurn ==
    ASSUME TypeOK, Alive, Running, InRange(pc), Next, P01!Next, SameFloats, ~Touches
    PROVE  IF dead' THEN dead01' \/ ~({inst.RS, inst.RT, inst.RD} \subseteq FloatRegs)
                    ELSE Alive'
<1>0. P01!Running
  BY Zenon DEF P01!Running, Running, Alive
<1>1. P01!Fetched /\ P01!inst = inst /\ P01!Addr = Addr
  BY <1>0, SameInst
<1>2. Decoded(inst) /\ Addr \in Int32 /\ Addr \in Int
  BY InstRanges, Powers
<1>3. r01 = r /\ ~dead /\ f01 \in [Regs -> Int32] /\ \A k \in FloatRegs : f[k] = f01[k]
  BY DEF Alive
<1>. DEFINE R(fun) == inst.OPCODE = 0 /\ inst.FUNC = fun
<1>4. /\ R(0) => P01!SetInteger(inst.RD, Shl(r[inst.RT], inst.SHAMT))
      /\ R(32) => P01!SetInteger(inst.RD, Add32(r[inst.RS], r[inst.RT]))
      /\ R(8) => P01!Goto(r[inst.RS])
  BY <1>1, <1>3, Effect01, SharedText
<1>5. /\ inst.OPCODE = 8 => P01!SetInteger(inst.RT, Addr)
      /\ inst.OPCODE = 10 => P01!SetInteger(inst.RT, IF r[inst.RS] < inst.IMM THEN 1 ELSE 0)
      /\ inst.OPCODE = 47 => P01!SetInteger(inst.RT, r[inst.RS])
  BY <1>1, <1>3, Effect01
<1>6. /\ inst.OPCODE = 35 => IF InRange(Addr)
                               THEN P01!SetInteger(inst.RT, read_mem(mem01, Addr))
                               ELSE dead01'
      /\ inst.OPCODE = 49 => IF InRange(Addr)
                               THEN P01!SetFloat(inst.RT, read_mem(mem01, Addr))
                               ELSE dead01'
  BY <1>1, Effect01, SharedText DEF P01!Loads
<1>7. inst.OPCODE = 17 /\ inst.FUNC \in {0, 2} =>
            \E v \in FloatResults : P01!SetFloat(inst.RD, v)
  BY <1>1, Effect01
<1>8. /\ inst.OPCODE = 43 => P01!Store(r[inst.RT])
      /\ inst.OPCODE = 57 => P01!Store(f01[inst.RT])
      /\ inst.OPCODE = 2 => P01!Goto(inst.LABEL)
      /\ P01!Unknown => dead01'
  BY <1>1, <1>3, Effect01
<1>9. /\ inst.OPCODE = 4 => P01!Branch(r[inst.RS] = r[inst.RT])
      /\ inst.OPCODE = 5 => P01!Branch(r[inst.RS] # r[inst.RT])
  BY <1>1, <1>3, Effect01
<1>10. ASSUME inst.OPCODE = 35 \/ inst.OPCODE = 49, InRange(Addr)
       PROVE  read_mem(mem01, Addr) = read_mem(mem, Addr) /\ read_mem(mem, Addr) \in Int32
  <2>1. P01!Insn("OP_LW") \/ P01!Insn("OP_LWC1")
    BY <1>1, <1>10 DEF P01!Insn, P01!OPCODES
  <2>2. (Addr .. Addr + 3) \cap TestWord = {}
    BY <1>0, <1>1, <2>1, Zenon DEF Touches
  <2>3. mem \in Memories /\ mem01 \in Memories /\ SameMemory(mem, mem01)
    BY Zenon DEF Alive, TypeOK, Memories
  <2>. QED BY <1>2, <1>10, <2>2, <2>3, SameWord, ReadIsWord
<1>11. /\ Insn("OP_J") <=> inst.OPCODE = 2
       /\ Insn("OP_BEQ") <=> inst.OPCODE = 4
       /\ Insn("OP_BNE") <=> inst.OPCODE = 5
       /\ Insn("OP_ADDI") <=> inst.OPCODE = 8
       /\ Insn("OP_SLTI") <=> inst.OPCODE = 10
       /\ Insn("OP_LW") <=> inst.OPCODE = 35
       /\ Insn("OP_SW") <=> inst.OPCODE = 43
       /\ Insn("OP_MOVE") <=> inst.OPCODE = 47
       /\ Insn("OP_LWC1") <=> inst.OPCODE = 49
       /\ Insn("OP_SWC1") <=> inst.OPCODE = 57
  BY DEF Insn, OPCODES
<1>12. /\ InsnR("OP_SLL") <=> R(0)
       /\ InsnR("OP_JR") <=> R(8)
       /\ InsnR("OP_ADD") <=> R(32)
  BY DEF InsnR, OP_RTYPE, FUNCS_R
<1>13. /\ InsnF("OP_ADDS") <=> inst.OPCODE = 17 /\ inst.FUNC = 0
       /\ InsnF("OP_MULS") <=> inst.OPCODE = 17 /\ inst.FUNC = 2
  BY DEF InsnF, OP_FTYPE, FUNCS_F
<1>14. CASE INSN_SLL \/ INSN_ADD \/ INSN_ADDI \/ INSN_SLTI \/ INSN_MOVE
  <2>1. PICK reg, value, kind : SetRegister(kind, reg, value) /\ P01!SetInteger(reg, value)
    BY <1>4, <1>5, <1>11, <1>12, <1>14, Zenon
       DEF INSN_SLL, INSN_ADD, INSN_ADDI, INSN_SLTI, INSN_MOVE
  <2>. QED BY <2>1, BothSetRegister DEF Alive
<1>15. CASE INSN_BEQ \/ INSN_BNE \/ INSN_J \/ INSN_JR
  <2>1. pc01 = pc
    BY DEF Alive
  <2>2. PICK kind, next : Transfer(kind, next) /\ P01!Goto(next)
    <3>1. CASE INSN_J \/ INSN_JR
      BY <1>4, <1>8, <1>11, <1>12, <3>1, Zenon DEF INSN_J, INSN_JR
    <3>2. CASE INSN_BEQ \/ INSN_BNE
      <4>1. PICK taken : Branch(taken) /\ P01!Branch(taken)
        BY <1>9, <1>11, <3>2, Zenon DEF INSN_BEQ, INSN_BNE
      <4>. QED BY <1>1, <2>1, <4>1, Zenon DEF Branch, P01!Branch, Next4
    <3>. QED BY <1>15, <3>1, <3>2
  <2>. QED BY <2>2, BothTransfer DEF Alive
<1>16. CASE INSN_LW
  <2>1. InRange(Addr) /\ inst.OPCODE = 35
    BY <1>11, <1>16 DEF INSN_LW
  <2>2. P01!SetInteger(inst.RT, read_mem(mem, Addr))
    BY <1>6, <1>10, <2>1
  <2>3. /\ Retire("LOAD", 5, Next4, [r EXCEPT ![inst.RT] = read_mem(mem, Addr)], Addr)
        /\ mem' = mem /\ f' = f
    BY <1>16, Zenon DEF INSN_LW
  <2>4. Alive'
    BY <2>2, <2>3 DEF Retire, P01!SetInteger, P01!Turn, Next4, Alive, SameMemory
  <2>. QED BY <2>4 DEF Alive
<1>17. CASE INSN_SW \/ INSN_SWC1
  <2>1. PICK word \in Int32 :
            /\ mem' = write_mem(mem, Addr, word) /\ f' = f
            /\ Retire("STORE", 5, Next4, r, Addr)
            /\ P01!Store(word)
    <3>1. CASE INSN_SW
      <4>1. r[inst.RT] \in Int32
        BY <1>2 DEF TypeOK, Decoded, Regs
      <4>. QED BY <1>8, <1>11, <3>1, <4>1, Zenon DEF INSN_SW
    <3>2. CASE INSN_SWC1
      <4>1. inst.RT \in FloatRegs /\ f[inst.RT] = f01[inst.RT]
        BY <1>3, <3>2 DEF INSN_SWC1
      <4>2. f[inst.RT] \in Int32
        BY <4>1 DEF TypeOK
      <4>3. P01!Store(f[inst.RT])
        BY <1>8, <1>11, <3>2, <4>1, Zenon DEF INSN_SWC1
      <4>. QED BY <3>2, <4>2, <4>3, Zenon DEF INSN_SWC1
    <3>. QED BY <1>17, <3>1, <3>2
  <2>2. Alive'
    BY <1>1, <1>2, <2>1, BothStore
  <2>. QED BY <2>2 DEF Alive
<1>18. CASE INSN_LWC1
  <2>1. InRange(Addr) /\ inst.OPCODE = 49 /\ inst.RT \in FloatRegs
    BY <1>11, <1>18 DEF INSN_LWC1
  <2>2. P01!SetFloat(inst.RT, read_mem(mem, Addr)) /\ read_mem(mem, Addr) \in Int32
    BY <1>6, <1>10, <2>1
  <2>3. /\ Retire("LOAD", 5, Next4, r, Addr)
        /\ mem' = mem /\ f' = [f EXCEPT ![inst.RT] = read_mem(mem, Addr)]
    BY <1>18, Zenon DEF INSN_LWC1
  <2>. DEFINE w == read_mem(mem, Addr)
  <2>4. f'[inst.RT] = f01'[inst.RT]
    <3>1. f \in [FloatRegs -> Int32] /\ f01 \in [Regs -> Int32] /\ inst.RT \in Regs
      BY <1>2, <1>3 DEF TypeOK, Decoded, Regs
    <3>2. f01' = [f01 EXCEPT ![inst.RT] = w] /\ f' = [f EXCEPT ![inst.RT] = w]
      BY <2>2, <2>3, Zenon DEF P01!SetFloat
    <3>. HIDE DEF w
    <3>. QED BY <2>1, <3>1, <3>2
  <2>5. /\ P01!SetFloat(inst.RT, w) /\ w \in Int32
        /\ f' = [f EXCEPT ![inst.RT] = w]
    BY <2>2, <2>3
  <2>. HIDE DEF w
  <2>6. Alive'
    BY <2>1, <2>3, <2>4, <2>5, BothSetFloat
  <2>. QED BY <2>6 DEF Alive
<1>19. CASE INSN_ADDS \/ INSN_MULS
  <2>1. PICK cycles : FloatOp(cycles)
    BY <1>19, Zenon DEF INSN_ADDS, INSN_MULS
  <2>2. /\ inst.RD \in FloatRegs /\ mem' = mem
        /\ Retire("FPU", cycles, Next4, r, 0)
    BY <2>1 DEF FloatOp
  <2>3. PICK v \in FloatResults : f' = [f EXCEPT ![inst.RD] = v]
    BY <2>1 DEF FloatOp
  <2>4. PICK v01 \in FloatResults : P01!SetFloat(inst.RD, v01)
    BY <1>7, <1>13, <1>19 DEF INSN_ADDS, INSN_MULS
  <2>5. v \in Int32 /\ v01 \in Int32
    BY ProgramAssumption
  <2>6. ~dead'
    BY <1>3, <2>2 DEF Retire
  <2>7. f01'[inst.RD] = f'[inst.RD]
    BY <1>19, <2>6, Zenon DEF SameFloats, INSN_ADDS, INSN_MULS
  <2>8. Alive'
    BY <2>2, <2>3, <2>4, <2>5, <2>7, BothSetFloat
  <2>. QED BY <2>6, <2>8
<1>20. CASE NullRead
  <2>1. (inst.OPCODE = 35 \/ inst.OPCODE = 49) /\ ~InRange(Addr)
    BY <1>11, <1>20, Zenon DEF NullRead
  <2>2. dead01'
    BY <1>6, <2>1
  <2>3. dead'
    BY <1>20, Zenon DEF NullRead, Dies
  <2>. QED BY <2>2, <2>3
<1>21. CASE FloatOverrun
  <2>1. dead' /\ ~({inst.RS, inst.RT, inst.RD} \subseteq FloatRegs)
    BY <1>21, Zenon DEF FloatOverrun, Dies
  <2>. QED BY <2>1
<1>22. CASE Unimplemented
  <2>1. P01!OPCODES = OPCODES /\ P01!FUNCS_R = FUNCS_R /\ P01!FUNCS_F = FUNCS_F
        /\ P01!OP_RTYPE = OP_RTYPE /\ P01!OP_FTYPE = OP_FTYPE
    BY Zenon DEF OPCODES, FUNCS_R, FUNCS_F, OP_RTYPE, OP_FTYPE,
         P01!OPCODES, P01!FUNCS_R, P01!FUNCS_F, P01!OP_RTYPE, P01!OP_FTYPE
  <2>2. P01!Unknown
    BY <1>1, <1>22, <2>1, Zenon DEF P01!Unknown, Unimplemented, P01!Insn, P01!InsnR, P01!InsnF,
          InsnR, InsnF
  <2>3. dead'
    BY <1>22, Zenon DEF Unimplemented, Dies
  <2>. QED BY <1>8, <2>2, <2>3
<1>23. ~Ended
  BY DEF Ended
<1>. QED BY <1>14, <1>15, <1>16, <1>17, <1>18, <1>19, <1>20, <1>21, <1>22, <1>23, Zenon DEF Next

\* Agreement at the start: the two memories are loaded alike.
LEMMA StartAgree ==
    ASSUME CInit PROVE Agree
<1>1. PICK input \in Programs, g \in Garbage, h \in Garbage :
          Start(input, g, h) /\ P01!Start(input, g, h)
  BY Zenon DEF CInit
<1>. DEFINE t == write_mem(ZeroMem, TestAddr, TestFloat)
<1>2. /\ mem = readinst_data(ZeroMem, input) /\ mem01 = readinst_data(t, input)
  BY <1>1, SharedText, Zenon DEF Start, P01!Start
<1>3. /\ ~dead /\ ~dead01 /\ pc01 = pc /\ sigle_routing01 = sigle_routing
      /\ r01 = r
      /\ f = [i \in FloatRegs |-> h] /\ f01 = [i \in Regs |-> h]
  BY <1>1, Zenon DEF Start, P01!Start, Registers, P01!Regs, Regs
<1>4. f01 \in [Regs -> Int32] /\ \A k \in FloatRegs : f[k] = f01[k]
  BY <1>3, ProgramAssumption DEF Regs, FloatRegs
<1>5. ZeroMem \in Memories /\ t \in Memories /\ DOMAIN ZeroMem = 0 .. MEMSIZE - 1
      /\ \A x \in 0 .. MEMSIZE - 1 : x \notin TestWord => t[x] = ZeroMem[x]
  <2>1. ZeroMem \in Memories
    BY MemoryAssumption DEF ZeroMem, Memories
  <2>2. TestAddr \in Int /\ TestFloat \in Int32
    BY TestAssumption
  <2>3. /\ t \in Memories
        /\ \A x \in 0 .. MEMSIZE - 1 : x \notin TestAddr .. TestAddr + 3 => t[x] = ZeroMem[x]
    BY <2>1, <2>2, StoreIsMemory
  <2>4. DOMAIN ZeroMem = 0 .. MEMSIZE - 1
    BY Zenon DEF ZeroMem
  <2>. QED BY <2>1, <2>3, <2>4, Zenon DEF TestWord
<1>. HIDE DEF t
<1>6. input \in Seq(Int32) /\ DataFile \in Seq(Int32) /\ FloatInit \in Seq(Int32)
      /\ Entry \in Int /\ Frame \in Int
  BY ProgramAssumption, WordsAssumption, MemoryAssumption
<1>7. ASSUME NEW m \in Memories, NEW n \in Memories, SameMemory(m, n),
             NEW base \in Int, NEW words \in Seq(Int32)
      PROVE  /\ write_words(m, base, words) \in Memories
             /\ write_words(n, base, words) \in Memories
             /\ SameMemory(write_words(m, base, words), write_words(n, base, words))
  <2>1. /\ write_words(m, base, words) \in Memories
        /\ write_words(n, base, words) \in Memories
    BY WriteIsMemory
  <2>2. DOMAIN m = 0 .. MEMSIZE - 1 /\ DOMAIN n = 0 .. MEMSIZE - 1
        /\ DOMAIN write_words(m, base, words) = 0 .. MEMSIZE - 1
    BY <2>1 DEF Memories
  <2>3. ASSUME NEW x \in 0 .. MEMSIZE - 1, x \notin TestWord
        PROVE  write_words(m, base, words)[x] = write_words(n, base, words)[x]
    <3>1. m[x] = n[x]
      BY <1>7, <2>2, <2>3 DEF SameMemory
    <3>. QED BY <2>2, <3>1, Zenon DEF write_words
  <2>. QED BY <2>1, <2>2, <2>3, Zenon DEF SameMemory
<1>8. SameMemory(ZeroMem, t)
  BY <1>5 DEF SameMemory
<1>9. mem01 \in Memories /\ SameMemory(mem, mem01)
  <2>. DEFINE m1 == write_words(ZeroMem, 0, DataFile)
              n1 == write_words(t, 0, DataFile)
              m2 == write_words(m1, Entry, input)
              n2 == write_words(n1, Entry, input)
              m3 == write_words(m2, Frame, FloatInit)
              n3 == write_words(n2, Frame, FloatInit)
  <2>1. mem = m3 /\ mem01 = n3
    BY <1>2, Zenon DEF readinst_data
  <2>2. m1 \in Memories /\ n1 \in Memories /\ SameMemory(m1, n1)
    BY <1>5, <1>6, <1>7, <1>8
  <2>. HIDE DEF m1, n1
  <2>3. m2 \in Memories /\ n2 \in Memories /\ SameMemory(m2, n2)
    BY <1>6, <1>7, <2>2
  <2>. HIDE DEF m2, n2
  <2>4. m3 \in Memories /\ n3 \in Memories /\ SameMemory(m3, n3)
    BY <1>6, <1>7, <2>3
  <2>. QED BY <2>1, <2>4
<1>. QED BY <1>3, <1>4, <1>9 DEF Agree, Alive

LEMMA StepAgree ==
    ASSUME TypeOK, Agree, [CNext]_cvars PROVE Agree'
<1>. SUFFICES ASSUME ~touched'
              PROVE  IF dead'
                       THEN dead01' \/ ~({inst.RS, inst.RT, inst.RD} \subseteq FloatRegs)'
                       ELSE Alive'
  BY DEF Agree
<1>1. CASE UNCHANGED cvars
  <2>1. ~touched
    BY <1>1 DEF cvars
  <2>2. inst' = inst
    BY <1>1 DEF cvars, vars, inst
  <2>. QED BY <1>1, <2>1, <2>2 DEF cvars, vars, vars01, Agree, Alive, SameMemory
<1>2. CASE CNext
  <2>1. Next /\ P01!Next /\ SameFloats /\ ~touched /\ ~Touches
    BY <1>2 DEF CNext
  <2>2. CASE dead
    <3>1. UNCHANGED vars
      BY <2>1, <2>2, DeadStays
    <3>2. inst' = inst /\ dead'
      BY <2>2, <3>1 DEF vars, inst
    <3>3. dead01 \/ ~({inst.RS, inst.RT, inst.RD} \subseteq FloatRegs)
      BY <2>1, <2>2 DEF Agree
    <3>4. dead01 => dead01'
      <4>1. dead01 => ~P01!Running
        BY DEF P01!Running
      <4>. QED BY <2>1, <4>1, Stays01 DEF vars01
    <3>. QED BY <3>2, <3>3, <3>4
  <2>3. CASE ~dead
    <3>1. Alive
      BY <2>1, <2>3 DEF Agree
    <3>2. CASE ~Running
      <4>1. Ended
        BY <2>1, <3>2, Zenon DEF Next, INSN_SLL, INSN_ADD, INSN_ADDI, INSN_SLTI, INSN_MOVE,
             INSN_BEQ, INSN_BNE, INSN_J, INSN_JR, INSN_LW, INSN_LWC1, INSN_SW, INSN_SWC1,
             INSN_ADDS, INSN_MULS, NullRead, FloatOverrun, Unimplemented, Insn, InsnR, InsnF
      <4>2. ~P01!Running
        BY <3>1, <3>2, Zenon DEF Alive, P01!Running, Running
      <4>3. UNCHANGED vars /\ UNCHANGED vars01
        BY <2>1, <4>1, <4>2, Stays01 DEF Ended
      <4>. QED BY <2>3, <3>1, <4>3 DEF vars, vars01, Alive, SameMemory
    <3>3. CASE Running /\ ~InRange(pc)
      BY <2>1, <3>1, <3>3, FetchOutside
    <3>4. CASE Running /\ InRange(pc)
      <4>1. IF dead' THEN dead01' \/ ~({inst.RS, inst.RT, inst.RD} \subseteq FloatRegs)
                     ELSE Alive'
        BY <2>1, <3>1, <3>4, SameTurn
      <4>2. dead' => inst' = inst
        <5>1. dead' => Dies
          BY <2>1, <2>3, Zenon DEF Next, INSN_SLL, INSN_ADD, INSN_ADDI, INSN_SLTI, INSN_MOVE,
             INSN_BEQ, INSN_BNE, INSN_J, INSN_JR, INSN_LW, INSN_LWC1, INSN_SW, INSN_SWC1,
             INSN_ADDS, INSN_MULS, NullRead, FloatOverrun, Unimplemented, Ended, vars,
             SetRegister, Transfer, Branch, FloatOp, Retire
        <5>. QED BY <5>1 DEF Dies, inst
      <4>. QED BY <4>1, <4>2
    <3>. QED BY <3>2, <3>3, <3>4
  <2>. QED BY <2>2, <2>3
<1>. QED BY <1>1, <1>2

\* The split of Project01's file kept what programs do, for every program, memory and
\* number of steps (Project01/mips_sim.c, Project04/function_sim.c).
THEOREM MachinesAgree == CSpec => []SameMachine
<1>1. CInit => Init /\ Agree
  BY StartAgree, Zenon DEF CInit, Init
<1>2. [CNext]_cvars => [Next]_vars
  BY DEF CNext, cvars
<1>3. TypeOK /\ Agree /\ [CNext]_cvars => Agree'
  BY StepAgree
<1>4. Agree => SameMachine
  BY Zenon DEF Agree, Alive, SameMachine
<1>. QED BY <1>1, <1>2, <1>3, <1>4, TypeCorrect, PTL DEF CSpec, Spec
===============================================================================
