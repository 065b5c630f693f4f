---------------------------- MODULE Program03_proofs ----------------------------
(***************************************************************************)
(* Proofs about Program03 for every pair of files, memory size, cache      *)
(* geometry and latency: what the loader puts into memory is there when    *)
(* the program starts; the child is Pipeline, fed by the ring; the cache   *)
(* looks up what the program accesses; the count printed is explained.     *)
(***************************************************************************)
EXTENDS Program03, FunctionSim_proofs
-------------------------------------------------------------------------------
(* Loader's definitions are FunctionSim's. *)

LEMMA SameStore ==
    ASSUME NEW m, NEW a, NEW w PROVE L!write_mem(m, a, w) = write_mem(m, a, w)
  BY Zenon DEF L!write_mem, L!InRange, L!Byte, L!Bit8, L!Bit16, L!Bit24,
               write_mem, InRange, Byte, Bit8, Bit16, Bit24

LEMMA SameStores ==
    ASSUME NEW m, NEW base, NEW words
    PROVE  L!write_words(m, base, words) = write_words(m, base, words)
  BY Zenon DEF L!write_words, L!Writes, L!InRange, L!Byte, L!Bit8, L!Bit16, L!Bit24,
               write_words, Writes, InRange, Byte, Bit8, Bit16, Bit24

LEMMA SameRead ==
    ASSUME NEW m, NEW a PROVE L!read_mem(m, a) = read_mem(m, a)
  BY Zenon DEF L!read_mem, L!Bit8, L!Bit16, L!Bit24, read_mem, Bit8, Bit16, Bit24
-------------------------------------------------------------------------------
(* Storing words in a row. *)

LEMMA Quotient ==
    ASSUME NEW x \in Int, NEW k \in Int
    PROVE  x \div 4 = k <=> x \in 4 * k .. 4 * k + 3
  BY SMT

LEMMA QuotientRest ==
    ASSUME NEW k \in Int, NEW j \in 0 .. 3
    PROVE  (4 * k + j) \div 4 = k /\ (4 * k + j) % 4 = j
  BY SMT

\* Each byte of words[k] is at its place.
LEMMA WordThere ==
    ASSUME NEW m \in Memories, NEW base \in Nat, NEW words \in Seq(Int32),
           NEW k \in 1 .. Len(words), NEW j \in 0 .. 3, InRange(base + 4 * (k - 1))
    PROVE  write_words(m, base, words)[base + 4 * (k - 1) + j] = Byte(words[k], j)
<1>. DEFINE a == base + 4 * (k - 1) + j
<1>1. a \in DOMAIN m
  BY MemoryAssumption DEF Memories, InRange
<1>2. a - base = 4 * (k - 1) + j
  OBVIOUS
<1>3. (a - base) \div 4 = k - 1 /\ (a - base) % 4 = j
  BY <1>2, QuotientRest
<1>. HIDE DEF a
<1>4. Writes(a, base, words)
  BY <1>3 DEF Writes
<1>5. write_words(m, base, words)[a] = Byte(words[k], j)
  BY <1>1, <1>3, <1>4 DEF write_words
<1>. QED BY <1>5 DEF a

\* A byte that no word covers keeps its value.
LEMMA Untouched ==
    ASSUME NEW m \in Memories, NEW base \in Nat, NEW words \in Seq(Int32),
           NEW a \in 0 .. MEMSIZE - 1, a \notin base .. base + 4 * Len(words) - 1
    PROVE  write_words(m, base, words)[a] = m[a]
<1>1. ~Writes(a, base, words)
  <2>. SUFFICES ASSUME Writes(a, base, words) PROVE FALSE
    OBVIOUS
  <2>. DEFINE k == (a - base) \div 4
  <2>1. k \in 0 .. Len(words) - 1
    BY DEF Writes
  <2>2. a - base \in 4 * k .. 4 * k + 3
    BY <2>1, MemoryAssumption, Quotient
  <2>. HIDE DEF k
  <2>. QED BY <2>1, <2>2, MemoryAssumption
<1>. QED BY <1>1 DEF write_words, Memories

LEMMA NothingStored ==
    ASSUME NEW m \in Memories, NEW base \in Nat, NEW words \in Seq(Int32), Len(words) = 0
    PROVE  write_words(m, base, words) = m
<1>1. \A a : ~Writes(a, base, words)
  BY DEF Writes
<1>2. write_words(m, base, words) = [a \in DOMAIN m |-> m[a]]
  BY <1>1, Zenon DEF write_words
<1>. QED BY <1>2 DEF Memories

LEMMA SameFunction ==
    ASSUME NEW S, NEW V, NEW g \in [S -> V], NEW h \in [S -> V], \A x \in S : g[x] = h[x]
    PROVE  g = h
  OBVIOUS

LEMMA SameMemories ==
    ASSUME NEW g \in Memories, NEW h \in Memories, \A x \in 0 .. MEMSIZE - 1 : g[x] = h[x]
    PROVE  g = h
<1>. DEFINE S == 0 .. MEMSIZE - 1
            V == 0 .. 255
<1>1. g \in [S -> V] /\ h \in [S -> V] /\ \A x \in S : g[x] = h[x]
  BY DEF Memories
<1>. HIDE DEF S, V
<1>. QED BY <1>1, SameFunction

\* One word more.
LEMMA NextWord ==
    ASSUME NEW m \in Memories, NEW base \in Nat, NEW words \in Seq(Int32), NEW w \in Int32
    PROVE  write_mem(write_words(m, base, words), base + 4 * Len(words), w)
             = write_words(m, base, Append(words, w))
<1>. DEFINE n     == Len(words)
            more  == Append(words, w)
            old   == write_words(m, base, words)
            left  == write_mem(old, base + 4 * n, w)
            right == write_words(m, base, more)
<1>1. /\ n \in Nat /\ more \in Seq(Int32) /\ Len(more) = n + 1
      /\ more[n + 1] = w
      /\ \A k \in 1 .. n : more[k] = words[k]
      /\ base + 4 * n \in Int
  OBVIOUS
<1>2. old \in Memories /\ right \in Memories
  <2>1. old \in Memories
    BY WriteIsMemory
  <2>2. right \in Memories
    <3>. HIDE DEF more
    <3>. QED BY <1>1, WriteIsMemory
  <2>. QED BY <2>1, <2>2
<1>. HIDE DEF n, more, old
<1>. HIDE DEF left, right
<1>3. left \in Memories
  <2>1. write_mem(old, base + 4 * n, w) \in Memories
    BY <1>1, <1>2, StoreIsMemory
  <2>. QED BY <2>1, Zenon DEF left
<1>4. ASSUME NEW a \in 0 .. MEMSIZE - 1 PROVE left[a] = right[a]
  <2>. DEFINE k == (a - base) \div 4
              j == a - (base + 4 * n)
  <2>0. a \in Int /\ base \in Int /\ n \in Int /\ a - base \in Int
    BY <1>1, MemoryAssumption
  <2>1. k \in Int
    BY <2>0
  <2>2. k = n <=> a \in base + 4 * n .. base + 4 * n + 3
    <3>1. k = n <=> a - base \in 4 * n .. 4 * n + 3
      BY <2>0, Quotient
    <3>. QED BY <2>0, <3>1
  <2>. HIDE DEF k
  <2>3. CASE k = n /\ InRange(base + 4 * n)
    <3>1. j \in 0 .. 3 /\ a = (base + 4 * n) + j
      BY <2>0, <2>2, <2>3
    <3>. HIDE DEF j
    <3>2. left[a] = Byte(w, j)
      BY <1>1, <1>2, <2>3, <3>1, StoredBytes DEF left
    <3>3. /\ n + 1 \in 1 .. Len(more)
          /\ base + 4 * ((n + 1) - 1) = base + 4 * n
      BY <1>1
    <3>4. right[base + 4 * ((n + 1) - 1) + j] = Byte(more[n + 1], j)
      BY <1>1, <2>3, <3>1, <3>3, WordThere DEF right
    <3>. QED BY <1>1, <3>1, <3>2, <3>3, <3>4
  <2>4. CASE k = n /\ ~InRange(base + 4 * n)
    <3>1. left = old
      BY <2>4 DEF left, write_mem
    <3>2. Writes(a, base, more) <=> Writes(a, base, words)
      BY <1>1, <2>1, <2>4 DEF Writes, k, n
    <3>3. ~Writes(a, base, words)
      BY <1>1, <2>4 DEF Writes, k, n
    <3>. QED BY <3>1, <3>2, <3>3 DEF write_words, Memories, right, old
  <2>5. CASE k # n
    <3>1. left[a] = old[a]
      BY <1>1, <1>2, <2>0, <2>2, <2>5, StoreIsMemory DEF left
    <3>2. Writes(a, base, more) <=> Writes(a, base, words)
      BY <1>1, <2>1, <2>5 DEF Writes, k, n
    <3>3. Writes(a, base, words) => more[k + 1] = words[k + 1]
      <4>1. Writes(a, base, words) => k + 1 \in 1 .. n
        BY <1>1, <2>1 DEF Writes, k, n
      <4>. QED BY <1>1, <4>1
    <3>4. old[a] = right[a]
      <4>1. CASE Writes(a, base, words)
        BY <3>2, <3>3, <4>1 DEF write_words, Memories, right, old, k
      <4>2. CASE ~Writes(a, base, words)
        BY <3>2, <4>2 DEF write_words, Memories, right, old
      <4>. QED BY <4>1, <4>2
    <3>. QED BY <3>1, <3>4
  <2>. QED BY <2>3, <2>4, <2>5
<1>5. left = right
  BY <1>2, <1>3, <1>4, SameMemories
<1>. QED BY <1>5 DEF left, right, old, more, n
-------------------------------------------------------------------------------
(* Reading a file. *)

LEMMA SmallRemainder ==
    ASSUME NEW x \in Nat, NEW N \in Nat, x < N PROVE x % N = x
  BY SMT

Prefix(file, n) == [k \in 1 .. n |-> file[k]]

LEMMA PrefixMore ==
    ASSUME NEW file \in Seq(Text), NEW n \in Nat, n + 1 <= Len(file),
           Prefix(file, n) \in Seq(Int32), file[n + 1] \in Int32
    PROVE  /\ Len(Prefix(file, n)) = n
           /\ Prefix(file, n + 1) = Append(Prefix(file, n), file[n + 1])
           /\ Prefix(file, n + 1) \in Seq(Int32)
<1>1. Len(Prefix(file, n)) = n
  BY DEF Prefix
<1>. DEFINE app == Append(Prefix(file, n), file[n + 1])
<1>2. app \in Seq(Int32) /\ Len(app) = n + 1
  BY <1>1
<1>3. \A k \in 1 .. n + 1 : app[k] = file[k]
  BY <1>1 DEF Prefix
<1>. HIDE DEF app
<1>4. app = Prefix(file, n + 1)
  BY <1>2, <1>3 DEF Prefix
<1>. QED BY <1>1, <1>2, <1>4 DEF app

LEMMA PrefixWhole ==
    ASSUME NEW file \in Seq(Text)
    PROVE  Prefix(file, Len(file)) = file
  BY DEF Prefix

\* p has come so far with the file that `left` is left of it: the words before
\* are in m, over what m0 held, from base on.
Loading(m, p, left, m0, base, file) ==
    LET n == Len(file) - Len(left)
    IN /\ left \in Seq(Text) /\ n \in Nat
       /\ \A k \in 1 .. Len(left) : left[k] = file[n + k]
       /\ Prefix(file, n) \in Seq(Int32)
       /\ m = write_words(m0, base, Prefix(file, n))
       /\ left # <<>> => p = base + 4 * n

LEMMA LoadStart ==
    ASSUME NEW m0 \in Memories, NEW base \in Nat, NEW file \in Seq(Text)
    PROVE  Loading(m0, base, file, m0, base, file)
<1>1. Len(file) - Len(file) = 0 /\ Len(file) \in Nat
  OBVIOUS
<1>2. Prefix(file, 0) \in Seq(Int32) /\ Len(Prefix(file, 0)) = 0
  BY DEF Prefix
<1>3. m0 = write_words(m0, base, Prefix(file, 0))
  BY <1>2, NothingStored
<1>. QED BY <1>1, <1>2, <1>3 DEF Loading

LEMMA LoadWord ==
    ASSUME NEW m, NEW p, NEW left, NEW m0 \in Memories, NEW base \in Nat,
           NEW file \in Seq(Text), base + 4 * Len(file) <= AddressSpace,
           Loading(m, p, left, m0, base, file), left # <<>>, Head(left) # BAD
    PROVE  Loading(write_mem(m, p, Head(left)), (p + 4) % AddressSpace, Tail(left),
                   m0, base, file)
<1>. DEFINE n == Len(file) - Len(left)
            w == Head(left)
            q == (p + 4) % AddressSpace
<1>1. /\ left \in Seq(Text) /\ n \in Nat
      /\ \A k \in 1 .. Len(left) : left[k] = file[n + k]
      /\ Prefix(file, n) \in Seq(Int32)
      /\ m = write_words(m0, base, Prefix(file, n))
      /\ p = base + 4 * n
  BY DEF Loading
<1>2. /\ Len(left) \in Nat \ {0} /\ w = left[1] /\ w \in Text
      /\ Tail(left) \in Seq(Text) /\ Len(Tail(left)) = Len(left) - 1
      /\ \A k \in 1 .. Len(left) - 1 : Tail(left)[k] = left[k + 1]
  BY <1>1
<1>3. w \in Int32 /\ w = file[n + 1] /\ n + 1 <= Len(file)
  BY <1>1, <1>2 DEF Text
<1>4. /\ Len(Prefix(file, n)) = n
      /\ Prefix(file, n + 1) = Append(Prefix(file, n), w)
      /\ Prefix(file, n + 1) \in Seq(Int32)
  BY <1>1, <1>3, PrefixMore
<1>. HIDE DEF w
<1>5. write_mem(m, p, w) = write_words(m0, base, Prefix(file, n + 1))
  <2>. DEFINE before == Prefix(file, n)
  <2>1. before \in Seq(Int32) /\ Len(before) = n /\ Prefix(file, n + 1) = Append(before, w)
    BY <1>1, <1>4
  <2>2. m = write_words(m0, base, before) /\ p = base + 4 * n
    BY <1>1
  <2>. HIDE DEF before
  <2>3. write_mem(write_words(m0, base, before), base + 4 * Len(before), w)
          = write_words(m0, base, Append(before, w))
    BY <1>3, <2>1, NextWord
  <2>. HIDE DEF n
  <2>. QED BY <2>1, <2>2, <2>3, Zenon
<1>6. Len(file) - Len(Tail(left)) = n + 1
  BY <1>2
<1>7. \A k \in 1 .. Len(Tail(left)) : Tail(left)[k] = file[(n + 1) + k]
  BY <1>1, <1>2
<1>8. Tail(left) # <<>> => q = base + 4 * (n + 1)
  <2>. SUFFICES ASSUME Tail(left) # <<>> PROVE q = base + 4 * (n + 1)
    OBVIOUS
  <2>1. Len(left) >= 2
    BY <1>2
  <2>2. p + 4 \in Nat /\ p + 4 < AddressSpace /\ p + 4 = base + 4 * (n + 1)
    BY <1>1, <1>2, <2>1, SpaceAssumption
  <2>3. AddressSpace \in Nat
    BY SpaceAssumption
  <2>. QED BY <2>2, <2>3, SmallRemainder
<1>. HIDE DEF n, q
<1>9. n + 1 \in Nat
  BY <1>1
<1>. QED BY <1>2, <1>4, <1>5, <1>6, <1>7, <1>8, <1>9, Zenon DEF Loading, w, q

LEMMA LoadEnd ==
    ASSUME NEW m, NEW p, NEW m0, NEW base, NEW file \in Seq(Text),
           Loading(m, p, <<>>, m0, base, file)
    PROVE  file \in Seq(Int32) /\ m = write_words(m0, base, file)
<1>1. Len(file) - Len(<<>>) = Len(file)
  OBVIOUS
<1>. QED BY <1>1, PrefixWhole, Zenon DEF Loading
-------------------------------------------------------------------------------
(* The invariant. *)

Data  == write_words(ZeroMem, 0, files.data)
Image == write_words(Data, Entry, files.input)

\* A word that is not a number stops the loader for good; otherwise memory holds
\* what has been read.
LoadInv ==
    /\ files \in Files
    /\ \/ L!Stuck
       \/ /\ phase = "data"
          /\ Loading(mem, pc, rest, ZeroMem, 0, files.data)
       \/ /\ phase = "input"
          /\ files.data \in Seq(Int32)
          /\ Loading(mem, pc, rest, Data, Entry, files.input)
       \/ /\ phase = "loaded"
          /\ files.data \in Seq(Int32) /\ files.input \in Seq(Int32)
          /\ mem = write_words(Image, Frame, FloatInit)
       \/ phase = "run"

LEMMA FileFacts ==
    ASSUME files \in Files
    PROVE  /\ files.data \in Seq(Text) /\ files.input \in Seq(Text)
           /\ 0 + 4 * Len(files.data) <= AddressSpace
           /\ Entry + 4 * Len(files.input) <= AddressSpace
           /\ ZeroMem \in Memories /\ 0 \in Nat /\ Entry \in Nat /\ Frame \in Nat
           /\ FloatInit \in Seq(Int32)
<1>1. files \in [data : Seq(Text), input : Seq(Text)]
  BY FilesAssumption
<1>2. ZeroMem \in Memories
  BY DEF ZeroMem, Memories
<1>3. 4 * Len(files.data) <= AddressSpace /\ Entry + 4 * Len(files.input) <= AddressSpace
  BY SpaceAssumption
<1>. QED BY <1>1, <1>2, <1>3, MemoryAssumption, WordsAssumption

LEMMA LoadInit == ProgramInit => LoadInv
<1>. SUFFICES ASSUME ProgramInit PROVE LoadInv
  OBVIOUS
<1>1. files \in Files /\ mem = L!ZeroMem /\ pc = 0 /\ phase = "data" /\ rest = files.data
  BY DEF ProgramInit, L!LoaderInit
<1>2. mem = ZeroMem
  BY <1>1 DEF L!ZeroMem, ZeroMem
<1>3. Loading(ZeroMem, 0, files.data, ZeroMem, 0, files.data)
  BY <1>1, FileFacts, LoadStart
<1>. QED BY <1>1, <1>2, <1>3 DEF LoadInv

LEMMA FilesStep == LoadInv /\ LoadFiles => LoadInv'
<1>. SUFFICES ASSUME LoadInv, LoadFiles PROVE LoadInv'
  OBVIOUS
<1>1. L!Load /\ files \in Files
  BY DEF LoadFiles, LoadInv
<1>2. CASE L!ScanBad
  BY <1>1, <1>2 DEF L!ScanBad, L!Reading, L!Store, L!Stuck, LoadInv
<1>3. CASE L!ScanWord
  <2>1. /\ L!Reading /\ rest # <<>> /\ Head(rest) # BAD /\ ~L!Stuck
        /\ mem' = write_mem(mem, pc, Head(rest)) /\ pc' = (pc + 4) % AddressSpace
        /\ rest' = Tail(rest) /\ phase' = phase /\ files' = files
    BY <1>3, SameStore DEF L!ScanWord, L!Reading, L!Store, L!Stuck, L!NextPlace
  <2>2. CASE phase = "data"
    <3>1. Loading(mem, pc, rest, ZeroMem, 0, files.data)
      BY <2>1, <2>2 DEF LoadInv
    <3>2. Loading(write_mem(mem, pc, Head(rest)), (pc + 4) % AddressSpace, Tail(rest),
                  ZeroMem, 0, files.data)
      BY <1>1, <2>1, <3>1, FileFacts, LoadWord, Zenon
    <3>. QED BY <1>1, <2>1, <2>2, <3>2, Zenon DEF LoadInv
  <2>3. CASE phase = "input"
    <3>1. files.data \in Seq(Int32) /\ Loading(mem, pc, rest, Data, Entry, files.input)
      BY <2>1, <2>3 DEF LoadInv
    <3>2. Data \in Memories
      BY <1>1, <3>1, FileFacts, WriteIsMemory DEF Data
    <3>3. Loading(write_mem(mem, pc, Head(rest)), (pc + 4) % AddressSpace, Tail(rest),
                  Data, Entry, files.input)
      BY <1>1, <2>1, <3>1, <3>2, FileFacts, LoadWord, Zenon
    <3>4. Data' = Data
      BY <2>1, Zenon DEF Data, ZeroMem
    <3>. QED BY <1>1, <2>1, <2>3, <3>1, <3>3, <3>4, Zenon DEF LoadInv
  <2>. QED BY <2>1, <2>2, <2>3 DEF L!Reading
<1>4. CASE L!OpenInput
  <2>1. /\ phase = "data" /\ rest = <<>> /\ phase' = "input" /\ rest' = files.input
        /\ pc' = Entry /\ mem' = mem /\ files' = files /\ ~L!Stuck
    BY <1>4 DEF L!OpenInput, L!Stuck, L!Reading
  <2>2. files.data \in Seq(Int32) /\ mem = Data
    BY <1>1, <2>1, FileFacts, LoadEnd DEF LoadInv, Data
  <2>3. Data \in Memories
    BY <1>1, <2>2, FileFacts, WriteIsMemory DEF Data
  <2>4. Loading(Data, Entry, files.input, Data, Entry, files.input)
    BY <1>1, <2>3, FileFacts, LoadStart
  <2>5. Data' = Data
    BY <2>1, Zenon DEF Data, ZeroMem
  <2>. QED BY <1>1, <2>1, <2>2, <2>4, <2>5, Zenon DEF LoadInv
<1>5. CASE L!StoreFloats
  <2>1. /\ phase = "input" /\ rest = <<>> /\ phase' = "loaded"
        /\ mem' = write_words(mem, Frame, FloatInit) /\ files' = files /\ ~L!Stuck
    BY <1>5, SameStores DEF L!StoreFloats, L!Stuck, L!Reading
  <2>2. /\ files.data \in Seq(Int32) /\ files.input \in Seq(Int32) /\ mem = Image
    BY <1>1, <2>1, FileFacts, LoadEnd DEF LoadInv, Image
  <2>3. Image' = Image
    BY <2>1, Zenon DEF Image, Data, ZeroMem
  <2>. QED BY <1>1, <2>1, <2>2, <2>3, Zenon DEF LoadInv
<1>. QED BY <1>1, <1>2, <1>3, <1>4, <1>5 DEF L!Load

\* Nobody else moves before the files are loaded.
LEMMA OthersStep ==
    ASSUME LoadInv, [ProgramNext]_allVars, ~LoadFiles
    PROVE  LoadInv'
<1>1. CASE UNCHANGED <<vars, loading>>
  BY <1>1 DEF LoadInv, vars, loading, L!Stuck, L!Reading, Loading, Data, Image, ZeroMem
<1>2. CASE StartExecution
  BY <1>2 DEF StartExecution, LoadInv, L!Stuck, L!Reading
<1>3. CASE Turn
  BY <1>3 DEF Turn, loading, LoadInv
<1>4. CASE Abort
  BY <1>4 DEF Abort, loading, LoadInv
<1>5. CASE Finish \/ Report \/ Polls \/ Over \/ UNCHANGED allVars
  BY <1>1, <1>5 DEF Finish, Report, Polls, Over, allVars, vars, loading
<1>6. CASE Take \/ LeaveLoop \/ Drain \/ timing_simulation
  BY <1>1, <1>6 DEF Take, LeaveLoop, Drain, timing_simulation
<1>. QED BY <1>2, <1>3, <1>4, <1>5, <1>6 DEF ProgramNext, Step, Parent, Child
-------------------------------------------------------------------------------
(* The image. *)

\* The words are there but where they have been stored over.
LEMMA PlacedBut ==
    ASSUME NEW m \in Memories, NEW base \in Nat, NEW words \in Seq(Int32), NEW over,
           mem \in Memories,
           \A x \in 0 .. MEMSIZE - 1 \ over : mem[x] = write_words(m, base, words)[x]
    PROVE  L!Placed(base, words, over)
<1>. SUFFICES ASSUME NEW k \in 1 .. Len(words),
                     InRange(base + 4 * (k - 1)),
                     (base + 4 * (k - 1) .. base + 4 * (k - 1) + 3) \cap over = {}
              PROVE  read_mem(mem, base + 4 * (k - 1)) = words[k]
  BY SameRead, Zenon DEF L!Placed, L!InRange, InRange
<1>. DEFINE a == base + 4 * (k - 1)
<1>1. a \in Int /\ words[k] \in Int32 /\ \A j \in 0 .. 3 : a + j \in a .. a + 3
  OBVIOUS
<1>2. ASSUME NEW j \in 0 .. 3
      PROVE  a + j \in DOMAIN mem /\ mem[a + j] = Byte(words[k], j)
  <2>1. a + j \in 0 .. MEMSIZE - 1
    BY MemoryAssumption, SMTT(30) DEF InRange
  <2>2. a + j \notin over
    <3>1. a + j \in a .. a + 3
      BY <1>1
    <3>2. (a .. a + 3) \cap over = {}
      OBVIOUS
    <3>. HIDE DEF a
    <3>. QED BY <3>1, <3>2
  <2>3. write_words(m, base, words)[a + j] = Byte(words[k], j)
    BY WordThere
  <2>. QED BY <2>1, <2>2, <2>3 DEF Memories
<1>. HIDE DEF a
<1>3. read_mem(mem, a) = words[k]
  BY <1>1, <1>2, BytesAreWord
<1>. QED BY <1>3 DEF a

LEMMA ImageThere == LoadInv => ImageIntact
<1>. SUFFICES ASSUME LoadInv, phase = "loaded"
              PROVE  LET text  == L!Extent(Entry, files.input)
                         frame == L!Extent(Frame, FloatInit)
                     IN /\ L!Placed(Frame, FloatInit, {})
                        /\ L!Placed(Entry, files.input, frame)
                        /\ L!Placed(0, files.data, text \cup frame)
  BY Zenon DEF ImageIntact, L!ImageIntact
<1>. DEFINE text  == L!Extent(Entry, files.input)
            frame == L!Extent(Frame, FloatInit)
<1>1. /\ files.data \in Seq(Int32) /\ files.input \in Seq(Int32)
      /\ mem = write_words(Image, Frame, FloatInit)
      /\ ZeroMem \in Memories /\ 0 \in Nat /\ Entry \in Nat /\ Frame \in Nat
      /\ FloatInit \in Seq(Int32)
  BY FileFacts DEF LoadInv, L!Stuck, L!Reading
<1>2. Data \in Memories
  BY <1>1, WriteIsMemory DEF Data
<1>3. Image \in Memories
  BY <1>1, <1>2, WriteIsMemory DEF Image
<1>4. mem \in Memories
  BY <1>1, <1>3, WriteIsMemory
<1>5. \A x \in 0 .. MEMSIZE - 1 \ frame : mem[x] = Image[x]
  BY <1>1, <1>3, Untouched DEF L!Extent
<1>6. \A x \in 0 .. MEMSIZE - 1 \ text : Image[x] = Data[x]
  BY <1>1, <1>2, Untouched DEF L!Extent, Image
<1>. HIDE DEF text, frame
<1>7. L!Placed(Frame, FloatInit, {})
  BY <1>1, <1>3, <1>4, PlacedBut, Zenon
<1>8. L!Placed(Entry, files.input, frame)
  <2>1. \A x \in 0 .. MEMSIZE - 1 \ frame :
           mem[x] = write_words(Data, Entry, files.input)[x]
    BY <1>5, Zenon DEF Image
  <2>. QED BY <1>1, <1>2, <1>4, <2>1, PlacedBut, Zenon
<1>9. L!Placed(0, files.data, text \cup frame)
  <2>1. \A x \in 0 .. MEMSIZE - 1 \ (text \cup frame) :
           mem[x] = write_words(ZeroMem, 0, files.data)[x]
    BY <1>5, <1>6, Zenon DEF Data
  <2>. QED BY <1>1, <1>4, <2>1, PlacedBut, Zenon
<1>. QED BY <1>7, <1>8, <1>9 DEF text, frame

\* However long the files are, the program starts with every word of them where
\* it belongs, but for those that the program and the floats are stored over.
THEOREM ImageLoaded == ProgramSpec => []ImageIntact
<1>1. LoadInv /\ [ProgramNext]_allVars => LoadInv'
  BY FilesStep, OthersStep
<1>. QED BY LoadInit, <1>1, ImageThere, PTL DEF ProgramSpec
-------------------------------------------------------------------------------
(* The child is Pipeline.  What is proved of Pipeline is taken over through *)
(* an instance of its proofs, whose definitions read the same text as P's.  *)

PP == INSTANCE Pipeline_proofs WITH inst <- fetched, accessed <- lookups,
                                    Kinds <- Traced, MaxInst <- MaxSteps + 1

LEMMA SameAccess ==
    /\ \A s, e, cy, w : P!IsSlot(s, e, cy, w) <=> PP!IsSlot(s, e, cy, w)
    /\ \A c, b, op, e, cy, w :
          P!AccessDCache(c, b, op, e, cy, w) = PP!AccessDCache(c, b, op, e, cy, w)
<1>1. \A b, e, op : P!WrBack(b, e, op) = PP!WrBack(b, e, op)
  BY ZenonT(60) DEF P!WrBack, P!Merges, P!IsFull, P!Room,
                    P!BufferAtStart, P!InBuffer, P!Contents,
                    PP!WrBack, PP!Merges, PP!IsFull, PP!Room,
                    PP!BufferAtStart, PP!InBuffer, PP!Contents
<1>2. \A c, b, op, e, w : P!Evict(c, b, op, e, w) = PP!Evict(c, b, op, e, w)
  BY <1>1, ZenonT(60) DEF P!Evict, PP!Evict, P!DC_DIRTY, PP!DC_DIRTY
<1>3. \A s, t : P!HitWays(s, t) = PP!HitWays(s, t)
  BY Zenon DEF P!HitWays, PP!HitWays, P!Ways, PP!Ways, P!DC_INVALID, PP!DC_INVALID
<1>4. \A c, b, e, cy, w : P!LoadHit(c, b, e, cy, w) = PP!LoadHit(c, b, e, cy, w)
  BY Zenon DEF P!LoadHit, PP!LoadHit, P!Replace, PP!Replace
<1>5. ASSUME NEW c, NEW b, NEW e, NEW cy, NEW w
      PROVE  /\ P!StoreHit(c, b, e, cy, w) = PP!StoreHit(c, b, e, cy, w)
             /\ P!LoadMiss(c, b, e, cy, w) = PP!LoadMiss(c, b, e, cy, w)
             /\ P!StoreMiss(c, b, e, cy, w) = PP!StoreMiss(c, b, e, cy, w)
  <2>1. \A op : /\ P!WrBack(b, e, op) = PP!WrBack(b, e, op)
                /\ P!Evict(c, b, op, e, w) = PP!Evict(c, b, op, e, w)
    BY <1>1, <1>2
  <2>2. LET buf == PP!Evict(c, b, "STORE", e, w).buf
        IN P!WrBack(buf, e, "STORE") = PP!WrBack(buf, e, "STORE")
    BY <1>1
  <2>3. P!StoreHit(c, b, e, cy, w) = PP!StoreHit(c, b, e, cy, w)
    BY <2>1 DEF P!StoreHit, PP!StoreHit, P!DC_DIRTY, PP!DC_DIRTY, P!Replace, PP!Replace
  <2>4. P!LoadMiss(c, b, e, cy, w) = PP!LoadMiss(c, b, e, cy, w)
    BY <2>1 DEF P!LoadMiss, PP!LoadMiss, P!DC_VALID, PP!DC_VALID, P!Replace, PP!Replace
  <2>5. P!StoreMiss(c, b, e, cy, w) = PP!StoreMiss(c, b, e, cy, w)
    BY <2>1, <2>2 DEF P!StoreMiss, PP!StoreMiss, P!DC_DIRTY, PP!DC_DIRTY, P!Replace, PP!Replace
  <2>. QED BY <2>3, <2>4, <2>5
<1>6. \A s, e, cy, w : P!IsSlot(s, e, cy, w) <=> PP!IsSlot(s, e, cy, w)
  BY <1>3 DEF P!IsSlot, PP!IsSlot, P!IsVictim, PP!IsVictim, P!Candidates, PP!Candidates,
              P!Ways, PP!Ways
<1>7. \A c, b, op, e, cy, w :
         P!AccessDCache(c, b, op, e, cy, w) = PP!AccessDCache(c, b, op, e, cy, w)
  <2>. SUFFICES ASSUME NEW c, NEW b, NEW op, NEW e, NEW cy, NEW w
                PROVE  P!AccessDCache(c, b, op, e, cy, w) = PP!AccessDCache(c, b, op, e, cy, w)
    OBVIOUS
  <2>1. P!HitWays(c[e.index], e.tag) = PP!HitWays(c[e.index], e.tag)
    BY <1>3
  <2>. QED BY <1>4, <1>5, <2>1 DEF P!AccessDCache, PP!AccessDCache
<1>. QED BY <1>6, <1>7

LEMMA SameInit == P!Init <=> PP!Init
  BY ZenonT(60) DEF P!Init, P!NOP, P!NopKind, P!Numbered, P!EmptyCache, P!EmptyBuffer, P!Sets,
               P!Ways, P!ZeroLine, P!DC_INVALID,
               PP!Init, PP!NOP, PP!NopKind, PP!Numbered, PP!EmptyCache, PP!EmptyBuffer, PP!Sets,
               PP!Ways, PP!ZeroLine, PP!DC_INVALID

LEMMA SameClock == \A delay : P!Clock(delay) <=> PP!Clock(delay)
  BY ZenonT(60) DEF P!Clock, P!WAfter, P!MAfter, P!EAfter, P!DAfter, P!FAfter, P!Takes, P!Interlock,
               P!MovesOn, P!Stays, P!IsBranch, P!DelayAfter, P!BusyAfter,
               PP!Clock, PP!WAfter, PP!MAfter, PP!EAfter, PP!DAfter, PP!FAfter, PP!Takes,
               PP!Interlock, PP!MovesOn, PP!Stays, PP!IsBranch, PP!DelayAfter, PP!BusyAfter

LEMMA SameEdge ==
    /\ \A way : P!Access(way) <=> PP!Access(way)
    /\ P!NoAccess <=> PP!NoAccess
    /\ P!Ways = PP!Ways
<1>1. \A addr : P!EntryOf(addr) = PP!EntryOf(addr)
  BY DEF P!EntryOf, P!Tag, P!Index, P!Block, PP!EntryOf, PP!Tag, PP!Index, PP!Block
<1>2. P!Accesses <=> PP!Accesses
  BY DEF P!Accesses, P!IsMemory, PP!Accesses, PP!IsMemory
<1>3. ASSUME NEW way PROVE P!Access(way) <=> PP!Access(way)
  <2>. DEFINE e == PP!EntryOf(M.inst.ADDR)
              a == PP!AccessDCache(dCache, buffer, M.inst.OPCODE, e, cycle + 1, way)
  <2>1. /\ P!EntryOf(M.inst.ADDR) = e
        /\ P!IsSlot(dCache[e.index], e, cycle + 1, way)
              <=> PP!IsSlot(dCache[e.index], e, cycle + 1, way)
        /\ P!AccessDCache(dCache, buffer, M.inst.OPCODE, e, cycle + 1, way) = a
        /\ P!Clock(a.latency) <=> PP!Clock(a.latency)
    BY <1>1, SameAccess, SameClock
  <2>. HIDE DEF e, a
  <2>. QED BY <1>2, <2>1 DEF P!Access, PP!Access, e, a
<1>4. P!NoAccess <=> PP!NoAccess
  BY <1>2, SameClock DEF P!NoAccess, PP!NoAccess, P!cacheVars, PP!cacheVars
<1>. QED BY <1>3, <1>4 DEF P!Ways, PP!Ways

LEMMA SameCalls ==
    /\ \A k : P!Feed(k) <=> PP!Feed(k)
    /\ P!EndProgram <=> PP!EndProgram
    /\ P!FeedNop <=> PP!FeedNop
    /\ P!Stop <=> PP!Stop
    /\ P!vars = PP!vars
<1>1. P!vars = PP!vars
  BY DEF P!vars, P!stages, P!cacheVars, PP!vars, PP!stages, PP!cacheVars
<1>2. \A i : P!Call(i) <=> PP!Call(i)
  BY Zenon DEF P!Call, P!stages, P!cacheVars, PP!Call, PP!stages, PP!cacheVars
<1>3. \A k, n : P!Numbered(k, n) = PP!Numbered(k, n)
  BY Zenon DEF P!Numbered, PP!Numbered
<1>4. ASSUME NEW k PROVE P!Feed(k) <=> PP!Feed(k)
  BY <1>2, <1>3 DEF P!Feed, PP!Feed, P!IsBranch, PP!IsBranch
<1>5. P!NOP(fed + 1) = PP!NOP(fed + 1)
  BY <1>3 DEF P!NOP, P!NopKind, PP!NOP, PP!NopKind
<1>6. P!FeedNop <=> PP!FeedNop
  BY <1>2, <1>5 DEF P!FeedNop, PP!FeedNop, P!Idle, PP!Idle
<1>7. P!EndProgram <=> PP!EndProgram
  BY Zenon DEF P!EndProgram, P!IsBranch, P!stages, P!cacheVars,
               PP!EndProgram, PP!IsBranch, PP!stages, PP!cacheVars
<1>8. P!Stop <=> PP!Stop
  BY Zenon DEF P!Stop, P!Idle, P!stages, P!cacheVars, PP!Stop, PP!Idle, PP!stages, PP!cacheVars
<1>. QED BY <1>1, <1>4, <1>6, <1>7, <1>8, Zenon
-------------------------------------------------------------------------------
(* What the parent pushes. *)

\* Memory holds bytes and the registers words while the files are read, too.
ParentInv == /\ TypeOK /\ AddressTraced
             /\ phase = "run" => EndsWithTransfer
             /\ word \in Int32 /\ rest \in Seq(Text)

LEMMA ParentInit == ProgramInit => ParentInv
<1>. SUFFICES ASSUME ProgramInit PROVE ParentInv
  OBVIOUS
<1>0. PICK g \in Garbage, h \in Garbage : Registers(g, h)
  BY DEF ProgramInit
<1>1. /\ files \in Files /\ word \in Garbage /\ mem = ZeroMem /\ pc = 0 /\ phase = "data"
      /\ rest = files.data
  BY DEF ProgramInit, L!LoaderInit, L!ZeroMem, ZeroMem
<1>2. 0 \in Int32 /\ SP \in Int32 /\ 0 \in Int /\ 0 \in 0 .. MaxSteps
  BY MemoryAssumption, BoundAssumption, Bounds DEF Int32
<1>3. mem \in [0 .. MEMSIZE - 1 -> 0 .. 255]
  BY <1>1 DEF ZeroMem
<1>4. r \in [Regs -> Int32] /\ f \in [FloatRegs -> Int32]
  BY <1>0, <1>2, ProgramAssumption DEF Registers
<1>5. last \in INSTR_TIMSIM /\ last.OPCODE = "NOP"
  BY <1>0, <1>2 DEF Registers, INSTR_TIMSIM, Kinds
<1>6. dead = FALSE /\ accessed = 0 /\ mult_cycle = 0 /\ sigle_routing = 0
  BY <1>0 DEF Registers
<1>7. /\ dead \in BOOLEAN /\ accessed \in Int32 /\ mult_cycle \in Nat
      /\ sigle_routing \in 0 .. MaxSteps
  BY <1>2, <1>6
<1>8. TypeOK
  BY <1>1, <1>2, <1>3, <1>4, <1>5, <1>7 DEF TypeOK
<1>9. word \in Int32 /\ rest \in Seq(Text)
  BY <1>1, FileFacts, ProgramAssumption
<1>. QED BY <1>1, <1>5, <1>8, <1>9 DEF ParentInv, AddressTraced

\* The words that are read are stored as bytes.
LEMMA ParentLoads == LoadInv /\ ParentInv /\ LoadFiles => ParentInv'
<1>. SUFFICES ASSUME LoadInv, ParentInv, LoadFiles PROVE ParentInv'
  OBVIOUS
<1>1. /\ L!Load /\ files \in Files /\ mem \in Memories /\ pc \in Int /\ word \in Int32
      /\ rest \in Seq(Text) /\ UNCHANGED <<r, f, dead, last, accessed, mult_cycle, sigle_routing>>
  BY DEF LoadFiles, LoadInv, ParentInv, TypeOK, Memories
<1>2. ASSUME NEW w \in Int32, NEW left \in Seq(Text), L!Store(w, left)
      PROVE  /\ mem' \in Memories /\ pc' \in Int /\ word' \in Int32 /\ rest' \in Seq(Text)
             /\ phase' = phase
  <2>1. mem' = write_mem(mem, pc, w) /\ pc' = (pc + 4) % AddressSpace /\ word' = w /\ rest' = left
        /\ phase' = phase
    BY <1>2, SameStore DEF L!Store, L!NextPlace
  <2>2. AddressSpace \in Nat \ {0}
    BY SpaceAssumption, MemoryAssumption
  <2>3. (pc + 4) % AddressSpace \in Int
    <3>1. pc + 4 \in Int
      BY <1>1
    <3>2. (pc + 4) % AddressSpace \in 0 .. AddressSpace - 1
      BY <2>2, <3>1, RemainderRange
    <3>. QED BY <2>2, <3>2
  <2>4. mem' \in Memories
    BY <1>1, <2>1, StoreIsMemory
  <2>. QED BY <1>2, <2>1, <2>3, <2>4
<1>3. mem' \in Memories /\ pc' \in Int /\ word' \in Int32 /\ rest' \in Seq(Text) /\ phase' # "run"
  <2>1. CASE L!ScanWord
    <3>1. /\ L!Store(Head(rest), Tail(rest)) /\ rest # <<>> /\ Head(rest) # BAD
          /\ phase \in {"data", "input"}
      BY <2>1 DEF L!ScanWord, L!Reading
    <3>2. Head(rest) \in Text /\ Tail(rest) \in Seq(Text)
      BY <1>1, <3>1
    <3>. QED BY <1>2, <3>1, <3>2 DEF Text
  <2>2. CASE L!ScanBad
    <3>1. L!Store(word, rest) /\ phase \in {"data", "input"}
      BY <2>2 DEF L!ScanBad, L!Reading
    <3>. QED BY <1>1, <1>2, <3>1
  <2>3. CASE L!OpenInput
    BY <1>1, <2>3, FileFacts DEF L!OpenInput
  <2>4. CASE L!StoreFloats
    <3>1. mem' = write_words(mem, Frame, FloatInit)
      BY <2>4, SameStores DEF L!StoreFloats
    <3>2. mem' \in Memories
      BY <1>1, <3>1, FileFacts, WriteIsMemory
    <3>. QED BY <1>1, <2>4, <3>2 DEF L!StoreFloats
  <2>. QED BY <1>1, <2>1, <2>2, <2>3, <2>4 DEF L!Load
<1>. QED BY <1>1, <1>3 DEF ParentInv, TypeOK, AddressTraced, Memories

\* One turn of the parent's loop executes an instruction.  The address in the
\* record of a load or store is the one it used, or the instruction is a load
\* over its own base.
OwnBase == inst.OPCODE = OPCODES["OP_LW"] /\ inst.RT = inst.RS

LEMMA Retires ==
    ASSUME TypeOK, function_simulation
    PROVE  /\ Running /\ InRange(pc)
           /\ \E kind \in Kinds \ {"NOP"}, cycles \in Nat : \E next, regs, used_ :
                 /\ Retire(kind, cycles, next, regs, used_)
                 /\ kind \in {"LOAD", "STORE"} =>
                       used_ = Addr /\ (regs[inst.RS] = r[inst.RS] \/ OwnBase)
<1>. DEFINE Goal == /\ Running /\ InRange(pc)
                    /\ \E kind \in Kinds \ {"NOP"}, cycles \in Nat : \E next, regs, used_ :
                          /\ Retire(kind, cycles, next, regs, used_)
                          /\ kind \in {"LOAD", "STORE"} =>
                                used_ = Addr /\ (regs[inst.RS] = r[inst.RS] \/ OwnBase)
<1>1. ASSUME NEW kind \in {"ALU", "MOVE"}, NEW reg, NEW value, SetRegister(kind, reg, value)
      PROVE  \E next, regs, used_ : Retire(kind, 5, next, regs, used_)
  BY <1>1 DEF SetRegister
<1>2. ASSUME NEW kind, NEW next, Transfer(kind, next)
      PROVE  \E regs, used_ : Retire(kind, 3, next, regs, used_)
  BY <1>2 DEF Transfer
<1>3. {"ALU", "MOVE", "BRANCH", "JMP", "JR", "FPU", "LOAD", "STORE"} \subseteq Kinds \ {"NOP"}
  BY DEF Kinds
<1>4. CASE RType
  <2>1. Running /\ InRange(pc) /\ \E reg, value : SetRegister("ALU", reg, value)
    BY <1>4 DEF RType, INSN_SLL, INSN_ADD, InsnR
  <2>. QED BY <1>1, <1>3, <2>1
<1>5. CASE INSN_ADDI \/ INSN_SLTI \/ INSN_MOVE
  <2>1. /\ Running /\ InRange(pc)
        /\ \E kind \in {"ALU", "MOVE"} : \E reg, value : SetRegister(kind, reg, value)
    BY <1>5 DEF INSN_ADDI, INSN_SLTI, INSN_MOVE, Insn
  <2>. QED BY <1>1, <1>3, <2>1
<1>6. CASE INSN_BEQ \/ INSN_BNE \/ INSN_J \/ INSN_JR
  <2>1. Running /\ InRange(pc) /\ \E kind \in {"BRANCH", "JMP", "JR"} : \E next : Transfer(kind, next)
    BY <1>6 DEF INSN_BEQ, INSN_BNE, INSN_J, INSN_JR, Insn, InsnR, Branch
  <2>. QED BY <1>2, <1>3, <2>1
<1>7. CASE INSN_LW
  <2>. DEFINE regs == [r EXCEPT ![inst.RT] = read_mem(mem, Addr)]
  <2>1. /\ Running /\ InRange(pc) /\ Retire("LOAD", 5, Next4, regs, Addr)
        /\ inst.OPCODE = OPCODES["OP_LW"]
    BY <1>7 DEF INSN_LW, Insn
  <2>2. Decoded(inst)
    BY <2>1, InstRanges
  <2>3. regs[inst.RS] = r[inst.RS] \/ OwnBase
    BY <2>1, <2>2 DEF OwnBase, TypeOK, Decoded
  <2>. HIDE DEF regs
  <2>. QED BY <1>3, <2>1, <2>3
<1>8. CASE INSN_LWC1 \/ INSN_SW \/ INSN_SWC1
  <2>1. Running /\ InRange(pc) /\ \E kind \in {"LOAD", "STORE"} : Retire(kind, 5, Next4, r, Addr)
    BY <1>8 DEF INSN_LWC1, INSN_SW, INSN_SWC1, Insn
  <2>. QED BY <1>3, <2>1
<1>9. CASE FType
  <2>1. Running /\ InRange(pc) /\ \E cycles \in Nat : Retire("FPU", cycles, Next4, r, 0)
    BY <1>9 DEF FType, INSN_ADDS, INSN_MULS, InsnF, FloatOp
  <2>. QED BY <1>3, <2>1
<1>. QED BY <1>4, <1>5, <1>6, <1>7, <1>8, <1>9 DEF function_simulation, IType, JType

LEMMA Executes ==
    ASSUME IInv, function_simulation
    PROVE  /\ IInv' /\ pc # 0 /\ ~dead
           /\ sigle_routing' = sigle_routing + 1
           /\ last' \in Traced
           /\ last'.OPCODE \in {"LOAD", "STORE"} => OwnBase \/ last'.ADDR = accessed'
<1>1. IInv'
  <2>1. Next
    BY DEF function_simulation, RType, IType, JType, FType, Next
  <2>. QED BY <2>1, NextStep DEF StepOK
<1>2. TypeOK
  BY DEF IInv
<1>3. Running /\ InRange(pc)
  BY <1>2, Retires
<1>. DEFINE Retired(kind, cycles, next, regs, used_) ==
               /\ Retire(kind, cycles, next, regs, used_)
               /\ kind \in {"LOAD", "STORE"} =>
                     used_ = Addr /\ (regs[inst.RS] = r[inst.RS] \/ OwnBase)
<1>10. PICK kind \in Kinds \ {"NOP"}, cycles \in Nat :
          \E next, regs, used_ : Retired(kind, cycles, next, regs, used_)
  BY <1>2, Retires
<1>4. PICK next, regs, used_ : Retired(kind, cycles, next, regs, used_)
  BY <1>10
<1>5. /\ last' = FUCDecode2TIM(kind, inst, regs) /\ accessed' = used_
      /\ sigle_routing' = sigle_routing + 1
  BY <1>4 DEF Retire
<1>6. last' \in INSTR_TIMSIM
  BY <1>1 DEF IInv, TypeOK
<1>7. last'.OPCODE = kind /\ last'.ADDR = Add32(regs[inst.RS], inst.IMM)
  BY <1>5 DEF FUCDecode2TIM
<1>8. last' \in Traced
  BY <1>4, <1>6, <1>7 DEF INSTR_TIMSIM, Traced
<1>9. last'.OPCODE \in {"LOAD", "STORE"} => OwnBase \/ last'.ADDR = accessed'
  BY <1>4, <1>5, <1>7 DEF Addr
<1>. QED BY <1>1, <1>3, <1>5, <1>8, <1>9 DEF Running

LEMMA ParentStep == LoadInv /\ ParentInv /\ [ProgramNext]_allVars => ParentInv'
<1>. SUFFICES ASSUME LoadInv, ParentInv, [ProgramNext]_allVars PROVE ParentInv'
  OBVIOUS
<1>1. CASE LoadFiles
  BY <1>1, ParentLoads
<1>2. CASE StartExecution
  BY <1>2, MemoryAssumption DEF StartExecution, ParentInv, TypeOK, AddressTraced, EndsWithTransfer
<1>3. CASE Turn
  <2>1. IInv /\ function_simulation /\ UNCHANGED loading
    BY <1>3 DEF Turn, ParentInv, IInv
  <2>2. IInv'
    BY <2>1, Executes
  <2>. QED BY <2>1, <2>2 DEF ParentInv, IInv, loading
<1>4. CASE Abort
  <2>1. Dies /\ UNCHANGED loading
    BY <1>4 DEF Abort, NullRead, FloatOverrun, Unimplemented
  <2>. QED BY <2>1 DEF Dies, loading, ParentInv, TypeOK, AddressTraced, EndsWithTransfer
<1>5. CASE UNCHANGED <<vars, loading>>
  BY <1>5 DEF vars, loading, ParentInv, TypeOK, AddressTraced, EndsWithTransfer
<1>6. CASE Finish \/ Report \/ Polls \/ Over \/ UNCHANGED allVars
  BY <1>5, <1>6 DEF Finish, Report, Polls, Over, allVars, vars, loading
<1>7. CASE Take \/ LeaveLoop \/ Drain \/ timing_simulation
  BY <1>5, <1>7 DEF Take, LeaveLoop, Drain, timing_simulation
<1>. QED BY <1>1, <1>2, <1>3, <1>4, <1>6, <1>7 DEF ProgramNext, Step, Parent, Child
-------------------------------------------------------------------------------
(* What the child does. *)

LEMMA PipelineAssumed ==
    PP!GeometryAssumption /\ PP!LatencyAssumption /\ PP!KindAssumption /\ PP!LengthAssumption
<1>1. PP!GeometryAssumption /\ PP!LatencyAssumption
  BY CacheAssumption DEF P!GeometryAssumption, P!LatencyAssumption, P!PowersOfTwo,
                         PP!GeometryAssumption, PP!LatencyAssumption, PP!PowersOfTwo
<1>2. PP!KindAssumption
  <2>1. Int32 \subseteq Int
    BY Bounds DEF Int32
  <2>2. Kinds \ {"NOP"} \subseteq PP!Codes /\ 0 .. 63 \subseteq Nat
    BY DEF PP!Codes, Kinds
  <2>3. ASSUME NEW t \in Traced
        PROVE  t \in [OPCODE : PP!Codes, RS : Nat, RT : Nat, RD : Nat, ADDR : Int]
    BY <2>1, <2>2 DEF Traced
  <2>. QED BY <2>3 DEF PP!KindAssumption
<1>3. PP!LengthAssumption
  BY BoundAssumption, CycleAssumption DEF PP!LengthAssumption
<1>. QED BY <1>1, <1>2, <1>3

LEMMA QueueInit == ProgramInit => queue \in Seq(Traced)
  BY DEF ProgramInit

LEMMA QueueStep ==
    ParentInv /\ queue \in Seq(Traced) /\ [ProgramNext]_allVars => (queue \in Seq(Traced))'
<1>. SUFFICES ASSUME ParentInv, queue \in Seq(Traced), [ProgramNext]_allVars
              PROVE  queue' \in Seq(Traced)
  OBVIOUS
<1>1. CASE Turn
  <2>1. last' \in Traced /\ queue' = Append(queue, last')
    BY <1>1, Executes DEF Turn, ParentInv, IInv
  <2>. QED BY <2>1
<1>2. CASE Take
  BY <1>2 DEF Take
<1>3. CASE ~Turn /\ ~Take
  BY <1>3 DEF ProgramNext, Step, Parent, Child, LoadFiles, StartExecution, Finish, Abort, Report,
              LeaveLoop, Drain, timing_simulation, Polls, Over, shared, allVars
<1>. QED BY <1>1, <1>2, <1>3

LEMMA ChildStep ==
    queue \in Seq(Traced) /\ [ProgramNext]_allVars => [PP!Next]_(PP!vars)
<1>. SUFFICES ASSUME queue \in Seq(Traced), [ProgramNext]_allVars PROVE [PP!Next]_(PP!vars)
  OBVIOUS
<1>1. CASE Take
  <2>1. PP!Feed(Head(queue)) /\ Head(queue) \in Traced
    BY <1>1, SameCalls DEF Take
  <2>. QED BY <2>1 DEF PP!Next
<1>2. CASE LeaveLoop
  BY <1>2, SameCalls DEF LeaveLoop, PP!Next
<1>3. CASE Drain
  BY <1>3, SameCalls DEF Drain, PP!Next
<1>4. CASE timing_simulation
  BY <1>4, SameEdge DEF timing_simulation, accessdCache, PP!Next, PP!Edge
<1>5. CASE UNCHANGED child
  BY <1>5 DEF child, PP!vars, PP!stages, PP!cacheVars
<1>6. CASE Parent
  BY <1>5, <1>6 DEF Parent, LoadFiles, StartExecution, Turn, Finish, Abort, Report
<1>. QED BY <1>1, <1>2, <1>3, <1>4, <1>5, <1>6 DEF ProgramNext, Step, Child, Polls, Over, allVars

\* What Pipeline_proofs keeps.
ChildInv == PP!IInv /\ PP!CacheInv /\ PP!PaceInv

LEMMA ChildInit == ProgramInit => ChildInv
<1>. SUFFICES ASSUME ProgramInit PROVE ChildInv
  OBVIOUS
<1>1. PP!Init
  BY SameInit DEF ProgramInit
<1>. QED BY <1>1, PipelineAssumed, PP!InitIInv, PP!InitCacheInv, PP!InitPace DEF ChildInv

LEMMA ChildKeeps ==
    queue \in Seq(Traced) /\ ChildInv /\ [ProgramNext]_allVars => ChildInv'
<1>. SUFFICES ASSUME queue \in Seq(Traced), ChildInv, [ProgramNext]_allVars PROVE ChildInv'
  OBVIOUS
<1>1. [PP!Next]_(PP!vars)
  BY ChildStep
<1>. QED BY <1>1, PipelineAssumed, PP!NextIInv, PP!NextCacheInv, PP!NextPace DEF ChildInv

LEMMA ChildInvariance ==
    ProgramSpec => [](LoadInv /\ ParentInv /\ queue \in Seq(Traced) /\ ChildInv)
<1>1. LoadInv /\ [ProgramNext]_allVars => LoadInv'
  BY FilesStep, OthersStep
<1>. QED BY LoadInit, <1>1, ParentInit, ParentStep, QueueInit, QueueStep, ChildInit, ChildKeeps,
            PTL DEF ProgramSpec

\* Driven by the parent's records, whatever the program is, the child is the
\* machine of module Pipeline: the ring between them, the order in which the two
\* processes run and the moment at which the parent finishes do not show.  What
\* is proved of Pipeline, the in-order trace it implements included, holds of
\* the child of the whole program.
THEOREM ChildIsPipeline == ProgramSpec => P!Spec
<1>1. P!Init <=> PP!Init
  BY SameInit
<1>2. queue \in Seq(Traced) /\ [ProgramNext]_allVars => [P!Next]_(P!vars)
  <2>. SUFFICES ASSUME queue \in Seq(Traced), [ProgramNext]_allVars PROVE [P!Next]_(P!vars)
    OBVIOUS
  <2>1. CASE UNCHANGED P!vars
    BY <2>1
  <2>2. CASE PP!Next
    <3>1. CASE \E k \in Traced : PP!Feed(k)
      BY <3>1, SameCalls DEF P!Next
    <3>2. CASE PP!EndProgram \/ PP!FeedNop \/ PP!Stop
      BY <3>2, SameCalls DEF P!Next
    <3>3. CASE PP!Edge
      BY <3>3, SameEdge DEF PP!Edge, P!Edge, P!Next
    <3>4. CASE PP!Finished
      <4>1. UNCHANGED P!vars
        BY <3>4 DEF PP!Finished, PP!vars, PP!stages, PP!cacheVars, P!vars, P!stages, P!cacheVars
      <4>. QED BY <4>1
    <3>. QED BY <2>2, <3>1, <3>2, <3>3, <3>4 DEF PP!Next
  <2>3. PP!Next \/ UNCHANGED P!vars
    <3>1. [PP!Next]_(PP!vars)
      BY ChildStep
    <3>2. CASE UNCHANGED PP!vars
      BY <3>2 DEF PP!vars, PP!stages, PP!cacheVars, P!vars, P!stages, P!cacheVars
    <3>. QED BY <3>1, <3>2
  <2>. QED BY <2>1, <2>2, <2>3
<1>3. ProgramInit => P!Init
  BY DEF ProgramInit
<1>. QED BY <1>2, <1>3, ChildInvariance, PTL DEF ProgramSpec, P!Spec
-------------------------------------------------------------------------------
(* The run as a whole.  tr[k] is the k-th instruction the parent executed,  *)
(* sum[k] the stalls the first k ask for, place[j] the number of the j-th   *)
(* load or store.                                                           *)

Executed(tr) ==
    /\ tr \in [0 .. sigle_routing -> PP!Instruction]
    /\ tr[0] = PP!NOP(0)
    /\ \A k \in 1 .. sigle_routing : tr[k].id = k /\ tr[k].OPCODE # "NOP"
    /\ tr[sigle_routing] = PP!Numbered(last, sigle_routing)

Asked(tr, sum) ==
    /\ sum \in [0 .. sigle_routing -> Nat]
    /\ sum[0] = 0
    /\ \A k \in 1 .. sigle_routing : sum[k] = sum[k - 1] + PP!Charge(tr[k - 1], tr[k])
    /\ sum[sigle_routing] = stalls

\* The ring holds what the child has not taken.
InRing(tr) ==
    /\ length <= sigle_routing /\ Len(queue) = sigle_routing - length
    /\ \A j \in 1 .. Len(queue) : PP!Numbered(queue[j], length + j) = tr[length + j]

\* An instruction in the pipeline is the one of its number, or follows the program.
InPipe(tr) == \A i \in {fetched, F.inst, D.inst, E.inst, M.inst, W.inst} :
                 i.id <= length => i = tr[i.id]

EndInv(tr) == /\ finish => phase = "run" /\ pc = 0
              /\ ended => finish /\ queue = <<>> /\ PP!IsBranch(tr[length])
              /\ at = "done" => ended

\* The stalls made and those still due are stalls the program asked for so far.
Reached   == IF F.inst.id <= length THEN F.inst.id ELSE length
Paid(sum) == /\ waits \in Int
             /\ 0 <= PP!Pace - waits
             /\ PP!Pace - waits + PP!Debt <= sum[Reached]

\* The loads and stores, and how far the cache has come with them.
Places(tr, place) ==
    /\ used \in Seq([OPCODE : {"LOAD", "STORE"}, ADDR : Int32, ownBase : BOOLEAN])
    /\ place \in [1 .. Len(used) -> 1 .. sigle_routing]
    /\ \A i, j \in 1 .. Len(used) : i < j => place[i] < place[j]
    /\ \A k \in 1 .. sigle_routing :
          PP!IsMemory(tr[k]) <=> \E j \in 1 .. Len(used) : place[j] = k
    /\ \A j \in 1 .. Len(used) :
          /\ used[j].OPCODE = tr[place[j]].OPCODE
          /\ used[j].ownBase \/ tr[place[j]].ADDR = used[j].ADDR

LookedUp(tr, place) ==
    /\ looked \in Seq([OPCODE : {"LOAD", "STORE"}, ADDR : Int])
    /\ Len(looked) <= Len(used)
    /\ \A j \in 1 .. Len(looked) : looked[j] = [OPCODE |-> tr[place[j]].OPCODE,
                                                ADDR   |-> tr[place[j]].ADDR]
    /\ lookups = {place[j] : j \in 1 .. Len(looked)}
    /\ \A k \in 1 .. sigle_routing : PP!IsMemory(tr[k]) /\ k <= W.inst.id => k \in lookups

Reported == /\ pipeline_cycle \in Nat
            /\ pipeline_cycle > 0 => at = "done" /\ pipeline_cycle = cycle

Ghosts(tr, sum, place) == /\ Executed(tr) /\ Asked(tr, sum) /\ InRing(tr) /\ InPipe(tr)
                          /\ EndInv(tr) /\ Paid(sum) /\ Places(tr, place) /\ LookedUp(tr, place)

Typed == /\ ParentInv /\ queue \in Seq(Traced) /\ ChildInv /\ stalls \in Nat
         /\ Reported

LEMMA TypedFacts ==
    ASSUME Typed
    PROVE  /\ sigle_routing \in Nat /\ length \in Nat /\ fed \in Nat /\ length <= fed
           /\ cycle \in Nat /\ dcDelay \in Nat /\ busy \in BOOLEAN
           /\ {F, D, E, M, W} \subseteq PP!Stage
           /\ \A i \in {fetched, F.inst, D.inst, E.inst, M.inst, W.inst} :
                 i \in PP!Instruction /\ i.id \in Nat
           /\ W.inst.id <= M.inst.id /\ M.inst.id <= W.inst.id + 1
           /\ M.inst.id <= F.inst.id /\ F.inst.id <= fed
           /\ at # "call" => F.inst.id = fed /\ ~busy
           /\ ~ended => length = fed
           /\ fetched.id = fed
           /\ PP!Pace \in Int
<1>1. PP!IInv
  BY DEF Typed, ChildInv
<1>2. /\ length \in Nat /\ fed \in Nat /\ length <= fed
      /\ cycle \in Nat /\ dcDelay \in Nat /\ busy \in BOOLEAN
      /\ {F, D, E, M, W} \subseteq PP!Stage
      /\ fetched \in PP!Instruction
  BY <1>1 DEF PP!IInv, PP!TypeInv, PP!TypeOK
<1>3. \A i \in {fetched, F.inst, D.inst, E.inst, M.inst, W.inst} :
         i \in PP!Instruction /\ i.id \in Nat
  BY <1>2 DEF PP!Stage, PP!Instruction
<1>4. /\ W.inst.id <= M.inst.id /\ M.inst.id <= W.inst.id + 1
      /\ M.inst.id <= F.inst.id /\ F.inst.id <= fed
      /\ at # "call" => F.inst.id = fed
  BY <1>1, <1>2, <1>3 DEF PP!IInv, PP!InOrder, PP!Follows
<1>5. /\ at # "call" => ~busy
      /\ ~ended => length = fed
      /\ fetched.id = fed
  BY <1>1 DEF PP!IInv, PP!BusyInv, PP!ProgramInv, PP!CallInv
<1>6. PP!Pace \in Int
  BY <1>2, <1>3 DEF PP!Pace
<1>7. sigle_routing \in Nat
  BY BoundAssumption DEF Typed, ParentInv, TypeOK
<1>. QED BY <1>2, <1>3, <1>4, <1>5, <1>6, <1>7

LEMMA GhostInit ==
    ProgramInit => \E tr, sum, place : Ghosts(tr, sum, place)
<1>. SUFFICES ASSUME ProgramInit PROVE \E tr, sum, place : Ghosts(tr, sum, place)
  OBVIOUS
<1>. DEFINE tr0 == [k \in 0 .. 0 |-> PP!NOP(0)]
            sum0 == [k \in 0 .. 0 |-> 0]
            place0 == [j \in 1 .. 0 |-> 1]
<1>1. /\ PP!Init /\ queue = <<>> /\ finish = FALSE /\ used = <<>> /\ looked = <<>>
      /\ stalls = 0 /\ waits = 0
  BY SameInit DEF ProgramInit
<1>2. /\ fetched = PP!NOP(0) /\ length = 0 /\ cycle = 0 /\ lookups = {} /\ ended = FALSE
      /\ at = "idle" /\ F.inst = PP!NOP(0) /\ D = F /\ E = F /\ M = F /\ W = F /\ busy = FALSE
  BY <1>1, Zenon DEF PP!Init
<1>3. /\ sigle_routing = 0
      /\ last = [OPCODE |-> "NOP", RS |-> 0, RT |-> 0, RD |-> 0, ADDR |-> 0]
  BY DEF ProgramInit, Registers
<1>4. /\ PP!NOP(0) \in PP!Instruction /\ PP!NOP(0).id = 0 /\ PP!NOP(0).OPCODE = "NOP"
      /\ PP!NOP(0) = PP!Numbered(last, 0)
  BY <1>3 DEF PP!NOP, PP!NopKind, PP!Numbered, PP!Instruction
<1>5. Executed(tr0) /\ Asked(tr0, sum0)
  BY <1>1, <1>3, <1>4 DEF Executed, Asked
<1>6. InRing(tr0) /\ InPipe(tr0) /\ EndInv(tr0)
  BY <1>1, <1>2, <1>3, <1>4 DEF InRing, InPipe, EndInv
<1>7. Paid(sum0)
  <2>1. PP!Debt = 0
    BY <1>2, <1>4 DEF PP!Debt, PP!One, PP!Interlock, PP!Uses, PP!IsBranch
  <2>2. PP!Pace = 0
    BY <1>2, <1>4 DEF PP!Pace
  <2>3. Reached = 0
    BY <1>2, <1>4 DEF Reached
  <2>. QED BY <1>1, <2>1, <2>2, <2>3 DEF Paid
<1>8. Places(tr0, place0) /\ LookedUp(tr0, place0)
  BY <1>1, <1>2, <1>3 DEF Places, LookedUp
<1>. HIDE DEF tr0, sum0, place0
<1>. QED BY <1>5, <1>6, <1>7, <1>8 DEF Ghosts

LEMMA TypedInit == ProgramInit /\ LoadInv => Typed
<1>1. ProgramInit => stalls = 0 /\ pipeline_cycle = 0
  BY DEF ProgramInit
<1>. QED BY <1>1, ParentInit, QueueInit, ChildInit DEF Typed, Reported

LEMMA TypedStep == LoadInv /\ Typed /\ [ProgramNext]_allVars => Typed'
<1>. SUFFICES ASSUME LoadInv, Typed, [ProgramNext]_allVars PROVE Typed'
  OBVIOUS
<1>1. ParentInv' /\ (queue \in Seq(Traced))' /\ ChildInv'
  BY ParentStep, QueueStep, ChildKeeps DEF Typed
<1>2. stalls' \in Nat
  <2>1. CASE Turn
    BY <2>1 DEF Turn, Typed
  <2>2. CASE ~Turn
    BY <2>2 DEF Typed, ProgramNext, Step, Parent, Child, LoadFiles, StartExecution, Finish, Abort,
                Report, Take, LeaveLoop, Drain, timing_simulation, accessdCache, Polls, Over,
                history, allVars
  <2>. QED BY <2>1, <2>2
<1>3. Reported'
  <2>1. CASE Report
    BY <2>1, TypedFacts DEF Report, Reported, child
  <2>2. CASE ~Report
    <3>1. pipeline_cycle' = pipeline_cycle
      BY <2>2 DEF ProgramNext, Step, Parent, Child, LoadFiles, StartExecution, Turn, Finish, Abort,
                  Take, LeaveLoop, Drain, timing_simulation, Polls, Over, allVars
    <3>2. [PP!Next]_(PP!vars)
      BY ChildStep DEF Typed
    <3>3. at = "done" => at' = "done" /\ cycle' = cycle
      BY <3>2 DEF PP!Next, PP!Feed, PP!FeedNop, PP!Call, PP!EndProgram, PP!Stop, PP!Edge, PP!Access,
                  PP!NoAccess, PP!Clock, PP!Finished, PP!vars
    <3>. QED BY <3>1, <3>3 DEF Typed, Reported
  <2>. QED BY <2>1, <2>2
<1>. QED BY <1>1, <1>2, <1>3 DEF Typed

\* An instruction more is executed.
LEMMA TurnGhosts ==
    ASSUME Typed, NEW tr, NEW sum, NEW place, Ghosts(tr, sum, place), Turn
    PROVE  \E t, s, p : Ghosts(t, s, p)'
<1>. DEFINE n == sigle_routing
<1>1. /\ n \in Nat /\ length \in Nat /\ length <= n /\ sigle_routing' = n + 1
      /\ last' \in Traced /\ pc # 0 /\ phase' = phase /\ finish' = finish
      /\ last'.OPCODE \in {"LOAD", "STORE"} => OwnBase \/ last'.ADDR = accessed'
      /\ accessed' \in Int32
      /\ queue' = Append(queue, last')
      /\ UNCHANGED <<at, ended, fetched, length, F, D, E, M, W, busy, dcDelay, cycle, lookups,
                     looked, waits>>
  BY TypedFacts, Executes
     DEF Turn, child, loading, Ghosts, InRing, Typed, ParentInv, IInv, TypeOK
<1>. DEFINE i == PP!Numbered(last', n + 1)
<1>2. i \in PP!Instruction /\ i.id = n + 1 /\ i.OPCODE # "NOP"
      /\ i.OPCODE = last'.OPCODE /\ i.ADDR = last'.ADDR /\ i.RS = last'.RS /\ i.RT = last'.RT
  <2>1. /\ last'.OPCODE \in Kinds \ {"NOP"} /\ last'.RS \in 0 .. 63 /\ last'.RT \in 0 .. 63
        /\ last'.RD \in 0 .. 63 /\ last'.ADDR \in Int32
    BY <1>1 DEF Traced
  <2>2. last'.ADDR \in Int /\ last'.RS \in Nat /\ last'.RT \in Nat /\ last'.RD \in Nat
    BY <2>1, Bounds DEF Int32
  <2>. QED BY <1>1, <2>1, <2>2 DEF PP!Numbered, PP!Instruction, PP!Codes, Kinds
<1>. HIDE DEF i
<1>3. PICK t : t = [k \in 0 .. n + 1 |-> IF k = n + 1 THEN i ELSE tr[k]]
  OBVIOUS
<1>4. PICK s : s = [k \in 0 .. n + 1 |-> IF k = n + 1 THEN sum[n] + PP!Charge(tr[n], i) ELSE sum[k]]
  OBVIOUS
<1>5. /\ tr \in [0 .. n -> PP!Instruction] /\ tr[0] = PP!NOP(0)
      /\ \A k \in 1 .. n : tr[k].id = k /\ tr[k].OPCODE # "NOP"
      /\ tr[n] = PP!Numbered(last, n)
      /\ sum \in [0 .. n -> Nat] /\ sum[0] = 0 /\ sum[n] = stalls
      /\ \A k \in 1 .. n : sum[k] = sum[k - 1] + PP!Charge(tr[k - 1], tr[k])
  BY DEF Ghosts, Executed, Asked
<1>6. /\ t \in [0 .. n + 1 -> PP!Instruction] /\ t[n + 1] = i
      /\ \A k \in 0 .. n : t[k] = tr[k]
  BY <1>1, <1>2, <1>3, <1>5
<1>7. PP!Charge(tr[n], i) \in Nat
  BY DEF PP!Charge, PP!One
<1>8. /\ s \in [0 .. n + 1 -> Nat] /\ s[n + 1] = sum[n] + PP!Charge(tr[n], i)
      /\ \A k \in 0 .. n : s[k] = sum[k]
  BY <1>1, <1>4, <1>5, <1>7
<1>9. Executed(t)'
  <2>1. t[0] = PP!NOP(0)
    BY <1>1, <1>5, <1>6
  <2>2. \A k \in 1 .. n + 1 : t[k].id = k /\ t[k].OPCODE # "NOP"
    <3>. SUFFICES ASSUME NEW k \in 1 .. n + 1 PROVE t[k].id = k /\ t[k].OPCODE # "NOP"
      OBVIOUS
    <3>1. CASE k = n + 1
      BY <1>2, <1>6, <3>1
    <3>2. CASE k \in 1 .. n
      BY <1>1, <1>5, <1>6, <3>2
    <3>. QED BY <1>1, <3>1, <3>2
  <2>3. t[n + 1] = PP!Numbered(last', n + 1)
    BY <1>6 DEF i
  <2>. QED BY <1>1, <1>6, <2>1, <2>2, <2>3 DEF Executed
<1>10. Asked(t, s)'
  <2>1. stalls' = stalls + PP!Charge(tr[n], i)
    <3>1. /\ tr[n].OPCODE = last.OPCODE /\ tr[n].RD = last.RD
      BY <1>5 DEF PP!Numbered
    <3>2. IsTransfer <=> PP!IsBranch(i)
      BY <1>2 DEF IsTransfer, PP!IsBranch
    <3>3. Interlocks <=> PP!Uses(tr[n], i)
      BY <1>2, <3>1 DEF Interlocks, PP!Uses
    <3>4. stalls' = stalls + (IF IsTransfer THEN 1 ELSE 0) + (IF Interlocks THEN 1 ELSE 0)
      BY DEF Turn
    <3>5. stalls \in Nat
      BY DEF Typed
    <3>. QED BY <3>2, <3>3, <3>4, <3>5 DEF PP!Charge, PP!One
  <2>2. \A k \in 1 .. n + 1 : s[k] = s[k - 1] + PP!Charge(t[k - 1], t[k])
    <3>. SUFFICES ASSUME NEW k \in 1 .. n + 1 PROVE s[k] = s[k - 1] + PP!Charge(t[k - 1], t[k])
      OBVIOUS
    <3>1. CASE k = n + 1
      BY <1>1, <1>6, <1>8, <3>1
    <3>2. CASE k \in 1 .. n
      <4>1. k - 1 \in 0 .. n /\ k \in 0 .. n
        BY <1>1, <3>2
      <4>. QED BY <1>5, <1>6, <1>8, <3>2, <4>1
    <3>. QED BY <1>1, <3>1, <3>2
  <2>. QED BY <1>1, <1>5, <1>8, <2>1, <2>2 DEF Asked
<1>11. InRing(t)'
  <2>1. /\ Len(queue) = n - length /\ queue \in Seq(Traced)
        /\ \A j \in 1 .. Len(queue) : PP!Numbered(queue[j], length + j) = tr[length + j]
    BY DEF Ghosts, InRing, Typed
  <2>2. /\ Len(queue') = Len(queue) + 1
        /\ \A j \in 1 .. Len(queue) : queue'[j] = queue[j]
        /\ queue'[Len(queue) + 1] = last'
    BY <1>1, <2>1
  <2>3. ASSUME NEW j \in 1 .. Len(queue') PROVE PP!Numbered(queue'[j], length + j) = t[length + j]
    <3>1. CASE j = Len(queue) + 1
      BY <1>1, <1>6, <2>1, <2>2, <3>1 DEF i
    <3>2. CASE j \in 1 .. Len(queue)
      <4>1. length + j \in 0 .. n
        BY <1>1, <2>1, <3>2
      <4>. QED BY <1>6, <2>1, <2>2, <3>2, <4>1
    <3>. QED BY <1>1, <2>1, <2>2, <3>1, <3>2
  <2>. QED BY <1>1, <2>1, <2>2, <2>3 DEF InRing
<1>12. InPipe(t)'
  <2>1. ASSUME NEW j \in {fetched, F.inst, D.inst, E.inst, M.inst, W.inst}, j.id <= length
        PROVE  j = t[j.id]
    <3>1. j.id \in Nat /\ j = tr[j.id]
      BY <2>1, TypedFacts DEF Ghosts, InPipe
    <3>. QED BY <1>1, <1>6, <2>1, <3>1
  <2>. QED BY <1>1, <2>1 DEF InPipe
<1>13. EndInv(t)'
  <2>1. ~finish /\ ~ended /\ at # "done"
    BY <1>1 DEF Ghosts, EndInv
  <2>. QED BY <1>1, <2>1 DEF EndInv
<1>14. Paid(s)'
  <2>1. PP!Pace' = PP!Pace /\ PP!Debt' = PP!Debt /\ Reached' = Reached /\ waits' = waits
    BY <1>1 DEF PP!Pace, PP!Debt, PP!Interlock, Reached
  <2>2. Reached \in 0 .. n
    BY <1>1, TypedFacts DEF Reached
  <2>. QED BY <1>8, <2>1, <2>2 DEF Ghosts, Paid
<1>. DEFINE rec == [OPCODE |-> last'.OPCODE, ADDR |-> accessed', ownBase |-> OwnBase]
<1>15. /\ used \in Seq([OPCODE : {"LOAD", "STORE"}, ADDR : Int32, ownBase : BOOLEAN])
       /\ place \in [1 .. Len(used) -> 1 .. n]
       /\ \A a, b \in 1 .. Len(used) : a < b => place[a] < place[b]
       /\ \A k \in 1 .. n : PP!IsMemory(tr[k]) <=> \E j \in 1 .. Len(used) : place[j] = k
       /\ \A j \in 1 .. Len(used) :
             /\ used[j].OPCODE = tr[place[j]].OPCODE
             /\ used[j].ownBase \/ tr[place[j]].ADDR = used[j].ADDR
       /\ looked \in Seq([OPCODE : {"LOAD", "STORE"}, ADDR : Int])
       /\ Len(looked) <= Len(used)
       /\ \A j \in 1 .. Len(looked) : looked[j] = [OPCODE |-> tr[place[j]].OPCODE,
                                                   ADDR   |-> tr[place[j]].ADDR]
       /\ lookups = {place[j] : j \in 1 .. Len(looked)}
       /\ \A k \in 1 .. n : PP!IsMemory(tr[k]) /\ k <= W.inst.id => k \in lookups
  BY DEF Ghosts, Places, LookedUp
<1>16. ~(n + 1 <= W.inst.id)
  BY <1>1, TypedFacts DEF Ghosts, EndInv
<1>17. CASE last'.OPCODE \in {"LOAD", "STORE"}
  <2>. DEFINE u == Len(used)
  <2>1. used' = Append(used, rec)
    BY <1>17 DEF Turn, OwnBase
  <2>2. /\ rec \in [OPCODE : {"LOAD", "STORE"}, ADDR : Int32, ownBase : BOOLEAN]
        /\ rec.OPCODE = i.OPCODE /\ (rec.ownBase \/ i.ADDR = rec.ADDR)
    BY <1>1, <1>2, <1>17 DEF OwnBase
  <2>. HIDE DEF rec
  <2>3. /\ u \in Nat /\ Len(used') = u + 1 /\ used'[u + 1] = rec
        /\ used' \in Seq([OPCODE : {"LOAD", "STORE"}, ADDR : Int32, ownBase : BOOLEAN])
        /\ \A j \in 1 .. u : used'[j] = used[j]
    BY <1>15, <2>1, <2>2
  <2>4. PICK p : p = [j \in 1 .. u + 1 |-> IF j = u + 1 THEN n + 1 ELSE place[j]]
    OBVIOUS
  <2>. HIDE DEF u
  <2>5. /\ p \in [1 .. u + 1 -> 1 .. n + 1] /\ p[u + 1] = n + 1
        /\ \A j \in 1 .. u : p[j] = place[j] /\ place[j] \in 1 .. n
    <3>1. place \in [1 .. u -> 1 .. n]
      BY <1>15 DEF u
    <3>. QED BY <1>1, <2>3, <2>4, <3>1
  <2>6. \A a, b \in 1 .. u + 1 : a < b => p[a] < p[b]
    <3>1. \A a, b \in 1 .. u : a < b => place[a] < place[b]
      BY <1>15 DEF u
    <3>. SUFFICES ASSUME NEW a \in 1 .. u + 1, NEW b \in 1 .. u + 1, a < b PROVE p[a] < p[b]
      OBVIOUS
    <3>2. a \in 1 .. u /\ p[a] = place[a] /\ place[a] \in 1 .. n
      BY <2>3, <2>5
    <3>3. CASE b = u + 1
      BY <1>1, <2>5, <3>2, <3>3
    <3>4. CASE b \in 1 .. u
      <4>1. p[b] = place[b] /\ place[a] < place[b]
        BY <2>5, <3>1, <3>2, <3>4
      <4>. QED BY <3>2, <4>1
    <3>. QED BY <2>3, <3>3, <3>4
  <2>7. PP!IsMemory(i)
    BY <1>2, <1>17 DEF PP!IsMemory
  <2>8. ASSUME NEW k \in 1 .. n + 1
        PROVE  PP!IsMemory(t[k]) <=> \E j \in 1 .. u + 1 : p[j] = k
    <3>1. CASE k = n + 1
      BY <1>6, <2>3, <2>5, <2>7, <3>1
    <3>2. CASE k \in 1 .. n
      <4>1. t[k] = tr[k]
        BY <1>6, <3>2
      <4>2. PP!IsMemory(tr[k]) <=> \E j \in 1 .. u : place[j] = k
        BY <1>15, <3>2 DEF u
      <4>3. (\E j \in 1 .. u : place[j] = k) <=> \E j \in 1 .. u + 1 : p[j] = k
        <5>1. \A j \in 1 .. u : j \in 1 .. u + 1 /\ p[j] = place[j]
          BY <2>3, <2>5
        <5>2. \A j \in 1 .. u + 1 : p[j] = k => j \in 1 .. u
          BY <1>1, <2>3, <2>5, <3>2
        <5>. QED BY <5>1, <5>2
      <4>. QED BY <4>1, <4>2, <4>3
    <3>. QED BY <1>1, <3>1, <3>2
  <2>9. ASSUME NEW j \in 1 .. u + 1
        PROVE  /\ used'[j].OPCODE = t[p[j]].OPCODE
               /\ used'[j].ownBase \/ t[p[j]].ADDR = used'[j].ADDR
    <3>1. CASE j = u + 1
      BY <1>6, <2>2, <2>3, <2>5, <3>1
    <3>2. CASE j \in 1 .. u
      <4>1. p[j] = place[j] /\ place[j] \in 1 .. n
        BY <2>3, <2>5, <3>2
      <4>2. t[place[j]] = tr[place[j]]
        BY <1>6, <4>1
      <4>3. used'[j] = used[j]
        BY <2>3, <3>2
      <4>. QED BY <1>15, <3>2, <4>1, <4>2, <4>3 DEF u
    <3>. QED BY <2>3, <3>1, <3>2
  <2>10. Places(t, p)'
    BY <1>1, <2>3, <2>5, <2>6, <2>8, <2>9 DEF Places
  <2>11. LookedUp(t, p)'
    <3>1. \A j \in 1 .. Len(looked) : p[j] = place[j] /\ t[p[j]] = tr[place[j]]
      BY <1>1, <1>6, <1>15, <2>3, <2>5 DEF u
    <3>2. lookups = {p[j] : j \in 1 .. Len(looked)}
      <4>1. lookups = {place[j] : j \in 1 .. Len(looked)}
        BY <1>15
      <4>. QED BY <3>1, <4>1
    <3>3. \A k \in 1 .. n + 1 : PP!IsMemory(t[k]) /\ k <= W.inst.id => k \in lookups
      BY <1>1, <1>6, <1>15, <1>16
    <3>4. Len(looked) <= u + 1
      BY <1>15, <2>3 DEF u
    <3>5. /\ looked \in Seq([OPCODE : {"LOAD", "STORE"}, ADDR : Int])
          /\ \A j \in 1 .. Len(looked) : looked[j] = [OPCODE |-> t[p[j]].OPCODE,
                                                      ADDR   |-> t[p[j]].ADDR]
      BY <1>15, <3>1
    <3>. QED BY <1>1, <2>3, <3>2, <3>3, <3>4, <3>5 DEF LookedUp
  <2>. QED BY <1>9, <1>10, <1>11, <1>12, <1>13, <1>14, <2>10, <2>11 DEF Ghosts
<1>18. CASE last'.OPCODE \notin {"LOAD", "STORE"}
  <2>1. used' = used
    BY <1>18 DEF Turn
  <2>2. ~PP!IsMemory(i)
    BY <1>2, <1>18 DEF PP!IsMemory
  <2>3. \A j \in 1 .. Len(used) : place[j] \in 1 .. n /\ t[place[j]] = tr[place[j]]
    <3>1. place \in [1 .. Len(used) -> 1 .. n]
      BY <1>15
    <3>. QED BY <1>6, <3>1
  <2>4. ASSUME NEW k \in 1 .. n + 1
        PROVE  PP!IsMemory(t[k]) <=> \E j \in 1 .. Len(used) : place[j] = k
    <3>1. CASE k = n + 1
      BY <1>1, <1>6, <2>2, <2>3, <3>1
    <3>2. CASE k \in 1 .. n
      BY <1>1, <1>6, <1>15, <3>2
    <3>. QED BY <1>1, <3>1, <3>2
  <2>5. Places(t, place)'
    <3>1. /\ used' \in Seq([OPCODE : {"LOAD", "STORE"}, ADDR : Int32, ownBase : BOOLEAN])
          /\ \A a, b \in 1 .. Len(used') : a < b => place[a] < place[b]
      BY <1>15, <2>1
    <3>2. place \in [1 .. Len(used') -> 1 .. sigle_routing']
      <4>1. place \in [1 .. Len(used) -> 1 .. n]
        BY <1>15
      <4>. QED BY <1>1, <2>1, <4>1
    <3>3. \A j \in 1 .. Len(used') :
             /\ used'[j].OPCODE = t[place[j]].OPCODE
             /\ used'[j].ownBase \/ t[place[j]].ADDR = used'[j].ADDR
      BY <1>15, <2>1, <2>3
    <3>. QED BY <1>1, <2>1, <2>4, <3>1, <3>2, <3>3 DEF Places
  <2>6. LookedUp(t, place)'
    <3>1. \A k \in 1 .. n + 1 : PP!IsMemory(t[k]) /\ k <= W.inst.id => k \in lookups
      BY <1>1, <1>6, <1>15, <1>16
    <3>2. Len(looked) \in Nat /\ Len(used) \in Nat
      BY <1>15
    <3>3. \A j \in 1 .. Len(looked) : t[place[j]] = tr[place[j]]
      BY <1>15, <2>3, <3>2
    <3>. QED BY <1>1, <1>15, <2>1, <3>1, <3>3 DEF LookedUp
  <2>. QED BY <1>9, <1>10, <1>11, <1>12, <1>13, <1>14, <2>5, <2>6 DEF Ghosts
<1>. QED BY <1>17, <1>18

\* An edge of the child's clock, which asks for no stall that the program does
\* not, and makes none twice.
LEMMA EdgeGhosts ==
    ASSUME Typed, Typed', NEW tr, NEW sum, NEW place, Ghosts(tr, sum, place),
           NEW delay \in Nat \ {0}, PP!Clock(IF PP!Accesses THEN delay ELSE dcDelay),
           waits' = waits + (IF PP!Accesses THEN delay - 1 ELSE 0),
           UNCHANGED <<vars, loading, shared, used, stalls>>
    PROVE  (Executed(tr) /\ Asked(tr, sum) /\ InRing(tr) /\ InPipe(tr) /\ EndInv(tr) /\ Paid(sum))'
<1>. DEFINE d == IF PP!Accesses THEN delay ELSE dcDelay
            n == sigle_routing
<1>1. /\ PP!IInv /\ PP!CacheInv /\ PP!PaceInv /\ d \in Nat /\ PP!Clock(d)
      /\ n \in Nat /\ length \in Nat /\ length <= n
  BY TypedFacts DEF Typed, ChildInv, Ghosts, InRing
<1>2. /\ UNCHANGED <<fetched, length, ended, fed>> /\ at = "call" /\ at' \in {"call", "idle"}
      /\ UNCHANGED <<sigle_routing, last, pc, phase, queue, finish, used, stalls>>
  BY DEF PP!Clock, vars, loading, shared
<1>3. /\ \A t \in {F', D', E', M'} :
            t.inst \in {F.inst, D.inst, E.inst, M.inst} \/ (t.inst = fetched /\ at' = "idle")
      /\ IF at' = "idle" THEN F'.inst = fetched ELSE F'.inst = F.inst
      /\ fetched.id = F.inst.id + 1
      /\ W'.inst = M.inst
  BY <1>1, PipelineAssumed, PP!StageFlow
<1>4. (Executed(tr) /\ Asked(tr, sum) /\ InRing(tr))'
  BY <1>2 DEF Ghosts, Executed, Asked, InRing
<1>5. InPipe(tr)'
  BY <1>2, <1>3 DEF Ghosts, InPipe
<1>6. EndInv(tr)'
  BY <1>2 DEF Ghosts, EndInv
<1>7. /\ PP!Pace \in Int
      /\ PP!Pace' = PP!Pace + PP!One(~busy' /\ at' = "call")
                    + (IF PP!Accesses THEN delay - 1 ELSE 0)
  BY <1>1, PipelineAssumed, PP!EdgePaid
<1>8. PP!One(~busy' /\ at' = "call") + PP!Debt'
        <= PP!Debt + (IF at' = "idle" THEN PP!Charge(F.inst, fetched) ELSE 0)
  BY <1>1, PipelineAssumed, PP!EdgeDebt
<1>9. /\ PP!One(~busy' /\ at' = "call") \in Nat /\ PP!Debt \in Nat /\ PP!Debt' \in Nat
      /\ PP!Charge(F.inst, fetched) \in Nat
  BY DEF PP!One, PP!Debt, PP!Charge
<1>10. /\ F.inst.id \in Nat /\ fetched.id \in Nat
       /\ F.inst.id <= length => F.inst = tr[F.inst.id]
       /\ fetched.id <= length => fetched = tr[fetched.id]
  BY TypedFacts DEF Ghosts, InPipe
<1>11. /\ sum \in [0 .. n -> Nat]
       /\ \A k \in 1 .. n : sum[k] = sum[k - 1] + PP!Charge(tr[k - 1], tr[k])
  BY DEF Ghosts, Asked
<1>12. Reached \in 0 .. n /\ sum[Reached] \in Nat
  BY <1>1, <1>10, <1>11 DEF Reached
<1>13. sum[Reached'] = sum[Reached] + (IF at' = "idle" THEN PP!Charge(F.inst, fetched) ELSE 0)
  <2>1. CASE at' = "call"
    <3>1. Reached' = Reached
      BY <1>2, <1>3, <2>1 DEF Reached
    <3>. QED BY <1>12, <2>1, <3>1
  <2>2. CASE at' = "idle" /\ fetched.id <= length
    <3>1. Reached = F.inst.id /\ Reached' = F.inst.id + 1 /\ Reached' \in 1 .. n
      BY <1>1, <1>2, <1>3, <1>10, <2>2 DEF Reached
    <3>2. tr[Reached' - 1] = F.inst /\ tr[Reached'] = fetched /\ Reached' - 1 = Reached
      BY <1>1, <1>3, <1>10, <2>2, <3>1
    <3>. QED BY <1>11, <2>2, <3>1, <3>2
  <2>3. CASE at' = "idle" /\ ~(fetched.id <= length)
    <3>1. Reached = length /\ Reached' = length
      BY <1>1, <1>2, <1>3, <1>10, <2>3 DEF Reached
    <3>2. fetched.OPCODE = "NOP"
      BY <1>1, <1>10, <2>3 DEF PP!PaceInv, PP!LatesInv, PP!LateInv
    <3>3. F.inst.OPCODE # "LOAD"
      <4>1. CASE F.inst.id = length
        <5>1. ended
          BY <1>3, <1>10, <2>3, <4>1, TypedFacts
        <5>2. PP!IsBranch(F.inst)
          BY <1>10, <4>1, <5>1 DEF Ghosts, EndInv
        <5>. QED BY <5>2 DEF PP!IsBranch
      <4>2. CASE F.inst.id > length
        BY <1>1, <4>2 DEF PP!PaceInv, PP!LatesInv, PP!LateInv
      <4>. QED BY <1>1, <1>3, <1>10, <2>3, <4>1, <4>2
    <3>4. PP!Charge(F.inst, fetched) = 0
      BY <3>2, <3>3 DEF PP!Charge, PP!One, PP!IsBranch, PP!Uses
    <3>. QED BY <1>12, <2>3, <3>1, <3>4
  <2>. QED BY <1>2, <2>1, <2>2, <2>3
<1>14. Paid(sum)'
  <2>1. waits \in Int /\ 0 <= PP!Pace - waits /\ PP!Pace - waits + PP!Debt <= sum[Reached]
    BY DEF Ghosts, Paid
  <2>. HIDE DEF d, n
  <2>2. waits' \in Int
    BY <2>1
  <2>3. PP!Pace' - waits' = PP!Pace - waits + PP!One(~busy' /\ at' = "call")
    BY <1>7, <1>9, <2>1
  <2>4. PP!Pace' \in Int
    BY <1>7, <1>9
  <2>. QED BY <1>7, <1>8, <1>9, <1>12, <1>13, <2>1, <2>2, <2>3, <2>4 DEF Paid
<1>. QED BY <1>4, <1>5, <1>6, <1>14

\* What a stage past the cache shows has been looked up.
LEMMA Caught ==
    ASSUME Typed, Typed', NEW tr, NEW sum, NEW place, Ghosts(tr, sum, place), InPipe(tr)',
           UNCHANGED <<sigle_routing, length>>, lookups \subseteq lookups',
           W'.inst = M.inst
    PROVE  \A k \in 1 .. sigle_routing : PP!IsMemory(tr[k]) /\ k <= W'.inst.id => k \in lookups'
<1>. SUFFICES ASSUME NEW k \in 1 .. sigle_routing, PP!IsMemory(tr[k]), k <= W'.inst.id
              PROVE  k \in lookups'
  OBVIOUS
<1>1. /\ W.inst.id \in Nat /\ M.inst.id \in Nat /\ M.inst.id <= W.inst.id + 1
      /\ W.inst.id <= M.inst.id /\ length \in Nat
  BY TypedFacts
<1>2. CASE k <= W.inst.id
  BY <1>2 DEF Ghosts, LookedUp
<1>3. CASE k = W'.inst.id
  <2>1. PP!IsMemory(W'.inst)
    <3>1. CASE W'.inst.id <= length
      <4>1. W'.inst = tr[k]
        BY <1>3, <3>1 DEF InPipe
      <4>. QED BY <4>1
    <3>2. CASE W'.inst.id > length
      \* k is the number of an instruction the child has not taken yet
      <4>1. M.inst.id <= fed
        BY TypedFacts
      <4>2. ended
        BY <1>1, <3>2, <4>1, TypedFacts
      <4>3. length = sigle_routing
        <5>1. queue = <<>> /\ Len(queue) = sigle_routing - length
          BY <4>2 DEF Ghosts, EndInv, InRing
        <5>. QED BY <5>1, TypedFacts
      <4>. QED BY <1>1, <1>3, <3>2, <4>3
    <3>. QED BY <1>1, <3>1, <3>2
  <2>2. (PP!IsMemory(W.inst) => W.inst.id \in lookups)'
    BY DEF Typed, ChildInv, PP!IInv, PP!AccessInv, PP!AccessedByWrite, PP!IsMemory
  <2>. QED BY <1>3, <2>1, <2>2 DEF PP!IsMemory
<1>. QED BY <1>1, <1>2, <1>3

LEMMA Appended ==
    ASSUME NEW S, NEW s \in Seq(S), NEW x \in S
    PROVE  /\ Append(s, x) \in Seq(S) /\ Len(Append(s, x)) = Len(s) + 1
           /\ Append(s, x)[Len(s) + 1] = x
           /\ \A k \in 1 .. Len(s) : Append(s, x)[k] = s[k]
  OBVIOUS

\* The cache comes to the loads and stores in their order.
LEMMA LookupGhosts ==
    ASSUME Typed, Typed', NEW tr, NEW sum, NEW place, Ghosts(tr, sum, place), InPipe(tr)',
           UNCHANGED <<sigle_routing, length, used>>, W'.inst = M.inst,
           PP!Accesses, lookups' = lookups \cup {M.inst.id},
           looked' = IF M.inst.id \in lookups
                       THEN looked
                       ELSE Append(looked, [OPCODE |-> M.inst.OPCODE, ADDR |-> M.inst.ADDR])
    PROVE  LookedUp(tr, place)'
<1>. DEFINE n == sigle_routing
            m == M.inst.id
            l == Len(looked)
            u == Len(used)
<1>1. /\ used \in Seq([OPCODE : {"LOAD", "STORE"}, ADDR : Int32, ownBase : BOOLEAN])
      /\ place \in [1 .. u -> 1 .. n]
      /\ \A i, j \in 1 .. u : i < j => place[i] < place[j]
      /\ \A k \in 1 .. n : PP!IsMemory(tr[k]) <=> \E j \in 1 .. u : place[j] = k
      /\ looked \in Seq([OPCODE : {"LOAD", "STORE"}, ADDR : Int])
      /\ l <= u
      /\ \A j \in 1 .. l : looked[j] = [OPCODE |-> tr[place[j]].OPCODE, ADDR |-> tr[place[j]].ADDR]
      /\ lookups = {place[j] : j \in 1 .. l}
      /\ \A k \in 1 .. n : PP!IsMemory(tr[k]) /\ k <= W.inst.id => k \in lookups
  BY DEF Ghosts, Places, LookedUp
<1>2. /\ m \in Nat /\ length \in Nat /\ n \in Nat /\ length <= n /\ W.inst.id \in Nat
      /\ m <= W.inst.id + 1 /\ M.inst \in PP!Instruction /\ l \in Nat /\ u \in Nat
  <2>1. length <= n
    BY DEF Ghosts, InRing
  <2>2. l \in Nat /\ u \in Nat
    BY <1>1
  <2>. QED BY <2>1, <2>2, TypedFacts
<1>3. \A k \in 1 .. n : PP!IsMemory(tr[k]) /\ k <= W'.inst.id => k \in lookups'
  BY Caught
<1>4. CASE m \in lookups
  <2>1. lookups' = lookups /\ looked' = looked
    BY <1>4
  <2>. QED BY <1>1, <1>3, <2>1 DEF LookedUp
<1>5. CASE m \notin lookups
  <2>1. PP!IsMemory(M.inst) /\ M.inst.OPCODE \in {"LOAD", "STORE"}
    BY DEF PP!Accesses, PP!IsMemory
  <2>2. m \in 1 .. n /\ M.inst = tr[m]
    <3>1. m <= length
      BY <2>1, <1>2 DEF Typed, ChildInv, PP!PaceInv, PP!LatesInv, PP!LateInv
    <3>2. M.inst = tr[m]
      BY <3>1 DEF Ghosts, InPipe
    <3>3. m # 0
      <4>1. tr[0].OPCODE = "NOP"
        BY DEF Ghosts, Executed, PP!NOP, PP!NopKind, PP!Numbered
      <4>. QED BY <2>1, <3>2, <4>1
    <3>. QED BY <1>2, <3>1, <3>2, <3>3
  <2>3. PICK j \in 1 .. u : place[j] = m
    BY <1>1, <2>1, <2>2
  <2>4. ~(j <= l)
    BY <1>1, <1>2, <1>5, <2>3
  <2>5. j = l + 1
    <3>. SUFFICES ASSUME j # l + 1 PROVE FALSE
      OBVIOUS
    <3>1. l + 1 \in 1 .. u /\ l + 1 < j
      BY <1>2, <2>3, <2>4
    <3>2. place[l + 1] \in 1 .. n /\ place[l + 1] < m
      BY <1>1, <2>3, <3>1
    <3>3. PP!IsMemory(tr[place[l + 1]]) /\ place[l + 1] <= W.inst.id
      <4>1. PP!IsMemory(tr[place[l + 1]])
        BY <1>1, <3>1, <3>2
      <4>2. place[l + 1] \in Nat /\ place[l + 1] < m
        BY <1>2, <3>2
      <4>. HIDE DEF l, m, n
      <4>. QED BY <1>2, <4>1, <4>2
    <3>4. place[l + 1] \in lookups
      BY <1>1, <3>2, <3>3
    <3>5. PICK i \in 1 .. l : place[i] = place[l + 1]
      BY <1>1, <3>4
    <3>6. place[i] < place[l + 1] /\ place[i] \in 1 .. n
      BY <1>1, <1>2, <3>1, <3>5
    <3>. QED BY <3>2, <3>5, <3>6
  <2>. DEFINE rec == [OPCODE |-> M.inst.OPCODE, ADDR |-> M.inst.ADDR]
  <2>6. rec \in [OPCODE : {"LOAD", "STORE"}, ADDR : Int]
    BY <1>2, <2>1 DEF PP!Instruction
  <2>7. rec = [OPCODE |-> tr[place[l + 1]].OPCODE, ADDR |-> tr[place[l + 1]].ADDR]
    BY <2>2, <2>3, <2>5
  <2>8. looked' = Append(looked, rec)
    BY <1>5
  <2>. HIDE DEF rec
  <2>9. /\ looked' \in Seq([OPCODE : {"LOAD", "STORE"}, ADDR : Int])
        /\ Len(looked') = l + 1 /\ looked'[l + 1] = rec
        /\ \A k \in 1 .. l : looked'[k] = looked[k]
    <3>. DEFINE S == [OPCODE : {"LOAD", "STORE"}, ADDR : Int]
    <3>1. looked \in Seq(S) /\ rec \in S
      BY <1>1, <2>6
    <3>. HIDE DEF S
    <3>2. /\ Append(looked, rec) \in Seq(S) /\ Len(Append(looked, rec)) = Len(looked) + 1
          /\ Append(looked, rec)[Len(looked) + 1] = rec
          /\ \A k \in 1 .. Len(looked) : Append(looked, rec)[k] = looked[k]
      BY <3>1, Appended
    <3>3. looked' \in Seq(S) /\ Len(looked') = Len(looked) + 1 /\ looked'[Len(looked) + 1] = rec
      BY <2>8, <3>2
    <3>4. \A k \in 1 .. Len(looked) : looked'[k] = looked[k]
      BY <2>8, <3>2
    <3>. QED BY <3>3, <3>4 DEF S
  <2>10. Len(looked') <= u
    BY <1>2, <2>5, <2>9
  <2>11. \A k \in 1 .. l + 1 : looked'[k] = [OPCODE |-> tr[place[k]].OPCODE,
                                            ADDR   |-> tr[place[k]].ADDR]
    <3>. SUFFICES ASSUME NEW k \in 1 .. l + 1
                  PROVE  looked'[k] = [OPCODE |-> tr[place[k]].OPCODE,
                                       ADDR   |-> tr[place[k]].ADDR]
      OBVIOUS
    <3>1. CASE k = l + 1
      BY <2>7, <2>9, <3>1
    <3>2. CASE k # l + 1
      <4>1. k \in 1 .. l
        BY <1>2, <3>2
      <4>2. looked'[k] = looked[k]
        BY <2>9, <4>1
      <4>. QED BY <1>1, <4>1, <4>2
    <3>. QED BY <3>1, <3>2
  <2>12. lookups' = {place[k] : k \in 1 .. l + 1}
    <3>1. lookups = {place[k] : k \in 1 .. l} /\ place[l + 1] = m
      BY <1>1, <2>3, <2>5
    <3>2. 1 .. l + 1 = 1 .. l \cup {l + 1}
      BY <1>2
    <3>. QED BY <3>1, <3>2
  <2>. QED BY <1>3, <2>9, <2>10, <2>11, <2>12 DEF LookedUp
<1>. QED BY <1>4, <1>5

\* Every other step.
LEMMA OtherGhosts ==
    ASSUME LoadInv, Typed, Typed', NEW tr, NEW sum, NEW place, Ghosts(tr, sum, place),
           [ProgramNext]_allVars, ~Turn
    PROVE  Ghosts(tr, sum, place)'
<1>. DEFINE n == sigle_routing
<1>1. /\ length \in Nat /\ fed \in Nat /\ n \in Nat /\ length <= n
      /\ Len(queue) = n - length
  BY TypedFacts DEF Ghosts, InRing
<1>2. ASSUME UNCHANGED <<sigle_routing, last, queue, finish, child, history>>,
             finish => phase' = "run" /\ pc' = 0
      PROVE  Ghosts(tr, sum, place)'
  <2>1. UNCHANGED <<at, ended, fetched, length, F, D, E, M, W, busy, dcDelay, cycle, lookups,
                    used, looked, stalls, waits>>
    BY <1>2 DEF child, history
  <2>2. (Executed(tr) /\ Asked(tr, sum) /\ InRing(tr) /\ InPipe(tr) /\ EndInv(tr))'
    BY <1>2, <2>1 DEF Ghosts, Executed, Asked, InRing, InPipe, EndInv
  <2>3. Paid(sum)'
    BY <2>1 DEF Ghosts, Paid, PP!Pace, PP!Debt, PP!Interlock, Reached
  <2>4. (Places(tr, place) /\ LookedUp(tr, place))'
    BY <1>2, <2>1 DEF Ghosts, Places, LookedUp
  <2>. QED BY <2>2, <2>3, <2>4 DEF Ghosts
<1>3. finish => phase = "run" /\ pc = 0
  BY DEF Ghosts, EndInv
<1>4. CASE LoadFiles
  <2>1. UNCHANGED <<sigle_routing, last, queue, finish, child, history>> /\ L!Load
    BY <1>4 DEF LoadFiles, shared
  <2>2. phase # "run"
    BY <2>1 DEF L!Load, L!ScanWord, L!ScanBad, L!OpenInput, L!StoreFloats, L!Reading
  <2>. QED BY <1>2, <1>3, <2>1, <2>2
<1>5. CASE StartExecution
  BY <1>2, <1>3, <1>5 DEF StartExecution, shared
<1>6. CASE Abort
  <2>1. Dies
    BY <1>6 DEF Abort, NullRead, FloatOverrun, Unimplemented
  <2>. QED BY <1>2, <1>3, <1>6, <2>1 DEF Abort, Dies, loading, shared
<1>7. CASE Report \/ Polls \/ Over \/ UNCHANGED allVars
  BY <1>2, <1>3, <1>7 DEF Report, Polls, Over, allVars, vars, loading, shared
<1>8. CASE Finish
  <2>1. /\ phase = "run" /\ pc = 0 /\ ~finish /\ UNCHANGED <<phase, pc>>
        /\ UNCHANGED <<sigle_routing, last, queue, child, history>>
    BY <1>8 DEF Finish, vars, loading
  <2>2. UNCHANGED <<at, ended, fetched, length, F, D, E, M, W, busy, dcDelay, cycle, lookups,
                    used, looked, stalls, waits>>
    BY <2>1 DEF child, history
  <2>3. (Executed(tr) /\ Asked(tr, sum) /\ InRing(tr) /\ InPipe(tr) /\ EndInv(tr))'
    BY <2>1, <2>2 DEF Ghosts, Executed, Asked, InRing, InPipe, EndInv
  <2>4. Paid(sum)'
    BY <2>2 DEF Ghosts, Paid, PP!Pace, PP!Debt, PP!Interlock, Reached
  <2>5. (Places(tr, place) /\ LookedUp(tr, place))'
    BY <2>1, <2>2 DEF Ghosts, Places, LookedUp
  <2>. QED BY <2>3, <2>4, <2>5 DEF Ghosts
<1>9. ASSUME UNCHANGED <<vars, loading, finish, history>>,
             UNCHANGED <<F, D, E, M, W, busy, cycle, lookups>>,
             at = "idle"
      PROVE  /\ (Executed(tr) /\ Asked(tr, sum))'
             /\ UNCHANGED <<PP!Debt, PP!Pace>>
             /\ (Places(tr, place) /\ LookedUp(tr, place))'
             /\ Reached' = Reached => Paid(sum)'
  <2>1. UNCHANGED <<sigle_routing, last, used, looked, stalls, waits>>
    BY <1>9 DEF vars, history
  <2>2. UNCHANGED <<PP!Debt, PP!Pace>>
    <3>1. ~busy
      BY <1>9, TypedFacts
    <3>. QED BY <1>9, <3>1 DEF PP!Debt, PP!Interlock, PP!Pace
  <2>3. (Executed(tr) /\ Asked(tr, sum))'
    BY <2>1 DEF Ghosts, Executed, Asked
  <2>4. (Places(tr, place) /\ LookedUp(tr, place))'
    BY <1>9, <2>1 DEF Ghosts, Places, LookedUp
  <2>5. Reached' = Reached => Paid(sum)'
    BY <2>1, <2>2 DEF Ghosts, Paid
  <2>. QED BY <2>2, <2>3, <2>4, <2>5
<1>10. CASE Take
  <2>1. /\ queue # <<>> /\ queue' = Tail(queue) /\ PP!Feed(Head(queue))
        /\ UNCHANGED <<vars, loading, finish, history>>
    BY <1>10, SameCalls DEF Take
  <2>2. /\ at = "idle" /\ at' = "call" /\ ~ended /\ length' = length + 1 /\ ended' = ended
        /\ fetched' = PP!Numbered(Head(queue), fed + 1)
        /\ UNCHANGED <<F, D, E, M, W, busy, cycle, lookups>>
    BY <2>1 DEF PP!Feed, PP!Call, PP!stages, PP!cacheVars
  <2>3. length = fed /\ F.inst.id = fed
    BY <2>2, TypedFacts
  <2>4. /\ queue \in Seq(Traced) /\ Len(queue) > 0 /\ Head(queue) = queue[1]
        /\ Len(queue') = Len(queue) - 1
        /\ \A j \in 1 .. Len(queue') : queue'[j] = queue[j + 1]
    BY <2>1 DEF Typed
  <2>5. UNCHANGED <<sigle_routing, phase, pc>>
    BY <2>1 DEF vars, loading
  <2>6. \A j \in 1 .. Len(queue) : PP!Numbered(queue[j], length + j) = tr[length + j]
    BY DEF Ghosts, InRing
  <2>7. InRing(tr)'
    <3>1. ASSUME NEW j \in 1 .. Len(queue')
          PROVE  PP!Numbered(queue'[j], (length + 1) + j) = tr[(length + 1) + j]
      <4>1. j + 1 \in 1 .. Len(queue) /\ length + (j + 1) = (length + 1) + j
        BY <1>1, <2>4
      <4>. QED BY <2>4, <2>6, <4>1
    <3>. QED BY <1>1, <2>2, <2>4, <2>5, <3>1 DEF InRing
  <2>8. InPipe(tr)'
    <3>1. fetched' = tr[length + 1] /\ fetched'.id = length + 1
      BY <1>1, <2>2, <2>3, <2>4, <2>6 DEF PP!Numbered
    <3>2. \A i \in {F.inst, D.inst, E.inst, M.inst, W.inst} : i.id \in Nat /\ i.id <= length
      <4>1. /\ {F, D, E, M, W} \subseteq PP!Stage /\ PP!IInv
        BY TypedFacts DEF Typed, ChildInv
      <4>2. \A i \in {F.inst, D.inst, E.inst, M.inst, W.inst} : i.id \in Nat
        BY TypedFacts
      <4>. QED BY <2>3, <4>1, <4>2 DEF PP!IInv, PP!InOrder, PP!Follows
    <3>3. \A i \in {F.inst, D.inst, E.inst, M.inst, W.inst} : i = tr[i.id]
      BY <3>2 DEF Ghosts, InPipe
    <3>. QED BY <2>2, <3>1, <3>3 DEF InPipe
  <2>9. EndInv(tr)'
    BY <2>1, <2>2, <2>5 DEF Ghosts, EndInv
  <2>10. Reached' = Reached
    BY <1>1, <2>2, <2>3 DEF Reached
  <2>. QED BY <1>9, <2>1, <2>2, <2>7, <2>8, <2>9, <2>10 DEF Ghosts
<1>11. CASE LeaveLoop
  <2>1. /\ finish /\ queue = <<>> /\ PP!EndProgram
        /\ UNCHANGED <<vars, loading, queue, finish, history>>
    BY <1>11, SameCalls DEF LeaveLoop, SeesEnd, shared
  <2>2. /\ at = "idle" /\ ~ended /\ PP!IsBranch(fetched) /\ ended'
        /\ UNCHANGED <<at, fetched, fed, length, F, D, E, M, W, busy, cycle, lookups>>
    BY <2>1 DEF PP!EndProgram, PP!stages, PP!cacheVars
  <2>3. length = fed /\ fetched.id = fed
    BY <2>2, TypedFacts
  <2>4. UNCHANGED <<sigle_routing, phase, pc>>
    BY <2>1 DEF vars, loading
  <2>5. (InRing(tr) /\ InPipe(tr))'
    BY <2>1, <2>2, <2>4 DEF Ghosts, InRing, InPipe
  <2>6. fetched = tr[length]
    BY <1>1, <2>3 DEF Ghosts, InPipe
  <2>7. EndInv(tr)'
    BY <2>1, <2>2, <2>4, <2>6 DEF Ghosts, EndInv
  <2>8. Reached' = Reached
    BY <2>2 DEF Reached
  <2>. QED BY <1>9, <2>1, <2>2, <2>5, <2>7, <2>8 DEF Ghosts
<1>12. CASE Drain
  <2>1. /\ PP!FeedNop \/ PP!Stop
        /\ UNCHANGED <<vars, loading, queue, finish, history>>
    BY <1>12, SameCalls DEF Drain, shared
  <2>2. /\ at = "idle" /\ ended /\ ended' = ended /\ length' = length
        /\ fetched' = fetched \/ fetched'.id = fed + 1
        /\ UNCHANGED <<F, D, E, M, W, busy, cycle, lookups>>
    BY <2>1 DEF PP!FeedNop, PP!Call, PP!Stop, PP!NOP, PP!Numbered, PP!stages, PP!cacheVars
  <2>3. length <= fed
    BY TypedFacts
  <2>4. UNCHANGED <<sigle_routing, phase, pc>>
    BY <2>1 DEF vars, loading
  <2>5. (InRing(tr) /\ EndInv(tr))'
    BY <2>1, <2>2, <2>4 DEF Ghosts, InRing, EndInv
  <2>6. InPipe(tr)'
    BY <1>1, <2>2, <2>3 DEF Ghosts, InPipe
  <2>7. Reached' = Reached
    BY <2>2 DEF Reached
  <2>. QED BY <1>9, <2>1, <2>2, <2>5, <2>6, <2>7 DEF Ghosts
<1>13. CASE timing_simulation
  <2>1. UNCHANGED <<vars, loading, shared>>
    BY <1>13 DEF timing_simulation
  <2>2. UNCHANGED <<sigle_routing, length, last>>
    BY <1>13, SameEdge DEF timing_simulation, accessdCache, PP!Access, PP!NoAccess, PP!Clock, vars
  <2>3. CASE accessdCache
    <3>1. PICK way \in PP!Ways : PP!Access(way)
      BY <2>3, SameEdge DEF accessdCache
    <3>. DEFINE delay == PP!AccessDCache(dCache, buffer, M.inst.OPCODE, PP!EntryOf(M.inst.ADDR),
                                        cycle + 1, way).latency
    <3>2. /\ PP!Clock(delay) /\ PP!Accesses /\ lookups' = lookups \cup {M.inst.id}
          /\ ready' = cycle + 1 + delay
      BY <3>1 DEF PP!Access
    <3>3. delay \in Nat \ {0}
      BY <3>1, PipelineAssumed, PP!LatencyPositive DEF Typed, ChildInv
    <3>. HIDE DEF delay
    <3>4. waits' = waits + (delay - 1)
      <4>1. cycle' = cycle + 1 /\ cycle \in Nat
        BY <3>2, TypedFacts DEF PP!Clock
      <4>2. waits \in Int /\ waits' = waits + (ready' - cycle') - 1
        BY <2>3 DEF accessdCache, Ghosts, Paid
      <4>. QED BY <3>2, <3>3, <4>1, <4>2
    <3>5. UNCHANGED <<used, stalls>>
      BY <2>3 DEF accessdCache
    <3>6. /\ PP!Clock(IF PP!Accesses THEN delay ELSE dcDelay)
          /\ waits' = waits + (IF PP!Accesses THEN delay - 1 ELSE 0)
      BY <3>2, <3>4
    <3>7. (Executed(tr) /\ Asked(tr, sum) /\ InRing(tr) /\ InPipe(tr) /\ EndInv(tr) /\ Paid(sum))'
      BY <2>1, <3>3, <3>5, <3>6, EdgeGhosts
    <3>8. Places(tr, place)'
      BY <2>2, <3>5 DEF Ghosts, Places
    <3>9. W'.inst = M.inst
      BY <3>2, <3>3, PipelineAssumed, PP!StageFlow DEF Typed, ChildInv
    <3>10. LookedUp(tr, place)'
      <4>1. looked' = IF M.inst.id \in lookups
                        THEN looked
                        ELSE Append(looked, [OPCODE |-> M.inst.OPCODE, ADDR |-> M.inst.ADDR])
        BY <2>3 DEF accessdCache
      <4>. QED BY <2>2, <3>2, <3>5, <3>7, <3>9, <4>1, LookupGhosts
    <3>. QED BY <3>7, <3>8, <3>10 DEF Ghosts
  <2>4. CASE P!NoAccess /\ UNCHANGED history
    <3>1. PP!NoAccess /\ UNCHANGED <<used, looked, stalls, waits>>
      BY <2>4, SameEdge DEF history
    <3>2. PP!Clock(dcDelay) /\ ~PP!Accesses /\ lookups' = lookups /\ dcDelay \in Nat
      BY <3>1, TypedFacts DEF PP!NoAccess, PP!cacheVars
    <3>3. /\ PP!Clock(IF PP!Accesses THEN 1 ELSE dcDelay)
          /\ waits' = waits + (IF PP!Accesses THEN 1 - 1 ELSE 0)
      BY <3>1, <3>2 DEF Ghosts, Paid
    <3>4. 1 \in Nat \ {0}
      OBVIOUS
    <3>5. (Executed(tr) /\ Asked(tr, sum) /\ InRing(tr) /\ InPipe(tr) /\ EndInv(tr) /\ Paid(sum))'
      BY <2>1, <3>1, <3>3, <3>4, EdgeGhosts
    <3>6. Places(tr, place)'
      BY <2>2, <3>1 DEF Ghosts, Places
    <3>7. W'.inst = M.inst
      BY <3>2, PipelineAssumed, PP!StageFlow DEF Typed, ChildInv
    <3>8. \A k \in 1 .. n : PP!IsMemory(tr[k]) /\ k <= W'.inst.id => k \in lookups'
      BY <2>2, <3>2, <3>5, <3>7, Caught
    <3>9. LookedUp(tr, place)'
      BY <2>2, <3>1, <3>2, <3>8 DEF Ghosts, LookedUp
    <3>. QED BY <3>5, <3>6, <3>9 DEF Ghosts
  <2>. QED BY <1>13, <2>3, <2>4 DEF timing_simulation
<1>. QED BY <1>4, <1>5, <1>6, <1>7, <1>8, <1>10, <1>11, <1>12, <1>13
         DEF ProgramNext, Step, Parent, Child

GhostInv == \E tr, sum, place : Ghosts(tr, sum, place)

LEMMA GhostInvariance == ProgramSpec => [](Typed /\ GhostInv)
<1>1. LoadInv /\ Typed /\ Typed' /\ GhostInv /\ [ProgramNext]_allVars => GhostInv'
  <2>. SUFFICES ASSUME LoadInv, Typed, Typed', GhostInv, [ProgramNext]_allVars PROVE GhostInv'
    OBVIOUS
  <2>1. PICK tr, sum, place : Ghosts(tr, sum, place)
    BY DEF GhostInv
  <2>2. CASE Turn
    BY <2>1, <2>2, TurnGhosts DEF GhostInv
  <2>3. CASE ~Turn
    BY <2>1, <2>3, OtherGhosts DEF GhostInv
  <2>. QED BY <2>2, <2>3
<1>2. LoadInv /\ [ProgramNext]_allVars => LoadInv'
  BY FilesStep, OthersStep
<1>3. ProgramInit => GhostInv
  BY GhostInit DEF GhostInv
<1>. QED BY LoadInit, <1>1, <1>2, <1>3, TypedInit, TypedStep, PTL DEF ProgramSpec

\* When the count is printed, every call has been made.
LEMMA AtReport ==
    ASSUME Typed, NEW tr, NEW sum, NEW place, Ghosts(tr, sum, place), reported, sigle_routing >= 5
    PROVE  /\ length = sigle_routing /\ fed = length + 5 /\ at = "done"
           /\ W.inst.id > sigle_routing
<1>1. at = "done"
  BY DEF Typed, Reported, reported
<1>2. ended /\ length = sigle_routing
  <2>1. ended /\ queue = <<>> /\ Len(queue) = sigle_routing - length
    BY <1>1 DEF Ghosts, EndInv, InRing
  <2>. QED BY <2>1, TypedFacts
<1>3. W.inst.id > length /\ length \in Nat
  BY <1>1, <1>2, TypedFacts, PipelineAssumed, PP!WrittenAtEnd DEF Typed, ChildInv
<1>4. fed = length + 5
  BY <1>1, <1>3, PipelineAssumed, PP!FedAtEnd DEF Typed, ChildInv
<1>. QED BY <1>1, <1>2, <1>3, <1>4

\* The cycles main prints are the program's instructions, what its cache misses
\* last, the five cycles of the drain and no more stalls than it asks for, for
\* every program, data, cache geometry and latency.
THEOREM CountExplained == ProgramSpec => []CyclesExplained
<1>1. Typed /\ GhostInv => CyclesExplained
  <2>. SUFFICES ASSUME Typed, GhostInv, reported, sigle_routing >= 5
                PROVE  pipeline_cycle - (sigle_routing + 5 + waits) \in 0 .. stalls
    BY DEF CyclesExplained
  <2>1. PICK tr, sum, place : Ghosts(tr, sum, place)
    BY DEF GhostInv
  <2>2. length = sigle_routing /\ fed = length + 5 /\ at = "done"
    BY <2>1, AtReport
  <2>3. pipeline_cycle = cycle /\ cycle \in Nat /\ F.inst.id = fed /\ ~busy /\ length \in Nat
    BY <2>2, TypedFacts DEF Typed, Reported, reported
  <2>4. PP!Pace = cycle - (sigle_routing + 5) /\ Reached = sigle_routing
    BY <2>2, <2>3 DEF PP!Pace, Reached
  <2>5. sum[Reached] = stalls /\ stalls \in Nat /\ waits \in Int
    BY <2>1, <2>4 DEF Ghosts, Asked, Paid, Typed
  <2>6. 0 <= PP!Pace - waits /\ PP!Pace - waits + PP!Debt <= stalls /\ PP!Debt \in Nat
    BY <2>1, <2>5 DEF Ghosts, Paid, PP!Debt, PP!One
  <2>. QED BY <2>2, <2>3, <2>4, <2>5, <2>6
<1>. QED BY <1>1, GhostInvariance, PTL

\* Nothing is lost, repeated or reordered on the way from the program to the
\* cache: the first lookups are the program's loads and stores, in their order
\* and at their addresses, and when the count is printed it has them all.
THEOREM LookupsFollowProgram == ProgramSpec => []CacheSeesProgram
<1>1. Typed /\ GhostInv => CacheSeesProgram
  <2>. SUFFICES ASSUME Typed, GhostInv PROVE CacheSeesProgram
    OBVIOUS
  <2>1. PICK tr, sum, place : Ghosts(tr, sum, place)
    BY DEF GhostInv
  <2>2. /\ used \in Seq([OPCODE : {"LOAD", "STORE"}, ADDR : Int32, ownBase : BOOLEAN])
        /\ place \in [1 .. Len(used) -> 1 .. sigle_routing]
        /\ \A i, j \in 1 .. Len(used) : i < j => place[i] < place[j]
        /\ \A k \in 1 .. sigle_routing :
              PP!IsMemory(tr[k]) <=> \E j \in 1 .. Len(used) : place[j] = k
        /\ \A j \in 1 .. Len(used) :
              /\ used[j].OPCODE = tr[place[j]].OPCODE
              /\ used[j].ownBase \/ tr[place[j]].ADDR = used[j].ADDR
    BY <2>1 DEF Ghosts, Places
  <2>3. /\ looked \in Seq([OPCODE : {"LOAD", "STORE"}, ADDR : Int])
        /\ Len(looked) <= Len(used)
        /\ \A j \in 1 .. Len(looked) : looked[j] = [OPCODE |-> tr[place[j]].OPCODE,
                                                    ADDR   |-> tr[place[j]].ADDR]
        /\ lookups = {place[j] : j \in 1 .. Len(looked)}
        /\ \A k \in 1 .. sigle_routing : PP!IsMemory(tr[k]) /\ k <= W.inst.id => k \in lookups
    BY <2>1 DEF Ghosts, LookedUp
  <2>4. Len(used) \in Nat /\ Len(looked) \in Nat
    BY <2>2, <2>3
  <2>5. ASSUME NEW k \in 1 .. Len(looked)
        PROVE  /\ looked[k].OPCODE = used[k].OPCODE
               /\ used[k].ownBase \/ looked[k].ADDR = used[k].ADDR
    <3>1. looked[k] = [OPCODE |-> tr[place[k]].OPCODE, ADDR |-> tr[place[k]].ADDR]
      BY <2>3
    <3>2. k \in 1 .. Len(used)
      BY <2>3, <2>4
    <3>3. /\ used[k].OPCODE = tr[place[k]].OPCODE
          /\ used[k].ownBase \/ tr[place[k]].ADDR = used[k].ADDR
      BY <2>2, <3>2
    <3>. QED BY <3>1, <3>3
  <2>6. ASSUME reported, sigle_routing >= 5, Len(looked) # Len(used) PROVE FALSE
    <3>1. W.inst.id > sigle_routing /\ W.inst.id \in Nat /\ sigle_routing \in Nat
      BY <2>1, <2>6, AtReport, TypedFacts
    <3>. DEFINE l == Len(looked)
    <3>2. l + 1 \in 1 .. Len(used)
      BY <2>3, <2>4, <2>6
    <3>3. place[l + 1] \in 1 .. sigle_routing
      BY <2>2, <3>2
    <3>4. PP!IsMemory(tr[place[l + 1]])
      BY <2>2, <3>2, <3>3
    <3>5. place[l + 1] \in lookups
      <4>1. place[l + 1] <= W.inst.id
        BY <3>1, <3>3
      <4>. QED BY <2>3, <3>3, <3>4, <4>1
    <3>6. PICK i \in 1 .. l : place[i] = place[l + 1]
      BY <2>3, <3>5
    <3>7. i \in 1 .. Len(used) /\ i < l + 1
      BY <2>3, <2>4
    <3>8. place[i] < place[l + 1]
      BY <2>2, <3>2, <3>7
    <3>. QED BY <3>3, <3>6, <3>8
  <2>. QED BY <2>3, <2>5, <2>6 DEF CacheSeesProgram
<1>. QED BY <1>1, GhostInvariance, PTL

\* How long the child has run, as Pipeline_proofs counts it.
ChildTime == PP!HoldInv /\ PP!TimeInv

LEMMA TimeInvariance ==
    ASSUME DC_WR_BUFF_SIZE > 1 PROVE ProgramSpec => []ChildTime
<1>1. ProgramInit => ChildTime
  <2>. SUFFICES ASSUME ProgramInit PROVE ChildTime
    OBVIOUS
  <2>1. PP!Init
    BY SameInit DEF ProgramInit
  <2>. QED BY <2>1, PipelineAssumed, PP!InitStart, PP!StartHold, PP!InitTime DEF ChildTime
<1>2. queue \in Seq(Traced) /\ ChildInv /\ ChildTime /\ [ProgramNext]_allVars => ChildTime'
  <2>. SUFFICES ASSUME queue \in Seq(Traced), ChildInv, ChildTime, [ProgramNext]_allVars
                PROVE  ChildTime'
    OBVIOUS
  <2>1. [PP!Next]_(PP!vars)
    BY ChildStep
  <2>. QED BY <2>1, PipelineAssumed, PP!NextHold, PP!NextTime DEF ChildInv, ChildTime
<1>. QED BY <1>1, <1>2, ChildInvariance, PTL DEF ProgramSpec

\* The count main prints is no more than the longest call for each instruction
\* executed and for each of the drain's five, whatever the two processes do.
CountBounded == pipeline_cycle <= PP!CallMost * (sigle_routing + 5)
THEOREM PrintedInBounds == ASSUME DC_WR_BUFF_SIZE > 1 PROVE ProgramSpec => []CountBounded
<1>1. Typed /\ GhostInv /\ ChildTime => CountBounded
  <2>. SUFFICES ASSUME Typed, GhostInv, ChildTime PROVE CountBounded
    OBVIOUS
  <2>1. PICK tr, sum, place : Ghosts(tr, sum, place)
    BY DEF GhostInv
  <2>2. /\ length <= sigle_routing /\ length \in Nat /\ sigle_routing \in Nat
        /\ cycle \in Nat
    BY <2>1, TypedFacts DEF Ghosts, InRing
  <2>3. cycle <= PP!CallMost * (length + 5)
    BY PipelineAssumed, PP!TimeIsBound DEF Typed, ChildInv, ChildTime, PP!CyclesBounded
  <2>4. PP!CallMost \in Nat
    BY PipelineAssumed DEF PP!LatencyAssumption, PP!CallMost, PP!AccessMost, PP!Tidy
  <2>5. \A m, a, b \in Nat : a <= b => m * a <= m * b /\ m * a \in Nat
    OBVIOUS
  <2>6. /\ PP!CallMost * (length + 5) <= PP!CallMost * (sigle_routing + 5)
        /\ PP!CallMost * (length + 5) \in Nat /\ PP!CallMost * (sigle_routing + 5) \in Nat
    BY <2>2, <2>4, <2>5
  <2>7. pipeline_cycle \in Nat /\ (pipeline_cycle = 0 \/ pipeline_cycle = cycle)
    BY DEF Typed, Reported
  <2>. QED BY <2>2, <2>3, <2>6, <2>7 DEF CountBounded
<1>. QED BY <1>1, GhostInvariance, TimeInvariance, PTL
===============================================================================
