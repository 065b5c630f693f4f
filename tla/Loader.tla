-------------------------------- MODULE Loader --------------------------------
(***************************************************************************)
(* readinst_data word by word: ./data from $28 up, ./input from the entry  *)
(* point up, then the floats of the frame.  scanf("%x") takes a word, or   *)
(* finds BAD, something that is not a number, and leaves it where it is;   *)
(* the loop asks for EOF only and stores what the last scanf that worked   *)
(* has left.  Only the low bits of pc, a long, reach write_mem.            *)
(***************************************************************************)
EXTENDS MainMem

CONSTANTS Files,          \* the contents ./data and ./input may have
          BAD,            \* in a file, text that is not a number
          Garbage,        \* what malloc may leave in a word
          AddressSpace    \* 2^32 in the code

VARIABLES mem, pc,
          phase,    \* "data", "input", then "loaded"; main goes on to "run"
          rest,     \* what is left of the file that is read
          word,     \* *data
          files     \* the two files

loaderVars == <<mem, pc, phase, rest, word, files>>

LoaderInit == /\ files \in Files
              /\ word \in Garbage
              /\ mem = ZeroMem
              /\ pc = 0
              /\ phase = "data"
              /\ rest = files.data

\* Storing without the truncation to 32 bits.
NextPlace_Wide(a) == IF a + 4 < AddressSpace THEN a + 4 ELSE a

NextPlace(a) == (a + 4) % AddressSpace

Reading == phase \in {"data", "input"} /\ rest # <<>>

\* One turn of the loop, which has scanned w and has `left` still to come.
Store(w, left) == /\ mem' = write_mem(mem, pc, w)
                  /\ pc' = NextPlace(pc)
                  /\ word' = w
                  /\ rest' = left
                  /\ UNCHANGED <<phase, files>>

ScanWord == Reading /\ Head(rest) # BAD /\ Store(Head(rest), Tail(rest))

ScanBad == Reading /\ Head(rest) = BAD /\ Store(word, rest)

\* Going on at pc instead of the entry point.
OpenInput_Behind == /\ phase = "data" /\ rest = <<>>
                    /\ phase' = "input"
                    /\ rest' = files.input
                    /\ UNCHANGED <<mem, pc, word, files>>

OpenInput == /\ phase = "data" /\ rest = <<>>
             /\ phase' = "input"
             /\ rest' = files.input
             /\ pc' = Entry
             /\ UNCHANGED <<mem, word, files>>

StoreFloats == /\ phase = "input" /\ rest = <<>>
               /\ phase' = "loaded"
               /\ mem' = write_words(mem, Frame, FloatInit)
               /\ UNCHANGED <<pc, rest, word, files>>

Load == ScanWord \/ ScanBad \/ OpenInput \/ StoreFloats
-------------------------------------------------------------------------------
\* The addresses of the bytes of `words` stored from base on.
Extent(base, words) == base .. base + 4 * Len(words) - 1

\* Every word is where its file puts it, unless it does not fit the memory or
\* `over`, stored later, covers some of it.
Placed(base, words, over) ==
    \A k \in 1 .. Len(words) :
       LET a == base + 4 * (k - 1)
       IN InRange(a) /\ (a .. a + 3) \cap over = {} => read_mem(mem, a) = words[k]

\* However long ./data is, it spoils no instruction: only the floats are written
\* over the program, and only the program and they are written over the data.
ImageIntact ==
    phase = "loaded" =>
      LET text  == Extent(Entry, files.input)
          frame == Extent(Frame, FloatInit)
      IN /\ Placed(Frame, FloatInit, {})
         /\ Placed(Entry, files.input, frame)
         /\ Placed(0, files.data, text \cup frame)

Stuck == Reading /\ Head(rest) = BAD

\* The first word that is not a number is never passed: the loop runs round the
\* address space and fills the whole memory, which then no longer changes.
BadWordFloods ==
    Stuck ~> [](/\ Stuck
                /\ \A a \in DOMAIN mem : InRange(a - (a % 4)) => mem[a] = Byte(word, a % 4))
===============================================================================
