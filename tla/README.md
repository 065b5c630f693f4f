# TLA+ models of MIPS_Simulation

This directory specifies the MIPS simulators of this repository in TLA+,
model-checks them with TLC on small instances and proves their main invariants
with TLAPS.  The reference is the source, mostly `src/Project04`, the last and
most complete of the four projects; where a comment or a README says something
else than the code does, a run shows it.

Contents: 1 the system, 2 modules and code, 3 runs and bounds, 4 fairness,
5 proofs, 6 divergences, 7 what is not modelled, 8 plan, 9 running it.

## 1. The system

The program runs a MIPS binary in two processes.  The **parent** is a
functional simulator: it loads memory, fetches, decodes and executes one
instruction after the other.  Every executed instruction, as a small record
(kind, register numbers, data address), is pushed into a ring in System V
shared memory.  The **child** takes the records out and feeds them to a timing
simulation, a five stage pipeline with a data cache, which counts cycles.  When
`pc` becomes 0 the parent sets `finish` and waits for the child; the child
empties the ring, feeds NOPs until the pipeline is idle and exits; the parent
prints the count the child left in the segment.

| component | source | state | operations | what makes it correct |
|---|---|---|---|---|
| parent, child, segment | `Project04/mips_sim.c` Execution, `common.h` | `finish`, `inst_begin`, `inst_end`, `insts[]`, `pipeline`, cycle count, in the segment; `instnRAW`, a semaphore | clear, push (full test, write, advance), set finish, wait; poll, take, drain | no record overwritten or read twice, order kept, the count covers the whole program, both stop |
| data cache, write buffer | `Project04/mips_sim.c` accessdCache, WrBack, `Dcache.h` | `dCache[set][way]` (tag, status, trdy), `dcWrBuff[]`, `bufsize` | load and store, hit and miss, evict, merge, flush | one copy of a block, a victim is always found and is an old line, buffer within its array, no store lost |
| pipeline | `Project04/mips_sim.c` timing_simulation, `pipeline.h`, `inst.h` | five stages (valid, stall, inst), `DM_.busy`, `dc_delay`, cycle | one call per record; inside, clock edges until F takes it | nothing skipped, repeated or hidden by stalls that meet; each access made once and paid in full; calls and drain end |
| functional simulator | `Project04/mainmem.h`, `decode.c`, `function_sim.c`, `reg.h`, `mips_sim.c` | memory, `r[]`, `f[]`, `pc`, counters | load the files, fetch, decode, execute, make the record | memory changes only where a traced store says, the traced address is the one used, a program ends by a transfer to 0 |
| multi-cycle counter | `Project01/mips_sim.c` Execution, mult_compute | the same ring, `mult_routing` | push before execution; count; exit on finish | as for the ring above |
| Project01's functional simulator | `Project01/mips_sim.c` | memory, `r[]`, `f[32]`, `pc` | memory test, load, push, execute | programs compute what they compute in Project04 |
| pipeline without a cache | `Project02/mips_sim.c` timing_simulation | five stages, cycle | one call per record, clock edges | what the cache adds to a program's cycles is what its accesses wait |
| the whole program, as Project03 has it in one file | `Project03/mips_sim.c` | files, memory, registers, ring, stages, cache, the count printed | load the files word by word, execute and push, take and simulate, finish, drain, report | every word where its file puts it, the cache sees the accesses the program makes, every cycle printed has its reason, a program that ends is reported |
| bus sketch, course code, notes | `codes/stage.c`, `Model_Code`, `MD` | | | see section 7 |

Projects 1 to 4 are four states of one program: Project01 counts multi-cycle
times, Project02 has the pipeline, Project03 adds the cache, Project04 splits
the file.  What is the same text is modelled once, from the project that has it
last; what differs is modelled from each and compared.

How they interact: parent and child only through the segment, with plain loads
and stores; `timing_simulation` calls `accessdCache` when a load or store first
is in MEM, and keeps the latency in a local variable; the address it passes is
the one the parent computed.

What is hard here, and hard to test:

* **Interleaving.** `instnRAW` is a plain global, so after `fork` each process
  waits on its own copy: nothing excludes the two.  The full test is two reads,
  `inst_begin++` a load and a store, `finish` is read apart from the cursors.
* **Crashes.** A parent that aborts leaves a child that polls for ever and a
  segment that the next run finds again.
* **Stalls that meet.** A cache miss, the load interlock and the hold of a
  branch interact through two flags per stage whose meaning changes during the
  edge.  What they stall overlaps, and the count printed is its sum.
* **Distance.**  The address of an access is computed in one process, waits in
  the ring and in four stages, and is looked up in another.
* **Time stamps in the future.** A filled line is stamped with the cycle at
  which the fill ends, the replacement looks for one strictly below now.
* **Boundaries.** Full and empty ring, full buffer, last word of memory, 5-bit
  register numbers against 16 floats, a data file that runs into the program, a
  word in a file that is not a number.

`PROJECT.json` lists each of these with its line and the properties about it.

## 2. Modules and code

```
InstStream          what the two processes promise            (abstract)
  Execution         the two processes of Project04            implements InstStream
MultCount           the two processes of Project01
DCacheOps           accessdCache and WrBack as operators
  DCache            the cache alone, under any accesses
    DCacheGrow      beside a cache with fewer lines in a set
PipelineTrace       issue, access, write back, in order       (abstract)
  Pipeline          Project04's timing_simulation, its MEM stage calls DCacheOps;
                    implements PipelineTrace
    MCPipeline      instructions to run it with
Pipeline02          Project02's timing_simulation, without a cache
  PipelineCompare   Pipeline and Pipeline02 on the same program
    MCPipelineCompare
MainMem             memory, decoding: what the simulators share
  FunctionSim       Project04's functional simulator
  FunctionSim01     Project01's functional simulator
    FunctionCompare the two side by side
      MCFunctionSim program words to run them with
  Loader            readinst_data, a word at a time
Program03           all of Project03: extends FunctionSim, instantiates Loader
                    and Pipeline
  MCProgram03       files to run it with
DCacheLemmas        lemmas on accessdCache, for the proofs
Execution_proofs, MultCount_proofs, DCache_proofs (with DCacheGrow),
Pipeline_proofs, FunctionSim_proofs (with FunctionCompare),
Program03_proofs (with an instance of Pipeline_proofs),
PipelineCompare_proofs (extends Pipeline_proofs and has an instance of it
for Project02's pipeline)           the theorems
```

**Execution.**  One action is the part of a process between two accesses to the
segment that the other process can see: `Full1`/`Full2` are the two comparisons
of the full test, `Write`, `Advance` and `SetFinish` the three statements of
the push, `ChildTake`, `ChildLoad`, `ChildStore` the simulation of a slot and
the two halves of `inst_begin++`.  A program is the number of instructions it
executes (chosen on the way: `FunctionSimulation` may set `pc` to 0 after any),
instruction n is the number n.  The accesses take
effect in program order: the READMEs build with `gcc` and no optimisation, the
calls of `sem_wait` and `sem_post` fence the loops, and the stores of one
process are seen in order on the x86 machine the binaries were built for (a
cursor that is seen late only makes the ring look fuller or emptier).
`LeftoverInit` starts on the segment of a run that aborted.

**InstStream.**  A sequence of sent and one of received instructions, a bounded
distance, a report taken when all were received.  `ImplementsStream` maps
`inst_end` to the sent ones, `fed` to the received ones, the parent's printed
count to the report.

**MultCount.**  The same ring in Project01: the push comes before the
execution, `finish` after the loop, and the child tests `finish` after it found
the ring empty and does not look again.

**DCacheOps, DCache.**  The functions as operators from the cache and buffer to
the new ones, the latency and the flags.  The slot the scan ends at is a
parameter `w` constrained by `IsSlot`, so that an uninitialised `lruSlot` is
any way.  `DCacheGrow` puts a cache with fewer lines in a set, an instance of the
same operators, beside it: each has its own clock, so their stamps drift apart.  DCache adds the history needed to say what is right: `stamp` (order
of use), `pending` (blocks whose last store is not yet in memory).  The flush
of the buffer is instantaneous as in the code: all entries, in one call.

**Pipeline.**  One `Edge` is one pass of the loop at `again:`.  The stages are
computed from W down to F, `MAfter(w, ...)`, `EAfter(w, m)`, ... with the new
values of the stages already done, which is what the code's order of
assignments means.  `Feed` is a call for a record, `FeedNop` the drain loop,
`EndProgram` the child's leaving of the main loop.  Instructions carry the
number of their call, a history the code has not.

**PipelineTrace.**  What a pipeline is for, without its stages: instructions are
issued in order, those that load or store access the memory once each and in
order, and are written back in order after that.  `ImplementsTrace` maps F and W
to what was issued and written, and the loads and stores in the stages that have
not accessed the cache to those that wait.

**Pipeline02, PipelineCompare.**  `Pipeline02` is the same function two projects
earlier: nothing sets `DM_.busy`, so MEM and WB take something at every edge.
`PipelineCompare` feeds each instruction to both, lets both calls return, and
compares the cycle counts there (`Level`), and again when both have drained.

**FunctionSim.**  One action per instruction, `Retire` holds what every one of
them does in `function_simulation` and in the loop.  Words are signed numbers;
`Add32` wraps, `Shl` shifts through five stages, memory is bytes.  Reads of
NULL, `exit(-1)` and the end of `f` are actions of their own.  `SP` and `Frame`
are 0x8000 and 0x8000 - 268 in the code, `Entry` 0x1000.

**FunctionSim01, FunctionCompare.**  Project01's loop as a machine, its INSN_
functions grouped by what they change.  It pushes before it executes, has a
float register for every number, and its `main` runs `test_for_memrw`, which
leaves 0.12 at address 256 (`TestAddr`).  `FunctionCompare` starts both machines
on the same program and the same leftovers of `malloc` and takes a turn of both
loops at a time; `touched` remembers that something read the leftover word.

**Loader.**  `readinst_data` as the loop it is.  `FunctionSim` takes it as a
function of well-formed files; here a file may hold `BAD`, text that is not a
number, at which `scanf` returns 0 and stays.  The address is a `long` of which
the low 32 bits reach `write_mem`, so it goes round `AddressSpace`.

**Program03.**  The composition.  `FunctionSim` is extended (the parent's
machine), `Loader` and `Pipeline` are instantiated on the same variables: `Turn`
is one instruction executed and pushed, `Take` a call of `timing_simulation` with
the oldest record, `timing_simulation` an edge of it.  The ring is a queue of
`TEXT_SZ` places, which `Execution` justifies: a slot is held until the call has
returned, as `inst_begin++` comes after the call.  `Finish` is a step of its own
after the last push, `Report` what main prints after `waitpid`.  The history
holds what the program used (`used`), what the cache was asked (`looked`), and
the cycles each mechanism asks for (`stalls`, `waits`).

## 3. Runs and bounds

| run | states | what it shows |
|---|---|---|
| `Execution` | 1.7 thousand | Every instruction simulated once, in order, never overwritten (`RingSafe`); both stop; an orphaned child drains what was pushed and never exits; the stream is implemented.  All without exclusion between the processes. |
| `DCache` | 67 thousand | No block twice, a victim at every access, near-LRU order, buffer in its bounds and without duplicates, at most one flush per access, no store lost; a cache with three lines in a set never misses more than one with two. |
| `Pipeline` | 66 thousand | Every program of up to six of five instructions through pipeline and cache: the in-order trace is implemented, nothing is hidden, each miss is paid once and in full (`AccessTimed`), a load looked up again hits (`RepeatHits`), calls and drain end. |
| `PipelineCompare` | 608 thousand | What the cache adds to a program's cycles lies between nothing and what its accesses wait (`CostIsWaits`), although misses make stalls overlap and skip the hold of a branch. |
| `MultCount` | 1.3 thousand | Project01: never counts wrong or too much, loses at most a ring's worth, stops. |
| `FunctionSim` | 93 thousand | Programs of two and three of some twenty words: records and memory agree, stores read back, programs end by a transfer, and Project01's machine computes the same until a program reads the word its memory test left. |
| `Program03` | 14 thousand | 154 pairs of files, from loading to report: the image is intact, the cache sees the program, the count is explained, a program that ends is reported, and a word that is not a number fills the memory for ever. |
| `ExecutionLeftover`, `DCacheStale`, `PipelineLoadUse`, `PipelineBranch`, `MultCountLost` | | violations, see section 6 |

Why the bounds are enough:

* *Ring*: `TEXT_SZ` 2 is the smallest ring where full, empty and half full
  differ; `MaxInst` 6 takes both cursors around it three times.  The proofs
  cover every size (the code has 500).
* *Cache*: three ways distinguish the least, the second least and the most
  recently used line; four blocks for the three ways of set 0 force evictions,
  the fifth is in set 1 with the tag of one of them, which is what merging by
  tag and index can confuse; two buffer entries fill, merge and flush within five
  accesses.  Six accesses (538 thousand states) find no error either.  `MaxGap` 0
  lets every access come the moment the one before is over: then the strict
  comparison leaves out the line used last, and stamps of different lines can be
  equal.  After idle cycles every line is a candidate and none of them ties with
  now.  The latencies keep the order of the code's (a hit shorter than a fill, a
  flush longer than a merge).
* *Pipeline*: six instructions are one more than the stages, so all five are
  filled with program instructions and one waits; the kinds hold a dependent
  addition, two loads that meet in a set, one of them with an RD that matches,
  a store, a jump.  `MaxCycle` 100 (120 for seven instructions in
  `PipelineCompare`) is not reached.
* *FunctionSim*: 64 bytes hold data, program and floats with room around;
  addresses at, across and behind the end, unaligned and negative occur; a
  program may overwrite itself, take branches both ways and be stopped by each
  of the faults.  `MaxSteps` 5 lets a loop turn twice.
  `TestAddr` 48 is free memory that some of the programs load from or jump to.
* *Program03*: 96 bytes hold four words of data, twelve of program and two floats,
  and one data file runs into the program.  The programs are loops of two turns
  around every pair of nine instructions and every triple of the four that use
  memory, so a block is missed, hit, evicted and flushed within a program and the
  ring of two is full and empty in turn; one tour of the other instructions, one
  program of two, two that are stopped by a fault.  `MaxSteps` 13 is one more than
  the longest loop takes, and no program that ends comes to `MaxCycle` 50 (it would
  not be reported).  An `AddressSpace` of 128 lets the loop at a bad word go round it.

## 4. Fairness

`Execution` and `MultCount` assume weak fairness of each process as a whole:
the operating system runs both.  Nothing is assumed about the choice a program
makes; runs are finite because programs have at most `MaxInst` instructions.
`Pipeline` assumes that the child goes on with its own code: with the edges of a
call, a loop without waiting, and with the drain (`Edge`, `FeedNop`, `Stop`
together).  That a program feeds another instruction or ends is not assumed.
`Program03` assumes only that the machine goes on while either process can
(weak fairness of `Step`, the two together): which of them runs is free, and
waiting for the other is not a step, so nothing more is needed for `EndIsReported`.
`BadWordFloods` needs that the loader's loop goes on.  In `Execution`,
`Terminates` lets the run end in the parent's abort, and
`OrphanDrains`/`OrphanNeverExits` say what the child does then.

## 5. Proofs

Each proof module states an inductive invariant `IInv`, proves
`Init => IInv`, `IInv /\ [Next]_vars => IInv'`, and derives the theorems.

* **Execution_proofs** (any `TEXT_SZ > 0`, any `MaxInst`): `RingSafety`,
  `TypeCorrect`, `ExitIsComplete`, `CountIsComplete`, `OrphanStays`, and
  `StreamImplemented`, the refinement step by step.  The cursors alone are not
  inductive: between the full test and the write the child may move, so the
  invariant says what the parent's position knows (after the test there is room,
  and room never shrinks, since only the parent takes it), what the child's
  position knows (`creg` equals the cursor between load and store, there is a
  record to take between test and store), and how many were fed at each
  position.  Two lemmas on remainders
  (`ModDistinct`, `ModPeriod`) tell slots apart for any ring size.  `finish` implies that nothing
  more is pushed; that the child empties the ring after it saw `finish` gives
  `ExitIsComplete` and `CountIsComplete`.
* **MultCount_proofs** (any `TEXT_SZ > 0`, any `MaxInst`): `TypeCorrect`,
  `RingKept`, `CountInOrder`, `NoEarlyExit`, `LossIsBounded`.  The invariant
  again says what each process knows at its position; the bound on the loss
  needs that nothing is pushed once `finish` is set, so the gap between count
  and program at the child's exit is what the ring still holds.
* **DCacheLemmas, DCache_proofs** (any geometry and latencies of
  `GeometryAssumption` and `LatencyAssumption`): `NoDuplicates`, `StampsInOrder`,
  `BufferSafety`, `StoresKept`, `NearLRU`, `TypeCorrect`; `ReplacementDefined` for two ways or more (with
  one it is false, the code's `lruSlot` would be used unset); `FlushedOnce` for a
  buffer of two entries or more.  The lemma `AccessGood` says what an access does
  to a set and a buffer, whichever of the four cases it is; the invariant adds
  that no stamp lies after `ready`, that only the line used last may be equal to
  it, and that of three used lines the oldest and the youngest differ
  (`UsesApart`), which is why at most one line is older than the one replaced.  The lemmas are about `DCacheOps` alone, so that `Pipeline_proofs` rests
  on them as well.
* **DCache_proofs, `GrowingHelps`** (any two caches of the same sets with
  `1 < FewerWays < DC_SET_SIZE`): `MoreWaysFewerMisses`.  The stamps of the two
  caches cannot be compared, each has its own clock, so `DCacheLemmas` says what
  a cache holds by the order of the accesses alone (`Recency`, kept by an access
  in `RecencyKept`): a block that is not cached was used before every block that
  is, save at most one, and that one is the block a miss brought in just before
  the line used last was hit.  A block the larger cache misses and the smaller one hits
  would then be older than more blocks than the smaller one has lines
  (`SmallAhead`, by counting).  This can happen after all, because of the
  one block replaced out of order, and not twice in a row: `Ahead` holds the blocks
  only the smaller cache has, and the invariant `Compared` is that its misses
  exceed those of the larger one by at least their number.
* **Pipeline_proofs** (any kinds of instructions, any addresses, any geometry): `OrderKept`,
  `MissesPaid`, `NoAccessSkipped`, `LongProgramsDrain`, `NoneHidden`,
  `RepeatsHit`, `TypeCorrect`, `ReplacementFound` for two ways or more, and
  `TraceImplemented`.  The invariant says that neighbouring stages hold the
  same or consecutive instructions and that the first copy of one in a stage is
  never marked a bubble (`Leads`, for every pair: `EachShown` needs it for M and
  W and gets it from the pair behind); that `busy` is exactly `dc_delay > 0` and
  then inside a call; that the time left is `ready - cycle - 1`; that a load or
  store in M that has not accessed the cache does so on the next edge; that the
  block an instruction in M looked up is still in its set, which is what the
  second lookup of an interlocked load finds; and that a NOP is either the
  initial one or newer than the program, which is what the drain's test of W
  rests on.
* **Pipeline_proofs, how long a program takes.**  `DrainOfFive`: a program of five
  instructions or more drains with exactly five calls.  `PaceInv` says that only
  NOPs follow the program, that the first of them in W ends the drain, and which
  stages can be bubbles together.  `HoldInv` says of a call under way which stages
  it holds; `Rest` is the number of stalls it still makes, at most two, and `Later`
  whether the next call begins with one.  They are not counters in the code: they
  are read off the stages, and an edge of the clock takes exactly one from `Rest`
  unless the data memory is busy, which makes it 0.  From this follow `CallsReturn`
  (every edge of a call makes `Left` smaller: the delay that is left while the
  memory is busy, otherwise `Rest` and the longest access that may still begin) and
  `RunsEnd` (the cycles never exceed `CallMost` for each instruction and
  each of the five calls of the drain).
  Both ask for a buffer of two entries or more, so that an access flushes once at
  most; the code has eight.
* **FunctionSim_proofs** (any memory size, program, data, register contents):
  `TypeCorrect`, `LastIsTransfer`, `AddressesAgree`, `MemoryFollowsTrace`,
  `WordsSurvive`.  The lemma `NextStep` says of every action what it does to
  memory and record; `WordsSurvive` adds arithmetic, that a word is what its four
  bytes say (`BytesAreWord`), sign and all.  `MachinesAgree` is about
  `FunctionCompare`: `Agree` strengthens `SameMachine` by the types of Project01's
  memory and floats, `SharedText` says that the operators of both machines are
  the same functions, `SameWord` that a read beside the test word yields the same
  in both memories, and `SameTurn` takes the instructions one by one.
* **Program03_proofs** (any files shorter than the address space, any memory):
  `ImageLoaded`.  The invariant `LoadInv` says that memory is the image of what has
  been read so far, or the loader is stuck at a word that is not a number; the
  lemma `LoadWord` shows that storing the next word makes the image of one more,
  and `ImageThere` that an image holds each word nothing was stored over.
* **Program03_proofs, the child** (any program and files, any ring, any geometry and
  latencies of `CacheAssumption`, which asks of the constants here what Pipeline
  asks): `ChildIsPipeline`, that the child of the whole
  program, with the records the parent traces, implements `P!Spec`: every step of
  the two processes is a step of Pipeline or leaves its variables alone.  `PP` is an
  instance of Pipeline_proofs, so its invariants hold of the child and its lemmas
  serve below.
* **Program03_proofs, `CountExplained` and `LookupsFollowProgram`**:
  `CyclesExplained` and `CacheSeesProgram`.  Neither process keeps the program that
  was executed, so the invariant `GhostInv` says that there is one: a function `tr`
  from numbers to records, the sums `sum` of the stalls the records up to each
  number ask for, and the numbers `place` of its loads and stores.  What is in the
  ring (`InRing`) and in a stage (`InPipe`) is what `tr` has at its number, across
  both processes.  For the count, `PP!Pace` is what the pipeline lost on the
  instructions it let in, `waits` the part of it that is waiting, and `PP!Debt`
  the stalls due: `Paid` says that the stalls made and due are no more than those
  `tr` asks for up to the instruction in F, since an interlock is paid once, and
  paid or skipped when a miss hides it.  For the lookups, `LookedUp` says that the
  cache has come to a prefix of `place`, and to all of it up to the instruction in
  W; `AtReport`, that all of the program has passed W when the count is printed.
  `PrintedInBounds` lifts `RunsEnd`: the number printed is at most `CallMost` for
  each instruction executed and each of the drain's five calls.
* **PipelineCompare_proofs** (programs of every length, any geometry,
  `LatenciesLong`): `CacheCost`, that is `CostIsWaits`.  Project02's pipeline is an
  instance `Q` of Pipeline_proofs whose data memory never is busy, so what is
  proved of stages, calls, `Rest` and `Later` holds of it (`Inv02`).  `CmpInv` adds
  that the two take turns (`Turns`), that a number means the same instruction in
  both (`Agree`), that they reach the fifth cycle together (`Started`) and what
  relates their stalls (`Related`): Project04's pipeline has made no more than
  Project02's, counting those its call still makes, and lacks no more than
  it has waited (`Ahead`, and `Close` once the program has ended), because a wait
  takes the place of the stalls due when it begins.  This needs
  a wait as long as those stalls, which can be two: `LatenciesLong` says that a hit
  takes one cycle and that what an access takes beyond it is nothing or more than
  one.  The code's latencies (`Project04/Dcache.h:11-16`: 3 to read, 1 to hit, 0
  to merge or to add, 3 to flush) satisfy it.  It cannot be left out: with 2 for
  `MemRdLatency` or for `HitdCLtcy` TLC finds `CostIsWaits` violated.

**Only model-checked.**  Every invariant and every action property of the passing
runs is stated by a theorem, and so are the two refinements.  What TLC alone
checks is liveness, which needs fairness and ENABLED and is out of the prover's
reach: `Terminates`, `OrphanDrains`, `ChildProgresses`, `EndIsReported` and
`BadWordFloods`.  `CallsReturn` and `RunsEnd` prove the safety half of
`ChildProgresses`: a call has only so many edges and a run only so many cycles, so
the child, if it goes on at all, comes to the end of its call and of its drain.
That the violations are found, and how a program of fewer than five instructions
ends, is seen in the runs as well.

## 6. Where comments and code differ

Each has a run that ends in a violation, and an entry in `PROJECT.json`:

* `ExecutionLeftover`: the child does not wait for the parent to clear a segment
  that an aborted run left; its old `finish` and cursors are believed.
* `DCacheStale`: a load that misses on a clean line does not flush the write
  buffer, so memory is read past a newer store.
* `PipelineLoadUse`: the load interlock compares with RD; a load writes RT.
* `PipelineBranch`: after a stall behind it a branch leaves F while the next
  instruction is fetched, without the cycle of hold.
* `MultCountLost`: what Project01's parent pushes between the child's last look
  at the ring and at `finish` is not counted.

Seen while reading, without a run of their own:

* The traced address of a load over its own base, `lw $1, 0($1)`, is computed from
  the loaded value (`Project04/decode.c:35`), so the cache looks up another block
  than the program read; `AddressTraced` and `CacheSeesProgram` except that load.
* A load the interlock holds is looked up twice, where the comment at
  `Project04/mips_sim.c:206` speaks of the first time.  `RepeatHits` says that the
  second lookup is a hit.
* `Project03/README.md:41` gives a block size of 8, the code has 16.
* More sets or larger blocks may raise the misses of a program, and more ways may
  raise its cycles although they do not raise its misses.
* A word in a file that is not a number keeps the loader going for ever
  (`BadWordFloods`).
* `Project04/README.md:32` describes the semaphore as what keeps the processes
  apart; it is private to each.  The model has it (`sem`), and the properties
  hold without it.
* A program of fewer than five instructions stops the drain at once, W still
  holds the initial NOP, and is reported with too few cycles and without its last
  lookups (`Drained`, `CacheSeesProgram` and `CyclesExplained` ask for five).
* A stall copy shows its instruction again in the trace; only the first showing
  is promised (`EachShown`).
* Time stamps may be equal for the line filled last and one used in the cycle
  the fill ends; replacement is near-LRU, not LRU (`VictimNearLRU`).
* The merge and flush flags of a store miss report only its second `WrBack`.
* `freg_size` is 16 where fields have five bits; loads and stores of floats are
  not shifted by `ireg_size` in the record, so they look like integer ones.
* `addi` and `slti` take five cycles in Project04 and four in Project01.
* `Project01/mips_sim.c:555` runs the memory test before loading, and 0.12 stays at
  address 256; `Project04/mips_sim.c:586` has the call commented out.
* `jr` takes five cycles in Project01, three in Project04.
* `MD/cach.md:52` lets a line start Invalid, `codes/stage.c` Exclusive.

## 7. What is not modelled

* Failing `shmget`, `shmat`, `fork`, `waitpid`: `exit(1)` at once.
* The printing of the trace (`stage_type`, `printf`): formatting; which stages
  show as STALL is the stall flag.
* What a float sum or product is: any of a set of words.
* The heap behind `f[]`, which an instruction that names a float register above
  15 reaches.
* `scanf` in Project01, whose loader is the same; the two processes and the
  functional part of Project02, which Project03 and Project04 took over.
* `codes/stage.c`: an enumeration and a table of states of a snooping protocol,
  without transitions; it does not compile and nothing calls it.
* `Model_Code`: the course's code, with headers that are not here.
* Notes, inputs and results.
* That a program computes the same whatever `malloc` left in its registers:
  `FunctionSim` starts with any words, and its properties hold for all of them,
  but `$0` is not kept at 0 and a program may depend on it.
* Overflow of the cursors after 2^31 instructions: they are naturals.

## 8. Plan

Done: the modules above, first each part by itself (Execution, DCache, Pipeline,
MultCount, FunctionSim), then the parts compared with their earlier forms
(Pipeline02, FunctionSim01), the abstract trace of the pipeline, and the whole
program of Project03, with the runs and theorems listed.  Next:

1. The same safety half for the ring: a bound on the program steps that are left
   to parent and child, from which `Terminates` needs fairness alone.
2. The programs of fewer than five instructions, whose report misses cycles and
   lookups: how many at most.

## 9. Running it

`tlc -config X.cfg M` with the pairs of `PROJECT.json`, e.g.
`tlc -config Pipeline.cfg MCPipeline`; `tlapm Execution_proofs.tla` and so on.
The runs take from a few seconds to a minute.  Definitions named
`X_Something` beside a definition `X` are mistaken forms of it; `PROJECT.json`
says which property finds each of them.
