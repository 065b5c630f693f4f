--------------------------- MODULE Execution_proofs ---------------------------
(***************************************************************************)
(* Proofs about Execution for every ring size and program length: the two  *)
(* processes exchange the instructions without loss, duplication or        *)
(* reordering although nothing excludes them from the segment.             *)
(***************************************************************************)
EXTENDS Execution, TLAPS
-------------------------------------------------------------------------------
(* Ring indices. *)

\* Two cursors less than a ring apart are in different slots.
LEMMA ModDistinct ==
    ASSUME NEW n \in Nat \ {0}, NEW a \in Nat, NEW b \in Nat, a < b, b < a + n
    PROVE  a % n # b % n
<1>. SUFFICES ASSUME a % n = b % n PROVE FALSE
  OBVIOUS
<1>1. PICK q \in Int : b - a = n * q
  <2>1. /\ a = n * (a \div n) + (a % n) /\ a \div n \in Int
        /\ b = n * (b \div n) + (b % n) /\ b \div n \in Int
    BY SMT
  <2>2. b - a = n * ((b \div n) - (a \div n))
    BY <2>1
  <2>3. (b \div n) - (a \div n) \in Int
    BY <2>1
  <2>. QED BY <2>2, <2>3, Zenon
<1>2. q >= 1
  BY <1>1
<1>. QED BY <1>1, <1>2

\* A full ring is seen as full: cursors one ring apart are in the same slot.
LEMMA ModPeriod ==
    ASSUME NEW n \in Nat \ {0}, NEW a \in Nat
    PROVE  (a + n) % n = a % n
<1>1. /\ a % n \in 0 .. n - 1 /\ (a \div n) + 1 \in Int
      /\ a + n = n * ((a \div n) + 1) + (a % n)
  BY SMT
<1>2. ASSUME NEW q \in Int, NEW s \in 0 .. n - 1 PROVE (n * q + s) % n = s
  BY SMT
<1>. QED BY <1>1, <1>2, Zenon
-------------------------------------------------------------------------------
\* A cursor's slot is a slot of the ring.
LEMMA SlotOf == \A k \in Nat : k % TEXT_SZ \in Slots
  BY RingAssumption DEF Slots

\* Pushing an instruction appends it to Issued.
LEMMA IssuedGrows ==
    ASSUME NEW k \in Nat
    PROVE  /\ Len([n \in 1 .. k |-> n]) = k
           /\ Append([n \in 1 .. k |-> n], k + 1) = [n \in 1 .. k + 1 |-> n]
  OBVIOUS
-------------------------------------------------------------------------------
(* The inductive invariant: where the processes are ties their semaphores, *)
(* their cursors and what the child has simulated together.                *)

ParentOwns == {"init", "init_post", "full1", "full2", "spin_post", "write",
               "advance", "finish", "post"}

SemaphoreInv == /\ sem["parent"] = (IF ppc \in ParentOwns THEN 0 ELSE 1)
                /\ sem["child"] = (IF cpc \in {"wait", "exit"} THEN 1 ELSE 0)

SetupInv == ppc \in {"init_wait", "init", "init_post"} =>
                /\ inst_begin = 0 /\ inst_end = 0
                /\ ~finish /\ more

ProgramInv ==
    /\ ppc = "run" => more /\ inst_end < MaxInst
    /\ ppc \in {"wait", "full1", "full2", "spin_post", "spin_wait", "write", "advance"} =>
           inst_end < MaxInst /\ (more => inst_end + 1 < MaxInst)
    /\ ppc \in {"finish", "post"} => inst_end > 0 /\ (more => inst_end < MaxInst)
    /\ finish => ~more /\ ppc \in {"post", "waitpid", "done"} /\ inst_end > 0
    /\ ppc = "post" /\ ~more => finish
    /\ ppc \in {"waitpid", "done"} => finish

CursorInv ==
    /\ Len(fed) = (IF cpc \in {"load", "store", "drain_load", "drain_store"}
                     THEN inst_begin + 1 ELSE inst_begin)
    /\ Len(fed) <= inst_end
    /\ inst_end <= inst_begin + TEXT_SZ
    /\ ppc \in {"write", "advance"} => inst_end < inst_begin + TEXT_SZ
    /\ cpc \in {"store", "drain_store"} => creg = inst_begin
    /\ cpc \in {"take", "drain_take"} => inst_begin < inst_end

RingInv == /\ SlotsIntact
           /\ ppc = "advance" => insts[inst_end % TEXT_SZ] = inst_end + 1

ChildInv ==
    /\ cpc \in {"drain", "drain_take", "drain_load", "drain_store", "last_post", "exit"} => finish
    /\ cpc \in {"last_post", "exit"} => inst_begin = inst_end

ReportInv == IF ppc = "done" THEN cpc = "exit" /\ counted = fed
                             ELSE counted = <<>>

IInv == /\ TypeOK
        /\ SemaphoreInv
        /\ SetupInv
        /\ ProgramInv
        /\ CursorInv
        /\ RingInv
        /\ FedInOrder
        /\ ChildInv
        /\ ReportInv
-------------------------------------------------------------------------------
\* sem_wait and sem_post keep the semaphores binary, given that sem_post is
\* only called by a process that holds its own.
LEMMA SemTyped ==
    ASSUME NEW p \in Procs, sem \in [Procs -> 0 .. 1],
           SemWait(p) \/ (SemPost(p) /\ sem[p] = 0)
    PROVE  sem' \in [Procs -> 0 .. 1]
  BY DEF SemWait, SemPost

\* The parent's next slot holds no instruction the child has still to read.
LEMMA WriteSafe ==
    ASSUME IInv, ppc = "write"
    PROVE  /\ inst_end \in Nat
           /\ inst_end % TEXT_SZ \in Slots
           /\ \A k \in inst_begin .. inst_end - 1 :
                  k % TEXT_SZ \in Slots /\ k % TEXT_SZ # inst_end % TEXT_SZ
<1>1. inst_begin \in Nat /\ inst_end \in Nat /\ inst_end < inst_begin + TEXT_SZ
  BY RingAssumption, ProgramAssumption DEF IInv, TypeOK, CursorInv
<1>2. inst_end % TEXT_SZ \in Slots
  BY <1>1, SlotOf, Zenon
<1>3. ASSUME NEW k \in inst_begin .. inst_end - 1
      PROVE  k % TEXT_SZ \in Slots /\ k % TEXT_SZ # inst_end % TEXT_SZ
  <2>1. k \in Nat /\ k < inst_end /\ inst_end < k + TEXT_SZ
    BY <1>1, RingAssumption
  <2>2. k % TEXT_SZ \in Slots
    BY <2>1, SlotOf, Zenon
  <2>3. k % TEXT_SZ # inst_end % TEXT_SZ
    BY <1>1, <2>1, ModDistinct, RingAssumption, Zenon
  <2>. QED BY <2>2, <2>3
<1>. QED BY <1>1, <1>2, <1>3

\* The initial states satisfy the invariant.
LEMMA InitIInv == Init => IInv
<1>. SUFFICES ASSUME Init PROVE IInv
  OBVIOUS
<1>. USE RingAssumption, ProgramAssumption DEF Init, SemInit, Procs, Slots, Stale
<1>1. TypeOK
  BY DEF TypeOK, ParentPCs, ChildPCs
<1>2. SemaphoreInv /\ SetupInv /\ ProgramInv /\ ChildInv /\ ReportInv
  BY DEF SemaphoreInv, SetupInv, ProgramInv, ChildInv, ReportInv, ParentOwns
<1>3. CursorInv /\ RingInv /\ FedInOrder
  BY DEF CursorInv, RingInv, SlotsIntact, FedInOrder
<1>. QED BY <1>1, <1>2, <1>3 DEF IInv

\* Every step of either process keeps the invariant.
LEMMA NextIInv == IInv /\ [Next]_vars => IInv'
<1>. SUFFICES ASSUME IInv, [Next]_vars PROVE IInv'
  OBVIOUS
<1>. USE RingAssumption, ProgramAssumption DEF IInv, Procs, Stale, segment, parent, child
<1>1. CASE ParentInitWait
  <2>. USE <1>1 DEF ParentInitWait, ParentGoes, SemWait
  <2>1. TypeOK'
    <3>1. sem' \in [Procs -> 0 .. 1]
      BY SemTyped, Zenon DEF TypeOK, SemaphoreInv, ParentOwns
    <3>. QED BY <3>1 DEF TypeOK, ParentPCs, ChildPCs
  <2>2. SemaphoreInv' /\ SetupInv' /\ ProgramInv' /\ ChildInv' /\ ReportInv'
    BY DEF TypeOK, SemaphoreInv, SetupInv, ProgramInv, CursorInv, ChildInv, ReportInv, ParentOwns
  <2>3. CursorInv' /\ FedInOrder'
    BY DEF TypeOK, SetupInv, CursorInv, RingInv, SlotsIntact, FedInOrder
  <2>4. RingInv'
    BY DEF TypeOK, SetupInv, CursorInv, RingInv, SlotsIntact
  <2>. QED BY <2>1, <2>2, <2>3, <2>4
<1>2. CASE ParentInitSegment
  <2>. USE <1>2 DEF ParentInitSegment, ParentGoes
  <2>1. TypeOK'
    <3>1. insts' \in [Slots -> 0 .. Stale]
      OBVIOUS
    <3>2. fed' \in Seq(0 .. Stale)
      OBVIOUS
    <3>3. ppc' \in ParentPCs
      BY DEF ParentPCs
    <3>4. finish' \in BOOLEAN
      BY Zenon
    <3>5. inst_begin' \in Nat /\ inst_end' \in 0 .. MaxInst
      OBVIOUS
    <3>6. UNCHANGED <<sem, more, counted, cpc, creg>>
      OBVIOUS
    <3>. QED BY <3>1, <3>2, <3>3, <3>4, <3>5, <3>6, Zenon DEF TypeOK
  <2>2. SemaphoreInv' /\ SetupInv' /\ ProgramInv' /\ ChildInv' /\ ReportInv'
    BY DEF TypeOK, SemaphoreInv, SetupInv, ProgramInv, CursorInv, ChildInv, ReportInv, ParentOwns
  <2>3. CursorInv' /\ FedInOrder'
    BY DEF TypeOK, SetupInv, CursorInv, RingInv, SlotsIntact, FedInOrder
  <2>4. RingInv'
    BY DEF TypeOK, SetupInv, CursorInv, RingInv, SlotsIntact
  <2>. QED BY <2>1, <2>2, <2>3, <2>4
<1>3. CASE ParentInitPost
  <2>. USE <1>3 DEF ParentInitPost, ParentGoes, SemPost
  <2>1. TypeOK'
    <3>1. sem' \in [Procs -> 0 .. 1]
      BY SemTyped, Zenon DEF TypeOK, SemaphoreInv, ParentOwns
    <3>. QED BY <3>1 DEF TypeOK, ParentPCs, ChildPCs
  <2>2. SemaphoreInv' /\ SetupInv' /\ ProgramInv' /\ ChildInv' /\ ReportInv'
    BY DEF TypeOK, SemaphoreInv, SetupInv, ProgramInv, CursorInv, ChildInv, ReportInv, ParentOwns
  <2>3. CursorInv' /\ FedInOrder'
    BY DEF TypeOK, SetupInv, CursorInv, RingInv, SlotsIntact, FedInOrder
  <2>4. RingInv'
    BY DEF TypeOK, SetupInv, CursorInv, RingInv, SlotsIntact
  <2>. QED BY <2>1, <2>2, <2>3, <2>4
<1>4. CASE FunctionSimulation
  <2>. USE <1>4 DEF FunctionSimulation, ParentGoes
  <2>1. TypeOK'
    BY DEF TypeOK, ParentPCs, ChildPCs, ProgramInv
  <2>2. SemaphoreInv' /\ SetupInv' /\ ProgramInv' /\ ChildInv' /\ ReportInv'
    BY DEF TypeOK, SemaphoreInv, SetupInv, ProgramInv, CursorInv, ChildInv, ReportInv, ParentOwns
  <2>3. CursorInv' /\ FedInOrder'
    BY DEF TypeOK, SetupInv, CursorInv, RingInv, SlotsIntact, FedInOrder
  <2>4. RingInv'
    BY DEF TypeOK, SetupInv, CursorInv, RingInv, SlotsIntact
  <2>. QED BY <2>1, <2>2, <2>3, <2>4
<1>5. CASE ParentFault
  <2>. USE <1>5 DEF ParentFault, ParentGoes
  <2>1. TypeOK'
    BY DEF TypeOK, ParentPCs, ChildPCs, ProgramInv
  <2>2. SemaphoreInv' /\ SetupInv' /\ ProgramInv' /\ ChildInv' /\ ReportInv'
    BY DEF TypeOK, SemaphoreInv, SetupInv, ProgramInv, CursorInv, ChildInv, ReportInv, ParentOwns
  <2>3. CursorInv' /\ FedInOrder'
    BY DEF TypeOK, SetupInv, CursorInv, RingInv, SlotsIntact, FedInOrder
  <2>4. RingInv'
    BY DEF TypeOK, SetupInv, CursorInv, RingInv, SlotsIntact
  <2>. QED BY <2>1, <2>2, <2>3, <2>4
<1>6. CASE ParentWait
  <2>. USE <1>6 DEF ParentWait, ParentGoes, SemWait
  <2>1. TypeOK'
    <3>1. sem' \in [Procs -> 0 .. 1]
      BY SemTyped, Zenon DEF TypeOK, SemaphoreInv, ParentOwns
    <3>. QED BY <3>1 DEF TypeOK, ParentPCs, ChildPCs
  <2>2. SemaphoreInv' /\ SetupInv' /\ ProgramInv' /\ ChildInv' /\ ReportInv'
    BY DEF TypeOK, SemaphoreInv, SetupInv, ProgramInv, CursorInv, ChildInv, ReportInv, ParentOwns
  <2>3. CursorInv' /\ FedInOrder'
    BY DEF TypeOK, SetupInv, CursorInv, RingInv, SlotsIntact, FedInOrder
  <2>4. RingInv'
    BY DEF TypeOK, SetupInv, CursorInv, RingInv, SlotsIntact
  <2>. QED BY <2>1, <2>2, <2>3, <2>4
<1>7. CASE Full1
  <2>. USE <1>7 DEF Full1, ParentGoes
  <2>1. TypeOK'
    BY DEF TypeOK, ParentPCs, ChildPCs, ProgramInv
  <2>2. SemaphoreInv' /\ SetupInv' /\ ProgramInv' /\ ChildInv' /\ ReportInv'
    BY DEF TypeOK, SemaphoreInv, SetupInv, ProgramInv, CursorInv, ChildInv, ReportInv, ParentOwns
  <2>3. CursorInv' /\ FedInOrder'
    <3>1. inst_begin % TEXT_SZ # inst_end % TEXT_SZ => inst_end # inst_begin + TEXT_SZ
      BY ModPeriod DEF TypeOK
    <3>2. ppc' = "write" => inst_end < inst_begin + TEXT_SZ
      BY <3>1 DEF TypeOK, CursorInv
    <3>. QED BY <3>2 DEF TypeOK, CursorInv, FedInOrder
  <2>4. RingInv'
    BY DEF TypeOK, SetupInv, CursorInv, RingInv, SlotsIntact
  <2>. QED BY <2>1, <2>2, <2>3, <2>4
<1>8. CASE Full2
  <2>. USE <1>8 DEF Full2, ParentGoes
  <2>1. TypeOK'
    BY DEF TypeOK, ParentPCs, ChildPCs, ProgramInv
  <2>2. SemaphoreInv' /\ SetupInv' /\ ProgramInv' /\ ChildInv' /\ ReportInv'
    BY DEF TypeOK, SemaphoreInv, SetupInv, ProgramInv, CursorInv, ChildInv, ReportInv, ParentOwns
  <2>3. CursorInv' /\ FedInOrder'
    BY DEF TypeOK, SetupInv, CursorInv, RingInv, SlotsIntact, FedInOrder
  <2>4. RingInv'
    BY DEF TypeOK, SetupInv, CursorInv, RingInv, SlotsIntact
  <2>. QED BY <2>1, <2>2, <2>3, <2>4
<1>9. CASE SpinPost
  <2>. USE <1>9 DEF SpinPost, ParentGoes, SemPost
  <2>1. TypeOK'
    <3>1. sem' \in [Procs -> 0 .. 1]
      BY SemTyped, Zenon DEF TypeOK, SemaphoreInv, ParentOwns
    <3>. QED BY <3>1 DEF TypeOK, ParentPCs, ChildPCs
  <2>2. SemaphoreInv' /\ SetupInv' /\ ProgramInv' /\ ChildInv' /\ ReportInv'
    BY DEF TypeOK, SemaphoreInv, SetupInv, ProgramInv, CursorInv, ChildInv, ReportInv, ParentOwns
  <2>3. CursorInv' /\ FedInOrder'
    BY DEF TypeOK, SetupInv, CursorInv, RingInv, SlotsIntact, FedInOrder
  <2>4. RingInv'
    BY DEF TypeOK, SetupInv, CursorInv, RingInv, SlotsIntact
  <2>. QED BY <2>1, <2>2, <2>3, <2>4
<1>10. CASE SpinWait
  <2>. USE <1>10 DEF SpinWait, ParentGoes, SemWait
  <2>1. TypeOK'
    <3>1. sem' \in [Procs -> 0 .. 1]
      BY SemTyped, Zenon DEF TypeOK, SemaphoreInv, ParentOwns
    <3>. QED BY <3>1 DEF TypeOK, ParentPCs, ChildPCs
  <2>2. SemaphoreInv' /\ SetupInv' /\ ProgramInv' /\ ChildInv' /\ ReportInv'
    BY DEF TypeOK, SemaphoreInv, SetupInv, ProgramInv, CursorInv, ChildInv, ReportInv, ParentOwns
  <2>3. CursorInv' /\ FedInOrder'
    BY DEF TypeOK, SetupInv, CursorInv, RingInv, SlotsIntact, FedInOrder
  <2>4. RingInv'
    BY DEF TypeOK, SetupInv, CursorInv, RingInv, SlotsIntact
  <2>. QED BY <2>1, <2>2, <2>3, <2>4
<1>11. CASE Write
  <2>. USE <1>11 DEF Write, ParentGoes
  <2>1. TypeOK'
    <3>1. inst_end + 1 \in 0 .. Stale
      BY DEF TypeOK, ProgramInv
    <3>2. insts' \in [Slots -> 0 .. Stale]
      BY <3>1 DEF TypeOK
    <3>. QED BY <3>2 DEF TypeOK, ParentPCs
  <2>2. SemaphoreInv' /\ SetupInv' /\ ProgramInv' /\ ChildInv' /\ ReportInv'
    BY DEF TypeOK, SemaphoreInv, SetupInv, ProgramInv, CursorInv, ChildInv, ReportInv, ParentOwns
  <2>3. CursorInv' /\ FedInOrder'
    BY DEF TypeOK, SetupInv, CursorInv, RingInv, SlotsIntact, FedInOrder
  <2>4. RingInv'
    <3>1. inst_end % TEXT_SZ \in Slots
      BY WriteSafe
    <3>2. insts'[inst_end % TEXT_SZ] = inst_end + 1
      BY <3>1 DEF TypeOK
    <3>3. ASSUME NEW k \in inst_begin .. inst_end - 1
          PROVE  insts'[k % TEXT_SZ] = k + 1
      <4>1. k % TEXT_SZ \in Slots /\ k % TEXT_SZ # inst_end % TEXT_SZ
        BY WriteSafe
      <4>2. insts'[k % TEXT_SZ] = insts[k % TEXT_SZ]
        BY <4>1, Zenon DEF TypeOK
      <4>. QED BY <4>2 DEF RingInv, SlotsIntact
    <3>. QED BY <3>2, <3>3 DEF RingInv, SlotsIntact
  <2>. QED BY <2>1, <2>2, <2>3, <2>4
<1>12. CASE Advance
  <2>. USE <1>12 DEF Advance, ParentGoes
  <2>1. TypeOK'
    BY DEF TypeOK, ParentPCs, ChildPCs, ProgramInv
  <2>2. SemaphoreInv' /\ SetupInv' /\ ProgramInv' /\ ChildInv' /\ ReportInv'
    BY DEF TypeOK, SemaphoreInv, SetupInv, ProgramInv, CursorInv, ChildInv, ReportInv, ParentOwns
  <2>3. CursorInv' /\ FedInOrder'
    BY DEF TypeOK, SetupInv, CursorInv, RingInv, SlotsIntact, FedInOrder
  <2>4. RingInv'
    <3>1. SUFFICES ASSUME NEW k \in inst_begin .. inst_end PROVE insts[k % TEXT_SZ] = k + 1
      BY DEF TypeOK, RingInv, SlotsIntact
    <3>2. CASE k = inst_end
      BY <3>2 DEF RingInv
    <3>3. CASE k # inst_end
      <4>1. k \in inst_begin .. inst_end - 1
        BY <3>3 DEF TypeOK
      <4>. QED BY <4>1 DEF RingInv, SlotsIntact
    <3>. QED BY <3>2, <3>3
  <2>. QED BY <2>1, <2>2, <2>3, <2>4
<1>13. CASE SetFinish
  <2>. USE <1>13 DEF SetFinish, ParentGoes
  <2>1. TypeOK'
    BY DEF TypeOK, ParentPCs, ChildPCs, ProgramInv
  <2>2. SemaphoreInv' /\ SetupInv' /\ ProgramInv' /\ ChildInv' /\ ReportInv'
    BY DEF TypeOK, SemaphoreInv, SetupInv, ProgramInv, CursorInv, ChildInv, ReportInv, ParentOwns
  <2>3. CursorInv' /\ FedInOrder'
    BY DEF TypeOK, SetupInv, CursorInv, RingInv, SlotsIntact, FedInOrder
  <2>4. RingInv'
    BY DEF TypeOK, SetupInv, CursorInv, RingInv, SlotsIntact
  <2>. QED BY <2>1, <2>2, <2>3, <2>4
<1>14. CASE ParentPost
  <2>. USE <1>14 DEF ParentPost, SemPost
  <2>1. TypeOK'
    <3>1. sem' \in [Procs -> 0 .. 1]
      BY SemTyped, Zenon DEF TypeOK, SemaphoreInv, ParentOwns
    <3>. QED BY <3>1 DEF TypeOK, ParentPCs, ChildPCs
  <2>2. SemaphoreInv' /\ SetupInv' /\ ProgramInv' /\ ChildInv' /\ ReportInv'
    BY DEF TypeOK, SemaphoreInv, SetupInv, ProgramInv, CursorInv, ChildInv, ReportInv, ParentOwns
  <2>3. CursorInv' /\ FedInOrder'
    BY DEF TypeOK, SetupInv, CursorInv, RingInv, SlotsIntact, FedInOrder
  <2>4. RingInv'
    BY DEF TypeOK, SetupInv, CursorInv, RingInv, SlotsIntact
  <2>. QED BY <2>1, <2>2, <2>3, <2>4
<1>15. CASE WaitChild
  <2>. USE <1>15 DEF WaitChild, ParentGoes
  <2>1. TypeOK'
    BY DEF TypeOK, ParentPCs, ChildPCs, ProgramInv
  <2>2. SemaphoreInv' /\ SetupInv' /\ ProgramInv' /\ ChildInv' /\ ReportInv'
    BY DEF TypeOK, SemaphoreInv, SetupInv, ProgramInv, CursorInv, ChildInv, ReportInv, ParentOwns
  <2>3. CursorInv' /\ FedInOrder'
    BY DEF TypeOK, SetupInv, CursorInv, RingInv, SlotsIntact, FedInOrder
  <2>4. RingInv'
    BY DEF TypeOK, SetupInv, CursorInv, RingInv, SlotsIntact
  <2>. QED BY <2>1, <2>2, <2>3, <2>4
<1>16. CASE ChildWait
  <2>. USE <1>16 DEF ChildWait, ChildGoes, SemWait
  <2>1. TypeOK'
    <3>1. sem' \in [Procs -> 0 .. 1]
      BY SemTyped, Zenon DEF TypeOK, SemaphoreInv, ParentOwns
    <3>. QED BY <3>1 DEF TypeOK, ParentPCs, ChildPCs
  <2>2. SemaphoreInv' /\ SetupInv' /\ ProgramInv' /\ ChildInv' /\ ReportInv'
    BY DEF TypeOK, SemaphoreInv, SetupInv, ProgramInv, CursorInv, ChildInv, ReportInv, ParentOwns
  <2>3. CursorInv' /\ FedInOrder'
    BY DEF TypeOK, SetupInv, CursorInv, RingInv, SlotsIntact, FedInOrder
  <2>4. RingInv'
    BY DEF TypeOK, SetupInv, CursorInv, RingInv, SlotsIntact
  <2>. QED BY <2>1, <2>2, <2>3, <2>4
<1>17. CASE ChildFinish
  <2>. USE <1>17 DEF ChildFinish, ChildGoes
  <2>1. TypeOK'
    BY DEF TypeOK, ParentPCs, ChildPCs, ProgramInv
  <2>2. SemaphoreInv' /\ SetupInv' /\ ProgramInv' /\ ChildInv' /\ ReportInv'
    BY DEF TypeOK, SemaphoreInv, SetupInv, ProgramInv, CursorInv, ChildInv, ReportInv, ParentOwns
  <2>3. CursorInv' /\ FedInOrder'
    BY DEF TypeOK, SetupInv, CursorInv, RingInv, SlotsIntact, FedInOrder
  <2>4. RingInv'
    BY DEF TypeOK, SetupInv, CursorInv, RingInv, SlotsIntact
  <2>. QED BY <2>1, <2>2, <2>3, <2>4
<1>18. CASE ChildCheck
  <2>. USE <1>18 DEF ChildCheck, ChildGoes
  <2>1. TypeOK'
    BY DEF TypeOK, ParentPCs, ChildPCs, ProgramInv
  <2>2. SemaphoreInv' /\ SetupInv' /\ ProgramInv' /\ ChildInv' /\ ReportInv'
    BY DEF TypeOK, SemaphoreInv, SetupInv, ProgramInv, CursorInv, ChildInv, ReportInv, ParentOwns
  <2>3. CursorInv' /\ FedInOrder'
    BY DEF TypeOK, SetupInv, CursorInv, RingInv, SlotsIntact, FedInOrder
  <2>4. RingInv'
    BY DEF TypeOK, SetupInv, CursorInv, RingInv, SlotsIntact
  <2>. QED BY <2>1, <2>2, <2>3, <2>4
<1>19. CASE ChildTake
  <2>. USE <1>19 DEF ChildTake, ChildGoes, Take
  <2>1. TypeOK'
    <3>1. insts[inst_begin % TEXT_SZ] \in 0 .. Stale
      BY SlotOf DEF TypeOK
    <3>2. fed' \in Seq(0 .. Stale)
      BY <3>1 DEF TypeOK
    <3>. QED BY <3>2 DEF TypeOK, ChildPCs
  <2>2. SemaphoreInv' /\ SetupInv' /\ ProgramInv' /\ ChildInv' /\ ReportInv'
    BY DEF TypeOK, SemaphoreInv, SetupInv, ProgramInv, CursorInv, ChildInv, ReportInv, ParentOwns
  <2>3. CursorInv' /\ FedInOrder'
    BY DEF TypeOK, SetupInv, CursorInv, RingInv, SlotsIntact, FedInOrder
  <2>4. RingInv'
    BY DEF TypeOK, SetupInv, CursorInv, RingInv, SlotsIntact
  <2>. QED BY <2>1, <2>2, <2>3, <2>4
<1>20. CASE ChildLoad
  <2>. USE <1>20 DEF ChildLoad, ChildGoes, LoadBegin
  <2>1. TypeOK'
    BY DEF TypeOK, ParentPCs, ChildPCs, ProgramInv
  <2>2. SemaphoreInv' /\ SetupInv' /\ ProgramInv' /\ ChildInv' /\ ReportInv'
    BY DEF TypeOK, SemaphoreInv, SetupInv, ProgramInv, CursorInv, ChildInv, ReportInv, ParentOwns
  <2>3. CursorInv' /\ FedInOrder'
    BY DEF TypeOK, SetupInv, CursorInv, RingInv, SlotsIntact, FedInOrder
  <2>4. RingInv'
    BY DEF TypeOK, SetupInv, CursorInv, RingInv, SlotsIntact
  <2>. QED BY <2>1, <2>2, <2>3, <2>4
<1>21. CASE ChildStore
  <2>. USE <1>21 DEF ChildStore, ChildGoes, StoreBegin
  <2>1. TypeOK'
    BY DEF TypeOK, ParentPCs, ChildPCs, ProgramInv
  <2>2. SemaphoreInv' /\ SetupInv' /\ ProgramInv' /\ ChildInv' /\ ReportInv'
    BY DEF TypeOK, SemaphoreInv, SetupInv, ProgramInv, CursorInv, ChildInv, ReportInv, ParentOwns
  <2>3. CursorInv' /\ FedInOrder'
    BY DEF TypeOK, SetupInv, CursorInv, RingInv, SlotsIntact, FedInOrder
  <2>4. RingInv'
    <3>1. inst_begin' .. inst_end' - 1 \subseteq inst_begin .. inst_end - 1
      BY DEF TypeOK, CursorInv
    <3>. QED BY <3>1 DEF RingInv, SlotsIntact
  <2>. QED BY <2>1, <2>2, <2>3, <2>4
<1>22. CASE ChildPost
  <2>. USE <1>22 DEF ChildPost, ChildGoes, SemPost
  <2>1. TypeOK'
    <3>1. sem' \in [Procs -> 0 .. 1]
      BY SemTyped, Zenon DEF TypeOK, SemaphoreInv, ParentOwns
    <3>. QED BY <3>1 DEF TypeOK, ParentPCs, ChildPCs
  <2>2. SemaphoreInv' /\ SetupInv' /\ ProgramInv' /\ ChildInv' /\ ReportInv'
    BY DEF TypeOK, SemaphoreInv, SetupInv, ProgramInv, CursorInv, ChildInv, ReportInv, ParentOwns
  <2>3. CursorInv' /\ FedInOrder'
    BY DEF TypeOK, SetupInv, CursorInv, RingInv, SlotsIntact, FedInOrder
  <2>4. RingInv'
    BY DEF TypeOK, SetupInv, CursorInv, RingInv, SlotsIntact
  <2>. QED BY <2>1, <2>2, <2>3, <2>4
<1>23. CASE ChildDrain
  <2>. USE <1>23 DEF ChildDrain, ChildGoes
  <2>1. TypeOK'
    BY DEF TypeOK, ParentPCs, ChildPCs, ProgramInv
  <2>2. SemaphoreInv' /\ SetupInv' /\ ProgramInv' /\ ChildInv' /\ ReportInv'
    BY DEF TypeOK, SemaphoreInv, SetupInv, ProgramInv, CursorInv, ChildInv, ReportInv, ParentOwns
  <2>3. CursorInv' /\ FedInOrder'
    BY DEF TypeOK, SetupInv, CursorInv, RingInv, SlotsIntact, FedInOrder
  <2>4. RingInv'
    BY DEF TypeOK, SetupInv, CursorInv, RingInv, SlotsIntact
  <2>. QED BY <2>1, <2>2, <2>3, <2>4
<1>24. CASE DrainTake
  <2>. USE <1>24 DEF DrainTake, ChildGoes, Take
  <2>1. TypeOK'
    <3>1. insts[inst_begin % TEXT_SZ] \in 0 .. Stale
      BY SlotOf DEF TypeOK
    <3>2. fed' \in Seq(0 .. Stale)
      BY <3>1 DEF TypeOK
    <3>. QED BY <3>2 DEF TypeOK, ChildPCs
  <2>2. SemaphoreInv' /\ SetupInv' /\ ProgramInv' /\ ChildInv' /\ ReportInv'
    BY DEF TypeOK, SemaphoreInv, SetupInv, ProgramInv, CursorInv, ChildInv, ReportInv, ParentOwns
  <2>3. CursorInv' /\ FedInOrder'
    BY DEF TypeOK, SetupInv, CursorInv, RingInv, SlotsIntact, FedInOrder
  <2>4. RingInv'
    BY DEF TypeOK, SetupInv, CursorInv, RingInv, SlotsIntact
  <2>. QED BY <2>1, <2>2, <2>3, <2>4
<1>25. CASE DrainLoad
  <2>. USE <1>25 DEF DrainLoad, ChildGoes, LoadBegin
  <2>1. TypeOK'
    BY DEF TypeOK, ParentPCs, ChildPCs, ProgramInv
  <2>2. SemaphoreInv' /\ SetupInv' /\ ProgramInv' /\ ChildInv' /\ ReportInv'
    BY DEF TypeOK, SemaphoreInv, SetupInv, ProgramInv, CursorInv, ChildInv, ReportInv, ParentOwns
  <2>3. CursorInv' /\ FedInOrder'
    BY DEF TypeOK, SetupInv, CursorInv, RingInv, SlotsIntact, FedInOrder
  <2>4. RingInv'
    BY DEF TypeOK, SetupInv, CursorInv, RingInv, SlotsIntact
  <2>. QED BY <2>1, <2>2, <2>3, <2>4
<1>26. CASE DrainStore
  <2>. USE <1>26 DEF DrainStore, ChildGoes, StoreBegin
  <2>1. TypeOK'
    BY DEF TypeOK, ParentPCs, ChildPCs, ProgramInv
  <2>2. SemaphoreInv' /\ SetupInv' /\ ProgramInv' /\ ChildInv' /\ ReportInv'
    BY DEF TypeOK, SemaphoreInv, SetupInv, ProgramInv, CursorInv, ChildInv, ReportInv, ParentOwns
  <2>3. CursorInv' /\ FedInOrder'
    BY DEF TypeOK, SetupInv, CursorInv, RingInv, SlotsIntact, FedInOrder
  <2>4. RingInv'
    <3>1. inst_begin' .. inst_end' - 1 \subseteq inst_begin .. inst_end - 1
      BY DEF TypeOK, CursorInv
    <3>. QED BY <3>1 DEF RingInv, SlotsIntact
  <2>. QED BY <2>1, <2>2, <2>3, <2>4
<1>27. CASE ChildLastPost
  <2>. USE <1>27 DEF ChildLastPost, ChildGoes, SemPost
  <2>1. TypeOK'
    <3>1. sem' \in [Procs -> 0 .. 1]
      BY SemTyped, Zenon DEF TypeOK, SemaphoreInv, ParentOwns
    <3>. QED BY <3>1 DEF TypeOK, ParentPCs, ChildPCs
  <2>2. SemaphoreInv' /\ SetupInv' /\ ProgramInv' /\ ChildInv' /\ ReportInv'
    BY DEF TypeOK, SemaphoreInv, SetupInv, ProgramInv, CursorInv, ChildInv, ReportInv, ParentOwns
  <2>3. CursorInv' /\ FedInOrder'
    BY DEF TypeOK, SetupInv, CursorInv, RingInv, SlotsIntact, FedInOrder
  <2>4. RingInv'
    BY DEF TypeOK, SetupInv, CursorInv, RingInv, SlotsIntact
  <2>. QED BY <2>1, <2>2, <2>3, <2>4
<1>28. CASE UNCHANGED vars
  BY <1>28 DEF vars, TypeOK, SemaphoreInv, SetupInv, ProgramInv, CursorInv,
                RingInv, SlotsIntact, FedInOrder, ChildInv, ReportInv
<1>. QED BY <1>1, <1>2, <1>3, <1>4, <1>5, <1>6, <1>7, <1>8, <1>9, <1>10, <1>11, <1>12,
            <1>13, <1>14, <1>15, <1>16, <1>17, <1>18, <1>19, <1>20, <1>21, <1>22, <1>23,
            <1>24, <1>25, <1>26, <1>27, <1>28
         DEF Next, Parent, Child, Ended

-------------------------------------------------------------------------------
(* The properties. *)

\* Every reachable state satisfies the inductive invariant.
LEMMA Invariance == Spec => []IInv
BY InitIInv, NextIInv, PTL DEF Spec

\* A child that simulated as many instructions as were pushed simulated
\* exactly those.
LEMMA AllFed ==
    ASSUME IInv, Len(fed) = inst_end
    PROVE  fed = Issued
<1>1. fed \in Seq(0 .. Stale) /\ \A n \in 1 .. inst_end : fed[n] = n
  BY DEF IInv, TypeOK, FedInOrder
<1>. QED BY <1>1 DEF Issued

\* The ring invariant, for any ring size: never more than TEXT_SZ instructions
\* in flight, none overwritten before it is read, all simulated in order, with
\* nothing to exclude the processes from each other.
THEOREM RingSafety == Spec => [](RingSafe /\ FedInOrder)
<1>1. IInv => RingSafe /\ FedInOrder
  <2>. SUFFICES ASSUME IInv PROVE RingBounded
    BY DEF IInv, RingInv, RingSafe
  <2>. QED BY DEF IInv, TypeOK, CursorInv, RingBounded
<1>. QED BY <1>1, Invariance, PTL

\* The segment, the semaphores and both processes' locals keep their types.
THEOREM TypeCorrect == Spec => []TypeOK
<1>1. IInv => TypeOK
  BY DEF IInv
<1>. QED BY <1>1, Invariance, PTL

\* The child exits only after the whole program was simulated.
THEOREM ExitIsComplete == Spec => []ExitComplete
<1>1. IInv => ExitComplete
  <2>. SUFFICES ASSUME IInv, cpc = "exit" PROVE finish /\ fed = Issued
    BY DEF ExitComplete
  <2>1. finish /\ Len(fed) = inst_end
    BY DEF IInv, ChildInv, CursorInv
  <2>. QED BY <2>1, AllFed
<1>. QED BY <1>1, Invariance, PTL

\* The printed pipeline count covers the instructions the program executed,
\* all of them and nothing else.
THEOREM CountIsComplete == Spec => []CountComplete
<1>1. IInv => CountComplete
  <2>. SUFFICES ASSUME IInv, ppc = "done" PROVE counted = Issued
    BY DEF CountComplete
  <2>1. counted = fed /\ Len(fed) = inst_end
    BY DEF IInv, ReportInv, ChildInv, CursorInv
  <2>. QED BY <2>1, AllFed
<1>. QED BY <1>1, Invariance, PTL

\* After the parent aborts finish is never set, so the child never leaves.
THEOREM OrphanStays == Spec => []OrphanNeverExits
<1>1. IInv => OrphanNeverExits
  BY DEF IInv, OrphanNeverExits, ProgramInv, ChildInv
<1>. QED BY <1>1, Invariance, PTL
-------------------------------------------------------------------------------
(* The refinement. *)

\* The initial states are initial states of the stream.
LEMMA InitStream == Init => Stream!Init
  BY DEF Init, Stream!Init, Issued

\* Pushing, setting finish, simulating and reading the count are the steps of
\* the stream; every other step leaves it alone.
LEMMA NextStream == IInv /\ IInv' /\ [Next]_vars => [Stream!Next]_(Stream!vars)
<1>. SUFFICES ASSUME IInv, IInv', [Next]_vars
              PROVE  Stream!Next \/ UNCHANGED Stream!vars
  BY DEF Stream!vars
<1>. USE DEF segment, parent, child
<1>1. CASE Advance
  <2>1. /\ ~finish /\ Len(fed) \in Nat /\ inst_end \in Nat
        /\ inst_end < MaxInst /\ inst_end - Len(fed) < TEXT_SZ
    BY <1>1, RingAssumption, ProgramAssumption
       DEF Advance, ParentGoes, IInv, TypeOK, ProgramInv, CursorInv
  <2>2. Len(Issued) = inst_end /\ Issued' = Append(Issued, inst_end + 1)
    BY <1>1, <2>1, IssuedGrows DEF Advance, Issued
  <2>3. Stream!Send(inst_end + 1)
    BY <1>1, <2>1, <2>2 DEF Advance, ParentGoes, Stream!Send
  <2>4. inst_end + 1 \in 1 .. MaxInst
    BY <2>1, ProgramAssumption
  <2>. QED BY <2>3, <2>4 DEF Stream!Next
<1>2. CASE SetFinish
  <2>1. ~finish /\ inst_end \in Nat /\ inst_end > 0
    BY <1>2, ProgramAssumption DEF SetFinish, ParentGoes, IInv, TypeOK, ProgramInv
  <2>2. Issued # <<>>
    BY <2>1, IssuedGrows DEF Issued
  <2>3. more => UNCHANGED Stream!vars
    <3>. SUFFICES ASSUME more PROVE UNCHANGED Stream!vars
      OBVIOUS
    <3>1. finish' = FALSE /\ finish = FALSE
      BY <1>2, <2>1, Zenon DEF SetFinish, IInv, TypeOK
    <3>2. UNCHANGED <<inst_end, fed, counted>> /\ (ppc = "done") = FALSE /\ (ppc = "done")' = FALSE
      BY <1>2 DEF SetFinish, ParentGoes
    <3>. QED BY <3>1, <3>2 DEF Stream!vars, Issued
  <2>4. ~more => Stream!Close
    BY <1>2, <2>1, <2>2 DEF SetFinish, ParentGoes, Stream!Close, Issued
  <2>. QED BY <2>3, <2>4 DEF Stream!Next
<1>3. ASSUME NEW from \in {"take", "drain_take"}, NEW to, Take(from, to)
      PROVE  Stream!Receive
  <2>1. /\ Len(fed) = inst_begin /\ inst_begin < inst_end
        /\ inst_begin \in Nat /\ inst_end \in Nat
    BY <1>3, ProgramAssumption DEF Take, ChildGoes, IInv, TypeOK, CursorInv
  <2>2. insts[inst_begin % TEXT_SZ] = inst_begin + 1
    BY <2>1 DEF IInv, RingInv, SlotsIntact
  <2>3. Len(Issued) = inst_end /\ Issued[Len(fed) + 1] = inst_begin + 1
    BY <2>1, IssuedGrows DEF Issued
  <2>4. fed' = Append(fed, Issued[Len(fed) + 1])
    BY <1>3, <2>2, <2>3 DEF Take
  <2>. QED BY <1>3, <2>1, <2>3, <2>4 DEF Take, Stream!Receive, Issued
<1>4. CASE ChildTake
  BY <1>3, <1>4 DEF ChildTake, Stream!Next
<1>5. CASE DrainTake
  BY <1>3, <1>5 DEF DrainTake, Stream!Next
<1>6. CASE WaitChild
  <2>1. finish /\ fed = Issued /\ ppc = "waitpid" /\ cpc = "exit"
    <3>1. cpc = "exit" /\ ppc = "waitpid"
      BY <1>6 DEF WaitChild, ParentGoes
    <3>2. finish /\ Len(fed) = inst_end
      BY <3>1 DEF IInv, ChildInv, CursorInv
    <3>. QED BY <3>1, <3>2, AllFed
  <2>2. Stream!Report
    BY <1>6, <2>1 DEF WaitChild, ParentGoes, Stream!Report, Issued
  <2>. QED BY <2>2 DEF Stream!Next
<1>7. CASE ParentInitSegment
  BY <1>7 DEF ParentInitSegment, ParentGoes, IInv, TypeOK, SetupInv, CursorInv,
              ReportInv, Stream!vars, Issued
<1>8. CASE ParentInitWait \/ ParentInitPost \/ FunctionSimulation \/ ParentFault
  BY <1>8 DEF ParentInitWait, ParentInitPost, FunctionSimulation, ParentFault,
              ParentGoes, Stream!vars, Issued
<1>9. CASE ParentWait \/ Full1 \/ Full2 \/ SpinPost \/ SpinWait \/ Write \/ ParentPost
  BY <1>9 DEF ParentWait, Full1, Full2, SpinPost, SpinWait, Write, ParentPost,
              ParentGoes, Stream!vars, Issued
<1>10. CASE \/ ChildWait \/ ChildFinish \/ ChildCheck \/ ChildLoad \/ ChildStore
            \/ ChildPost \/ ChildDrain \/ DrainLoad \/ DrainStore \/ ChildLastPost
  BY <1>10 DEF ChildWait, ChildFinish, ChildCheck, ChildLoad, ChildStore, ChildPost,
               ChildDrain, DrainLoad, DrainStore, ChildLastPost, LoadBegin, StoreBegin,
               Stream!vars, Issued
<1>11. CASE UNCHANGED vars
  BY <1>11 DEF vars, Stream!vars, Issued
<1>. QED
  BY <1>1, <1>2, <1>4, <1>5, <1>6, <1>7, <1>8, <1>9, <1>10, <1>11
     DEF Next, Parent, Child, Ended

\* The two processes implement the stream: for any ring size and any program
\* the child receives what the parent sends, in order, without loss, and the
\* count is read when everything was received.
THEOREM StreamImplemented == Spec => ImplementsStream
BY InitStream, NextStream, Invariance, PTL DEF Spec, ImplementsStream, Stream!Spec
===============================================================================
