--------------------------- MODULE MultCount_proofs ---------------------------
(***************************************************************************)
(* Proofs about MultCount for every ring size and program length: what the *)
(* child counts is right as far as it goes, and what it misses fits into   *)
(* the ring.                                                               *)
(***************************************************************************)
EXTENDS MultCount, TLAPS
-------------------------------------------------------------------------------
(* Ring indices. *)

\* Two cursors less than a ring apart are in different slots.
LEMMA ModDistinct ==
    ASSUME NEW n \in Nat \ {0}, NEW a \in Nat, NEW b \in Nat, a < b, b < a + n
    PROVE  a % n # b % n
<1>. SUFFICES ASSUME a % n = b % n PROVE FALSE
  OBVIOUS
<1>1. PICK q \in Int : b - a = n * q
  <2>1. /\ a = n * (a \div n) + (a % n) /\ a \div n \in Int
        /\ b = n * (b \div n) + (b % n) /\ b \div n \in Int
    BY SMT
  <2>2. b - a = n * ((b \div n) - (a \div n))
    BY <2>1
  <2>3. (b \div n) - (a \div n) \in Int
    BY <2>1
  <2>. QED BY <2>2, <2>3, Zenon
<1>2. q >= 1
  BY <1>1
<1>. QED BY <1>1, <1>2

\* A full ring is seen as full: cursors one ring apart are in the same slot.
LEMMA ModPeriod ==
    ASSUME NEW n \in Nat \ {0}, NEW a \in Nat
    PROVE  (a + n) % n = a % n
<1>1. /\ a % n \in 0 .. n - 1 /\ (a \div n) + 1 \in Int
      /\ a + n = n * ((a \div n) + 1) + (a % n)
  BY SMT
<1>2. ASSUME NEW q \in Int, NEW s \in 0 .. n - 1 PROVE (n * q + s) % n = s
  BY SMT
<1>. QED BY <1>1, <1>2, Zenon
-------------------------------------------------------------------------------
(* The inductive invariant. *)

SetupInv == ppc = "init" => inst_begin = 0 /\ inst_end = 0

ProgramInv ==
    /\ ppc \in {"finish", "waitpid", "done"} => ~more
    /\ ppc \in {"init", "full1", "full2", "write", "advance"} => more
    /\ ppc \in {"init", "fetch", "full1", "full2", "write", "advance"} /\ more =>
           inst_end < MaxInst
    /\ finish <=> ppc \in {"waitpid", "done"}

\* What each process knows of the cursors where it is.
CursorInv ==
    /\ Len(tallied) = (IF cpc \in {"load", "store"} THEN inst_begin + 1 ELSE inst_begin)
    /\ Len(tallied) <= inst_end
    /\ inst_end <= inst_begin + TEXT_SZ
    /\ ppc \in {"write", "advance"} => inst_end < inst_begin + TEXT_SZ
    /\ cpc = "store" => creg = inst_begin
    /\ cpc = "tally" => inst_begin < inst_end

SlotsInv == \A k \in inst_begin .. inst_end - 1 : insts[k % TEXT_SZ] = k + 1

RingInv == /\ SlotsInv
           /\ ppc = "advance" => insts[inst_end % TEXT_SZ] = inst_end + 1

ReportInv == /\ cpc = "exit" => finish
             /\ ppc = "done" => cpc = "exit" /\ reported = tallied

IInv == /\ TypeOK
        /\ SetupInv
        /\ ProgramInv
        /\ CursorInv
        /\ RingInv
        /\ TalliedInOrder
        /\ ReportInv
-------------------------------------------------------------------------------
\* A cursor's slot is a slot of the ring.
LEMMA SlotOf == \A k \in Nat : k % TEXT_SZ \in Slots
  BY RingAssumption DEF Slots

\* The parent's next slot holds no instruction the child has still to count.
LEMMA WriteSafe ==
    ASSUME IInv, ppc = "write"
    PROVE  /\ inst_end % TEXT_SZ \in Slots
           /\ \A k \in inst_begin .. inst_end - 1 :
                  k % TEXT_SZ \in Slots /\ k % TEXT_SZ # inst_end % TEXT_SZ
<1>1. inst_begin \in Nat /\ inst_end \in Nat /\ inst_end < inst_begin + TEXT_SZ
  BY RingAssumption, ProgramAssumption DEF IInv, TypeOK, CursorInv
<1>2. inst_end % TEXT_SZ \in Slots
  BY <1>1, SlotOf, Zenon
<1>3. ASSUME NEW k \in inst_begin .. inst_end - 1
      PROVE  k % TEXT_SZ \in Slots /\ k % TEXT_SZ # inst_end % TEXT_SZ
  <2>1. k \in Nat /\ k < inst_end /\ inst_end < k + TEXT_SZ
    BY <1>1, RingAssumption
  <2>2. k % TEXT_SZ \in Slots
    BY <2>1, SlotOf, Zenon
  <2>3. k % TEXT_SZ # inst_end % TEXT_SZ
    BY <1>1, <2>1, ModDistinct, RingAssumption, Zenon
  <2>. QED BY <2>2, <2>3
<1>. QED BY <1>2, <1>3

\* The initial state satisfies the invariant.
LEMMA InitIInv == Init => IInv
<1>. SUFFICES ASSUME Init PROVE IInv
  OBVIOUS
<1>. USE RingAssumption, ProgramAssumption DEF Init, Slots
<1>1. TypeOK
  <2>1. finish \in BOOLEAN /\ more \in BOOLEAN
    BY Zenon
  <2>2. tallied \in Seq(0 .. MaxInst) /\ reported \in Seq(0 .. MaxInst)
    OBVIOUS
  <2>3. insts \in [Slots -> 0 .. MaxInst]
    OBVIOUS
  <2>4. /\ inst_begin \in Nat /\ inst_end \in 0 .. MaxInst /\ creg \in Nat
        /\ ppc \in ParentPCs /\ cpc \in ChildPCs
    BY DEF ParentPCs, ChildPCs
  <2>. QED BY <2>1, <2>2, <2>3, <2>4, Zenon DEF TypeOK
<1>2. SetupInv /\ ProgramInv /\ ReportInv
  BY DEF SetupInv, ProgramInv, ReportInv
<1>3. CursorInv /\ RingInv /\ TalliedInOrder
  BY DEF CursorInv, RingInv, SlotsInv, TalliedInOrder
<1>. QED BY <1>1, <1>2, <1>3 DEF IInv

\* Every step of either process keeps the invariant.
LEMMA NextIInv == IInv /\ [Next]_vars => IInv'
<1>. SUFFICES ASSUME IInv, [Next]_vars PROVE IInv'
  OBVIOUS
<1>. USE RingAssumption, ProgramAssumption DEF IInv, segment, parent, child
<1>1. CASE InitSegment
  <2>. USE <1>1 DEF InitSegment, ParentGoes
  <2>1. TypeOK'
    <3>1. insts' \in [Slots -> 0 .. MaxInst] /\ tallied' \in Seq(0 .. MaxInst)
      OBVIOUS
    <3>2. ppc' \in ParentPCs /\ inst_begin' \in Nat /\ inst_end' \in 0 .. MaxInst
      BY DEF ParentPCs
    <3>3. finish' \in BOOLEAN
      BY Zenon
    <3>4. UNCHANGED <<more, reported, cpc, creg>>
      OBVIOUS
    <3>. QED BY <3>1, <3>2, <3>3, <3>4, Zenon DEF TypeOK
  <2>2. SetupInv' /\ ProgramInv' /\ ReportInv'
    BY DEF TypeOK, SetupInv, ProgramInv, CursorInv, ReportInv
  <2>3. CursorInv' /\ TalliedInOrder'
    BY DEF TypeOK, SetupInv, CursorInv, RingInv, SlotsInv, TalliedInOrder
  <2>4. RingInv'
    BY DEF TypeOK, SetupInv, CursorInv, RingInv, SlotsInv
  <2>. QED BY <2>1, <2>2, <2>3, <2>4
<1>2. CASE Fetch
  <2>. USE <1>2 DEF Fetch, ParentGoes
  <2>1. TypeOK'
    BY DEF TypeOK, ParentPCs, ChildPCs, ProgramInv
  <2>2. SetupInv' /\ ProgramInv' /\ ReportInv'
    BY DEF TypeOK, SetupInv, ProgramInv, CursorInv, ReportInv
  <2>3. CursorInv' /\ TalliedInOrder'
    BY DEF TypeOK, SetupInv, CursorInv, RingInv, SlotsInv, TalliedInOrder
  <2>4. RingInv'
    BY DEF TypeOK, SetupInv, CursorInv, RingInv, SlotsInv
  <2>. QED BY <2>1, <2>2, <2>3, <2>4
<1>3. CASE Full1
  <2>. USE <1>3 DEF Full1, ParentGoes
  <2>1. TypeOK'
    BY DEF TypeOK, ParentPCs, ChildPCs, ProgramInv
  <2>2. SetupInv' /\ ProgramInv' /\ ReportInv'
    BY DEF TypeOK, SetupInv, ProgramInv, CursorInv, ReportInv
  <2>3. CursorInv' /\ TalliedInOrder'
    <3>1. inst_begin % TEXT_SZ # inst_end % TEXT_SZ => inst_end # inst_begin + TEXT_SZ
      BY ModPeriod DEF TypeOK
    <3>2. ppc' = "write" => inst_end < inst_begin + TEXT_SZ
      BY <3>1 DEF TypeOK, CursorInv
    <3>. QED BY <3>2 DEF TypeOK, CursorInv, TalliedInOrder
  <2>4. RingInv'
    BY DEF TypeOK, SetupInv, CursorInv, RingInv, SlotsInv
  <2>. QED BY <2>1, <2>2, <2>3, <2>4
<1>4. CASE Full2
  <2>. USE <1>4 DEF Full2, ParentGoes
  <2>1. TypeOK'
    BY DEF TypeOK, ParentPCs, ChildPCs, ProgramInv
  <2>2. SetupInv' /\ ProgramInv' /\ ReportInv'
    BY DEF TypeOK, SetupInv, ProgramInv, CursorInv, ReportInv
  <2>3. CursorInv' /\ TalliedInOrder'
    BY DEF TypeOK, SetupInv, CursorInv, RingInv, SlotsInv, TalliedInOrder
  <2>4. RingInv'
    BY DEF TypeOK, SetupInv, CursorInv, RingInv, SlotsInv
  <2>. QED BY <2>1, <2>2, <2>3, <2>4
<1>5. CASE Write
  <2>. USE <1>5 DEF Write, ParentGoes
  <2>1. TypeOK'
    <3>1. inst_end + 1 \in 0 .. MaxInst
      BY DEF TypeOK, ProgramInv
    <3>2. insts' \in [Slots -> 0 .. MaxInst]
      BY <3>1 DEF TypeOK
    <3>. QED BY <3>2 DEF TypeOK, ParentPCs
  <2>2. SetupInv' /\ ProgramInv' /\ ReportInv'
    BY DEF TypeOK, SetupInv, ProgramInv, CursorInv, ReportInv
  <2>3. CursorInv' /\ TalliedInOrder'
    BY DEF TypeOK, SetupInv, CursorInv, RingInv, SlotsInv, TalliedInOrder
  <2>4. RingInv'
    <3>1. inst_end % TEXT_SZ \in Slots
      BY WriteSafe
    <3>2. insts'[inst_end % TEXT_SZ] = inst_end + 1
      BY <3>1 DEF TypeOK
    <3>3. ASSUME NEW k \in inst_begin .. inst_end - 1
          PROVE  insts'[k % TEXT_SZ] = k + 1
      <4>1. k % TEXT_SZ \in Slots /\ k % TEXT_SZ # inst_end % TEXT_SZ
        BY WriteSafe
      <4>2. insts'[k % TEXT_SZ] = insts[k % TEXT_SZ]
        BY <4>1, Zenon DEF TypeOK
      <4>. QED BY <4>2 DEF RingInv, SlotsInv
    <3>. QED BY <3>2, <3>3 DEF RingInv, SlotsInv
  <2>. QED BY <2>1, <2>2, <2>3, <2>4
<1>6. CASE Advance
  <2>. USE <1>6 DEF Advance, ParentGoes
  <2>1. TypeOK'
    BY DEF TypeOK, ParentPCs, ChildPCs, ProgramInv
  <2>2. SetupInv' /\ ProgramInv' /\ ReportInv'
    BY DEF TypeOK, SetupInv, ProgramInv, CursorInv, ReportInv
  <2>3. CursorInv' /\ TalliedInOrder'
    BY DEF TypeOK, SetupInv, CursorInv, RingInv, SlotsInv, TalliedInOrder
  <2>4. RingInv'
    <3>1. SUFFICES ASSUME NEW k \in inst_begin .. inst_end PROVE insts[k % TEXT_SZ] = k + 1
      BY DEF TypeOK, RingInv, SlotsInv
    <3>2. CASE k = inst_end
      BY <3>2 DEF RingInv
    <3>3. CASE k # inst_end
      <4>1. k \in inst_begin .. inst_end - 1
        BY <3>3 DEF TypeOK
      <4>. QED BY <4>1 DEF RingInv, SlotsInv
    <3>. QED BY <3>2, <3>3
  <2>. QED BY <2>1, <2>2, <2>3, <2>4
<1>7. CASE CopyCount
  <2>. USE <1>7 DEF CopyCount, ParentGoes
  <2>1. TypeOK'
    BY DEF TypeOK, ParentPCs, ChildPCs, ProgramInv
  <2>2. SetupInv' /\ ProgramInv' /\ ReportInv'
    BY DEF TypeOK, SetupInv, ProgramInv, CursorInv, ReportInv
  <2>3. CursorInv' /\ TalliedInOrder'
    BY DEF TypeOK, SetupInv, CursorInv, RingInv, SlotsInv, TalliedInOrder
  <2>4. RingInv'
    BY DEF TypeOK, SetupInv, CursorInv, RingInv, SlotsInv
  <2>. QED BY <2>1, <2>2, <2>3, <2>4
<1>8. CASE Execute
  <2>. USE <1>8 DEF Execute, ParentGoes
  <2>1. TypeOK'
    BY DEF TypeOK, ParentPCs, ChildPCs, ProgramInv
  <2>2. SetupInv' /\ ProgramInv' /\ ReportInv'
    BY DEF TypeOK, SetupInv, ProgramInv, CursorInv, ReportInv
  <2>3. CursorInv' /\ TalliedInOrder'
    BY DEF TypeOK, SetupInv, CursorInv, RingInv, SlotsInv, TalliedInOrder
  <2>4. RingInv'
    BY DEF TypeOK, SetupInv, CursorInv, RingInv, SlotsInv
  <2>. QED BY <2>1, <2>2, <2>3, <2>4
<1>9. CASE Fault
  <2>. USE <1>9 DEF Fault, ParentGoes
  <2>1. TypeOK'
    BY DEF TypeOK, ParentPCs, ChildPCs, ProgramInv
  <2>2. SetupInv' /\ ProgramInv' /\ ReportInv'
    BY DEF TypeOK, SetupInv, ProgramInv, CursorInv, ReportInv
  <2>3. CursorInv' /\ TalliedInOrder'
    BY DEF TypeOK, SetupInv, CursorInv, RingInv, SlotsInv, TalliedInOrder
  <2>4. RingInv'
    BY DEF TypeOK, SetupInv, CursorInv, RingInv, SlotsInv
  <2>. QED BY <2>1, <2>2, <2>3, <2>4
<1>10. CASE SetFinish
  <2>. USE <1>10 DEF SetFinish, ParentGoes
  <2>1. TypeOK'
    BY DEF TypeOK, ParentPCs, ChildPCs, ProgramInv
  <2>2. SetupInv' /\ ProgramInv' /\ ReportInv'
    BY DEF TypeOK, SetupInv, ProgramInv, CursorInv, ReportInv
  <2>3. CursorInv' /\ TalliedInOrder'
    BY DEF TypeOK, SetupInv, CursorInv, RingInv, SlotsInv, TalliedInOrder
  <2>4. RingInv'
    BY DEF TypeOK, SetupInv, CursorInv, RingInv, SlotsInv
  <2>. QED BY <2>1, <2>2, <2>3, <2>4
<1>11. CASE WaitChild
  <2>. USE <1>11 DEF WaitChild, ParentGoes
  <2>1. TypeOK'
    BY DEF TypeOK, ParentPCs, ChildPCs, ProgramInv
  <2>2. SetupInv' /\ ProgramInv' /\ ReportInv'
    BY DEF TypeOK, SetupInv, ProgramInv, CursorInv, ReportInv
  <2>3. CursorInv' /\ TalliedInOrder'
    BY DEF TypeOK, SetupInv, CursorInv, RingInv, SlotsInv, TalliedInOrder
  <2>4. RingInv'
    BY DEF TypeOK, SetupInv, CursorInv, RingInv, SlotsInv
  <2>. QED BY <2>1, <2>2, <2>3, <2>4
<1>12. CASE Scan
  <2>. USE <1>12 DEF Scan, ChildGoes
  <2>1. TypeOK'
    BY DEF TypeOK, ParentPCs, ChildPCs, ProgramInv
  <2>2. SetupInv' /\ ProgramInv' /\ ReportInv'
    BY DEF TypeOK, SetupInv, ProgramInv, CursorInv, ReportInv
  <2>3. CursorInv' /\ TalliedInOrder'
    BY DEF TypeOK, SetupInv, CursorInv, RingInv, SlotsInv, TalliedInOrder
  <2>4. RingInv'
    BY DEF TypeOK, SetupInv, CursorInv, RingInv, SlotsInv
  <2>. QED BY <2>1, <2>2, <2>3, <2>4
<1>13. CASE Tally
  <2>. USE <1>13 DEF Tally, ChildGoes
  <2>1. TypeOK'
    <3>1. insts[inst_begin % TEXT_SZ] \in 0 .. MaxInst
      BY SlotOf DEF TypeOK
    <3>2. tallied' \in Seq(0 .. MaxInst)
      BY <3>1 DEF TypeOK
    <3>. QED BY <3>2 DEF TypeOK, ChildPCs
  <2>2. SetupInv' /\ ProgramInv' /\ ReportInv'
    BY DEF TypeOK, SetupInv, ProgramInv, CursorInv, ReportInv
  <2>3. CursorInv' /\ TalliedInOrder'
    BY DEF TypeOK, SetupInv, CursorInv, RingInv, SlotsInv, TalliedInOrder
  <2>4. RingInv'
    BY DEF TypeOK, SetupInv, CursorInv, RingInv, SlotsInv
  <2>. QED BY <2>1, <2>2, <2>3, <2>4
<1>14. CASE LoadBegin
  <2>. USE <1>14 DEF LoadBegin, ChildGoes
  <2>1. TypeOK'
    BY DEF TypeOK, ParentPCs, ChildPCs, ProgramInv
  <2>2. SetupInv' /\ ProgramInv' /\ ReportInv'
    BY DEF TypeOK, SetupInv, ProgramInv, CursorInv, ReportInv
  <2>3. CursorInv' /\ TalliedInOrder'
    BY DEF TypeOK, SetupInv, CursorInv, RingInv, SlotsInv, TalliedInOrder
  <2>4. RingInv'
    BY DEF TypeOK, SetupInv, CursorInv, RingInv, SlotsInv
  <2>. QED BY <2>1, <2>2, <2>3, <2>4
<1>15. CASE StoreBegin
  <2>. USE <1>15 DEF StoreBegin, ChildGoes
  <2>1. TypeOK'
    BY DEF TypeOK, ParentPCs, ChildPCs, ProgramInv
  <2>2. SetupInv' /\ ProgramInv' /\ ReportInv'
    BY DEF TypeOK, SetupInv, ProgramInv, CursorInv, ReportInv
  <2>3. CursorInv' /\ TalliedInOrder'
    BY DEF TypeOK, SetupInv, CursorInv, RingInv, SlotsInv, TalliedInOrder
  <2>4. RingInv'
    <3>1. inst_begin' .. inst_end' - 1 \subseteq inst_begin .. inst_end - 1
      BY DEF TypeOK, CursorInv
    <3>. QED BY <3>1 DEF RingInv, SlotsInv
  <2>. QED BY <2>1, <2>2, <2>3, <2>4
<1>16. CASE TestFinish
  <2>. USE <1>16 DEF TestFinish, ChildGoes
  <2>1. TypeOK'
    BY DEF TypeOK, ParentPCs, ChildPCs, ProgramInv
  <2>2. SetupInv' /\ ProgramInv' /\ ReportInv'
    BY DEF TypeOK, SetupInv, ProgramInv, CursorInv, ReportInv
  <2>3. CursorInv' /\ TalliedInOrder'
    BY DEF TypeOK, SetupInv, CursorInv, RingInv, SlotsInv, TalliedInOrder
  <2>4. RingInv'
    BY DEF TypeOK, SetupInv, CursorInv, RingInv, SlotsInv
  <2>. QED BY <2>1, <2>2, <2>3, <2>4
<1>17. CASE UNCHANGED vars
  BY <1>17 DEF vars, TypeOK, SetupInv, ProgramInv, CursorInv, RingInv, SlotsInv,
              TalliedInOrder, ReportInv
<1>. QED BY <1>1, <1>2, <1>3, <1>4, <1>5, <1>6, <1>7, <1>8, <1>9,
           <1>10, <1>11, <1>12, <1>13, <1>14, <1>15, <1>16, <1>17
        DEF Next, Parent, Child, Ended
-------------------------------------------------------------------------------
(* The properties. *)

\* Every reachable state satisfies the inductive invariant.
LEMMA Invariance == Spec => []IInv
BY InitIInv, NextIInv, PTL DEF Spec

\* Segment and locals keep their types.
THEOREM TypeCorrect == Spec => []TypeOK
<1>1. IInv => TypeOK
  BY DEF IInv
<1>. QED BY <1>1, Invariance, PTL

\* The ring never holds more than TEXT_SZ instructions and none is overwritten
\* before mult_compute has counted it.
THEOREM RingKept == Spec => []RingSafe
<1>1. IInv => RingSafe
  <2>. SUFFICES ASSUME IInv PROVE RingSafe
    OBVIOUS
  <2>1. inst_begin <= inst_end /\ inst_end <= inst_begin + TEXT_SZ
    BY DEF IInv, TypeOK, CursorInv
  <2>. QED BY <2>1 DEF IInv, RingInv, SlotsInv, RingSafe
<1>. QED BY <1>1, Invariance, PTL

\* mult_compute counts in program order, nothing twice and nothing that was not
\* pushed.
THEOREM CountInOrder == Spec => []TalliedInOrder
<1>1. IInv => TalliedInOrder
  BY DEF IInv
<1>. QED BY <1>1, Invariance, PTL

\* The child leaves only after the parent's loop has ended.
THEOREM NoEarlyExit == Spec => []ExitAfterFinish
<1>1. IInv => ExitAfterFinish
  BY DEF IInv, ReportInv, ProgramInv, ExitAfterFinish
<1>. QED BY <1>1, Invariance, PTL

\* The printed count misses at most the last TEXT_SZ instructions.
THEOREM LossIsBounded == Spec => []LossBounded
<1>1. IInv => LossBounded
  <2>. SUFFICES ASSUME IInv, ppc = "done" PROVE inst_end - Len(reported) <= TEXT_SZ
    BY DEF LossBounded
  <2>1. Len(reported) = inst_begin
    BY DEF IInv, ReportInv, CursorInv
  <2>. QED BY <2>1, RingAssumption DEF IInv, TypeOK, CursorInv
<1>. QED BY <1>1, Invariance, PTL
===============================================================================
