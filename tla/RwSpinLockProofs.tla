-------------------------- MODULE RwSpinLockProofs --------------------------
(***************************************************************************)
(* Proofs about RwSpinLock for every finite set of CPUs and every width of *)
(* the preemption counter.  The inductive invariant IInv says what the     *)
(* three words of the lock mean: rd_lock is 1 exactly while one CPU is in  *)
(* the readers' bookkeeping, readers is the number of counted CPUs, and    *)
(* wr_lock is 1 exactly while a writer, or the group of readers, holds it. *)
(***************************************************************************)
EXTENDS RwSpinLock, FiniteSetTheorems, TLAPS

\* The program counters and words stay in their ranges, preempt_count wraps
\* inside its width (spin.asm, sync.h).
LEMMA TypeStep == TypeOK /\ [Next]_vars => TypeOK'
<1> SUFFICES ASSUME TypeOK, [Next]_vars PROVE TypeOK'
  OBVIOUS
<1> USE ModAssumption DEF TypeOK, PCs, Goto
<1>1. ASSUME NEW c \in CPU, preempt_inc(c)
      PROVE preempt_count' \in [CPU -> 0..(PreemptMod - 1)]
  BY <1>1 DEF preempt_inc
<1>2. ASSUME NEW c \in CPU, preempt_dec(c)
      PROVE preempt_count' \in [CPU -> 0..(PreemptMod - 1)]
  BY <1>2 DEF preempt_dec
<1>3. ASSUME NEW c \in CPU, Begin(c) PROVE TypeOK'
  BY <1>1, <1>3 DEF Begin, ReadLockEnter, WriteLockEnter, spin_lock_enter
<1>4. ASSUME NEW c \in CPU, Work(c) PROVE TypeOK'
  <2>1. CASE ReadLockRd(c) \/ ReadLockWr(c) \/ ReadUnlockRd(c) \/ WriteLockWr(c)
    BY <2>1 DEF ReadLockRd, ReadLockWr, ReadUnlockRd, WriteLockWr, spin_lock_xchg
  <2>2. CASE ReadLockInc(c)
    BY <1>1, <2>2 DEF ReadLockInc
  <2>3. CASE ReadLockPreempt(c)
    BY <1>1, <2>3 DEF ReadLockPreempt
  <2>4. CASE ReadLockLeave(c) \/ ReadUnlockWr(c) \/ ReadUnlockLeave(c) \/ WriteUnlock(c)
    BY <1>2, <2>4 DEF ReadLockLeave, ReadUnlockWr, ReadUnlockLeave, WriteUnlock, spin_unlock
  <2>5. CASE ReadUnlockEnter(c)
    BY <1>1, <2>5 DEF ReadUnlockEnter, spin_lock_enter
  <2>6. CASE ReadUnlockDec(c)
    BY <2>6 DEF ReadUnlockDec
  <2>7. CASE ReadUnlockPreempt(c)
    BY <1>2, <2>7 DEF ReadUnlockPreempt
  <2>8. QED
    BY <1>4, <2>1, <2>2, <2>3, <2>4, <2>5, <2>6, <2>7 DEF Work
<1>5. CASE UNCHANGED vars
  BY <1>5 DEF vars
<1>6. QED
  BY <1>3, <1>4, <1>5 DEF Next

\* Type correctness of the lock's state.
THEOREM TypeCorrect == Spec => []TypeOK
<1>1. Init => TypeOK
  BY ModAssumption DEF Init, TypeOK, PCs
<1>2. QED
  BY <1>1, TypeStep, PTL DEF Spec

-----------------------------------------------------------------------------

\* Moving one CPU changes the set of counted CPUs by at most that CPU.
LEMMA CountedMove ==
  ASSUME TypeOK, NEW c \in CPU, NEW to \in PCs, Goto(c, to)
  PROVE  Counted' = IF to \in {"r_wr", "r_pre", "r_leave", "reading", "u_rd", "u_dec"}
                    THEN Counted \cup {c} ELSE Counted \ {c}
BY DEF TypeOK, Counted, IsReader, Goto, PCs

\* The counted CPUs are finitely many, so readers counts them exactly.
LEMMA CountedFinite == IsFiniteSet(Counted) /\ Cardinality(Counted) \in Nat
<1>1. Counted \in SUBSET CPU
  BY DEF Counted
<1>2. QED
  BY <1>1, CPUAssumption, FS_Subset, FS_CardinalityType

\* readers stays the number of counted CPUs across every step.
LEMMA ReadersCountedStep ==
  ASSUME TypeOK, ReadersCounted, [Next]_vars
  PROVE  ReadersCounted'
<1> USE DEF ReadersCounted
<1>0. IsFiniteSet(Counted) /\ Cardinality(Counted) \in Nat
  BY CountedFinite
<1>1. ASSUME NEW c \in CPU, NEW to \in PCs, Goto(c, to), readers' = readers,
             pc[c] \in {"r_wr", "r_pre", "r_leave", "reading", "u_rd", "u_dec"}
               <=> to \in {"r_wr", "r_pre", "r_leave", "reading", "u_rd", "u_dec"}
      PROVE  ReadersCounted'
  <2>1. Counted' = Counted
    BY <1>1, CountedMove DEF Counted, IsReader
  <2>2. QED
    BY <1>1, <2>1
<1>2. ASSUME NEW c \in CPU, Begin(c) PROVE ReadersCounted'
  BY <1>1, <1>2 DEF Begin, ReadLockEnter, WriteLockEnter, spin_lock_enter, PCs
<1>3. ASSUME NEW c \in CPU, Work(c) PROVE ReadersCounted'
  <2>1. CASE ReadLockRd(c) \/ ReadLockWr(c) \/ ReadUnlockRd(c) \/ WriteLockWr(c)
    BY <1>1, <2>1
       DEF ReadLockRd, ReadLockWr, ReadUnlockRd, WriteLockWr, spin_lock_xchg, PCs
  <2>2. CASE ReadLockInc(c)
    <3>1. PICK to \in {"r_wr", "r_pre"} : Goto(c, to)
      BY <2>2 DEF ReadLockInc
    <3>2. c \notin Counted /\ Counted' = Counted \cup {c}
      BY <2>2, <3>1, CountedMove DEF ReadLockInc, Counted, IsReader, PCs
    <3>3. Cardinality(Counted') = Cardinality(Counted) + 1
      BY <1>0, <3>2, FS_AddElement
    <3>4. QED
      BY <2>2, <3>3 DEF ReadLockInc
  <2>3. CASE ReadLockPreempt(c)
    BY <1>1, <2>3 DEF ReadLockPreempt, PCs
  <2>4. CASE ReadLockLeave(c) \/ ReadUnlockWr(c) \/ ReadUnlockLeave(c) \/ WriteUnlock(c)
    BY <1>1, <2>4
       DEF ReadLockLeave, ReadUnlockWr, ReadUnlockLeave, WriteUnlock, spin_unlock, PCs
  <2>5. CASE ReadUnlockEnter(c)
    BY <1>1, <2>5 DEF ReadUnlockEnter, spin_lock_enter, PCs
  <2>6. CASE ReadUnlockDec(c)
    <3>1. PICK to \in {"u_wr", "u_pre"} : Goto(c, to)
      BY <2>6 DEF ReadUnlockDec
    <3>2. c \in Counted /\ Counted' = Counted \ {c}
      BY <2>6, <3>1, CountedMove DEF ReadUnlockDec, Counted, IsReader, PCs
    <3>3. Cardinality(Counted') = Cardinality(Counted) - 1
      BY <1>0, <3>2, FS_RemoveElement
    <3>4. QED
      BY <2>6, <3>3 DEF ReadUnlockDec
  <2>7. CASE ReadUnlockPreempt(c)
    BY <1>1, <2>7 DEF ReadUnlockPreempt, PCs
  <2>8. QED
    BY <1>3, <2>1, <2>2, <2>3, <2>4, <2>5, <2>6, <2>7 DEF Work
<1>4. CASE UNCHANGED vars
  BY <1>4 DEF vars, Counted, IsReader
<1>5. QED
  BY <1>2, <1>3, <1>4 DEF Next

-----------------------------------------------------------------------------

\* rd_lock admits one CPU at a time to the readers' bookkeeping.
LEMMA RdExclusionStep ==
  ASSUME TypeOK, RdExclusion, [Next]_vars
  PROVE  RdExclusion'
<1> USE DEF RdExclusion, HoldsRd, TypeOK, Goto
<1>1. ASSUME NEW c \in CPU, Begin(c) PROVE RdExclusion'
  BY <1>1 DEF Begin, ReadLockEnter, WriteLockEnter, spin_lock_enter
<1>2. ASSUME NEW c \in CPU, Work(c) PROVE RdExclusion'
  <2>1. CASE ReadLockRd(c) \/ ReadUnlockRd(c)
    BY <2>1 DEF ReadLockRd, ReadUnlockRd, spin_lock_xchg
  <2>2. CASE ReadLockWr(c) \/ WriteLockWr(c)
    BY <2>2 DEF ReadLockWr, WriteLockWr, spin_lock_xchg
  <2>3. CASE ReadLockInc(c) \/ ReadLockPreempt(c)
    BY <2>3 DEF ReadLockInc, ReadLockPreempt
  <2>4. CASE ReadLockLeave(c) \/ ReadUnlockLeave(c)
    BY <2>4 DEF ReadLockLeave, ReadUnlockLeave, spin_unlock
  <2>5. CASE ReadUnlockWr(c) \/ WriteUnlock(c)
    BY <2>5 DEF ReadUnlockWr, WriteUnlock, spin_unlock
  <2>6. CASE ReadUnlockEnter(c)
    BY <2>6 DEF ReadUnlockEnter, spin_lock_enter
  <2>7. CASE ReadUnlockDec(c) \/ ReadUnlockPreempt(c)
    BY <2>7 DEF ReadUnlockDec, ReadUnlockPreempt
  <2>8. QED
    BY <1>2, <2>1, <2>2, <2>3, <2>4, <2>5, <2>6, <2>7 DEF Work
<1>3. CASE UNCHANGED vars
  BY <1>3 DEF vars
<1>4. QED
  BY <1>1, <1>2, <1>3 DEF Next

\* Only the holder of rd_lock changes the set of counted CPUs.
LEMMA CountedStable ==
  ASSUME TypeOK, RdExclusion, [Next]_vars,
         NEW c \in CPU, HoldsRd(c), pc'[c] = pc[c]
  PROVE  Counted' = Counted
<1>1. ASSUME NEW d \in CPU, Begin(d) PROVE Counted' = Counted
  BY <1>1 DEF Begin, ReadLockEnter, WriteLockEnter, spin_lock_enter, Goto, TypeOK,
     Counted, IsReader
<1>2. ASSUME NEW d \in CPU, Work(d) PROVE Counted' = Counted
  <2>1. ~ReadLockInc(d) /\ ~ReadUnlockDec(d)
    BY DEF RdExclusion, HoldsRd, ReadLockInc, ReadUnlockDec, Goto, TypeOK
  <2>2. CASE ReadLockRd(d) \/ ReadLockWr(d) \/ ReadUnlockRd(d) \/ WriteLockWr(d)
    BY <2>2 DEF ReadLockRd, ReadLockWr, ReadUnlockRd, WriteLockWr, spin_lock_xchg,
       Goto, TypeOK, Counted, IsReader
  <2>3. CASE ReadLockLeave(d) \/ ReadUnlockWr(d) \/ ReadUnlockLeave(d) \/ WriteUnlock(d)
    BY <2>3 DEF ReadLockLeave, ReadUnlockWr, ReadUnlockLeave, WriteUnlock, spin_unlock,
       Goto, TypeOK, Counted, IsReader
  <2>4. CASE ReadLockPreempt(d) \/ ReadUnlockPreempt(d) \/ ReadUnlockEnter(d)
    BY <2>4 DEF ReadLockPreempt, ReadUnlockPreempt, ReadUnlockEnter, spin_lock_enter,
       Goto, TypeOK, Counted, IsReader
  <2>5. QED
    BY <1>2, <2>1, <2>2, <2>3, <2>4 DEF Work
<1>3. CASE UNCHANGED vars
  BY <1>3 DEF vars, Counted, IsReader
<1>4. QED
  BY <1>1, <1>2, <1>3 DEF Next

\* The CPU that goes for wr_lock is the only counted one, the CPU that is
\* about to release it leaves none behind.
LEMMA FirstAndLastStep ==
  ASSUME IInv, [Next]_vars, RdExclusion', ReadersCounted'
  PROVE  FirstAndLast'
<1> SUFFICES ASSUME NEW c \in CPU
             PROVE  /\ pc'[c] = "r_wr" => Counted' = {c}
                    /\ pc'[c] = "u_wr" => Counted' = {}
  BY DEF FirstAndLast
<1> USE DEF IInv
<1>1. CASE pc'[c] = pc[c]
  BY <1>1, CountedStable DEF FirstAndLast, HoldsRd
<1>2. CASE pc'[c] # pc[c]
  <2>1. pc'[c] = "r_wr" => ReadLockInc(c) /\ readers' = 1
    BY <1>2 DEF TypeOK, Next, vars, Begin, Work, Goto, ReadLockEnter, WriteLockEnter,
       spin_lock_enter, ReadLockRd, ReadLockWr, ReadUnlockRd, WriteLockWr, spin_lock_xchg,
       ReadLockInc, ReadLockPreempt, ReadLockLeave, ReadUnlockWr, ReadUnlockLeave,
       WriteUnlock, spin_unlock, ReadUnlockEnter, ReadUnlockDec, ReadUnlockPreempt
  <2>2. pc'[c] = "u_wr" => readers' = 0
    BY <1>2 DEF TypeOK, Next, vars, Begin, Work, Goto, ReadLockEnter, WriteLockEnter,
       spin_lock_enter, ReadLockRd, ReadLockWr, ReadUnlockRd, WriteLockWr, spin_lock_xchg,
       ReadLockInc, ReadLockPreempt, ReadLockLeave, ReadUnlockWr, ReadUnlockLeave,
       WriteUnlock, spin_unlock, ReadUnlockEnter, ReadUnlockDec, ReadUnlockPreempt
  <2>3. IsFiniteSet(Counted')
    <3>1. Counted' \in SUBSET CPU
      BY DEF Counted
    <3>2. QED
      BY <3>1, CPUAssumption, FS_Subset
  <2>4. pc'[c] = "r_wr" => c \in Counted'
    BY DEF Counted
  <2>5. Cardinality(Counted') = 1 => \E x : Counted' = {x}
    BY ZenonT(30), <2>3, FS_Singleton
  <2>6. Cardinality(Counted') = 0 => Counted' = {}
    BY <2>3, FS_EmptySet
  <2>7. QED
    BY <2>1, <2>2, <2>4, <2>5, <2>6 DEF ReadersCounted
<1>3. QED
  BY <1>1, <1>2

\* While some CPU is counted and none is still waiting for wr_lock, a reader
\* is inside.
LEMMA CountedReader ==
  ASSUME RdExclusion, NEW c \in CPU, HoldsRd(c), pc[c] # "r_wr",
         NEW d \in Counted
  PROVE  IsReader(d)
BY DEF RdExclusion, HoldsRd, Counted, IsReader

\* wr_lock is taken exactly on behalf of one writer or of the readers.
LEMMA WrWordStep ==
  ASSUME IInv, [Next]_vars, ReadersCounted'
  PROVE  WrWord'
<1> USE DEF IInv, Goto
<1> DEFINE same(c) == /\ pc' = [pc EXCEPT ![c] = pc'[c]]
                      /\ lock'["wr"] = lock["wr"]
                      /\ c \in WrUsers <=> c \in WrUsers'
                      /\ pc[c] # "writing" /\ pc'[c] # "writing"
<1>1. ASSUME NEW c \in CPU, same(c) PROVE WrWord'
  <2>1. WrUsers' = WrUsers
    BY <1>1 DEF WrUsers, IsReader, IsWriter, TypeOK
  <2>2. \A d \in CPU : IsWriter(d)' <=> IsWriter(d)
    BY <1>1 DEF IsWriter, TypeOK
  <2>3. QED
    BY <1>1, <2>1, <2>2 DEF WrWord
<1>2. ASSUME NEW c \in CPU, Begin(c) PROVE WrWord'
  <2>1. same(c)
    BY <1>2 DEF Begin, ReadLockEnter, WriteLockEnter, spin_lock_enter, TypeOK, WrUsers,
       IsReader, IsWriter
  <2>2. QED
    BY <1>1, <2>1
<1>3. ASSUME NEW c \in CPU, Work(c) PROVE WrWord'
  <2>1. CASE ReadLockRd(c) \/ ReadUnlockRd(c)
    <3>1. same(c)
      BY <2>1 DEF ReadLockRd, ReadUnlockRd, spin_lock_xchg, TypeOK, WrUsers, IsReader, IsWriter
    <3>2. QED
      BY <1>1, <3>1
  <2>2. CASE ReadLockLeave(c) \/ ReadUnlockLeave(c)
    <3>1. same(c)
      BY <2>2 DEF ReadLockLeave, ReadUnlockLeave, spin_unlock, TypeOK, WrUsers, IsReader, IsWriter
    <3>2. QED
      BY <1>1, <3>1
  <2>3. CASE ReadLockPreempt(c) \/ ReadUnlockPreempt(c) \/ ReadUnlockEnter(c)
    <3>1. same(c)
      BY <2>3 DEF ReadLockPreempt, ReadUnlockPreempt, ReadUnlockEnter, spin_lock_enter,
         TypeOK, WrUsers, IsReader, IsWriter
    <3>2. QED
      BY <1>1, <3>1
  <2>4. CASE ReadLockWr(c) \/ WriteLockWr(c)
    <3>1. WrUsers = {} /\ lock'["wr"] = 1
      BY <2>4 DEF ReadLockWr, WriteLockWr, spin_lock_xchg, WrWord, TypeOK
    <3>2. WrUsers' = {c}
      BY <2>4, <3>1 DEF ReadLockWr, WriteLockWr, spin_lock_xchg, WrUsers, IsReader, IsWriter, TypeOK
    <3>3. QED
      BY <3>1, <3>2 DEF WrWord, WrUsers
  <2>5. CASE ReadLockInc(c)
    <3>1. CASE readers' = 1
      <4>1. same(c)
        BY <2>5, <3>1 DEF ReadLockInc, TypeOK, WrUsers, IsReader, IsWriter
      <4>2. QED
        BY <1>1, <4>1
    <3>2. CASE readers' # 1
      <4>1. Counted # {}
        <5>1. Cardinality({}) = 0
          BY FS_EmptySet
        <5>2. QED
          BY <2>5, <3>2, <5>1 DEF ReadLockInc, ReadersCounted
      <4>2. PICK d \in CPU : d \in WrUsers /\ IsReader(d)
        BY <2>5, <4>1, CountedReader DEF ReadLockInc, HoldsRd, Counted, WrUsers
      <4>3. lock'["wr"] = 1 /\ \A e \in CPU : ~IsWriter(e)
        BY <2>5, <4>2 DEF ReadLockInc, WrWord, IsWriter, IsReader
      <4>4. \A e \in CPU : ~IsWriter(e)'
        BY <2>5, <3>2, <4>3 DEF ReadLockInc, IsWriter, TypeOK
      <4>5. c \in WrUsers'
        BY <2>5, <3>2 DEF ReadLockInc, WrUsers, IsReader, TypeOK
      <4>6. QED
        BY <4>3, <4>4, <4>5 DEF WrWord
    <3>3. QED
      BY <3>1, <3>2
  <2>6. CASE ReadUnlockDec(c)
    <3>1. CASE readers' = 0
      <4>1. same(c)
        BY <2>6, <3>1 DEF ReadUnlockDec, TypeOK, WrUsers, IsReader, IsWriter
      <4>2. QED
        BY <1>1, <4>1
    <3>2. CASE readers' # 0
      <4>1. Counted' # {}
        <5>1. Cardinality({}) = 0
          BY FS_EmptySet
        <5>2. QED
          BY <3>2, <5>1 DEF ReadersCounted
      <4>2. PICK d \in CPU : d \in Counted'
        BY <4>1 DEF Counted
      <4>3. d # c /\ d \in Counted /\ pc'[d] = pc[d]
        BY <2>6, <3>2, <4>2 DEF ReadUnlockDec, Counted, IsReader, TypeOK
      <4>4. IsReader(d)
        BY <2>6, <4>3, CountedReader DEF ReadUnlockDec, HoldsRd
      <4>5. lock["wr"] = 1 /\ \A e \in CPU : ~IsWriter(e)
        BY <4>4 DEF WrWord, IsWriter, IsReader, WrUsers
      <4>6. d \in WrUsers'
        BY <4>3, <4>4 DEF WrUsers, IsReader
      <4>7. lock'["wr"] = 1 /\ \A e \in CPU : ~IsWriter(e)'
        BY <2>6, <3>2, <4>5 DEF ReadUnlockDec, IsWriter, TypeOK
      <4>8. QED
        BY <4>6, <4>7 DEF WrWord
    <3>3. QED
      BY <3>1, <3>2
  <2>7. CASE ReadUnlockWr(c)
    <3>1. Counted = {} /\ HoldsRd(c) /\ c \in WrUsers
      BY <2>7 DEF ReadUnlockWr, spin_unlock, FirstAndLast, HoldsRd, WrUsers
    <3>2. WrUsers = {c}
      BY <3>1, <2>7 DEF ReadUnlockWr, spin_unlock, WrWord, WrUsers, IsWriter, Counted, RdExclusion, HoldsRd
    <3>3. WrUsers' = {} /\ lock'["wr"] = 0
      BY <2>7, <3>2 DEF ReadUnlockWr, spin_unlock, WrUsers, IsWriter, IsReader, TypeOK
    <3>4. QED
      BY <3>3 DEF WrWord
  <2>8. CASE WriteUnlock(c)
    <3>1. IsWriter(c) /\ c \in WrUsers
      BY <2>8 DEF WriteUnlock, spin_unlock, IsWriter, WrUsers
    <3>2. WrUsers = {c}
      BY <3>1 DEF WrWord, WrUsers
    <3>3. WrUsers' = {} /\ lock'["wr"] = 0
      BY <2>8, <3>2 DEF WriteUnlock, spin_unlock, WrUsers, IsWriter, IsReader, TypeOK
    <3>4. QED
      BY <3>3 DEF WrWord
  <2>9. QED
    BY <1>3, <2>1, <2>2, <2>3, <2>4, <2>5, <2>6, <2>7, <2>8 DEF Work
<1>4. CASE UNCHANGED vars
  BY <1>4 DEF vars, WrWord, WrUsers, IsWriter, IsReader
<1>5. QED
  BY <1>2, <1>3, <1>4 DEF Next

-----------------------------------------------------------------------------

\* The meaning of the lock's three words holds in every reachable state.
THEOREM Invariance == Spec => []IInv
<1>1. Init => IInv
  <2> SUFFICES ASSUME Init PROVE IInv
    OBVIOUS
  <2>1. TypeOK
    BY ModAssumption DEF Init, TypeOK, PCs
  <2>2. Counted = {} /\ WrUsers = {}
    BY DEF Init, Counted, WrUsers, IsReader, IsWriter
  <2>3. readers = Cardinality(Counted)
    BY <2>2, FS_EmptySet DEF Init
  <2>4. QED
    BY <2>1, <2>2, <2>3
       DEF Init, IInv, RdExclusion, HoldsRd, ReadersCounted, WrWord, FirstAndLast, IsWriter
<1>2. IInv /\ [Next]_vars => IInv'
  <2> SUFFICES ASSUME IInv, [Next]_vars PROVE IInv'
    OBVIOUS
  <2>1. TypeOK'
    BY TypeStep DEF IInv
  <2>2. RdExclusion'
    BY RdExclusionStep DEF IInv
  <2>3. ReadersCounted'
    BY ReadersCountedStep DEF IInv
  <2>4. WrWord'
    BY <2>3, WrWordStep
  <2>5. FirstAndLast'
    BY <2>2, <2>3, FirstAndLastStep
  <2>6. QED
    BY <2>1, <2>2, <2>3, <2>4, <2>5 DEF IInv
<1>3. QED
  BY <1>1, <1>2, PTL DEF Spec

\* A page-table writer excludes every other writer and every reader, for any
\* number of CPUs (write_spin_lock, read_spin_lock on mmu_info.pgtab_lock).
THEOREM Exclusion == Spec => []RWExclusion
<1>1. IInv => RWExclusion
  BY DEF IInv, WrWord, RWExclusion, WrUsers
<1>2. QED
  BY <1>1, Invariance, PTL

-----------------------------------------------------------------------------
(***************************************************************************)
(* The preemption counts.  A CPU inside the lock's code owes Owed units;   *)
(* the one that the first reader takes with wr_lock is given back by the   *)
(* last reader, perhaps on another CPU, so it belongs to the group of      *)
(* readers (Group) and only the sum over all CPUs balances.                *)
(***************************************************************************)
Owed(at) ==
  IF at = "out" THEN 0
  ELSE IF at \in {"r_wr", "r_leave", "u_rd", "u_dec", "u_wr", "u_pre"} THEN 2 ELSE 1

Owes == [c \in CPU |-> Owed(pc[c])]

Group == IF lock["wr"] = 1 /\ (\A c \in CPU : ~IsWriter(c)) THEN 1 ELSE 0

\* The counts add up to what is owed, up to the width of the counter.
Balanced ==
  \E q \in Int : Total(preempt_count, PreemptMod - 1) = Total(Owes, 2) + Group + q * PreemptMod

\* One CPU's value changes: the sum changes by as much.
LEMMA TotalChange ==
  ASSUME NEW n \in Nat, NEW f \in [CPU -> 0..n], NEW c \in CPU, NEW v \in 0..n
  PROVE  /\ Total(f, n) \in Nat
         /\ Total([f EXCEPT ![c] = v], n) = Total(f, n) + v - f[c]
<1> DEFINE Units(g) == {p \in CPU \X (1..n) : p[2] <= g[p[1]]}
           Rest == {p \in CPU \X (1..n) : p[1] # c /\ p[2] <= f[p[1]]}
<1>1. PICK g : g = [f EXCEPT ![c] = v]
  BY ZenonT(30)
<1>2. IsFiniteSet(CPU \X (1..n))
  <2>1. IsFiniteSet(1..n)
    <3>1. 1 \in Int /\ n \in Int
      OBVIOUS
    <3> QED
      BY <3>1, FS_Interval
  <2> QED
    BY ZenonT(30), <2>1, CPUAssumption, FS_Product
<1>3. IsFiniteSet(Rest) /\ Cardinality(Rest) \in Nat
  <2>1. Rest \in SUBSET (CPU \X (1..n))
    OBVIOUS
  <2> HIDE DEF Rest
  <2> QED
    BY <1>2, <2>1, FS_Subset, FS_CardinalityType
<1>4. ASSUME NEW k \in 0..n, NEW h, h[c] = k, \A d \in CPU : d # c => h[d] = f[d]
      PROVE  Cardinality(Units(h)) = Cardinality(Rest) + k
  <2> DEFINE Own == {c} \X (1..k)
  <2>1. IsFiniteSet(Own) /\ Cardinality(Own) = k
    <3>1. IsFiniteSet({c}) /\ Cardinality({c}) = 1
      BY ZenonT(30), FS_Singleton
    <3>2. IsFiniteSet(1..k) /\ Cardinality(1..k) = k
      <4>1. 1 \in Int /\ k \in Int /\ k >= 0
        BY <1>4
      <4>2. IsFiniteSet(1..k) /\ Cardinality(1..k) = IF 1 > k THEN 0 ELSE k - 1 + 1
        BY ZenonT(30), <4>1, FS_Interval
      <4> QED
        BY <4>1, <4>2
    <3>3. IsFiniteSet(Own) /\ Cardinality(Own) = 1 * k
      BY <3>1, <3>2, FS_Product
    <3> QED
      BY <3>3
  <2>2. Units(h) = Rest \cup Own
    <3>1. ASSUME NEW d \in CPU, NEW i \in 1..n
          PROVE  <<d, i>> \in Units(h) <=> <<d, i>> \in Rest \/ <<d, i>> \in Own
      BY <1>4
    <3>2. Units(h) \subseteq CPU \X (1..n) /\ Rest \subseteq CPU \X (1..n)
      OBVIOUS
    <3>3. Own \subseteq CPU \X (1..n)
      OBVIOUS
    <3> HIDE DEF Units, Rest, Own
    <3> QED
      BY <3>1, <3>2, <3>3
  <2>3. Rest \cap Own = {}
    OBVIOUS
  <2>4. Cardinality({}) = 0
    BY FS_EmptySet
  <2> HIDE DEF Units, Rest, Own
  <2>5. Cardinality(Rest \cup Own) = Cardinality(Rest) + Cardinality(Own) - Cardinality(Rest \cap Own)
    BY <1>3, <2>1, FS_Union
  <2>6. Cardinality(Units(h)) = Cardinality(Rest) + k - 0
    BY <2>1, <2>2, <2>3, <2>4, <2>5
  <2> QED
    BY <1>3, <1>4, <2>6
<1>5. g[c] = v /\ \A d \in CPU : d # c => g[d] = f[d]
  BY <1>1
<1>6. f[c] \in 0..n
  OBVIOUS
<1>7. Total(f, n) = Cardinality(Units(f)) /\ Total(g, n) = Cardinality(Units(g))
  BY DEF Total
<1> HIDE DEF Units, Rest
<1>8. Cardinality(Units(f)) = Cardinality(Rest) + f[c]
  BY <1>4, <1>6
<1>9. Cardinality(Units(g)) = Cardinality(Rest) + v
  BY <1>4, <1>5
<1> QED
  BY <1>1, <1>3, <1>6, <1>7, <1>8, <1>9

\* If nobody has a unit, the sum is 0.
LEMMA TotalZero ==
  ASSUME NEW n \in Nat, NEW f, \A c \in CPU : f[c] = 0 PROVE Total(f, n) = 0
<1>1. {p \in CPU \X (1..n) : p[2] <= f[p[1]]} = {}
  OBVIOUS
<1> QED
  BY <1>1, FS_EmptySet DEF Total

\* preempt_inc and preempt_dec, up to the width of the counter.
LEMMA TotalPreempt ==
  ASSUME TypeOK, NEW c \in CPU, NEW T \in Int, T = Total(preempt_count, PreemptMod - 1)
  PROVE  /\ preempt_inc(c) =>
              \E e \in Int : Total(preempt_count, PreemptMod - 1)' = T + 1 + e * PreemptMod
         /\ preempt_dec(c) =>
              \E e \in Int : Total(preempt_count, PreemptMod - 1)' = T - 1 + e * PreemptMod
<1>1. PICK n \in Nat : n = PreemptMod - 1 /\ PreemptMod \in Nat
  BY ModAssumption
<1>2. preempt_count \in [CPU -> 0..n] /\ preempt_count[c] \in 0..n
  BY <1>1 DEF TypeOK
<1>3. ASSUME NEW v \in 0..n, preempt_count' = [preempt_count EXCEPT ![c] = v]
      PROVE  Total(preempt_count, PreemptMod - 1)' = T + v - preempt_count[c]
  <2>1. Total([preempt_count EXCEPT ![c] = v], n) = Total(preempt_count, n) + v - preempt_count[c]
    BY ZenonT(30), <1>2, TotalChange
  <2>2. Total(preempt_count, PreemptMod - 1)' = Total(preempt_count', n)
    BY <1>1 DEF Total
  <2> QED
    BY <1>1, <1>3, <2>1, <2>2
<1>4. ASSUME preempt_inc(c)
      PROVE  \E e \in Int : Total(preempt_count, PreemptMod - 1)' = T + 1 + e * PreemptMod
  <2>1. CASE preempt_count[c] = PreemptMod - 1
    <3>1. preempt_count' = [preempt_count EXCEPT ![c] = 0] /\ 0 \in 0..n
      BY <1>1, <1>4, <2>1 DEF preempt_inc
    <3>2. Total(preempt_count, PreemptMod - 1)' = T + 0 - preempt_count[c]
      BY ZenonT(30), <1>3, <3>1
    <3>3. Total(preempt_count, PreemptMod - 1)' = T + 1 + (0 - 1) * PreemptMod
      BY <1>1, <2>1, <3>2
    <3> QED
      BY <3>3
  <2>2. CASE preempt_count[c] # PreemptMod - 1
    <3>1. PICK v \in 0..n : v = preempt_count[c] + 1
      BY <1>1, <1>2, <2>2
    <3>2. preempt_count' = [preempt_count EXCEPT ![c] = v]
      BY <1>4, <2>2, <3>1 DEF preempt_inc
    <3>3. Total(preempt_count, PreemptMod - 1)' = T + v - preempt_count[c]
      BY ZenonT(30), <1>3, <3>2
    <3>4. Total(preempt_count, PreemptMod - 1)' = T + 1 + 0 * PreemptMod
      BY <1>1, <1>2, <3>1, <3>3
    <3> QED
      BY <3>4
  <2> QED
    BY <2>1, <2>2
<1>5. ASSUME preempt_dec(c)
      PROVE  \E e \in Int : Total(preempt_count, PreemptMod - 1)' = T - 1 + e * PreemptMod
  <2>1. CASE preempt_count[c] = 0
    <3>1. preempt_count' = [preempt_count EXCEPT ![c] = n] /\ n \in 0..n
      BY <1>1, <1>5, <2>1 DEF preempt_dec
    <3>2. Total(preempt_count, PreemptMod - 1)' = T + n - preempt_count[c]
      BY ZenonT(30), <1>3, <3>1
    <3>3. Total(preempt_count, PreemptMod - 1)' = T - 1 + 1 * PreemptMod
      BY <1>1, <2>1, <3>2
    <3> QED
      BY <3>3
  <2>2. CASE preempt_count[c] # 0
    <3>1. PICK v \in 0..n : v = preempt_count[c] - 1
      BY <1>1, <1>2, <2>2
    <3>2. preempt_count' = [preempt_count EXCEPT ![c] = v]
      BY <1>5, <2>2, <3>1 DEF preempt_dec
    <3>3. Total(preempt_count, PreemptMod - 1)' = T + v - preempt_count[c]
      BY ZenonT(30), <1>3, <3>2
    <3>4. Total(preempt_count, PreemptMod - 1)' = T - 1 + 0 * PreemptMod
      BY <1>1, <1>2, <3>1, <3>3
    <3> QED
      BY <3>4
  <2> QED
    BY <2>1, <2>2
<1> QED
  BY <1>4, <1>5

\* A CPU goes on: the units it owes change with its place in the code.
LEMMA TotalOwes ==
  ASSUME TypeOK, NEW c \in CPU, NEW to \in PCs, Goto(c, to)
  PROVE  Total(Owes, 2) \in Nat /\ Total(Owes, 2)' = Total(Owes, 2) + Owed(to) - Owed(pc[c])
<1>1. Owes \in [CPU -> 0..2] /\ Owed(to) \in 0..2 /\ Owes[c] = Owed(pc[c])
  BY DEF Owes, Owed
<1>2. Owes' = [Owes EXCEPT ![c] = Owed(to)]
  BY ZenonT(30) DEF Owes, Goto, TypeOK
<1>3. PICK f, v : f = Owes /\ v = Owed(to)
  OBVIOUS
<1>4. Total(f, 2) \in Nat /\ Total([f EXCEPT ![c] = v], 2) = Total(f, 2) + v - f[c]
  BY ZenonT(30), <1>1, <1>3, TotalChange
<1>5. Total(Owes, 2)' = Total([f EXCEPT ![c] = v], 2)
  BY <1>2, <1>3 DEF Total
<1> QED
  BY <1>1, <1>3, <1>4, <1>5

\* A step that changes the counts by as much as what is owed.
LEMMA BalancedMove ==
  ASSUME TypeOK, Balanced, NEW c \in CPU, NEW to \in PCs, Goto(c, to), NEW d \in {-1, 0, 1},
         d = 0 => preempt_count' = preempt_count,
         d = 1 => preempt_inc(c),
         d = -1 => preempt_dec(c),
         Owed(to) + Group' = Owed(pc[c]) + Group + d
  PROVE  Balanced'
<1>1. PICK q \in Int :
        Total(preempt_count, PreemptMod - 1) = Total(Owes, 2) + Group + q * PreemptMod
  BY DEF Balanced
<1>2. PICK W \in Nat : W = Total(Owes, 2) /\ Total(Owes, 2)' = W + Owed(to) - Owed(pc[c])
  BY TotalOwes
<1>3. Group \in Int /\ Group' \in Int /\ Owed(to) \in Int /\ Owed(pc[c]) \in Int
  BY DEF Group, Owed
<1>4. PreemptMod \in Int /\ q * PreemptMod \in Int
  BY ModAssumption
<1>5. PICK T \in Int : T = Total(preempt_count, PreemptMod - 1)
  BY <1>1, <1>2, <1>3, <1>4
<1>6. PICK e \in Int : Total(preempt_count, PreemptMod - 1)' = T + d + e * PreemptMod
  <2>1. CASE d = 0
    <3>1. Total(preempt_count, PreemptMod - 1)' = T + d + 0 * PreemptMod
      BY <1>4, <1>5, <2>1 DEF Total
    <3> QED
      BY <3>1
  <2>2. CASE d = 1
    BY <1>5, <2>2, TotalPreempt
  <2>3. CASE d = -1
    <3>1. PICK e \in Int : Total(preempt_count, PreemptMod - 1)' = T - 1 + e * PreemptMod
      BY <1>5, <2>3, TotalPreempt
    <3> QED
      BY ZenonT(30), <1>4, <2>3, <3>1
  <2> QED
    BY <2>1, <2>2, <2>3
<1>7. PICK x \in Int : x = q + e
  OBVIOUS
<1>8. x * PreemptMod = q * PreemptMod + e * PreemptMod /\ e * PreemptMod \in Int
  BY <1>4, <1>7
<1>9. Total(preempt_count, PreemptMod - 1)' = Total(Owes, 2)' + Group' + x * PreemptMod
  <2>1. PICK y \in Int, z \in Int : y = q * PreemptMod /\ z = e * PreemptMod
    BY <1>4, <1>8
  <2>2. PICK g \in Int, h \in Int, a \in Int, b \in Int :
          g = Group /\ h = Group' /\ a = Owed(pc[c]) /\ b = Owed(to)
    BY <1>3
  <2>3. T = W + g + y /\ b + h = a + g + d
    BY <1>1, <1>2, <1>5, <2>1, <2>2
  <2>4. T + d + z = (W + b - a) + h + (y + z)
    BY <2>3
  <2>5. Total(preempt_count, PreemptMod - 1)' = T + d + z
    BY <1>6, <2>1
  <2>6. Total(Owes, 2)' = W + b - a /\ x * PreemptMod = y + z
    BY <1>2, <1>8, <2>1, <2>2
  <2> QED
    BY <2>2, <2>4, <2>5, <2>6
<1> QED
  BY <1>9 DEF Balanced

\* Every step of a CPU keeps the balance.
LEMMA BalancedStep == ASSUME IInv, Balanced, [Next]_vars PROVE Balanced'
<1> USE DEF PCs
<1>1. TypeOK /\ WrWord
  BY DEF IInv
<1>2. ASSUME NEW c \in CPU, NEW to \in PCs, Goto(c, to), lock'["wr"] = lock["wr"],
             pc[c] # "writing", to # "writing"
      PROVE  Group' = Group
  <2>1. \A d \in CPU : IsWriter(d)' <=> IsWriter(d)
    BY <1>1, <1>2 DEF IsWriter, Goto, TypeOK
  <2> QED
    BY <1>2, <2>1 DEF Group
<1>3. ASSUME NEW c \in CPU, Begin(c) PROVE Balanced'
  <2>1. PICK to \in {"r_rd", "w_wr"} :
          pc[c] = "out" /\ Goto(c, to) /\ preempt_inc(c) /\ lock' = lock
    BY <1>3 DEF Begin, ReadLockEnter, WriteLockEnter, spin_lock_enter
  <2>2. Group' = Group /\ Group \in Int
    BY <1>2, <2>1 DEF Group
  <2>3. Owed(to) = 1 /\ Owed(pc[c]) = 0
    BY <2>1 DEF Owed
  <2> QED
    BY <1>1, <2>1, <2>2, <2>3, BalancedMove
<1>4. ASSUME NEW c \in CPU, Work(c) PROVE Balanced'
  <2>1. PICK w \in PCs : w = pc[c]
    BY <1>1 DEF TypeOK
  <2>2. ASSUME NEW to \in PCs, Goto(c, to), lock'["wr"] = lock["wr"], w # "writing",
               to # "writing", NEW d \in {-1, 0, 1}, Owed(to) = Owed(w) + d,
               d = 0 => preempt_count' = preempt_count,
               d = 1 => preempt_inc(c), d = -1 => preempt_dec(c)
        PROVE  Balanced'
    <3>1. Group' = Group /\ Group \in Int
      BY <1>2, <2>1, <2>2 DEF Group
    <3>2. Owed(w) \in Int
      BY DEF Owed
    <3>3. Owed(to) + Group' = Owed(pc[c]) + Group + d
      BY <2>1, <2>2, <3>1, <3>2
    <3> QED
      BY <1>1, <2>2, <3>3, BalancedMove
  <2>3. CASE ReadLockRd(c)
    <3>1. w = "r_rd" /\ Goto(c, "r_inc") /\ lock'["wr"] = lock["wr"] /\ preempt_count' = preempt_count
      BY <1>1, <2>1, <2>3 DEF ReadLockRd, spin_lock_xchg, TypeOK
    <3>2. Owed("r_inc") = Owed(w) + 0
      BY <3>1 DEF Owed
    <3> QED
      BY <2>2, <3>1, <3>2
  <2>4. CASE ReadLockInc(c)
    <3>1. w = "r_inc" /\ lock' = lock
      BY <2>1, <2>4 DEF ReadLockInc
    <3>2. Owed("r_wr") = Owed(w) + 1 /\ Owed("r_pre") = Owed(w) + 0
      BY <3>1 DEF Owed
    <3>3. CASE readers' = 1
      BY <2>2, <2>4, <3>1, <3>2, <3>3 DEF ReadLockInc
    <3>4. CASE readers' # 1
      BY <2>2, <2>4, <3>1, <3>2, <3>4 DEF ReadLockInc
    <3> QED
      BY <3>3, <3>4
  <2>5. CASE ReadLockPreempt(c)
    <3>1. w = "r_pre" /\ Goto(c, "r_leave") /\ lock' = lock /\ preempt_inc(c)
      BY <2>1, <2>5 DEF ReadLockPreempt
    <3>2. Owed("r_leave") = Owed(w) + 1
      BY <3>1 DEF Owed
    <3> QED
      BY <2>2, <3>1, <3>2
  <2>6. CASE ReadLockLeave(c)
    <3>1. w = "r_leave" /\ Goto(c, "reading") /\ lock'["wr"] = lock["wr"] /\ preempt_dec(c)
      BY <1>1, <2>1, <2>6 DEF ReadLockLeave, spin_unlock, TypeOK
    <3>2. Owed("reading") = Owed(w) + -1
      BY <3>1 DEF Owed
    <3> QED
      BY <2>2, <3>1, <3>2
  <2>7. CASE ReadUnlockEnter(c)
    <3>1. w = "reading" /\ Goto(c, "u_rd") /\ lock' = lock /\ preempt_inc(c)
      BY <2>1, <2>7 DEF ReadUnlockEnter, spin_lock_enter
    <3>2. Owed("u_rd") = Owed(w) + 1
      BY <3>1 DEF Owed
    <3> QED
      BY <2>2, <3>1, <3>2
  <2>8. CASE ReadUnlockRd(c)
    <3>1. w = "u_rd" /\ Goto(c, "u_dec") /\ lock'["wr"] = lock["wr"] /\ preempt_count' = preempt_count
      BY <1>1, <2>1, <2>8 DEF ReadUnlockRd, spin_lock_xchg, TypeOK
    <3>2. Owed("u_dec") = Owed(w) + 0
      BY <3>1 DEF Owed
    <3> QED
      BY <2>2, <3>1, <3>2
  <2>9. CASE ReadUnlockDec(c)
    <3>1. PICK to \in {"u_wr", "u_pre"} :
            w = "u_dec" /\ Goto(c, to) /\ lock' = lock /\ preempt_count' = preempt_count
      BY <2>1, <2>9 DEF ReadUnlockDec
    <3>2. Owed(to) = Owed(w) + 0
      BY <3>1 DEF Owed
    <3> QED
      BY <2>2, <3>1, <3>2
  <2>10. CASE ReadUnlockPreempt(c)
    <3>1. w = "u_pre" /\ Goto(c, "u_leave") /\ lock' = lock /\ preempt_dec(c)
      BY <2>1, <2>10 DEF ReadUnlockPreempt
    <3>2. Owed("u_leave") = Owed(w) + -1
      BY <3>1 DEF Owed
    <3> QED
      BY <2>2, <3>1, <3>2
  <2>11. CASE ReadUnlockLeave(c)
    <3>1. w = "u_leave" /\ Goto(c, "out") /\ lock'["wr"] = lock["wr"] /\ preempt_dec(c)
      BY <1>1, <2>1, <2>11 DEF ReadUnlockLeave, spin_unlock, TypeOK
    <3>2. Owed("out") = Owed(w) + -1
      BY <3>1 DEF Owed
    <3> QED
      BY <2>2, <3>1, <3>2
  <2>12. CASE ReadLockWr(c)
    <3>1. /\ pc[c] = "r_wr" /\ Goto(c, "r_pre") /\ preempt_count' = preempt_count
          /\ lock["wr"] = 0 /\ lock'["wr"] = 1
      BY <1>1, <2>12 DEF ReadLockWr, spin_lock_xchg, TypeOK
    <3>2. \A d \in CPU : ~IsWriter(d)
      BY <1>1, <3>1 DEF WrWord, WrUsers
    <3>3. \A d \in CPU : ~IsWriter(d)'
      BY <1>1, <3>1, <3>2 DEF IsWriter, Goto, TypeOK
    <3>4. Group = 0 /\ Group' = 1 /\ Owed("r_pre") = 1 /\ Owed(pc[c]) = 2
      BY <3>1, <3>3 DEF Group, Owed
    <3> QED
      BY <1>1, <3>1, <3>4, BalancedMove
  <2>13. CASE ReadUnlockWr(c)
    <3>1. /\ pc[c] = "u_wr" /\ Goto(c, "u_pre") /\ preempt_dec(c) /\ lock'["wr"] = 0
          /\ c \in WrUsers
      BY <1>1, <2>13 DEF ReadUnlockWr, spin_unlock, TypeOK, WrUsers
    <3>2. lock["wr"] = 1 /\ \A d \in CPU : ~IsWriter(d)
      BY <1>1, <3>1 DEF WrWord, IsWriter
    <3>3. Group = 1 /\ Group' = 0 /\ Owed("u_pre") = 2 /\ Owed(pc[c]) = 2
      BY <3>1, <3>2 DEF Group, Owed
    <3> QED
      BY <1>1, <3>1, <3>3, BalancedMove
  <2>14. CASE WriteLockWr(c)
    <3>1. /\ pc[c] = "w_wr" /\ Goto(c, "writing") /\ preempt_count' = preempt_count
          /\ lock["wr"] = 0 /\ IsWriter(c)'
      BY <1>1, <2>14 DEF WriteLockWr, spin_lock_xchg, TypeOK, Goto, IsWriter
    <3>2. Group = 0 /\ Group' = 0 /\ Owed("writing") = 1 /\ Owed(pc[c]) = 1
      BY <3>1 DEF Group, Owed
    <3> QED
      BY <1>1, <3>1, <3>2, BalancedMove
  <2>15. CASE WriteUnlock(c)
    <3>1. /\ pc[c] = "writing" /\ Goto(c, "out") /\ preempt_dec(c)
          /\ lock'["wr"] = 0 /\ IsWriter(c)
      BY <1>1, <2>15 DEF WriteUnlock, spin_unlock, TypeOK, IsWriter
    <3>2. Group = 0 /\ Group' = 0 /\ Owed("out") = 0 /\ Owed(pc[c]) = 1
      BY <3>1 DEF Group, Owed
    <3> QED
      BY <1>1, <3>1, <3>2, BalancedMove
  <2> QED
    BY <1>4, <2>3, <2>4, <2>5, <2>6, <2>7, <2>8, <2>9, <2>10, <2>11, <2>12, <2>13, <2>14, <2>15
       DEF Work
<1>5. CASE UNCHANGED vars
  BY ZenonT(30), <1>5 DEF vars, Balanced, Total, Owes, Group, IsWriter
<1> QED
  BY <1>3, <1>4, <1>5 DEF Next

\* When nobody is inside or on the way, the preemption counts of all CPUs together
\* are back at 0, modulo their width, for any number of CPUs: the unit taken with
\* wr_lock by the first reader is given back by the last (sync.h, spin.asm).
THEOREM PreemptBalanced == Spec => []PreemptBalancedOverall
<1>1. Init => Balanced
  <2> SUFFICES ASSUME Init PROVE Balanced
    OBVIOUS
  <2>1. PreemptMod - 1 \in Nat /\ PreemptMod \in Nat
    BY ModAssumption
  <2>2. Total(preempt_count, PreemptMod - 1) = 0
    BY <2>1, TotalZero DEF Init
  <2>3. Total(Owes, 2) = 0
    BY TotalZero DEF Init, Owes, Owed
  <2>4. Group = 0
    BY DEF Init, Group
  <2>5. Total(preempt_count, PreemptMod - 1) = Total(Owes, 2) + Group + 0 * PreemptMod
    BY <2>1, <2>2, <2>3, <2>4
  <2> QED
    BY <2>5 DEF Balanced
<1>2. IInv /\ Balanced /\ [Next]_vars => Balanced'
  BY BalancedStep
<1>3. IInv /\ Balanced => PreemptBalancedOverall
  <2> SUFFICES ASSUME IInv, Balanced, \A c \in CPU : pc[c] = "out"
               PROVE  Total(preempt_count, PreemptMod - 1) % PreemptMod = 0
    BY DEF PreemptBalancedOverall
  <2>1. Total(Owes, 2) = 0
    BY TotalZero DEF Owes, Owed
  <2>2. Group = 0
    BY DEF IInv, Group, WrWord, WrUsers, IsReader, IsWriter
  <2>3. PICK q \in Int : Total(preempt_count, PreemptMod - 1) = q * PreemptMod
    <3>1. PICK q \in Int :
            Total(preempt_count, PreemptMod - 1) = Total(Owes, 2) + Group + q * PreemptMod
      BY DEF Balanced
    <3>2. q * PreemptMod \in Int
      BY ModAssumption
    <3> QED
      BY <2>1, <2>2, <3>1, <3>2
  <2>4. (q * PreemptMod) % PreemptMod = 0
    BY ModAssumption
  <2> QED
    BY <2>3, <2>4
<1>4. QED
  BY <1>1, <1>2, <1>3, Invariance, PTL DEF Spec
=============================================================================
