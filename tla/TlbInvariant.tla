---------------------------- MODULE TlbInvariant ----------------------------
(***************************************************************************)
(* The inductive invariant of the address spaces, for every number of CPUs *)
(* and of tasks: context switches, execve and page faults preserve it.     *)
(*                                                                         *)
(* The invariant counts: users is the number of tasks of an address space, *)
(* a reference count the number of page tables that hold the frame and ask *)
(* for a copy.  A task is current on one CPU; outside of execve and of a   *)
(* context switch that CPU has its address space loaded.  So the only user *)
(* of an address space is at most on one CPU, every way to another CPU     *)
(* loads cr3, and an entry can be stale only between the change of the     *)
(* page table and the flush that follows it on the same CPU, or on a CPU   *)
(* that is about to load cr3.                                              *)
(***************************************************************************)
EXTENDS SmpBootProofs

\* The steps of execve, which only the init task makes, and those before the page is mapped.
Execing == {"shootdown", "spin", "map", "cpuset", "cr3"}
NoPage == {"execve", "shootdown", "spin", "map"}

InUse == {t \in Task : task[t].at # "none"}

\* Which tasks exist, and with which address spaces.
TasksInv ==
  /\ \E n \in 1..NTASK : InUse = 1..n
  /\ \A t \in Task : task[t].at \in {"none", "execve"} <=> task[t].mmu = kernel_mmu
  /\ \A t \in Task : task[t].mmu # kernel_mmu => task[t].mmu \in InUse
  /\ \A t \in Task : task[t].at \in {"execve"} \cup Execing =>
       t = init /\ (task[t].at \in Execing => task[t].mmu = init) /\ InUse = {init}

\* A task in fork has made its child, which no other task has made.
ForksInv ==
  \A t \in Task : task[t].at = "clone" =>
    /\ task[t].child \in Task /\ task[task[t].child].at = "forked"
    /\ \A u \in Task \ {t} : task[u].at = "clone" => task[u].child # task[t].child

\* The users of an address space are counted.
UsersOf(m) == {t \in Task : task[t].mmu = m}
UsersInv ==
  /\ \A m \in Mmu : mm[m].users = Cardinality(UsersOf(m))
  /\ \A t \in Task : task[t].at = "panic" => mm[task[t].mmu].users > 1

\* The page tables and the frames they share.
CowOf(f) == {m \in Mmu : mm[m].pte.frame = f /\ mm[m].pte.cow}
PagesInv ==
  /\ \A m \in Mmu : mm[m].pte # NotPresent => mm[m].pte.cow = ~mm[m].pte.writable
  /\ \A m \in Mmu : m \notin InUse => mm[m].pte = NotPresent
  /\ task[init].at \in NoPage => mm[init].pte = NotPresent
  /\ \A t \in Task : task[t].at \notin {"none"} \cup NoPage => mm[task[t].mmu].pte # NotPresent
  /\ \A f \in Frame : refcount[f] = Cardinality(CowOf(f))
  /\ \A m, n \in Mmu : m # n /\ mm[m].pte.frame = mm[n].pte.frame /\ mm[m].pte # NotPresent => mm[m].pte.cow

\* A task is current on one CPU; its address space is loaded there, except within
\* execve and within a context switch.
CurInv ==
  /\ \A c, d \in CpuIndex : cur[c] = cur[d] /\ cur[c] # Idle => c = d
  /\ \A c \in CpuIndex : cur[c] # Idle => task[cur[c]].at \notin {"none", "forked"}
  /\ \A c \in CpuIndex : switch[c].at = "no" =>
       cr3[c] = mmu_of(cur[c]) \/ (cur[c] = init /\ task[init].at \in Execing /\ cr3[c] = kernel_mmu)
  /\ \A c \in CpuIndex : cr3[c] # kernel_mmu => mm[cr3[c]].users > 0

\* No TLB holds an entry that the only user of the address space could meet.
TlbInv ==
  /\ \A c \in CpuIndex : cr3[c] = kernel_mmu => tlb[c] = NotPresent
  /\ \A c \in CpuIndex : 
       switch[c].at = "no" /\ cr3[c] # kernel_mmu /\ mm[cr3[c]].users = 1 
         /\ task[cur[c]].at \notin {"fault", "clone"} => tlb[c] \in {NotPresent, mm[cr3[c]].pte}

\* The shootdown of execve is the only one.
ShootInv == task[init].at \in {"execve", "shootdown"} => tlb_remaining_cpus = 0

SpaceInv == TlbTypeOK /\ TasksInv /\ ForksInv /\ UsersInv /\ PagesInv /\ CurInv /\ TlbInv /\ ShootInv

-----------------------------------------------------------------------------
(* Numbers *)

\* An allocation finds a frame that no page table has.
LEMMA FrameFree ==
  ASSUME TlbTypeOK
  PROVE  pmm_alloc_order \in Frame /\ \A m \in Mmu : mm[m].pte.frame # pmm_alloc_order
  <1> DEFINE U == {mm[m].pte.frame : m \in Mmu}
             F == Frame \ U
  <1>1. NTASK \in Nat /\ IsFiniteSet(Mmu) /\ Cardinality(Mmu) = NTASK
    BY TaskAssumption, FS_Interval DEF Mmu, Task
  <1>2. IsFiniteSet(Frame) /\ Cardinality(Frame) = NTASK + 1
    BY <1>1, FS_Interval DEF Frame
  <1>3. IsFiniteSet(U) /\ Cardinality(U) <= NTASK
    <2> DEFINE f == [m \in Mmu |-> mm[m].pte.frame]
    <2>1. f \in Surjection(Mmu, U)
      BY DEF Surjection
    <2> QED
      BY <1>1, <2>1, FS_Surjection
  <1>4. F # {}
    <2>1. SUFFICES ASSUME Frame \subseteq U PROVE FALSE
      OBVIOUS
    <2>2. Cardinality(Frame) <= Cardinality(U)
      BY <1>3, <2>1, FS_Subset
    <2> QED
      BY <1>1, <1>2, <1>3, <2>2, FS_CardinalityType
  <1>5. F \in SUBSET Nat
    BY <1>1 DEF Frame
  <1>6. \E n \in F : \A m \in F : n <= m
    BY Zenon, <1>4, <1>5, Least
  <1>7. pmm_alloc_order \in F
    BY <1>6 DEF pmm_alloc_order, Min
  <1> QED
    BY <1>7

\* A new task gets the number behind those in use.
LEMMA NextTid ==
  ASSUME TasksInv, next_tid \in Task
  PROVE  /\ next_tid \notin InUse /\ next_tid # init /\ init \in InUse
         /\ \E n \in 1..NTASK : InUse \cup {next_tid} = 1..n
  <1>1. PICK n \in 1..NTASK : InUse = 1..n
    BY DEF TasksInv
  <1>2. NTASK \in Nat /\ n \in Nat
    BY TaskAssumption
  <1>3. next_tid = n + 1
    <2>1. Cardinality(1..n) = n
      BY <1>2, FS_Interval
    <2> QED
      BY Zenon, <1>1, <2>1 DEF next_tid, InUse
  <1>4. n + 1 \in 1..NTASK /\ 1..(n + 1) = 1..n \cup {n + 1}
    BY <1>2, <1>3 DEF Task
  <1> QED
    BY <1>1, <1>2, <1>3, <1>4 DEF init

-----------------------------------------------------------------------------
(* Context switches *)

\* What the tasks and the page tables say, without the CPUs.
TablesInv == TasksInv /\ ForksInv /\ UsersInv /\ PagesInv /\ ShootInv

TablesSame ==
  /\ task' = task /\ refcount' = refcount /\ tlb_remaining_cpus' = tlb_remaining_cpus
  /\ \A m \in Mmu : mm'[m].users = mm[m].users /\ mm'[m].pte = mm[m].pte

\* The address space of a task that has one.
LEMMA MmuIn ==
  ASSUME TlbTypeOK, NEW t \in Task, task[t].mmu # kernel_mmu PROVE task[t].mmu \in Mmu
  BY DEF TlbTypeOK

\* Context switches leave the tasks and the page tables alone.
LEMMA TablesQuiet ==
  ASSUME TlbTypeOK, TablesInv, TablesSame PROVE TablesInv'
  <1>1. InUse' = InUse /\ \A m : UsersOf(m)' = UsersOf(m)
    BY DEF TablesSame, InUse, UsersOf
  <1>2. TasksInv' /\ ForksInv' /\ ShootInv'
    BY <1>1 DEF TablesInv, TablesSame, TasksInv, ForksInv, ShootInv
  <1>3. UsersInv'
    <2>1. ASSUME NEW t \in Task, task[t].at = "panic" PROVE task[t].mmu \in Mmu
      BY <2>1, MmuIn DEF TablesInv, TasksInv
    <2> QED
      BY <1>1, <2>1 DEF TablesInv, TablesSame, UsersInv
  <1>4. PagesInv'
    <2>1. \A f : CowOf(f)' = CowOf(f)
      BY DEF CowOf, TablesSame
    <2>2. ASSUME NEW t \in Task, task[t].at \notin {"none"} \cup NoPage PROVE task[t].mmu \in Mmu
      BY <2>2, MmuIn DEF TablesInv, TasksInv, NoPage
    <2>3. init \in Mmu
      BY TaskAssumption DEF init, Mmu, Task
    <2> QED
      BY <1>1, <2>1, <2>2, <2>3 DEF TablesInv, TablesSame, PagesInv
  <1> QED
    BY <1>2, <1>3, <1>4 DEF TablesInv

\* An address space that a task has is counted at least once; two tasks count twice.
LEMMA UserCounted ==
  ASSUME TlbTypeOK, UsersInv, NEW m \in Mmu
  PROVE  /\ IsFiniteSet(UsersOf(m)) /\ mm[m].users \in Nat
         /\ \A t \in Task : task[t].mmu = m => mm[m].users > 0
         /\ mm[m].users = 1 => \A t, u \in UsersOf(m) : t = u
  <1>1. IsFiniteSet(Task)
    BY TaskAssumption, FS_Interval DEF Task
  <1>2. IsFiniteSet(UsersOf(m)) /\ mm[m].users = Cardinality(UsersOf(m))
    BY <1>1, FS_Subset DEF UsersInv, UsersOf
  <1>3. Cardinality(UsersOf(m)) \in Nat /\ (Cardinality(UsersOf(m)) = 0 <=> UsersOf(m) = {})
    BY <1>2, FS_CardinalityType, FS_EmptySet
  <1>4. \A t \in Task : task[t].mmu = m => t \in UsersOf(m)
    BY DEF UsersOf
  <1> QED
    BY <1>2, <1>3, <1>4, FS_Singleton

\* switch_to makes another task current; between tasks of one address space that
\* is all, and such an address space has two users or is that of the kernel.
LEMMA SwitchToInv ==
  ASSUME SpaceInv, NEW c \in CpuIndex, switch_to(c) PROVE SpaceInv'
  <1>1. PICK t \in (Ready \cup {Idle}) \ {cur[c]} :
          /\ cur' = [cur EXCEPT ![c] = t]
          /\ switch' = [switch EXCEPT ![c] =
                         IF mmu_of(t) = mmu_of(cur[c]) THEN @ ELSE [at |-> "cpusets", prev |-> cur[c]]]
    BY Zenon DEF switch_to
  <1>2. TlbTypeOK /\ TablesInv /\ CurInv /\ TlbInv
    BY DEF SpaceInv, TablesInv
  <1>3. /\ cr3' = cr3 /\ tlb' = tlb /\ mm' = mm /\ task' = task /\ TablesSame /\ switch[c].at = "no"
        /\ refcount' = refcount /\ tlb_remaining_cpus' = tlb_remaining_cpus
    BY DEF switch_to, TablesSame
  <1>4. TablesInv'
    BY <1>2, <1>3, TablesQuiet
  <1>5. t \in Task \cup {Idle} /\ cur[c] \in Task \cup {Idle}
    BY <1>2 DEF Ready, TlbTypeOK
  <1>6. TlbTypeOK'
    BY <1>1, <1>2, <1>3, <1>5 DEF TlbTypeOK
  <1>7. /\ cur'[c] = t /\ \A d \in CpuIndex \ {c} : cur'[d] = cur[d] /\ switch'[d] = switch[d]
        /\ switch'[c].at = "no" => mmu_of(t) = mmu_of(cur[c])
    BY <1>1, <1>2 DEF TlbTypeOK
  <1>8. t # Idle => task[t].at \notin {"none", "forked"} /\ \A d \in CpuIndex : cur[d] # t
    BY <1>5 DEF Ready
  \* The task that is left shares its address space with the next, so it is not init in execve.
  <1>9. ASSUME switch'[c].at = "no" PROVE cr3[c] = mmu_of(t) /\ cr3[c] = mmu_of(cur[c])
    <2>1. mmu_of(t) = mmu_of(cur[c])
      BY <1>7, <1>9
    <2>2. ASSUME cur[c] = init, task[init].at \in Execing PROVE FALSE
      <3>1. InUse = {init} /\ task[init].mmu = init
        BY <1>2, <2>2, <1>5 DEF TablesInv, TasksInv, Idle, init
      <3>2. t = Idle
        BY <1>5, <1>8, <2>2, <3>1 DEF InUse
      <3> QED
        BY <2>1, <2>2, <3>1, <3>2 DEF mmu_of, Idle, init, kernel_mmu
    <2> QED
      BY <1>2, <1>3, <2>1, <2>2 DEF CurInv
  <1>10. CurInv'
    <2>1. \A d \in CpuIndex : switch'[d].at = "no" =>
            \/ cr3[d] = mmu_of(cur'[d])
            \/ cur'[d] = init /\ task[init].at \in Execing /\ cr3[d] = kernel_mmu
      BY <1>2, <1>3, <1>7, <1>9 DEF CurInv
    <2>2. (\A u : mmu_of(u)' = mmu_of(u))
      BY <1>3 DEF mmu_of
    <2> QED
      BY <1>2, <1>3, <1>7, <1>8, <2>1, <2>2 DEF CurInv
  <1>11. TlbInv'
    <2>1. ASSUME switch'[c].at = "no", cr3[c] # kernel_mmu, mm[cr3[c]].users = 1 PROVE FALSE
      <3>1. t # Idle /\ cur[c] # Idle /\ t \in Task /\ cur[c] \in Task /\ t # cur[c]
        BY <1>5, <1>9, <2>1 DEF mmu_of
      <3>2. t \in UsersOf(cr3[c]) /\ cur[c] \in UsersOf(cr3[c])
        BY <1>9, <2>1, <3>1 DEF UsersOf, mmu_of
      <3>3. cr3[c] \in Mmu
        BY <1>2, <2>1 DEF TlbTypeOK
      <3> QED
        BY <1>2, <2>1, <3>1, <3>2, <3>3, UserCounted DEF TablesInv
    <2> QED
      BY <1>2, <1>3, <1>7, <2>1 DEF TlbInv
  <1> QED
    BY <1>4, <1>6, <1>10, <1>11 DEF SpaceInv, TablesInv

\* The CPU sets are in no other part of the invariant.
LEMMA MmuSwitchCpusetsInv ==
  ASSUME SpaceInv, NEW c \in CpuIndex, mmu_switch_cpusets(c) PROVE SpaceInv'
  <1>1. TlbTypeOK /\ TablesInv /\ CurInv /\ TlbInv
    BY DEF SpaceInv, TablesInv
  <1>2. /\ cur' = cur /\ cr3' = cr3 /\ tlb' = tlb /\ task' = task /\ refcount' = refcount
        /\ tlb_remaining_cpus' = tlb_remaining_cpus
        /\ switch' = [switch EXCEPT ![c].at = "cr3"]
    BY DEF mmu_switch_cpusets
  <1>3. \A m \in Mmu : /\ mm'[m] \in [cpus : SUBSET (0..lapic_list_size), users : 0..NTASK,
                                      pte : Pte, pgtab_lock : Task \cup {NULL}]
                       /\ mm'[m].users = mm[m].users /\ mm'[m].pte = mm[m].pte
    <2>1. c + 1 \in 0..lapic_list_size
      BY ZeroIn DEF CpuIndex
    <2>2. ASSUME NEW m \in Mmu, NEW val \in BOOLEAN
          PROVE  LET e == mmu_update_cpuset(m, c, val)
                 IN  /\ e \in [cpus : SUBSET (0..lapic_list_size), users : 0..NTASK,
                               pte : Pte, pgtab_lock : Task \cup {NULL}]
                     /\ e.users = mm[m].users /\ e.pte = mm[m].pte
      BY SMTT(30), <1>1, <2>1 DEF TlbTypeOK, mmu_update_cpuset, cpuset_set_id
    <2>3. ASSUME NEW m \in Mmu
          PROVE  \/ mm'[m] = mm[m]
                 \/ mm'[m] = mmu_update_cpuset(m, c, TRUE)
                 \/ mm'[m] = mmu_update_cpuset(m, c, FALSE)
      <3>1. mm'[m] = CASE m = mmu_of(cur[c]) -> mmu_update_cpuset(m, c, FALSE)
                       [] m = mmu_of(switch[c].prev) -> mmu_update_cpuset(m, c, TRUE)
                       [] OTHER -> mm[m]
        BY Zenon DEF mmu_switch_cpusets
      <3> HIDE DEF mmu_update_cpuset
      <3> QED
        BY Zenon, <3>1
    <2>4. ASSUME NEW m \in Mmu
          PROVE  /\ mm[m] \in [cpus : SUBSET (0..lapic_list_size), users : 0..NTASK,
                               pte : Pte, pgtab_lock : Task \cup {NULL}]
                 /\ mm[m].users = mm[m].users /\ mm[m].pte = mm[m].pte
      BY <1>1 DEF TlbTypeOK
    <2> HIDE DEF mmu_update_cpuset
    <2> QED
      BY ZenonT(30), <2>2, <2>3, <2>4
  <1>4. TlbTypeOK'
    <2>1. mm' \in [Mmu -> [cpus : SUBSET (0..lapic_list_size), users : 0..NTASK,
                           pte : Pte, pgtab_lock : Task \cup {NULL}]]
      BY Zenon, <1>3 DEF mmu_switch_cpusets
    <2> QED
      BY <1>1, <1>2, <2>1 DEF TlbTypeOK
  <1>5. TablesInv'
    BY <1>1, <1>2, <1>3, TablesQuiet DEF TablesSame
  <1>6. \A d \in CpuIndex : switch'[d].at = "no" => switch[d].at = "no"
    BY <1>1, <1>2 DEF TlbTypeOK
  <1>7. (\A u : mmu_of(u)' = mmu_of(u)) /\ \A d \in CpuIndex : cr3[d] # kernel_mmu => cr3[d] \in Mmu
    BY <1>1, <1>2 DEF mmu_of, TlbTypeOK
  <1>8. CurInv'
    BY <1>1, <1>2, <1>3, <1>6, <1>7 DEF CurInv
  <1>9. TlbInv'
    BY <1>1, <1>2, <1>3, <1>6, <1>7 DEF TlbInv
  <1> QED
    BY <1>4, <1>5, <1>8, <1>9 DEF SpaceInv, TablesInv

\* mmu_switch loads the address space of the current task and empties the TLB.
LEMMA MmuSwitchInv ==
  ASSUME SpaceInv, NEW c \in CpuIndex, mmu_switch(c) PROVE SpaceInv'
  <1>1. TlbTypeOK /\ TablesInv /\ CurInv /\ TlbInv
    BY DEF SpaceInv, TablesInv
  <1>2. /\ cur' = cur /\ mm' = mm /\ task' = task /\ refcount' = refcount
        /\ tlb_remaining_cpus' = tlb_remaining_cpus /\ TablesSame
        /\ cr3' = [cr3 EXCEPT ![c] = mmu_of(cur[c])]
        /\ tlb' = [tlb EXCEPT ![c] = NotPresent]
        /\ switch' = [switch EXCEPT ![c] = [at |-> "no", prev |-> Idle]]
    BY DEF mmu_switch, write_cr3, TablesSame
  <1>3. TablesInv'
    BY <1>1, <1>2, TablesQuiet
  <1>4. mmu_of(cur[c]) \in Mmu \cup {kernel_mmu}
    BY <1>1 DEF TlbTypeOK, mmu_of
  <1>5. TlbTypeOK'
    BY <1>1, <1>2, <1>4 DEF TlbTypeOK, Pte
  <1>6. /\ cr3'[c] = mmu_of(cur[c]) /\ tlb'[c] = NotPresent
        /\ \A d \in CpuIndex \ {c} : cr3'[d] = cr3[d] /\ tlb'[d] = tlb[d] /\ switch'[d] = switch[d]
    BY <1>1, <1>2 DEF TlbTypeOK
  <1>7. ASSUME mmu_of(cur[c]) # kernel_mmu PROVE mm[mmu_of(cur[c])].users > 0
    BY <1>1, <1>4, <1>7, UserCounted DEF mmu_of, TlbTypeOK, TablesInv
  <1>8. \A u : mmu_of(u)' = mmu_of(u)
    BY <1>2 DEF mmu_of
  <1>9. CurInv'
    BY <1>1, <1>2, <1>6, <1>7, <1>8 DEF CurInv
  <1>10. TlbInv'
    BY <1>1, <1>2, <1>6 DEF TlbInv
  <1> QED
    BY <1>3, <1>5, <1>9, <1>10 DEF SpaceInv, TablesInv

\* The hardware caches the entry as it is.
LEMMA TlbFillInv ==
  ASSUME SpaceInv, NEW c \in CpuIndex, tlb_fill(c) PROVE SpaceInv'
  <1>1. TlbTypeOK /\ TablesInv /\ CurInv /\ TlbInv
    BY DEF SpaceInv, TablesInv
  <1>2. /\ cur' = cur /\ mm' = mm /\ task' = task /\ refcount' = refcount
        /\ tlb_remaining_cpus' = tlb_remaining_cpus /\ TablesSame
        /\ cr3' = cr3 /\ switch' = switch /\ cr3[c] # kernel_mmu
        /\ tlb' = [tlb EXCEPT ![c] = mm[cr3[c]].pte]
    BY DEF tlb_fill, TablesSame
  <1>3. TablesInv'
    BY <1>1, <1>2, TablesQuiet
  <1>4. TlbTypeOK'
    BY <1>1, <1>2 DEF TlbTypeOK
  <1>5. CurInv'
    BY <1>1, <1>2 DEF CurInv, mmu_of
  <1>6. TlbInv'
    BY <1>1, <1>2 DEF TlbInv, TlbTypeOK
  <1> QED
    BY <1>3, <1>4, <1>5, <1>6 DEF SpaceInv, TablesInv

-----------------------------------------------------------------------------
(* execve of the init task *)

MmType == [cpus : SUBSET (0..lapic_list_size), users : 0..NTASK, pte : Pte, pgtab_lock : Task \cup {NULL}]
TaskType ==
  [at : {"none", "forked", "execve", "shootdown", "spin", "map", "cpuset", "cr3", "user", "fault",
         "clone", "panic"},
   mmu : Mmu \cup {kernel_mmu}, child : Task \cup {NULL}]

\* During execve there is no task but init, and it is current on one CPU.
LEMMA ExecActor ==
  ASSUME SpaceInv, NEW c \in CpuIndex, NEW s \in {"execve"} \cup Execing, At(c, s)
  PROVE  /\ cur[c] = init /\ init \in Task /\ task[init].at = s /\ switch[c].at = "no"
         /\ \A t \in Task \ {init} : task[t].at = "none" /\ task[t].mmu = kernel_mmu
         /\ \A d \in CpuIndex \ {c} : cur[d] = Idle
         /\ task[init].mmu = IF s = "execve" THEN kernel_mmu ELSE init
         /\ InUse = {init}
  <1>1. TlbTypeOK /\ TasksInv /\ CurInv
    BY DEF SpaceInv
  <1>2. cur[c] \in Task /\ switch[c].at = "no" /\ task[cur[c]].at = s
    BY <1>1 DEF At, TlbTypeOK
  <1>3. cur[c] = init /\ InUse = {init} /\ (s \in Execing => task[init].mmu = init)
    BY <1>1, <1>2 DEF TasksInv
  <1>4. \A t \in Task \ {init} : task[t].at = "none" /\ task[t].mmu = kernel_mmu
    BY <1>1, <1>3 DEF InUse, TasksInv
  <1>5. \A d \in CpuIndex \ {c} : cur[d] = Idle
    BY <1>1, <1>3, <1>4 DEF CurInv, TlbTypeOK
  <1>6. s = "execve" => task[init].mmu = kernel_mmu
    BY <1>1, <1>2, <1>3 DEF TasksInv
  <1> QED
    BY <1>2, <1>3, <1>4, <1>5, <1>6

\* A step of execve within its address space: the tasks and their users.
LEMMA ExecMove ==
  ASSUME SpaceInv, NEW c \in CpuIndex, NEW r \in Execing, At(c, r),
         NEW s \in Execing \cup {"user"}, task' = [task EXCEPT ![init].at = s],
         \A m \in Mmu : mm'[m].users = mm[m].users
  PROVE  /\ TasksInv' /\ ForksInv' /\ UsersInv'
         /\ task' \in [Task -> TaskType] /\ task'[init].at = s
         /\ \A t \in Task : task'[t].mmu = task[t].mmu /\ task'[t].child = task[t].child
         /\ \A t \in Task \ {init} : task'[t].at = "none"
         /\ \A u \in Task \cup {Idle} : mmu_of(u)' = mmu_of(u)
  <1>1. TlbTypeOK /\ TasksInv /\ UsersInv
    BY DEF SpaceInv
  <1>2. /\ cur[c] = init /\ init \in Task /\ task[init].at = r
        /\ \A t \in Task \ {init} : task[t].at = "none" /\ task[t].mmu = kernel_mmu
        /\ task[init].mmu = init /\ InUse = {init}
    BY ExecActor DEF Execing
  <1>3. /\ task' \in [Task -> TaskType] /\ task'[init].at = s
        /\ \A t \in Task : task'[t].mmu = task[t].mmu /\ task'[t].child = task[t].child
        /\ \A t \in Task \ {init} : task'[t].at = "none"
    BY <1>1, <1>2 DEF TlbTypeOK, TaskType, Execing
  <1>4. InUse' = {init} /\ \A m : UsersOf(m)' = UsersOf(m)
    BY <1>2, <1>3 DEF InUse, UsersOf, Execing
  <1>5. TasksInv'
    BY <1>1, <1>2, <1>3, <1>4 DEF TasksInv, Execing, init, kernel_mmu
  <1>6. ForksInv'
    BY <1>3 DEF ForksInv, Execing
  <1>7. UsersInv'
    BY <1>1, <1>3, <1>4 DEF UsersInv, Execing
  <1>8. \A u \in Task \cup {Idle} : mmu_of(u)' = mmu_of(u)
    BY <1>3 DEF mmu_of
  <1> QED
    BY <1>3, <1>5, <1>6, <1>7, <1>8

\* The steps that leave the page table and the CPU alone.
LEMMA ExecStepInv ==
  ASSUME SpaceInv, NEW c \in CpuIndex, NEW r \in Execing, At(c, r),
         NEW s \in Execing, task' = [task EXCEPT ![init].at = s],
         s # "shootdown", s \in NoPage <=> r \in NoPage,
         \A m \in Mmu : mm'[m].users = mm[m].users /\ mm'[m].pte = mm[m].pte,
         mm' \in [Mmu -> MmType], tlb_remaining_cpus' \in 0..lapic_list_size,
         UNCHANGED <<cur, switch, cr3, tlb, refcount>>
  PROVE  SpaceInv'
  <1>1. TlbTypeOK /\ PagesInv /\ CurInv /\ TlbInv
    BY DEF SpaceInv
  <1>2. /\ cur[c] = init /\ init \in Task /\ task[init].at = r /\ task[init].mmu = init
        /\ \A t \in Task \ {init} : task[t].at = "none" /\ task[t].mmu = kernel_mmu
        /\ \A d \in CpuIndex \ {c} : cur[d] = Idle
    BY ExecActor DEF Execing
  <1>3. /\ TasksInv' /\ ForksInv' /\ UsersInv'
        /\ task' \in [Task -> TaskType] /\ task'[init].at = s
        /\ \A t \in Task : task'[t].mmu = task[t].mmu /\ task'[t].child = task[t].child
        /\ \A t \in Task \ {init} : task'[t].at = "none"
        /\ \A u \in Task \cup {Idle} : mmu_of(u)' = mmu_of(u)
    BY Zenon, ExecMove
  <1>4. TlbTypeOK'
    BY <1>1, <1>3 DEF TlbTypeOK, MmType, TaskType
  <1>5. PagesInv'
    <2>1. InUse' = InUse /\ \A f : CowOf(f)' = CowOf(f)
      BY <1>2, <1>3 DEF InUse, CowOf, Execing
    <2>2. init \in Mmu
      BY <1>2 DEF Mmu
    <2>3. \A t \in Task : task'[t].at \notin {"none"} \cup NoPage => t = init
      BY <1>3
    <2> QED
      BY <1>1, <1>2, <1>3, <2>1, <2>2, <2>3 DEF PagesInv, Execing
  <1>6. CurInv'
    <2>1. \A d \in CpuIndex : cr3[d] # kernel_mmu => cr3[d] \in Mmu
      BY <1>1 DEF TlbTypeOK
    <2>2. \A d \in CpuIndex : mmu_of(cur[d])' = mmu_of(cur[d])
      BY <1>1, <1>3 DEF TlbTypeOK, mmu_of
    <2> QED
      BY <1>1, <1>2, <1>3, <2>1, <2>2 DEF CurInv, Execing
  <1>7. TlbInv'
    <2>1. \A d \in CpuIndex : cr3[d] # kernel_mmu => cr3[d] \in Mmu
      BY <1>1 DEF TlbTypeOK
    <2>2. \A d \in CpuIndex : switch[d].at = "no" /\ cr3[d] # kernel_mmu => d = c
      BY <1>1, <1>2 DEF CurInv, mmu_of, init, Idle
    <2> QED
      BY <1>1, <1>2, <1>3, <2>1, <2>2 DEF TlbInv, Execing
  <1>8. ShootInv'
    BY <1>3 DEF ShootInv, Execing
  <1> QED
    BY <1>3, <1>4, <1>5, <1>6, <1>7, <1>8 DEF SpaceInv

\* The shootdown, the wait for it and the entry into the CPU set.
LEMMA ShootdownInv ==
  ASSUME SpaceInv, BootTypeOK, NEW c \in CpuIndex,
         tlb_shootdown(c) \/ tlb_shootdown_wait(c) \/ execve_cpuset(c)
  PROVE  SpaceInv'
  <1>1. TlbTypeOK /\ ShootInv /\ mm \in [Mmu -> MmType]
    BY DEF SpaceInv, TlbTypeOK, MmType
  <1>2. CASE tlb_shootdown(c)
    <2>1. At(c, "shootdown") /\ cur[c] = init /\ task[init].at = "shootdown"
      BY <1>2, ExecActor DEF tlb_shootdown, Execing
    <2>2. tlb_remaining_cpus = 0
      BY <1>1, <2>1 DEF ShootInv
    <2>3. tlb_remaining_cpus' \in 0..lapic_list_size
      <3> DEFINE S == ShootdownTargets(c, mmu_of(cur[c]))
      <3>1. IsFiniteSet(CpuIndex) /\ Cardinality(CpuIndex) = lapic_list_size
        BY LapicList, FS_Interval DEF CpuIndex
      <3>2. S \in SUBSET CpuIndex
        <4>1. g.smp_nr_cpus_ready \in 0..lapic_list_size
          BY DEF BootTypeOK, Globals
        <4> QED
          BY <4>1, ZeroIn DEF ShootdownTargets, CpuIndex
      <3>3. Cardinality(S) \in Nat /\ Cardinality(S) <= lapic_list_size
        BY <3>1, <3>2, FS_Subset, FS_CardinalityType
      <3>4. tlb_remaining_cpus' = 0 + Cardinality(S)
        BY <1>2, <2>2 DEF tlb_shootdown
      <3> HIDE DEF S
      <3> QED
        BY <3>3, <3>4, ZeroIn
    <2>4. /\ task' = [task EXCEPT ![init].at = "spin"] /\ mm' = mm
          /\ UNCHANGED <<cur, switch, cr3, tlb, refcount>>
      BY <1>2, <2>1 DEF tlb_shootdown, Goto
    <2> QED
      BY <1>1, <2>1, <2>3, <2>4, ExecStepInv DEF Execing, NoPage
  <1>3. CASE tlb_shootdown_wait(c)
    <2>1. At(c, "spin") /\ cur[c] = init
      BY <1>3, ExecActor DEF tlb_shootdown_wait, Execing
    <2>2. /\ task' = [task EXCEPT ![init].at = "map"] /\ mm' = mm
          /\ tlb_remaining_cpus' = tlb_remaining_cpus /\ UNCHANGED <<cur, switch, cr3, tlb, refcount>>
      BY <1>3, <2>1 DEF tlb_shootdown_wait, Goto
    <2>3. tlb_remaining_cpus' \in 0..lapic_list_size
      BY <1>1, <2>2 DEF TlbTypeOK
    <2> QED
      BY <1>1, <2>1, <2>2, <2>3, ExecStepInv DEF Execing, NoPage
  <1>4. CASE execve_cpuset(c)
    <2>1. At(c, "cpuset") /\ cur[c] = init /\ init \in Mmu /\ mmu_of(cur[c]) = init
      BY <1>4, ExecActor DEF execve_cpuset, Execing, Mmu, mmu_of, Idle, init
    <2>2. /\ task' = [task EXCEPT ![init].at = "cr3"]
          /\ mm' = [mm EXCEPT ![init] = mmu_update_cpuset(init, c, TRUE)]
          /\ tlb_remaining_cpus' = tlb_remaining_cpus /\ UNCHANGED <<cur, switch, cr3, tlb, refcount>>
      BY <1>4, <2>1 DEF execve_cpuset, Goto
    <2>3. tlb_remaining_cpus' \in 0..lapic_list_size
      BY <1>1, <2>2 DEF TlbTypeOK
    <2>4. mmu_update_cpuset(init, c, TRUE) = [mm[init] EXCEPT !.cpus = @ \cup {c + 1}]
      BY DEF mmu_update_cpuset, cpuset_set_id
    <2>5. c + 1 \in 0..lapic_list_size
      BY ZeroIn DEF CpuIndex
    <2>6. mm' \in [Mmu -> MmType]
      <3>1. mmu_update_cpuset(init, c, TRUE) \in MmType
        BY ZenonT(30), <1>1, <2>1, <2>4, <2>5 DEF MmType
      <3> QED
        BY Zenon, <1>1, <2>2, <3>1
    <2>7. \A m \in Mmu : mm'[m].users = mm[m].users /\ mm'[m].pte = mm[m].pte
      BY Zenon, <1>1, <2>1, <2>2, <2>4 DEF MmType
    <2> QED
      BY ZenonT(30), <1>1, <2>1, <2>2, <2>3, <2>6, <2>7, ExecStepInv DEF Execing, NoPage
  <1> QED
    BY <1>2, <1>3, <1>4

\* execve gives the init task an address space, which it does not load yet.
LEMMA TaskExecveInv ==
  ASSUME SpaceInv, NEW c \in CpuIndex, task_execve(c) PROVE SpaceInv'
  <1>1. TlbTypeOK /\ TasksInv /\ UsersInv /\ PagesInv /\ CurInv /\ TlbInv /\ ShootInv
    BY DEF SpaceInv
  <1>2. /\ cur[c] = init /\ init \in Task /\ task[init].at = "execve" /\ switch[c].at = "no"
        /\ \A t \in Task \ {init} : task[t].at = "none" /\ task[t].mmu = kernel_mmu
        /\ \A d \in CpuIndex \ {c} : cur[d] = Idle
        /\ task[init].mmu = kernel_mmu /\ InUse = {init}
    BY ExecActor DEF task_execve
  <1>3. init \in Mmu /\ init # kernel_mmu /\ init # Idle
    BY <1>2 DEF Mmu, init, kernel_mmu, Idle
  <1>4. /\ cur' = cur /\ switch' = switch /\ cr3' = cr3 /\ tlb' = tlb /\ refcount' = refcount
        /\ tlb_remaining_cpus' = tlb_remaining_cpus
        /\ task' = [task EXCEPT ![init].at = "shootdown", ![init].mmu = init]
        /\ mm' = [mm EXCEPT ![init] = [@ EXCEPT !.cpus = {}, !.users = 1, !.pgtab_lock = init]]
    BY <1>2 DEF task_execve
  <1>5. /\ task' \in [Task -> TaskType] /\ task'[init].at = "shootdown" /\ task'[init].mmu = init
        /\ \A t \in Task \ {init} : task'[t].at = "none" /\ task'[t].mmu = kernel_mmu
    BY <1>1, <1>2, <1>3, <1>4 DEF TlbTypeOK, TaskType
  <1>6. NTASK \in Nat \ {0} /\ 1 \in 0..NTASK
    BY TaskAssumption
  <1>7. /\ mm' \in [Mmu -> MmType] /\ mm'[init].users = 1
        /\ \A m \in Mmu : mm'[m].pte = mm[m].pte
        /\ \A m \in Mmu \ {init} : mm'[m] = mm[m]
    BY <1>1, <1>2, <1>3, <1>4, <1>6 DEF TlbTypeOK, MmType
  <1>8. TlbTypeOK'
    BY <1>1, <1>4, <1>5, <1>7 DEF TlbTypeOK, MmType, TaskType
  <1>9. InUse' = {init}
    BY <1>2, <1>5 DEF InUse
  <1>10. TasksInv'
    BY <1>1, <1>2, <1>3, <1>5, <1>9 DEF TasksInv, Execing
  <1>11. ForksInv' /\ ShootInv'
    BY <1>1, <1>2, <1>4, <1>5 DEF ForksInv, ShootInv
  <1>12. UsersInv'
    <2>1. UsersOf(init)' = {init} /\ \A m \in Mmu \ {init} : UsersOf(m)' = {} /\ UsersOf(m) = {}
      BY <1>2, <1>3, <1>5 DEF UsersOf, Mmu, Task, kernel_mmu
    <2>2. Cardinality({init}) = 1
      BY Zenon, FS_Singleton
    <2>3. ASSUME NEW m \in Mmu PROVE mm'[m].users = Cardinality(UsersOf(m)')
      <3>1. CASE m = init
        BY Zenon, <1>7, <2>1, <2>2, <3>1
      <3>2. CASE m # init
        BY <1>1, <1>7, <2>1, <3>2 DEF UsersInv
      <3> QED
        BY <3>1, <3>2
    <2> QED
      BY <1>5, <2>3 DEF UsersInv
  <1>13. PagesInv'
    <2>1. \A f : CowOf(f)' = CowOf(f)
      BY <1>7 DEF CowOf
    <2> QED
      BY <1>1, <1>2, <1>3, <1>4, <1>5, <1>7, <1>9, <2>1 DEF PagesInv, NoPage
  \* No CPU has the new address space loaded: it had no users.
  <1>14. mm[init].users = 0 /\ \A d \in CpuIndex : cr3[d] # init
    <2>1. UsersOf(init) = {}
      BY <1>2, <1>3 DEF UsersOf
    <2>2. mm[init].users = 0
      BY <1>1, <1>3, <2>1, FS_EmptySet DEF UsersInv
    <2> QED
      BY <1>1, <1>3, <2>2 DEF CurInv
  <1>15. \A d \in CpuIndex : cr3[d] # kernel_mmu => cr3[d] \in Mmu \ {init}
    BY <1>1, <1>14 DEF TlbTypeOK
  <1>16. CurInv'
    <2>1. cr3[c] = kernel_mmu
      BY <1>1, <1>2, <1>3 DEF CurInv, mmu_of
    <2>2. \A d \in CpuIndex \ {c} : mmu_of(cur[d])' = mmu_of(cur[d])
      BY <1>2, <1>4 DEF mmu_of
    <2> QED
      BY <1>1, <1>2, <1>3, <1>4, <1>5, <1>7, <1>15, <2>1, <2>2 DEF CurInv, Execing
  <1>17. TlbInv'
    <2>1. \A d \in CpuIndex : switch[d].at = "no" => cr3[d] = kernel_mmu
      BY <1>1, <1>2, <1>3 DEF CurInv, mmu_of
    <2> QED
      BY <1>1, <1>4, <2>1 DEF TlbInv
  <1> QED
    BY <1>8, <1>10, <1>11, <1>12, <1>13, <1>16, <1>17 DEF SpaceInv

\* vmm_map_page enters a frame of its own into the page table of the init task.
LEMMA VmmMapPageInv ==
  ASSUME SpaceInv, NEW c \in CpuIndex, vmm_map_page(c) PROVE SpaceInv'
  <1> DEFINE e == [frame |-> pmm_alloc_order, writable |-> TRUE, cow |-> FALSE]
  <1>1. TlbTypeOK /\ TasksInv /\ UsersInv /\ PagesInv /\ CurInv /\ TlbInv
    BY DEF SpaceInv
  <1>2. /\ cur[c] = init /\ init \in Task /\ task[init].at = "map" /\ switch[c].at = "no"
        /\ \A t \in Task \ {init} : task[t].at = "none" /\ task[t].mmu = kernel_mmu
        /\ \A d \in CpuIndex \ {c} : cur[d] = Idle
        /\ task[init].mmu = init /\ InUse = {init} /\ At(c, "map")
    BY ExecActor DEF vmm_map_page, Execing
  <1>3. init \in Mmu /\ init # kernel_mmu /\ init # Idle /\ mmu_of(init) = init
    BY <1>2 DEF Mmu, init, kernel_mmu, Idle, mmu_of
  <1>4. /\ cur' = cur /\ switch' = switch /\ cr3' = cr3 /\ refcount' = refcount
        /\ tlb_remaining_cpus' = tlb_remaining_cpus
        /\ task' = [task EXCEPT ![init].at = "cpuset"]
        /\ tlb' = [tlb EXCEPT ![c] = NotPresent]
        /\ mm' = [mm EXCEPT ![init] = [@ EXCEPT !.pte = e, !.pgtab_lock = NULL]]
    BY <1>2, <1>3 DEF vmm_map_page, Goto
  <1>5. e \in Pte /\ e # NotPresent /\ \A m \in Mmu : mm[m].pte.frame # pmm_alloc_order
    BY <1>1, FrameFree DEF Pte, NotPresent
  <1>6. /\ mm' \in [Mmu -> MmType] /\ mm'[init].pte = e
        /\ \A m \in Mmu : mm'[m].users = mm[m].users
        /\ \A m \in Mmu \ {init} : mm'[m] = mm[m]
    <2> HIDE DEF e
    <2>1. mm \in [Mmu -> MmType]
      BY <1>1 DEF TlbTypeOK, MmType
    <2>2. mm[init] \in MmType
      BY <1>3, <2>1
    <2>3. [mm[init] EXCEPT !.pte = e, !.pgtab_lock = NULL] \in MmType
      BY ZenonT(30), <1>5, <2>2 DEF MmType
    <2>4. mm' \in [Mmu -> MmType]
      BY <1>3, <1>4, <2>1, <2>3
    <2>5. mm'[init] = [mm[init] EXCEPT !.pte = e, !.pgtab_lock = NULL]
      BY <1>3, <1>4, <2>1
    <2>6. mm'[init].pte = e /\ mm'[init].users = mm[init].users
      BY <2>2, <2>5 DEF MmType
    <2>7. \A m \in Mmu \ {init} : mm'[m] = mm[m]
      BY <1>4, <2>1
    <2> QED
      BY <2>4, <2>6, <2>7
  <1>7. /\ TasksInv' /\ ForksInv' /\ UsersInv'
        /\ task' \in [Task -> TaskType] /\ task'[init].at = "cpuset"
        /\ \A t \in Task : task'[t].mmu = task[t].mmu /\ task'[t].child = task[t].child
        /\ \A t \in Task \ {init} : task'[t].at = "none"
        /\ \A u \in Task \cup {Idle} : mmu_of(u)' = mmu_of(u)
    BY ZenonT(30), <1>2, <1>4, <1>6, ExecMove DEF Execing
  <1>8. TlbTypeOK'
    BY ZenonT(30), <1>1, <1>4, <1>6, <1>7 DEF TlbTypeOK, MmType, TaskType, Pte
  <1>9. \A m \in Mmu \ {init} : mm'[m].pte = NotPresent /\ mm[m].pte = NotPresent
    BY <1>1, <1>2, <1>6 DEF PagesInv
  <1>10. PagesInv'
    <2>1. InUse' = {init}
      BY ZenonT(30), <1>2, <1>7 DEF InUse
    <2>2. mm[init].pte = NotPresent
      BY ZenonT(30), <1>1, <1>2 DEF PagesInv, NoPage
    <2>3. \A f : CowOf(f)' = {} /\ CowOf(f) = {}
      BY <1>3, <1>6, <1>9, <2>2 DEF CowOf, NotPresent
    <2>4. \A m, n \in Mmu : m # n => mm'[m].pte = NotPresent \/ mm'[n].pte = NotPresent
      BY <1>9
    <2>5. e.frame # NotPresent.frame /\ e.writable = TRUE /\ e.cow = FALSE
      BY <1>1, FrameFree DEF NotPresent, Frame
    <2> HIDE DEF e
    <2>6. \A m \in Mmu : mm'[m].pte # NotPresent => m = init /\ mm'[m].pte.cow = ~mm'[m].pte.writable
      BY ZenonT(30), <1>6, <1>9, <2>5
    <2>7. \A t \in Task : task'[t].at \notin {"none"} \cup NoPage => mm'[task'[t].mmu].pte # NotPresent
      BY <1>2, <1>5, <1>6, <1>7
    <2>8. \A f \in Frame : refcount'[f] = Cardinality(CowOf(f)')
      BY Zenon, <1>1, <1>4, <2>3 DEF PagesInv
    <2>9. \A m, n \in Mmu : m # n /\ mm'[m].pte.frame = mm'[n].pte.frame => mm'[m].pte = NotPresent
      BY <1>6, <1>9, <2>5
    <2> QED
      BY ZenonT(30), <1>7, <1>9, <2>1, <2>6, <2>7, <2>8, <2>9 DEF PagesInv, NoPage
  <1>11. \A d \in CpuIndex : cr3[d] # kernel_mmu => cr3[d] \in Mmu
    BY <1>1 DEF TlbTypeOK
  <1>12. CurInv'
    <2>1. \A d \in CpuIndex : mmu_of(cur[d])' = mmu_of(cur[d])
      BY <1>1, <1>4, <1>7 DEF TlbTypeOK, mmu_of
    <2> QED
      BY <1>1, <1>2, <1>4, <1>6, <1>7, <1>11, <2>1 DEF CurInv, Execing
  <1>13. TlbInv'
    <2>1. \A d \in CpuIndex : switch[d].at = "no" /\ cr3[d] # kernel_mmu => d = c
      BY <1>1, <1>2 DEF CurInv, mmu_of, init, Idle
    <2>2. tlb'[c] = NotPresent /\ \A d \in CpuIndex \ {c} : tlb'[d] = tlb[d]
      BY <1>1, <1>4 DEF TlbTypeOK
    <2> QED
      BY ZenonT(30), <1>1, <1>4, <2>1, <2>2 DEF TlbInv
  <1>14. ShootInv'
    BY <1>7 DEF ShootInv
  <1> QED
    BY <1>7, <1>8, <1>10, <1>12, <1>13, <1>14 DEF SpaceInv

\* execve ends with the address space loaded and the TLB empty.
LEMMA ExecveCr3Inv ==
  ASSUME SpaceInv, NEW c \in CpuIndex, execve_cr3(c) PROVE SpaceInv'
  <1>1. TlbTypeOK /\ TasksInv /\ UsersInv /\ PagesInv /\ CurInv /\ TlbInv
    BY DEF SpaceInv
  <1>2. /\ cur[c] = init /\ init \in Task /\ task[init].at = "cr3" /\ switch[c].at = "no"
        /\ \A t \in Task \ {init} : task[t].at = "none" /\ task[t].mmu = kernel_mmu
        /\ \A d \in CpuIndex \ {c} : cur[d] = Idle
        /\ task[init].mmu = init /\ InUse = {init} /\ At(c, "cr3")
    BY ExecActor DEF execve_cr3, Execing
  <1>3. init \in Mmu /\ init # kernel_mmu /\ init # Idle /\ mmu_of(init) = init
    BY <1>2 DEF Mmu, init, kernel_mmu, Idle, mmu_of
  <1>4. /\ cur' = cur /\ switch' = switch /\ refcount' = refcount /\ mm' = mm
        /\ tlb_remaining_cpus' = tlb_remaining_cpus
        /\ task' = [task EXCEPT ![init].at = "user"]
        /\ tlb' = [tlb EXCEPT ![c] = NotPresent] /\ cr3' = [cr3 EXCEPT ![c] = init]
    BY <1>2, <1>3 DEF execve_cr3, Goto, write_cr3
  <1>5. /\ TasksInv' /\ ForksInv' /\ UsersInv'
        /\ task' \in [Task -> TaskType] /\ task'[init].at = "user"
        /\ \A t \in Task : task'[t].mmu = task[t].mmu /\ task'[t].child = task[t].child
        /\ \A t \in Task \ {init} : task'[t].at = "none"
        /\ \A u \in Task \cup {Idle} : mmu_of(u)' = mmu_of(u)
    <2>1. "cr3" \in Execing /\ "user" \in Execing \cup {"user"}
      BY DEF Execing
    <2>2. \A m \in Mmu : mm'[m].users = mm[m].users
      BY <1>4
    <2> QED
      BY Zenon, <1>2, <1>4, <2>1, <2>2, ExecMove
  <1>6. TlbTypeOK'
    BY <1>1, <1>3, <1>4, <1>5 DEF TlbTypeOK, TaskType, Pte
  <1>7. PagesInv'
    <2>1. InUse' = InUse /\ \A f : CowOf(f)' = CowOf(f)
      BY <1>2, <1>4, <1>5 DEF InUse, CowOf
    <2> QED
      BY <1>1, <1>2, <1>3, <1>4, <1>5, <2>1 DEF PagesInv, NoPage
  <1>8. /\ cr3'[c] = init /\ tlb'[c] = NotPresent
        /\ \A d \in CpuIndex \ {c} : cr3'[d] = cr3[d] /\ tlb'[d] = tlb[d]
    BY <1>1, <1>4 DEF TlbTypeOK
  <1>9. mm[init].users > 0
    BY <1>1, <1>2, <1>3, UserCounted
  <1>10. CurInv'
    <2>1. \A d \in CpuIndex : mmu_of(cur[d])' = mmu_of(cur[d])
      BY <1>1, <1>4, <1>5 DEF TlbTypeOK, mmu_of
    <2> QED
      BY <1>1, <1>2, <1>3, <1>4, <1>5, <1>8, <1>9, <2>1 DEF CurInv, Execing
  <1>11. TlbInv'
    <2>1. \A d \in CpuIndex \ {c} : switch[d].at = "no" => cr3[d] = kernel_mmu
      BY <1>1, <1>2 DEF CurInv, mmu_of, init, Idle
    <2> QED
      BY ZenonT(30), <1>1, <1>4, <1>8, <2>1 DEF TlbInv
  <1>12. ShootInv'
    BY <1>5 DEF ShootInv
  <1> QED
    BY ZenonT(30), <1>5, <1>6, <1>7, <1>10, <1>11, <1>12 DEF SpaceInv

-----------------------------------------------------------------------------
(* Tasks in user mode, write faults and fork *)

InUser == {"user", "fault", "clone"}

\* A task that has been to user mode: its address space is loaded where it runs, and
\* execve is over.
LEMMA UserActor ==
  ASSUME SpaceInv, NEW c \in CpuIndex, NEW s \in InUser, At(c, s)
  PROVE  /\ cur[c] \in Task /\ task[cur[c]].at = s /\ switch[c].at = "no"
         /\ task[cur[c]].mmu \in Mmu /\ task[cur[c]].mmu # kernel_mmu
         /\ mmu_of(cur[c]) = task[cur[c]].mmu /\ cr3[c] = task[cur[c]].mmu
         /\ mm[cr3[c]].pte # NotPresent /\ mm[cr3[c]].pte.frame \in Frame
         /\ mm[cr3[c]].users \in Nat /\ mm[cr3[c]].users > 0
         /\ task[init].at \notin {"execve"} \cup Execing
         /\ \A d \in CpuIndex \ {c} : cur[d] # cur[c]
         /\ \A d \in CpuIndex : switch[d].at = "no" => cr3[d] = mmu_of(cur[d])
         /\ \A d \in CpuIndex \ {c} : switch[d].at = "no" /\ cr3[d] = cr3[c] => mm[cr3[c]].users # 1
  <1>1. TlbTypeOK /\ TasksInv /\ UsersInv /\ PagesInv /\ CurInv
    BY DEF SpaceInv
  <1>2. cur[c] \in Task /\ task[cur[c]].at = s /\ switch[c].at = "no"
    BY <1>1 DEF At, TlbTypeOK
  <1>3. task[cur[c]].mmu # kernel_mmu /\ task[cur[c]].mmu \in Mmu
    BY <1>1, <1>2, MmuIn DEF TasksInv, InUser
  <1>4. mmu_of(cur[c]) = task[cur[c]].mmu
    BY <1>2 DEF mmu_of, Task, Idle
  <1>5. init \in Task
    BY TaskAssumption DEF init, Task
  <1>6. task[init].at \notin {"execve"} \cup Execing
    <2>1. ASSUME task[init].at \in {"execve"} \cup Execing PROVE FALSE
      <3>1. InUse = {init}
        BY <1>1, <1>5, <2>1 DEF TasksInv
      <3>2. cur[c] \in InUse
        BY <1>2 DEF InUse, InUser
      <3> QED
        BY <1>2, <2>1, <3>1, <3>2 DEF InUser, Execing
    <2> QED
      BY <2>1
  <1>7. \A d \in CpuIndex : switch[d].at = "no" => cr3[d] = mmu_of(cur[d])
    BY <1>1, <1>6 DEF CurInv
  <1>8. cr3[c] = task[cur[c]].mmu
    BY SMTT(30), <1>2, <1>4, <1>7
  <1>9. mm[cr3[c]].pte # NotPresent /\ mm[cr3[c]].pte.frame \in Frame
    <2>1. mm[cr3[c]].pte # NotPresent
      BY <1>1, <1>2, <1>8 DEF PagesInv, InUser, NoPage
    <2> QED
      BY ZenonT(30), <1>1, <1>3, <1>8, <2>1 DEF TlbTypeOK, Pte
  <1>10. \A d \in CpuIndex \ {c} : cur[d] # cur[c]
    BY <1>1, <1>2 DEF CurInv, Task, Idle
  <1>11. mm[cr3[c]].users \in Nat /\ mm[cr3[c]].users > 0
    BY ZenonT(30), <1>1, <1>2, <1>3, <1>8, UserCounted
  <1>12. ASSUME NEW d \in CpuIndex \ {c}, switch[d].at = "no", cr3[d] = cr3[c], mm[cr3[c]].users = 1
         PROVE FALSE
    <2>1. cur[d] \in Task /\ task[cur[d]].mmu = cr3[c]
      BY <1>1, <1>3, <1>7, <1>8, <1>12 DEF mmu_of, TlbTypeOK
    <2>2. cur[d] \in UsersOf(cr3[c]) /\ cur[c] \in UsersOf(cr3[c])
      BY <1>2, <1>8, <2>1 DEF UsersOf
    <2>3. \A t, u \in UsersOf(cr3[c]) : t = u
      BY <1>1, <1>3, <1>8, <1>12, UserCounted
    <2> QED
      BY <1>10, <2>2, <2>3
  <1> QED
    BY ZenonT(30), <1>2, <1>3, <1>4, <1>6, <1>7, <1>8, <1>9, <1>10, <1>11, <1>12

\* Faults: the tasks, their users and what is loaded.
LEMMA FaultMove ==
  ASSUME SpaceInv, NEW c \in CpuIndex, NEW r \in {"user", "fault"}, At(c, r),
         NEW s \in {"user", "fault", "panic"}, task' = [task EXCEPT ![cur[c]].at = s],
         \A m \in Mmu : mm'[m].users = mm[m].users,
         s = "panic" => mm[cr3[c]].users > 1,
         UNCHANGED <<cur, switch, cr3, tlb_remaining_cpus>>
  PROVE  /\ TasksInv' /\ ForksInv' /\ UsersInv' /\ CurInv' /\ ShootInv' /\ InUse' = InUse
         /\ task' \in [Task -> TaskType] /\ task'[cur[c]].at = s
         /\ \A t \in Task : task'[t].mmu = task[t].mmu
         /\ \A t \in Task \ {cur[c]} : task'[t] = task[t]
  <1>1. TlbTypeOK /\ TasksInv /\ ForksInv /\ UsersInv /\ CurInv /\ ShootInv
    BY DEF SpaceInv
  <1>2. PICK t \in Task : t = cur[c]
    BY UserActor DEF InUser
  <1>3. /\ task[t].at = r /\ task[t].mmu = cr3[c] /\ cr3[c] \in Mmu /\ cr3[c] # kernel_mmu
        /\ task[init].at \notin {"execve"} \cup Execing
        /\ \A d \in CpuIndex : switch[d].at = "no" => cr3[d] = mmu_of(cur[d])
    BY <1>2, UserActor DEF InUser
  <1>4. /\ task' \in [Task -> TaskType] /\ task'[t].at = s
        /\ \A u \in Task : task'[u].mmu = task[u].mmu /\ task'[u].child = task[u].child
        /\ \A u \in Task \ {t} : task'[u] = task[u]
    BY <1>1, <1>2 DEF TlbTypeOK, TaskType
  <1>0. \A u \in Task :
          /\ \A x \in {"none", "execve", "forked", "clone"} \cup Execing : task'[u].at = x <=> task[u].at = x
          /\ task'[u].mmu = task[u].mmu /\ task'[u].child = task[u].child
    BY Zenon, <1>3, <1>4 DEF Execing
  <1>5. InUse' = InUse /\ \A m : UsersOf(m)' = UsersOf(m)
    BY <1>0 DEF InUse, UsersOf
  <1>6. TasksInv'
    <2>1. \A u \in Task : /\ task'[u].at \in {"none", "execve"} <=> task[u].at \in {"none", "execve"}
                          /\ task'[u].at \in {"execve"} \cup Execing => task'[u].at = task[u].at
      BY <1>0
    <2> QED
      BY <1>0, <1>1, <1>5, <2>1 DEF TasksInv
  <1>7. ForksInv'
    <2>1. \A u \in Task : /\ task'[u].at = "clone" <=> task[u].at = "clone"
                          /\ task'[u].at = "forked" <=> task[u].at = "forked"
                          /\ task'[u].child = task[u].child
      BY <1>0
    <2> QED
      BY <1>1, <2>1 DEF ForksInv
  <1>8. UsersInv'
    <2>1. ASSUME NEW u \in Task, task'[u].at = "panic" PROVE task[u].mmu \in Mmu /\ mm[task[u].mmu].users > 1
      <3>1. CASE u = t
        BY <1>2, <1>3, <1>4, <2>1, <3>1
      <3>2. CASE u # t
        <4>1. task[u].at = "panic"
          BY Zenon, <1>4, <2>1, <3>2
        <4> QED
          BY <1>1, <4>1, MmuIn DEF UsersInv, TasksInv
      <3> QED
        BY <3>1, <3>2
    <2> QED
      BY <1>1, <1>4, <1>5, <2>1 DEF UsersInv
  <1>9. init \in Task /\ task'[init].at \notin {"execve"} \cup Execing
    BY <1>3, <1>4, TaskAssumption DEF init, Task, Execing
  <1>10. CurInv'
    <2>1. \A d \in CpuIndex : mmu_of(cur[d])' = mmu_of(cur[d])
      BY <1>1, <1>4 DEF TlbTypeOK, mmu_of
    <2>2. \A d \in CpuIndex : cr3[d] # kernel_mmu => cr3[d] \in Mmu
      BY <1>1 DEF TlbTypeOK
    <2>3. \A d \in CpuIndex : cur[d] # Idle => task'[cur[d]].at \notin {"none", "forked"}
      BY <1>1, <1>4 DEF CurInv, TlbTypeOK
    <2> QED
      BY <1>1, <1>3, <2>1, <2>2, <2>3 DEF CurInv
  <1>11. ShootInv'
    BY <1>9 DEF ShootInv, Execing
  <1> QED
    BY ZenonT(30), <1>2, <1>4, <1>5, <1>6, <1>7, <1>8, <1>10, <1>11

\* A write fault copies the page or takes it over; it panics only if the entry that
\* refused the write was stale.
LEMMA PageFaultHandlerInv ==
  ASSUME SpaceInv, NEW c \in CpuIndex, page_fault_handler(c) PROVE SpaceInv'
  <1>1. TlbTypeOK /\ TasksInv /\ UsersInv /\ PagesInv /\ CurInv /\ TlbInv /\ At(c, "user")
    BY ZenonT(30) DEF SpaceInv, page_fault_handler
  <1>2. PICK t \in Task, m \in Mmu : t = cur[c] /\ m = cr3[c]
    BY ZenonT(30), <1>1, UserActor DEF InUser
  <1>3. /\ task[t].at = "user" /\ task[t].mmu = m /\ mmu_of(t) = m /\ m # kernel_mmu
        /\ mm[m].pte # NotPresent /\ mm[m].pte.frame \in Frame /\ switch[c].at = "no"
        /\ mm[m].users \in Nat /\ mm[m].users > 0
        /\ \A d \in CpuIndex \ {c} : cur[d] # t
        /\ \A d \in CpuIndex \ {c} : switch[d].at = "no" /\ cr3[d] = m => mm[m].users # 1
    BY <1>1, <1>2, UserActor DEF InUser
  <1>4. /\ cur' = cur /\ switch' = switch /\ cr3' = cr3 /\ tlb' = tlb
        /\ tlb_remaining_cpus' = tlb_remaining_cpus
        /\ tlb[c] # NotPresent /\ ~tlb[c].writable
    BY ZenonT(30) DEF page_fault_handler
  <1>5. CASE ~mm[m].pte.cow
    <2>1. task' = [task EXCEPT ![cur[c]].at = "panic"] /\ mm' = mm /\ refcount' = refcount
      BY <1>2, <1>3, <1>5 DEF page_fault_handler, Goto
    <2>2. mm[m].users # 1
      <3>1. ASSUME mm[m].users = 1 PROVE tlb[c] = mm[m].pte
        BY ZenonT(30), <1>1, <1>2, <1>3, <1>4, <3>1 DEF TlbInv
      <3>2. mm[m].pte.cow = ~mm[m].pte.writable
        BY <1>1, <1>3 DEF PagesInv
      <3> QED
        BY ZenonT(30), <1>4, <1>5, <3>1, <3>2
    <2>3. /\ TasksInv' /\ ForksInv' /\ UsersInv' /\ CurInv' /\ ShootInv' /\ InUse' = InUse
          /\ task' \in [Task -> TaskType] /\ task'[t].at = "panic"
          /\ \A u \in Task : task'[u].mmu = task[u].mmu
          /\ \A u \in Task \ {t} : task'[u] = task[u]
      <3>1. mm[cr3[c]].users > 1
        BY <1>2, <1>3, <2>2
      <3>2. UNCHANGED <<cur, switch, cr3, tlb_remaining_cpus>> /\ \A n \in Mmu : mm'[n].users = mm[n].users
        BY <1>4, <2>1
      <3> QED
        BY ZenonT(30), <1>1, <1>2, <2>1, <3>1, <3>2, FaultMove
    <2>4. TlbTypeOK'
      BY ZenonT(30), <1>1, <1>4, <2>1, <2>3 DEF TlbTypeOK, TaskType
    <2>5. PagesInv'
      <3>1. \A f : CowOf(f)' = CowOf(f)
        BY ZenonT(30), <2>1 DEF CowOf
      <3>2. \A u \in Task : task'[u].at \notin {"none"} \cup NoPage => task[u].at \notin {"none"} \cup NoPage
        BY ZenonT(30), <1>3, <2>3 DEF NoPage
      <3>3. task'[init].at \in NoPage => task[init].at \in NoPage
        BY <1>3, <2>3, TaskAssumption DEF NoPage, init, Task
      <3> QED
        BY ZenonT(30), <1>1, <2>1, <2>3, <3>1, <3>2, <3>3 DEF PagesInv
    <2>6. TlbInv'
      <3>1. \A d \in CpuIndex \ {c} : cur[d] # Idle => task'[cur[d]] = task[cur[d]]
        BY ZenonT(30), <1>1, <1>3, <2>3 DEF TlbTypeOK
      <3>2. \A d \in CpuIndex : switch[d].at = "no" /\ cr3[d] # kernel_mmu => cur[d] # Idle
        BY <1>1 DEF CurInv, mmu_of
      <3> QED
        BY ZenonT(30), <1>1, <1>2, <1>3, <1>4, <2>1, <2>2, <3>1, <3>2 DEF TlbInv
    <2> QED
      BY ZenonT(30), <2>3, <2>4, <2>5, <2>6 DEF SpaceInv
  <1>6. CASE mm[m].pte.cow
    <2>1. PICK f \in Frame : f = mm[m].pte.frame
      BY <1>3
    <2>2. PICK e \in Pte : e = cow_handle_write(mm[m].pte)
      BY ZenonT(30), <1>1, <2>1, FrameFree DEF cow_handle_write, Pte
    <2>3. /\ task' = [task EXCEPT ![cur[c]].at = "fault"]
          /\ mm' = [mm EXCEPT ![m] = [@ EXCEPT !.pgtab_lock = t, !.pte = e]]
          /\ refcount' = [refcount EXCEPT ![f] = @ - 1]
      BY ZenonT(30), <1>2, <1>3, <1>6, <2>1, <2>2 DEF page_fault_handler, Goto
    <2>4. /\ mm' \in [Mmu -> MmType] /\ mm'[m].pte = e
          /\ \A n \in Mmu : mm'[n].users = mm[n].users
          /\ \A n \in Mmu \ {m} : mm'[n] = mm[n]
      <3>1. mm \in [Mmu -> MmType]
        BY <1>1 DEF TlbTypeOK, MmType
      <3>2. [mm[m] EXCEPT !.pgtab_lock = t, !.pte = e] \in MmType
        BY Zenon, <3>1 DEF MmType
      <3>3. mm' \in [Mmu -> MmType] /\ \A n \in Mmu \ {m} : mm'[n] = mm[n]
        BY <2>3, <3>1, <3>2
      <3>4. mm'[m].pte = e /\ mm'[m].users = mm[m].users
        BY <2>3, <3>1 DEF MmType
      <3> QED
        BY <3>3, <3>4
    <2>5. /\ TasksInv' /\ ForksInv' /\ UsersInv' /\ CurInv' /\ ShootInv' /\ InUse' = InUse
          /\ task' \in [Task -> TaskType] /\ task'[t].at = "fault"
          /\ \A u \in Task : task'[u].mmu = task[u].mmu
          /\ \A u \in Task \ {t} : task'[u] = task[u]
      BY ZenonT(30), <1>1, <1>2, <1>4, <2>3, <2>4, FaultMove
    <2>6. IsFiniteSet(CowOf(f)) /\ m \in CowOf(f) /\ refcount[f] = Cardinality(CowOf(f))
      <3>1. IsFiniteSet(Mmu)
        BY TaskAssumption, FS_Interval DEF Mmu, Task
      <3> QED
        BY ZenonT(30), <1>1, <1>6, <2>1, <3>1, FS_Subset DEF CowOf, PagesInv
    \* The frame of the new entry is in no other page table.
    <2>7. /\ e.frame \in Frame /\ e # NotPresent /\ e.writable = TRUE /\ e.cow = FALSE
          /\ \A n \in Mmu \ {m} : mm[n].pte.frame # e.frame
      <3>1. e = [frame |-> IF refcount[f] > 1 THEN pmm_alloc_order ELSE f, writable |-> TRUE, cow |-> FALSE]
        BY <2>1, <2>2 DEF cow_handle_write
      <3>2. CASE refcount[f] > 1
        BY ZenonT(30), <1>1, <3>1, <3>2, FrameFree DEF NotPresent, Frame
      <3>3. CASE ~(refcount[f] > 1)
        <4>1. e.frame = f /\ e.writable = TRUE /\ e.cow = FALSE /\ e # NotPresent
          BY <3>1, <3>3 DEF NotPresent
        <4>2. \A n \in CowOf(f) : n = m
          <5>1. Cardinality(CowOf(f)) \in Nat /\ Cardinality(CowOf(f)) # 0
            BY <2>6, FS_CardinalityType, FS_EmptySet
          <5>2. Cardinality(CowOf(f)) = 1
            BY <2>6, <3>3, <5>1
          <5> QED
            BY <2>6, <5>2, FS_Singleton
        <4>3. ASSUME NEW n \in Mmu \ {m}, mm[n].pte.frame = f PROVE FALSE
          <5>1. mm[n].pte # NotPresent
            BY <2>1, <4>3 DEF NotPresent, Frame
          <5>2. mm[n].pte.cow
            BY ZenonT(30), <1>1, <2>1, <4>3, <5>1 DEF PagesInv
          <5> QED
            BY <4>2, <4>3, <5>2 DEF CowOf
        <4> QED
          BY <4>1, <4>3
      <3> QED
        BY ZenonT(30), <3>2, <3>3
    <2>8. CowOf(f)' = CowOf(f) \ {m} /\ \A x \in Frame \ {f} : CowOf(x)' = CowOf(x)
      BY <2>1, <2>4, <2>7 DEF CowOf
    <2>9. Cardinality(CowOf(f)') = Cardinality(CowOf(f)) - 1 /\ Cardinality(CowOf(f)') \in Nat
      <3>1. IsFiniteSet(CowOf(f) \ {m}) /\ Cardinality(CowOf(f) \ {m}) = Cardinality(CowOf(f)) - 1
        BY Zenon, <2>6, FS_RemoveElement
      <3> QED
        BY <2>8, <3>1, FS_CardinalityType
    <2>10. refcount'[f] = Cardinality(CowOf(f)') /\ \A x \in Frame \ {f} : refcount'[x] = refcount[x]
      BY ZenonT(30), <1>1, <2>3, <2>6, <2>9 DEF TlbTypeOK
    <2>11. TlbTypeOK'
      <3>1. refcount[f] - 1 \in 0..(2 * NTASK)
        <4>1. refcount[f] \in 0..(2 * NTASK) /\ refcount[f] - 1 \in Nat
          BY <1>1, <2>6, <2>9 DEF TlbTypeOK
        <4> QED
          BY <4>1, TaskAssumption
      <3>2. refcount' \in [Frame -> 0..(2 * NTASK)]
        BY ZenonT(30), <1>1, <2>3, <3>1 DEF TlbTypeOK
      <3> QED
        BY ZenonT(30), <1>1, <1>4, <2>4, <2>5, <3>2 DEF TlbTypeOK, TaskType, MmType
    <2>12. PagesInv'
      <3>1. \A n \in Mmu : mm'[n].pte # NotPresent => mm'[n].pte.cow = ~mm'[n].pte.writable
        <4>1. \A n \in Mmu \ {m} : mm[n].pte # NotPresent => mm[n].pte.cow = ~mm[n].pte.writable
          BY Zenon, <1>1 DEF PagesInv
        <4>2. mm'[m].pte.cow = ~mm'[m].pte.writable
          BY <2>4, <2>7, Zenon
        <4>3. \A n \in Mmu \ {m} : mm'[n].pte = mm[n].pte
          BY <2>4
        <4>4. ASSUME NEW n \in Mmu, mm'[n].pte # NotPresent PROVE mm'[n].pte.cow = ~mm'[n].pte.writable
          <5>1. CASE n = m
            BY <4>2, <5>1, Zenon
          <5>2. CASE n # m
            BY <4>1, <4>3, <4>4, <5>2, ZenonT(30)
          <5> QED
            BY <5>1, <5>2
        <4> QED
          BY <4>4, Zenon
      <3>3. \A u \in Task : task'[u].at \notin {"none"} \cup NoPage => mm'[task'[u].mmu].pte # NotPresent
        <4>1. ASSUME NEW u \in Task, task'[u].at \notin {"none"} \cup NoPage
              PROVE  task[u].mmu \in Mmu /\ mm[task[u].mmu].pte # NotPresent
          <5>1. task[u].at \notin {"none"} \cup NoPage
            BY <1>3, <2>5, <4>1 DEF NoPage
          <5> QED
            BY ZenonT(30), <1>1, <5>1, MmuIn DEF PagesInv, TasksInv, NoPage
        <4> QED
          BY <2>4, <2>5, <2>7, <4>1
      <3>4. \A x \in Frame : refcount'[x] = Cardinality(CowOf(x)')
        BY ZenonT(30), <1>1, <2>8, <2>10 DEF PagesInv
      <3>5. \A n, k \in Mmu : n # k /\ mm'[n].pte.frame = mm'[k].pte.frame /\ mm'[n].pte # NotPresent
                              => mm'[n].pte.cow
        BY <1>1, <2>4, <2>7 DEF PagesInv
      <3>6. task'[init].at \in NoPage => mm'[init].pte = NotPresent
        <4>1. init \in Task /\ init \in Mmu
          BY TaskAssumption DEF init, Task, Mmu
        <4>2. task'[init].at \in NoPage => task[init].at \in NoPage
          BY ZenonT(30), <1>3, <2>5, <4>1 DEF NoPage
        <4> QED
          BY ZenonT(30), <1>1, <1>3, <2>4, <4>1, <4>2 DEF PagesInv
      <3>7. ASSUME NEW n \in Mmu, n \notin InUse PROVE mm'[n].pte = NotPresent
        <4>1. mm[n].pte = NotPresent
          BY ZenonT(30), <1>1, <3>7 DEF PagesInv
        <4>2. n # m
          BY ZenonT(30), <1>3, <4>1
        <4> QED
          BY ZenonT(30), <2>4, <4>1, <4>2
      <3> QED
        BY ZenonT(30), <2>5, <3>1, <3>3, <3>4, <3>5, <3>6, <3>7 DEF PagesInv
    <2>13. TlbInv'
      <3>1. \A d \in CpuIndex \ {c} : cur[d] # Idle => task'[cur[d]] = task[cur[d]]
        BY ZenonT(30), <1>1, <1>3, <2>5 DEF TlbTypeOK
      <3>2. \A d \in CpuIndex : switch[d].at = "no" /\ cr3[d] # kernel_mmu => cur[d] # Idle
        BY <1>1 DEF CurInv, mmu_of
      <3>3. \A d \in CpuIndex : cr3[d] # kernel_mmu => cr3[d] \in Mmu
        BY <1>1 DEF TlbTypeOK
      <3>4. ASSUME NEW d \in CpuIndex, switch[d].at = "no", cr3[d] # kernel_mmu,
                   mm'[cr3[d]].users = 1, task'[cur[d]].at \notin {"fault", "clone"}
            PROVE  tlb[d] \in {NotPresent, mm'[cr3[d]].pte}
        <4>1. d # c
          BY ZenonT(30), <1>2, <2>5, <3>4
        <4>2. cr3[d] # m
          BY <1>3, <2>4, <3>4, <4>1
        <4>3. mm'[cr3[d]] = mm[cr3[d]]
          BY <2>4, <3>3, <3>4, <4>2
        <4>4. task'[cur[d]] = task[cur[d]]
          BY <3>1, <3>2, <3>4, <4>1
        <4> QED
          BY ZenonT(30), <1>1, <3>4, <4>3, <4>4 DEF TlbInv
      <3> QED
        BY <1>1, <1>4, <3>4 DEF TlbInv
    <2> QED
      BY ZenonT(30), <2>5, <2>11, <2>12, <2>13 DEF SpaceInv
  <1> QED
    BY <1>5, <1>6
=============================================================================
