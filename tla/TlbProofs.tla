----------------------------- MODULE TlbProofs ------------------------------
(***************************************************************************)
(* UserSeesItsTable and PanicOnlyShared for every number of CPUs and of    *)
(* tasks.  TlbInvariant has the invariant; the end of a fault and the steps *)
(* of fork follow here.                                                    *)
(***************************************************************************)
EXTENDS TlbInvariant

\* The handler flushes the entry of the CPU it is on before the task goes on.
LEMMA PageFaultEndInv ==
  ASSUME SpaceInv, NEW c \in CpuIndex, page_fault_end(c) PROVE SpaceInv'
  <1>1. TlbTypeOK /\ TasksInv /\ UsersInv /\ PagesInv /\ CurInv /\ TlbInv /\ At(c, "fault")
    BY DEF SpaceInv, page_fault_end
  <1>2. PICK t \in Task, m \in Mmu : t = cur[c] /\ m = cr3[c]
    BY <1>1, UserActor DEF InUser
  <1>3. /\ task[t].at = "fault" /\ mmu_of(t) = m
        /\ \A d \in CpuIndex \ {c} : cur[d] # t
    BY <1>1, <1>2, UserActor DEF InUser
  <1>4. /\ cur' = cur /\ switch' = switch /\ cr3' = cr3 /\ refcount' = refcount
        /\ tlb_remaining_cpus' = tlb_remaining_cpus
        /\ task' = [task EXCEPT ![cur[c]].at = "user"]
        /\ tlb' = [tlb EXCEPT ![c] = NotPresent]
        /\ mm' = [mm EXCEPT ![m].pgtab_lock = NULL]
    BY <1>2, <1>3 DEF page_fault_end, Goto
  <1>5. mm' \in [Mmu -> MmType] /\ \A n \in Mmu : mm'[n].users = mm[n].users /\ mm'[n].pte = mm[n].pte
    <2>1. mm \in [Mmu -> MmType]
      BY <1>1 DEF TlbTypeOK, MmType
    <2> QED
      BY <1>4, <2>1 DEF MmType
  <1>6. /\ TasksInv' /\ ForksInv' /\ UsersInv' /\ CurInv' /\ ShootInv' /\ InUse' = InUse
        /\ task' \in [Task -> TaskType] /\ task'[t].at = "user"
        /\ \A u \in Task : task'[u].mmu = task[u].mmu
        /\ \A u \in Task \ {t} : task'[u] = task[u]
    <2>1. UNCHANGED <<cur, switch, cr3, tlb_remaining_cpus>>
      BY <1>4
    <2> QED
      BY Zenon, <1>1, <1>2, <1>4, <1>5, <2>1, FaultMove
  <1>7. TlbTypeOK'
    BY Zenon, <1>1, <1>4, <1>5, <1>6 DEF TlbTypeOK, TaskType, MmType, Pte
  <1>8. PagesInv'
    <2>1. \A f : CowOf(f)' = CowOf(f)
      BY <1>5 DEF CowOf
    <2>2. \A u \in Task : task'[u].at \notin {"none"} \cup NoPage =>
            task[u].at \notin {"none"} \cup NoPage /\ task[u].mmu \in Mmu
      BY <1>1, <1>3, <1>6, MmuIn DEF NoPage, TasksInv
    <2>3. init \in Mmu /\ (task'[init].at \in NoPage => task[init].at \in NoPage)
      BY <1>3, <1>6, TaskAssumption DEF NoPage, init, Task, Mmu
    <2> QED
      BY <1>1, <1>4, <1>5, <1>6, <2>1, <2>2, <2>3 DEF PagesInv
  <1>9. TlbInv'
    <2>1. \A d \in CpuIndex \ {c} : cur[d] # Idle => task'[cur[d]] = task[cur[d]]
      BY <1>1, <1>3, <1>6 DEF TlbTypeOK
    <2>2. \A d \in CpuIndex : switch[d].at = "no" /\ cr3[d] # kernel_mmu => cur[d] # Idle
      BY <1>1 DEF CurInv, mmu_of
    <2>3. \A d \in CpuIndex : cr3[d] # kernel_mmu => cr3[d] \in Mmu
      BY <1>1 DEF TlbTypeOK
    <2>4. tlb'[c] = NotPresent /\ \A d \in CpuIndex \ {c} : tlb'[d] = tlb[d]
      BY <1>1, <1>4 DEF TlbTypeOK
    <2>5. ASSUME NEW d \in CpuIndex \ {c}, switch[d].at = "no", cr3[d] # kernel_mmu,
                 mm'[cr3[d]].users = 1, task'[cur[d]].at \notin {"fault", "clone"}
          PROVE  tlb'[d] \in {NotPresent, mm'[cr3[d]].pte}
      BY <1>1, <1>5, <2>1, <2>2, <2>3, <2>4, <2>5 DEF TlbInv
    <2> QED
      BY <1>1, <1>4, <2>4, <2>5 DEF TlbInv
  <1> QED
    BY <1>6, <1>7, <1>8, <1>9 DEF SpaceInv

\* fork of a process: the child shares the page, and both entries ask for a copy.
LEMMA MmuCloneCowInv ==
  ASSUME SpaceInv, NEW c \in CpuIndex, mmu_clone_cow(c) PROVE SpaceInv'
  <1>1. /\ TlbTypeOK /\ TasksInv /\ ForksInv /\ UsersInv /\ PagesInv /\ CurInv /\ TlbInv
        /\ At(c, "user") /\ next_tid \in Task
    BY DEF SpaceInv, mmu_clone_cow
  <1>2. PICK t \in Task, m \in Mmu : t = cur[c] /\ m = cr3[c]
    BY <1>1, UserActor DEF InUser
  <1>3. PICK n \in Task : n = next_tid
    BY SMTT(30), <1>1
  <1>4. /\ task[t].at = "user" /\ task[t].mmu = m /\ mmu_of(t) = m /\ m # kernel_mmu
        /\ mm[m].pte # NotPresent /\ mm[m].pte.frame \in Frame /\ switch[c].at = "no"
        /\ task[init].at \notin {"execve"} \cup Execing
        /\ \A d \in CpuIndex \ {c} : cur[d] # t
        /\ \A d \in CpuIndex : switch[d].at = "no" => cr3[d] = mmu_of(cur[d])
        /\ \A d \in CpuIndex \ {c} : switch[d].at = "no" /\ cr3[d] = m => mm[m].users # 1
    BY <1>1, <1>2, UserActor DEF InUser
  <1>5. /\ n \notin InUse /\ n # init /\ n # t /\ n # m /\ n \in Mmu /\ n # kernel_mmu
        /\ task[n].at = "none" /\ task[n].mmu = kernel_mmu /\ mm[n].pte = NotPresent
        /\ \E k \in 1..NTASK : InUse \cup {n} = 1..k
    <2>1. n \notin InUse /\ n # init /\ \E k \in 1..NTASK : InUse \cup {n} = 1..k
      BY <1>1, <1>3, NextTid
    <2>2. t \in InUse /\ m \in InUse
      BY <1>1, <1>4 DEF InUse, TasksInv
    <2>3. n \in Mmu /\ n # kernel_mmu
      BY DEF Mmu, Task, kernel_mmu
    <2>4. task[n].at = "none" /\ task[n].mmu = kernel_mmu
      BY <1>1, <2>1 DEF InUse, TasksInv
    <2> QED
      BY <1>1, <2>1, <2>2, <2>3, <2>4 DEF PagesInv
  <1>6. PICK f \in Frame : f = mm[m].pte.frame
    BY <1>4
  <1>7. PICK e \in Pte : /\ e = Shared(mm[m].pte) /\ e # NotPresent
                         /\ e.frame = f /\ e.cow = TRUE /\ e.writable = FALSE
    <2>1. mm[m].pte \in [frame : Frame, writable : BOOLEAN, cow : BOOLEAN]
      BY <1>1, <1>4 DEF TlbTypeOK, Pte
    <2>2. /\ Shared(mm[m].pte) \in [frame : Frame, writable : BOOLEAN, cow : BOOLEAN]
          /\ Shared(mm[m].pte).frame = f /\ Shared(mm[m].pte).cow = TRUE
          /\ Shared(mm[m].pte).writable = FALSE
      BY Zenon, <1>6, <2>1 DEF Shared
    <2>3. Shared(mm[m].pte) # NotPresent
      BY SMTT(30), <2>2 DEF NotPresent
    <2> QED
      BY <2>2, <2>3 DEF Pte
  <1>8. /\ cur' = cur /\ switch' = switch /\ cr3' = cr3 /\ tlb' = tlb
        /\ tlb_remaining_cpus' = tlb_remaining_cpus
        /\ mm' = [mm EXCEPT ![m].pte = e, ![n] = [@ EXCEPT !.pte = e, !.users = 1]]
        /\ refcount' = [refcount EXCEPT ![f] = @ + IF mm[m].pte.cow THEN 1 ELSE 2]
        /\ task' = [task EXCEPT ![n] = [@ EXCEPT !.at = "forked", !.mmu = n],
                                ![t] = [@ EXCEPT !.at = "clone", !.child = n]]
    BY ZenonT(30), <1>2, <1>3, <1>4, <1>6, <1>7 DEF mmu_clone_cow
  <1>9. /\ mm' \in [Mmu -> MmType]
        /\ mm'[m].pte = e /\ mm'[m].users = mm[m].users /\ mm'[n].pte = e /\ mm'[n].users = 1
        /\ \A k \in Mmu \ {m, n} : mm'[k] = mm[k]
    <2>1. mm \in [Mmu -> MmType] /\ 1 \in 0..NTASK
      BY <1>1, TaskAssumption DEF TlbTypeOK, MmType
    <2>2. /\ mm'[m] = [mm[m] EXCEPT !.pte = e] /\ mm'[n] = [mm[n] EXCEPT !.pte = e, !.users = 1]
          /\ \A k \in Mmu \ {m, n} : mm'[k] = mm[k]
      BY <1>5, <1>8, <2>1
    <2>3. mm'[m] \in MmType /\ mm'[n] \in MmType
      BY ZenonT(30), <1>5, <2>1, <2>2 DEF MmType
    <2>4. mm' = [k \in Mmu |-> mm'[k]] /\ \A k \in Mmu : mm'[k] \in MmType
      BY ZenonT(30), <1>8, <2>1, <2>2, <2>3
    <2>5. mm' \in [Mmu -> MmType]
      BY <2>4
    <2> QED
      BY <1>5, <2>1, <2>2, <2>5 DEF MmType
  <1>10. /\ task' \in [Task -> TaskType]
         /\ task'[n].at = "forked" /\ task'[n].mmu = n
         /\ task'[t].at = "clone" /\ task'[t].mmu = m /\ task'[t].child = n
         /\ \A u \in Task \ {t, n} : task'[u] = task[u]
    <2>1. task \in [Task -> TaskType]
      BY <1>1 DEF TlbTypeOK, TaskType
    <2>2. /\ task'[n] = [task[n] EXCEPT !.at = "forked", !.mmu = n]
          /\ task'[t] = [task[t] EXCEPT !.at = "clone", !.child = n]
          /\ \A u \in Task \ {t, n} : task'[u] = task[u]
      BY <1>5, <1>8, <2>1
    <2>3. task'[n] \in TaskType /\ task'[t] \in TaskType
      BY Zenon, <1>5, <2>1, <2>2 DEF TaskType
    <2>4. task' = [u \in Task |-> task'[u]] /\ \A u \in Task : task'[u] \in TaskType
      BY Zenon, <1>8, <2>1, <2>2, <2>3
    <2>5. task' \in [Task -> TaskType]
      BY <2>4
    <2> QED
      BY ZenonT(30), <1>4, <1>5, <2>1, <2>2, <2>5 DEF TaskType
  <1>11. InUse' = InUse \cup {n}
    BY <1>4, <1>10 DEF InUse
  <1>12. \A u \in Task : task'[u].at \notin {"execve"} \cup Execing
    <2>1. \A u \in Task : task[u].at \notin {"execve"} \cup Execing
      BY <1>1, <1>4 DEF TasksInv
    <2> QED
      BY SMTT(30), <1>10, <2>1 DEF Execing
  <1>13. TasksInv'
    BY <1>1, <1>4, <1>5, <1>10, <1>11, <1>12 DEF TasksInv
  <1>14. ForksInv'
    <2>1. ASSUME NEW u \in Task \ {t}, task'[u].at = "clone"
          PROVE  /\ task[u].at = "clone" /\ task'[u].child = task[u].child
                 /\ task[u].child \in Task \ {n, t} /\ task'[task[u].child].at = "forked"
      <3>1. u # n /\ task'[u] = task[u] /\ task[u].at = "clone"
        BY <1>10, <2>1
      <3>2. task[u].child \in Task /\ task[task[u].child].at = "forked"
        BY <1>1, <3>1 DEF ForksInv
      <3> QED
        BY <1>4, <1>5, <1>10, <3>1, <3>2
    <2> QED
      BY <1>1, <1>5, <1>10, <2>1 DEF ForksInv
  <1>15. UsersOf(n) = {} /\ UsersOf(n)' = {n} /\ \A k \in Mmu \ {n} : UsersOf(k)' = UsersOf(k)
    <2>1. \A u \in Task : task[u].mmu # n
      BY <1>1, <1>5 DEF TasksInv
    <2>2. \A k \in Mmu : k # kernel_mmu
      BY DEF Mmu, Task, kernel_mmu
    <2> QED
      BY <1>4, <1>5, <1>10, <2>1, <2>2 DEF UsersOf
  <1>16. mm[n].users = 0 /\ \A d \in CpuIndex : cr3[d] # n
    <2>1. mm[n].users = 0
      BY Zenon, <1>1, <1>5, <1>15, FS_EmptySet DEF UsersInv
    <2> QED
      BY <1>1, <1>5, <2>1 DEF CurInv
  <1>17. UsersInv'
    <2>1. Cardinality({n}) = 1
      BY Zenon, FS_Singleton
    <2>2. ASSUME NEW k \in Mmu PROVE mm'[k].users = Cardinality(UsersOf(k)')
      <3>1. CASE k = n
        BY <1>9, <1>15, <2>1, <3>1
      <3>2. CASE k # n
        BY <1>1, <1>9, <1>15, <3>2 DEF UsersInv
      <3> QED
        BY <3>1, <3>2
    <2>3. ASSUME NEW u \in Task, task'[u].at = "panic" PROVE mm'[task'[u].mmu].users > 1
      <3>1. task'[u] = task[u] /\ task[u].at = "panic"
        BY <1>10, <2>3
      <3>2. task[u].mmu \in Mmu /\ task[u].mmu # n /\ mm[task[u].mmu].users > 1
        BY ZenonT(30), <1>1, <1>5, <3>1, MmuIn DEF UsersInv, TasksInv
      <3> QED
        BY <1>9, <3>1, <3>2
    <2> QED
      BY <2>2, <2>3 DEF UsersInv
  <1>18. CowOf(f)' = CowOf(f) \cup {m, n} /\ \A x \in Frame \ {f} : CowOf(x)' = CowOf(x)
    <2>1. \A x \in Frame : n \notin CowOf(x)
      BY <1>5 DEF CowOf, NotPresent
    <2> QED
      BY <1>5, <1>6, <1>7, <1>9, <2>1 DEF CowOf
  <1>19. IsFiniteSet(Mmu) /\ Cardinality(Mmu) = NTASK /\ NTASK \in Nat
    BY TaskAssumption, FS_Interval DEF Mmu, Task
  <1>20. refcount'[f] = Cardinality(CowOf(f)') /\ \A x \in Frame \ {f} : refcount'[x] = refcount[x]
    <2>1. IsFiniteSet(CowOf(f)) /\ n \notin CowOf(f) /\ refcount[f] = Cardinality(CowOf(f))
      <3>1. n \notin CowOf(f)
        BY <1>5 DEF CowOf, NotPresent
      <3> QED
        BY SMTT(30), <1>1, <1>19, <3>1, FS_Subset DEF CowOf, PagesInv
    <2>2. Cardinality(CowOf(f)) \in Nat
      BY <2>1, FS_CardinalityType
    <2>3. CASE mm[m].pte.cow
      <3>1. CowOf(f)' = CowOf(f) \cup {n}
        BY <1>6, <1>18, <2>3 DEF CowOf
      <3>2. Cardinality(CowOf(f)') = Cardinality(CowOf(f)) + 1
        BY ZenonT(30), <2>1, <3>1, FS_AddElement
      <3> QED
        BY ZenonT(30), <1>1, <1>8, <2>1, <2>3, <3>2 DEF TlbTypeOK
    <2>4. CASE ~mm[m].pte.cow
      <3>1. CowOf(f) = {}
        <4>1. ASSUME NEW k \in Mmu, mm[k].pte.frame = f, mm[k].pte.cow PROVE FALSE
          <5>1. CASE k = m
            BY ZenonT(30), <2>4, <4>1, <5>1
          <5>2. CASE k # m
            BY <1>1, <1>4, <1>6, <2>4, <4>1, <5>2 DEF PagesInv
          <5> QED
            BY <5>1, <5>2
        <4> QED
          BY <4>1 DEF CowOf
      <3>2. Cardinality(CowOf(f)) = 0 /\ IsFiniteSet({m}) /\ Cardinality({m}) = 1
        BY SMTT(30), <3>1, FS_EmptySet, FS_Singleton
      <3>3. CowOf(f)' = {m} \cup {n}
        BY <1>18, <3>1
      <3>4. Cardinality(CowOf(f)') = 2
        <4>1. Cardinality({m} \cup {n}) = Cardinality({m}) + 1
          BY Zenon, <1>5, <3>2, FS_AddElement
        <4> QED
          BY <3>2, <3>3, <4>1
      <3> QED
        BY <1>1, <1>8, <2>1, <2>4, <3>2, <3>4 DEF TlbTypeOK
    <2> QED
      BY ZenonT(30), <2>3, <2>4
  <1>21. TlbTypeOK'
    <2>1. refcount'[f] \in 0..(2 * NTASK)
      <3>1. CowOf(f)' \in SUBSET Mmu
        BY DEF CowOf
      <3>2. Cardinality(CowOf(f)') \in Nat /\ Cardinality(CowOf(f)') <= NTASK
        BY <1>19, <3>1, FS_Subset, FS_CardinalityType
      <3> QED
        BY <1>19, <1>20, <3>2
    <2>2. refcount' \in [Frame -> 0..(2 * NTASK)]
      BY ZenonT(30), <1>1, <1>8, <1>20, <2>1 DEF TlbTypeOK
    <2> QED
      BY ZenonT(30), <1>1, <1>8, <1>9, <1>10, <2>2 DEF TlbTypeOK, TaskType, MmType
  <1>22. PagesInv'
    <2>1. ASSUME NEW k \in Mmu, mm'[k].pte # NotPresent PROVE mm'[k].pte.cow = ~mm'[k].pte.writable
      <3>1. CASE k \in {m, n}
        <4>1. mm'[k].pte.cow = TRUE /\ mm'[k].pte.writable = FALSE
          BY <1>7, <1>9, <3>1
        <4> QED
          BY <4>1, Zenon
      <3>2. CASE k \notin {m, n}
        <4>1. mm'[k] = mm[k]
          BY ZenonT(30), <1>9, <3>2
        <4> QED
          BY <1>1, <2>1, <4>1, Zenon DEF PagesInv
      <3> QED
        BY <3>1, <3>2
    <2>2. \A k \in Mmu : k \notin InUse' => mm'[k].pte = NotPresent
      <3>1. m \in InUse
        BY <1>1, <1>4 DEF TasksInv
      <3> QED
        BY ZenonT(30), <1>1, <1>9, <1>11, <3>1 DEF PagesInv
    <2>3. task'[init].at \notin NoPage
      BY <1>12, TaskAssumption DEF NoPage, Execing, init, Task
    <2>4. ASSUME NEW u \in Task, task'[u].at \notin {"none"} \cup NoPage
          PROVE  mm'[task'[u].mmu].pte # NotPresent
      <3>1. CASE u \in {t, n}
        BY <1>7, <1>9, <1>10, <3>1
      <3>2. CASE u \notin {t, n}
        <4>1. task'[u] = task[u]
          BY ZenonT(30), <1>10, <3>2
        <4>2. task[u].mmu \in Mmu /\ mm[task[u].mmu].pte # NotPresent
          BY <1>1, <2>4, <4>1, MmuIn DEF PagesInv, TasksInv, NoPage
        <4> QED
          BY <1>7, <1>9, <4>1, <4>2
      <3> QED
        BY <3>1, <3>2
    <2>5. \A x \in Frame : refcount'[x] = Cardinality(CowOf(x)')
      BY ZenonT(30), <1>1, <1>18, <1>20 DEF PagesInv
    <2>6. ASSUME NEW k \in Mmu, NEW l \in Mmu, k # l,
                 mm'[k].pte.frame = mm'[l].pte.frame, mm'[k].pte # NotPresent
          PROVE  mm'[k].pte.cow
      <3>1. CASE k \in {m, n}
        BY <1>7, <1>9, <3>1
      <3>2. CASE k \notin {m, n}
        <4>1. mm'[k] = mm[k]
          BY <1>9, <3>2
        <4>2. \E j \in Mmu \ {k} : mm[j].pte.frame = mm[k].pte.frame
          <5>1. CASE l \in {m, n}
            BY ZenonT(30), <1>6, <1>7, <1>9, <2>6, <3>2, <4>1, <5>1
          <5>2. CASE l \notin {m, n}
            BY <1>9, <2>6, <4>1, <5>2
          <5> QED
            BY <5>1, <5>2
        <4> QED
          BY <1>1, <2>6, <4>1, <4>2 DEF PagesInv
      <3> QED
        BY <3>1, <3>2
    <2>7. \A k \in Mmu : mm'[k].pte # NotPresent => mm'[k].pte.cow = ~mm'[k].pte.writable
      BY <2>1, Zenon
    <2> QED
      BY SMTT(30), <2>2, <2>3, <2>4, <2>5, <2>6, <2>7 DEF PagesInv
  <1>23. \A d \in CpuIndex : cur[d] # Idle => cur[d] \in Task \ {n}
    BY <1>1, <1>5 DEF CurInv, TlbTypeOK
  <1>24. CurInv'
    <2>1. \A d \in CpuIndex : mmu_of(cur[d])' = mmu_of(cur[d])
      BY <1>4, <1>8, <1>10, <1>23 DEF mmu_of
    <2>2. \A d \in CpuIndex : cr3[d] # kernel_mmu => cr3[d] \in Mmu
      BY ZenonT(30), <1>1 DEF TlbTypeOK
    <2>3. \A d \in CpuIndex : cur[d] # Idle => task'[cur[d]].at \notin {"none", "forked"}
      BY <1>1, <1>10, <1>23 DEF CurInv
    <2>4. \A d \in CpuIndex : cr3[d] # kernel_mmu => mm'[cr3[d]].users > 0
      BY <1>1, <1>9, <1>16, <2>2 DEF CurInv
    <2> QED
      BY ZenonT(30), <1>1, <1>4, <1>8, <2>1, <2>3, <2>4 DEF CurInv
  <1>25. TlbInv'
    <2>1. \A d \in CpuIndex \ {c} : cur[d] # Idle => task'[cur[d]] = task[cur[d]]
      BY <1>4, <1>10, <1>23
    <2>2. \A d \in CpuIndex : switch[d].at = "no" /\ cr3[d] # kernel_mmu => cur[d] # Idle
      BY <1>4 DEF mmu_of
    <2>3. \A d \in CpuIndex : cr3[d] # kernel_mmu => cr3[d] \in Mmu \ {n}
      BY <1>1, <1>16 DEF TlbTypeOK
    <2>4. ASSUME NEW d \in CpuIndex, switch[d].at = "no", cr3[d] # kernel_mmu,
                 mm'[cr3[d]].users = 1, task'[cur[d]].at \notin {"fault", "clone"}
          PROVE  tlb[d] \in {NotPresent, mm'[cr3[d]].pte}
      <3>1. d # c /\ cr3[d] # m
        BY ZenonT(30), <1>2, <1>4, <1>9, <1>10, <2>4
      <3>2. mm'[cr3[d]] = mm[cr3[d]] /\ task'[cur[d]] = task[cur[d]]
        BY <1>9, <2>1, <2>2, <2>3, <2>4, <3>1
      <3> QED
        BY ZenonT(30), <1>1, <2>4, <3>2 DEF TlbInv
    <2> QED
      BY ZenonT(30), <1>1, <1>8, <2>4 DEF TlbInv
  <1>26. ShootInv'
    BY <1>12, TaskAssumption DEF ShootInv, Execing, init, Task
  <1> QED
    BY ZenonT(30), <1>13, <1>14, <1>17, <1>21, <1>22, <1>24, <1>25, <1>26 DEF SpaceInv

\* The parent flushes the entries of the CPU it is on, and the child may run.
LEMMA SyscallForkInv ==
  ASSUME SpaceInv, NEW c \in CpuIndex, syscall_fork(c) PROVE SpaceInv'
  <1>1. /\ TlbTypeOK /\ TasksInv /\ ForksInv /\ UsersInv /\ PagesInv /\ CurInv /\ TlbInv
        /\ At(c, "clone")
    BY DEF SpaceInv, syscall_fork
  <1>2. PICK t \in Task : t = cur[c]
    BY ZenonT(30), <1>1, UserActor DEF InUser
  <1>3. /\ task[t].at = "clone" /\ switch[c].at = "no" /\ task[init].at \notin {"execve"} \cup Execing
        /\ \A d \in CpuIndex \ {c} : cur[d] # t
        /\ \A d \in CpuIndex : switch[d].at = "no" => cr3[d] = mmu_of(cur[d])
    BY <1>1, <1>2, UserActor DEF InUser
  <1>4. PICK n \in Task : n = task[t].child
    BY <1>1, <1>3 DEF ForksInv
  <1>5. /\ task[n].at = "forked" /\ n # t
        /\ \A u \in Task \ {t} : task[u].at = "clone" => task[u].child # n
    BY <1>1, <1>3, <1>4 DEF ForksInv
  <1>6. /\ cur' = cur /\ switch' = switch /\ cr3' = cr3 /\ mm' = mm /\ refcount' = refcount
        /\ tlb_remaining_cpus' = tlb_remaining_cpus
        /\ tlb' = [tlb EXCEPT ![c] = NotPresent]
        /\ task' = [task EXCEPT ![n].at = "user", ![t] = [@ EXCEPT !.at = "user", !.child = NULL]]
    BY <1>2, <1>4 DEF syscall_fork
  <1>7. /\ task' \in [Task -> TaskType]
        /\ task'[n].at = "user" /\ task'[t].at = "user"
        /\ \A u \in Task : task'[u].mmu = task[u].mmu
        /\ \A u \in Task \ {t, n} : task'[u] = task[u]
    <2>1. task \in [Task -> TaskType]
      BY <1>1 DEF TlbTypeOK, TaskType
    <2>2. /\ task'[n] = [task[n] EXCEPT !.at = "user"]
          /\ task'[t] = [task[t] EXCEPT !.at = "user", !.child = NULL]
          /\ \A u \in Task \ {t, n} : task'[u] = task[u]
      BY <1>5, <1>6, <2>1
    <2>3. task'[n] \in TaskType /\ task'[t] \in TaskType
      BY Zenon, <1>5, <2>1, <2>2 DEF TaskType
    <2>4. task' = [u \in Task |-> task'[u]] /\ \A u \in Task : task'[u] \in TaskType
      BY ZenonT(30), <1>6, <2>1, <2>2, <2>3
    <2>5. task' \in [Task -> TaskType]
      BY <2>4
    <2>6. task'[n].at = "user" /\ task'[n].mmu = task[n].mmu
      BY <2>1, <2>2 DEF TaskType
    <2>7. task'[t].at = "user" /\ task'[t].mmu = task[t].mmu
      BY <2>1, <2>2 DEF TaskType
    <2> QED
      BY ZenonT(30), <2>2, <2>5, <2>6, <2>7
  <1>8. InUse' = InUse /\ \A m : UsersOf(m)' = UsersOf(m)
    BY <1>3, <1>5, <1>7 DEF InUse, UsersOf
  <1>9. \A u \in Task : /\ task'[u].at \notin {"execve"} \cup Execing
                        /\ task[u].at \notin {"execve"} \cup Execing
    <2>1. \A u \in Task : task[u].at \notin {"execve"} \cup Execing
      BY <1>1, <1>3 DEF TasksInv
    <2> QED
      BY <1>7, <2>1 DEF Execing
  <1>10. TasksInv'
    <2>1. \A u \in Task : task'[u].at \in {"none", "execve"} <=> task[u].at \in {"none", "execve"}
      BY <1>3, <1>5, <1>7
    <2> QED
      BY <1>1, <1>7, <1>8, <1>9, <2>1 DEF TasksInv
  <1>11. ForksInv'
    <2>1. ASSUME NEW u \in Task, task'[u].at = "clone"
          PROVE  /\ u # t /\ task[u].at = "clone" /\ task'[u].child = task[u].child
                 /\ task[u].child \in Task \ {n, t} /\ task'[task[u].child].at = "forked"
      <3>1. u \notin {n, t} /\ task'[u] = task[u] /\ task[u].at = "clone"
        BY <1>7, <2>1
      <3>2. task[u].child \in Task /\ task[task[u].child].at = "forked" /\ task[u].child # n
        BY <1>1, <1>5, <3>1 DEF ForksInv
      <3> QED
        BY <1>3, <1>7, <3>1, <3>2
    <2> QED
      BY <1>1, <2>1 DEF ForksInv
  <1>12. UsersInv'
    <2>1. \A u \in Task : task'[u].at = "panic" => task[u].at = "panic"
      BY <1>7
    <2> QED
      BY <1>1, <1>6, <1>7, <1>8, <2>1 DEF UsersInv
  <1>13. TlbTypeOK'
    BY Zenon, <1>1, <1>6, <1>7 DEF TlbTypeOK, TaskType, Pte
  <1>14. PagesInv'
    <2>1. \A f : CowOf(f)' = CowOf(f)
      BY <1>6 DEF CowOf
    <2>2. \A u \in Task : task'[u].at \notin {"none"} \cup NoPage => task[u].at \notin {"none"} \cup NoPage
      BY <1>3, <1>5, <1>7 DEF NoPage
    <2>3. task'[init].at \notin NoPage
      BY <1>9, TaskAssumption DEF NoPage, Execing, init, Task
    <2>4. \A u \in Task : task'[u].at \notin {"none"} \cup NoPage => mm[task'[u].mmu].pte # NotPresent
      BY <1>1, <1>7, <2>2 DEF PagesInv
    <2> QED
      BY ZenonT(30), <1>1, <1>6, <1>8, <2>1, <2>3, <2>4 DEF PagesInv
  <1>15. \A d \in CpuIndex : cur[d] # Idle => cur[d] \in Task \ {n}
    BY <1>1, <1>5 DEF CurInv, TlbTypeOK
  <1>16. CurInv'
    <2>1. \A d \in CpuIndex : mmu_of(cur[d])' = mmu_of(cur[d])
      BY <1>6, <1>7, <1>15 DEF mmu_of
    <2>2. \A d \in CpuIndex : cur[d] # Idle => task'[cur[d]].at \notin {"none", "forked"}
      BY <1>1, <1>7, <1>15 DEF CurInv
    <2> QED
      BY ZenonT(30), <1>1, <1>3, <1>6, <2>1, <2>2 DEF CurInv
  <1>17. TlbInv'
    <2>1. \A d \in CpuIndex \ {c} : cur[d] # Idle => task'[cur[d]] = task[cur[d]]
      BY <1>3, <1>7, <1>15
    <2>2. \A d \in CpuIndex : switch[d].at = "no" /\ cr3[d] # kernel_mmu => cur[d] # Idle
      BY <1>3 DEF mmu_of
    <2>3. tlb'[c] = NotPresent /\ \A d \in CpuIndex \ {c} : tlb'[d] = tlb[d]
      BY <1>1, <1>6 DEF TlbTypeOK
    <2>4. ASSUME NEW d \in CpuIndex \ {c}, switch[d].at = "no", cr3[d] # kernel_mmu,
                 mm[cr3[d]].users = 1, task'[cur[d]].at \notin {"fault", "clone"}
          PROVE  tlb'[d] \in {NotPresent, mm[cr3[d]].pte}
      BY <1>1, <2>1, <2>2, <2>3, <2>4 DEF TlbInv
    <2> QED
      BY ZenonT(30), <1>1, <1>6, <2>3, <2>4 DEF TlbInv
  <1>18. ShootInv'
    BY <1>9, TaskAssumption DEF ShootInv, Execing, init, Task
  <1> QED
    BY ZenonT(30), <1>10, <1>11, <1>12, <1>13, <1>14, <1>16, <1>17, <1>18 DEF SpaceInv

\* A thread is one more user of the address space.
LEMMA ForkUthreadInv ==
  ASSUME SpaceInv, NEW c \in CpuIndex, fork_uthread(c) PROVE SpaceInv'
  <1>1. /\ TlbTypeOK /\ TasksInv /\ ForksInv /\ UsersInv /\ PagesInv /\ CurInv /\ TlbInv
        /\ At(c, "user") /\ next_tid \in Task
    BY ZenonT(30) DEF SpaceInv, fork_uthread
  <1>2. PICK t \in Task, m \in Mmu : t = cur[c] /\ m = cr3[c]
    BY <1>1, UserActor DEF InUser
  <1>3. PICK n \in Task : n = next_tid
    BY <1>1
  <1>4. /\ task[t].at = "user" /\ task[t].mmu = m /\ mmu_of(t) = m /\ m # kernel_mmu
        /\ mm[m].pte # NotPresent /\ mm[m].users \in Nat /\ mm[m].users > 0
        /\ task[init].at \notin {"execve"} \cup Execing
        /\ \A d \in CpuIndex : switch[d].at = "no" => cr3[d] = mmu_of(cur[d])
    BY <1>1, <1>2, UserActor DEF InUser
  <1>5. /\ n \notin InUse /\ n # init /\ m \in InUse
        /\ task[n].at = "none" /\ task[n].mmu = kernel_mmu
        /\ \E k \in 1..NTASK : InUse \cup {n} = 1..k
    <2>1. n \notin InUse /\ n # init /\ \E k \in 1..NTASK : InUse \cup {n} = 1..k
      BY <1>1, <1>3, NextTid
    <2>2. m \in InUse
      BY <1>1, <1>4 DEF TasksInv
    <2>3. task[n].at = "none" /\ task[n].mmu = kernel_mmu
      BY <1>1, <2>1 DEF InUse, TasksInv
    <2> QED
      BY ZenonT(30), <2>1, <2>2, <2>3
  <1>6. /\ cur' = cur /\ switch' = switch /\ cr3' = cr3 /\ tlb' = tlb /\ refcount' = refcount
        /\ tlb_remaining_cpus' = tlb_remaining_cpus
        /\ mm' = [mm EXCEPT ![m].users = @ + 1]
        /\ task' = [task EXCEPT ![n] = [@ EXCEPT !.at = "user", !.mmu = m]]
    BY ZenonT(30), <1>2, <1>3, <1>4 DEF fork_uthread
  <1>7. /\ task' \in [Task -> TaskType] /\ task'[n].at = "user" /\ task'[n].mmu = m
        /\ \A u \in Task \ {n} : task'[u] = task[u]
    <2>1. task \in [Task -> TaskType]
      BY <1>1 DEF TlbTypeOK, TaskType
    <2>2. [task[n] EXCEPT !.at = "user", !.mmu = m] \in TaskType
      BY Zenon, <2>1 DEF TaskType
    <2>3. task' \in [Task -> TaskType] /\ \A u \in Task \ {n} : task'[u] = task[u]
      BY <1>6, <2>1, <2>2
    <2>4. task'[n].at = "user" /\ task'[n].mmu = m
      BY <1>6, <2>1 DEF TaskType
    <2> QED
      BY <2>3, <2>4
  <1>8. UsersOf(m)' = UsersOf(m) \cup {n} /\ n \notin UsersOf(m)
        /\ \A k \in Mmu \ {m} : UsersOf(k)' = UsersOf(k)
    <2>1. \A k \in Mmu : k # kernel_mmu
      BY DEF Mmu, Task, kernel_mmu
    <2> QED
      BY <1>5, <1>7, <2>1 DEF UsersOf
  <1>9. IsFiniteSet(Task) /\ Cardinality(Task) = NTASK /\ NTASK \in Nat
    BY TaskAssumption, FS_Interval DEF Task
  <1>10. Cardinality(UsersOf(m)') = mm[m].users + 1 /\ mm[m].users + 1 \in 0..NTASK
    <2>1. Cardinality(UsersOf(m)') = mm[m].users + 1
      <3>1. IsFiniteSet(UsersOf(m)) /\ mm[m].users = Cardinality(UsersOf(m))
        BY <1>1, <1>9, FS_Subset DEF UsersOf, UsersInv
      <3>2. Cardinality(UsersOf(m) \cup {n}) = Cardinality(UsersOf(m)) + 1
        BY Zenon, <1>8, <3>1, FS_AddElement
      <3> QED
        BY <1>8, <3>1, <3>2
    <2>2. UsersOf(m)' \in SUBSET Task
      BY DEF UsersOf
    <2>3. Cardinality(UsersOf(m)') <= NTASK
      BY <1>9, <2>2, FS_Subset
    <2> QED
      BY <1>4, <1>9, <2>1, <2>3
  <1>11. /\ mm' \in [Mmu -> MmType] /\ mm'[m].users = mm[m].users + 1
         /\ \A k \in Mmu : mm'[k].pte = mm[k].pte
         /\ \A k \in Mmu \ {m} : mm'[k] = mm[k]
    <2>1. mm \in [Mmu -> MmType]
      BY <1>1 DEF TlbTypeOK, MmType
    <2>2. mm'[m] = [mm[m] EXCEPT !.users = mm[m].users + 1] /\ \A k \in Mmu \ {m} : mm'[k] = mm[k]
      BY <1>6, <2>1
    <2>3. mm'[m] \in MmType
      BY <1>10, <2>1, <2>2 DEF MmType
    <2>4. mm' = [k \in Mmu |-> mm'[k]] /\ \A k \in Mmu : mm'[k] \in MmType
      BY Zenon, <1>6, <2>1, <2>2, <2>3
    <2>5. mm' \in [Mmu -> MmType]
      BY <2>4
    <2> QED
      BY <2>1, <2>2, <2>5 DEF MmType
  <1>12. InUse' = InUse \cup {n}
    BY <1>7 DEF InUse
  <1>13. \A u \in Task : task'[u].at \notin {"execve"} \cup Execing
    <2>1. \A u \in Task : task[u].at \notin {"execve"} \cup Execing
      BY ZenonT(30), <1>1, <1>4 DEF TasksInv
    <2> QED
      BY ZenonT(30), <1>7, <2>1 DEF Execing
  <1>14. TasksInv'
    BY ZenonT(30), <1>1, <1>4, <1>5, <1>7, <1>12, <1>13 DEF TasksInv
  <1>15. ForksInv'
    <2>1. ASSUME NEW u \in Task, task'[u].at = "clone"
          PROVE  /\ task[u].at = "clone" /\ task'[u].child = task[u].child
                 /\ task[u].child \in Task /\ task'[task[u].child].at = "forked"
      <3>1. task'[u] = task[u] /\ task[u].at = "clone"
        BY <1>7, <2>1
      <3>2. task[u].child \in Task /\ task[task[u].child].at = "forked"
        BY <1>1, <3>1 DEF ForksInv
      <3> QED
        BY <1>5, <1>7, <3>1, <3>2
    <2> QED
      BY <1>1, <2>1 DEF ForksInv
  <1>16. UsersInv'
    <2>1. ASSUME NEW k \in Mmu PROVE mm'[k].users = Cardinality(UsersOf(k)')
      <3>1. CASE k = m
        BY ZenonT(30), <1>10, <1>11, <3>1
      <3>2. CASE k # m
        BY SMTT(30), <1>1, <1>8, <1>11, <3>2 DEF UsersInv
      <3> QED
        BY <3>1, <3>2
    <2>2. ASSUME NEW u \in Task, task'[u].at = "panic" PROVE mm'[task'[u].mmu].users > 1
      <3>1. task'[u] = task[u] /\ task[u].at = "panic"
        BY ZenonT(30), <1>7, <2>2
      <3>2. task[u].mmu \in Mmu /\ mm[task[u].mmu].users > 1
        BY <1>1, <3>1, MmuIn DEF UsersInv, TasksInv
      <3> QED
        BY <1>4, <1>11, <3>1, <3>2
    <2> QED
      BY <2>1, <2>2 DEF UsersInv
  <1>17. TlbTypeOK'
    BY SMTT(30), <1>1, <1>6, <1>7, <1>11 DEF TlbTypeOK, TaskType, MmType
  <1>18. PagesInv'
    <2>1. \A f : CowOf(f)' = CowOf(f)
      BY ZenonT(30), <1>11 DEF CowOf
    <2>2. ASSUME NEW u \in Task, task'[u].at \notin {"none"} \cup NoPage
          PROVE  mm'[task'[u].mmu].pte # NotPresent
      <3>1. CASE u = n
        BY ZenonT(30), <1>4, <1>7, <1>11, <3>1
      <3>2. CASE u # n
        BY <1>1, <1>7, <1>11, <2>2, <3>2, MmuIn DEF PagesInv, TasksInv, NoPage
      <3> QED
        BY <3>1, <3>2
    <2>3. task'[init].at \notin NoPage
      BY <1>13, TaskAssumption DEF NoPage, Execing, init, Task
    <2> QED
      BY <1>1, <1>6, <1>11, <1>12, <2>1, <2>2, <2>3 DEF PagesInv
  <1>19. \A d \in CpuIndex : cur[d] # Idle => cur[d] \in Task \ {n}
    BY <1>1, <1>5 DEF CurInv, TlbTypeOK
  <1>20. \A d \in CpuIndex : cr3[d] # kernel_mmu => cr3[d] \in Mmu
    BY <1>1 DEF TlbTypeOK
  <1>21. CurInv'
    <2>1. \A d \in CpuIndex : mmu_of(cur[d])' = mmu_of(cur[d])
      BY ZenonT(30), <1>6, <1>7, <1>19 DEF mmu_of
    <2>2. \A d \in CpuIndex : cur[d] # Idle => task'[cur[d]].at \notin {"none", "forked"}
      BY ZenonT(30), <1>1, <1>7, <1>19 DEF CurInv
    <2>3. \A d \in CpuIndex : cr3[d] # kernel_mmu => mm'[cr3[d]].users > 0
      BY <1>1, <1>4, <1>11, <1>20 DEF CurInv
    <2> QED
      BY ZenonT(30), <1>1, <1>4, <1>6, <2>1, <2>2, <2>3 DEF CurInv
  <1>22. TlbInv'
    <2>1. \A d \in CpuIndex : cur[d] # Idle => task'[cur[d]] = task[cur[d]]
      BY <1>7, <1>19
    <2>2. \A d \in CpuIndex : switch[d].at = "no" /\ cr3[d] # kernel_mmu => cur[d] # Idle
      BY <1>4 DEF mmu_of
    <2>3. ASSUME NEW d \in CpuIndex, switch[d].at = "no", cr3[d] # kernel_mmu,
                 mm'[cr3[d]].users = 1, task'[cur[d]].at \notin {"fault", "clone"}
          PROVE  tlb[d] \in {NotPresent, mm'[cr3[d]].pte}
      <3>1. cr3[d] # m
        BY <1>4, <1>11, <2>3
      <3>2. mm'[cr3[d]] = mm[cr3[d]] /\ task'[cur[d]] = task[cur[d]]
        BY ZenonT(30), <1>11, <1>20, <2>1, <2>2, <2>3, <3>1
      <3> QED
        BY ZenonT(30), <1>1, <2>3, <3>2 DEF TlbInv
    <2> QED
      BY ZenonT(30), <1>1, <1>6, <2>3 DEF TlbInv
  <1>23. ShootInv'
    BY <1>13, TaskAssumption DEF ShootInv, Execing, init, Task
  <1> QED
    BY <1>14, <1>15, <1>16, <1>17, <1>18, <1>21, <1>22, <1>23 DEF SpaceInv

-----------------------------------------------------------------------------
(* The theorems *)

\* The invariant holds when the scheduler starts.
LEMMA InitSpaceInv == TlbInit => SpaceInv
  <1> SUFFICES ASSUME TlbInit PROVE SpaceInv
    OBVIOUS
  <1>1. NTASK \in Nat \ {0} /\ init \in Task /\ init \in Mmu /\ init # kernel_mmu
    BY TaskAssumption DEF init, Task, Mmu, kernel_mmu
  <1>2. /\ \A t \in Task : /\ task[t].at = IF t = init THEN "execve" ELSE "none"
                           /\ task[t].mmu = kernel_mmu /\ task[t].child = NULL
        /\ \A m \in Mmu : mm[m].users = 0 /\ mm[m].pte = NotPresent
    BY DEF TlbInit
  <1>3. TlbTypeOK
    BY <1>1, ZeroIn DEF TlbInit, TlbTypeOK, Pte
  <1>4. InUse = {init} /\ 1..1 = {1}
    BY <1>1, <1>2 DEF InUse
  <1>5. TasksInv
    BY <1>1, <1>2, <1>4 DEF TasksInv, init, Execing
  <1>6. ForksInv
    BY <1>2 DEF ForksInv
  <1>7. UsersInv
    <2>1. \A m \in Mmu : UsersOf(m) = {}
      BY <1>2 DEF UsersOf, Mmu, Task, kernel_mmu
    <2> QED
      BY Zenon, <1>2, <2>1, FS_EmptySet DEF UsersInv
  <1>8. PagesInv
    <2>1. \A f \in Frame : CowOf(f) = {} /\ refcount[f] = 0
      BY <1>2 DEF CowOf, NotPresent, TlbInit
    <2> QED
      BY ZenonT(30), <1>1, <1>2, <2>1, FS_EmptySet DEF PagesInv, NoPage
  <1>9. CurInv /\ TlbInv /\ ShootInv
    BY DEF TlbInit, CurInv, TlbInv, ShootInv, mmu_of
  <1> QED
    BY ZenonT(30), <1>3, <1>5, <1>6, <1>7, <1>8, <1>9 DEF SpaceInv

\* Every step preserves it; start-up does not touch the address spaces.
LEMMA StepSpaceInv ==
  ASSUME BootInv, SpaceInv, [Next]_vars PROVE SpaceInv'
  <1>1. ASSUME NEW c \in Worker, TlbNext(c) PROVE SpaceInv'
    <2>1. c \in CpuIndex
      BY TaskAssumption
    <2> QED
      BY ZenonT(30), <1>1, <2>1, SwitchToInv, MmuSwitchCpusetsInv, MmuSwitchInv, TlbFillInv, TaskExecveInv,
         ShootdownInv, VmmMapPageInv, ExecveCr3Inv, PageFaultHandlerInv, PageFaultEndInv,
         MmuCloneCowInv, SyscallForkInv, ForkUthreadInv, BootInvTypes DEF TlbNext
  <1>2. CASE UNCHANGED tlbVars
    <2>1. TlbTypeOK /\ TablesInv /\ CurInv /\ TlbInv /\ TablesSame
      BY <1>2 DEF SpaceInv, TablesInv, TablesSame, tlbVars
    <2>2. TablesInv'
      BY <2>1, TablesQuiet
    <2>3. TlbTypeOK'
      BY ZenonT(30), <1>2, <2>1 DEF tlbVars, TlbTypeOK
    <2>4. CurInv' /\ TlbInv'
      BY <1>2, <2>1 DEF tlbVars, CurInv, TlbInv, mmu_of
    <2> QED
      BY <2>2, <2>3, <2>4 DEF SpaceInv, TablesInv
  <1> QED
    BY <1>1, <1>2 DEF Next, vars

\* The invariant is what a task in user mode relies on.
LEMMA SpaceInvUser == BootInv /\ SpaceInv => UserSeesItsTable /\ PanicOnlyShared
  <1> SUFFICES ASSUME BootInv, SpaceInv PROVE UserSeesItsTable /\ PanicOnlyShared
    OBVIOUS
  <1>1. TypeOK
    BY ZenonT(30), BootInvTypes DEF TypeOK, SpaceInv
  <1>2. ASSUME NEW c \in CpuIndex, At(c, "user")
        PROVE  /\ cr3[c] = mmu_of(cur[c])
               /\ mm[mmu_of(cur[c])].users = 1 => tlb[c] \in {NotPresent, mm[mmu_of(cur[c])].pte}
    <2>1. /\ cr3[c] = mmu_of(cur[c]) /\ switch[c].at = "no" /\ task[cur[c]].at = "user"
          /\ cr3[c] # kernel_mmu
      BY <1>2, UserActor DEF InUser
    <2> QED
      BY <2>1 DEF SpaceInv, TlbInv
  <1>3. UserSeesItsTable
    BY <1>1, <1>2 DEF UserSeesItsTable
  <1>4. PanicOnlyShared
    BY DEF PanicOnlyShared, SpaceInv, UsersInv, mmu_of, Task, Idle
  <1> QED
    BY <1>3, <1>4

\* For every number of CPUs and tasks, and wherever the tasks move: a task in user mode
\* has its page table loaded, and as the only user of its address space it never meets
\* a stale entry, though the kernel flushes no TLB but the local one.
THEOREM UserSeesItsTableAlways == Spec => []UserSeesItsTable
  <1>1. Init => BootInv /\ SpaceInv
    BY InitBootInv, InitSpaceInv DEF Init
  <1>2. BootInv /\ SpaceInv /\ [Next]_vars => BootInv' /\ SpaceInv'
    BY StepBootInv, StepSpaceInv
  <1> QED
    BY <1>1, <1>2, SpaceInvUser, PTL DEF Spec

\* Likewise, a write to a page makes page_fault_handler panic only in a process with
\* more than one thread.
THEOREM PanicOnlySharedAlways == Spec => []PanicOnlyShared
  <1>1. Init => BootInv /\ SpaceInv
    BY InitBootInv, InitSpaceInv DEF Init
  <1>2. BootInv /\ SpaceInv /\ [Next]_vars => BootInv' /\ SpaceInv'
    BY StepBootInv, StepSpaceInv
  <1> QED
    BY <1>1, <1>2, SpaceInvUser, PTL DEF Spec
=============================================================================
