-------------------------------- MODULE Tlb ---------------------------------
(***************************************************************************)
(* Address spaces on several CPUs, from the moment the CPUs of SmpBoot     *)
(* enter the scheduler: context switches (mmu_switch), execve of the init  *)
(* task with the shootdown of vmm_map_page, fork of processes and threads, *)
(* and copy-on-write faults, with the TLB of each CPU.  The hardware may   *)
(* fill a TLB from the loaded page table at any time; a step of the kernel *)
(* is one access that another CPU or the hardware can come between.        *)
(*                                                                         *)
(* An address space has one writable user page.  A task is preempted at    *)
(* any point except within schedule; which task runs next is open.  No     *)
(* task exits: none of the tasks of this kernel does.  The steps of Cow,   *)
(* which looks at the sharing of frames in detail, are single steps here.  *)
(***************************************************************************)
EXTENDS SmpBoot

CONSTANTS
  NTASK,   \* the tasks that can exist, a bound
  Worker   \* the CPUs that get tasks, by index (a bound: the others stay idle)

ASSUME TaskAssumption == NTASK \in Nat \ {0} /\ Worker \subseteq CpuIndex

VARIABLES
  cur,     \* the task each CPU runs, or Idle
  switch,  \* the step of mmu_switch a CPU is at, and the task it leaves
  cr3,     \* the address space whose page table a CPU has loaded
  tlb,     \* what a CPU has cached of the user page
  mm,      \* struct mmu_info: cpus, users, the page table entry, pgtab_lock
  task,    \* what a task is doing, and its mmu
  refcount,            \* of the page frames
  tlb_remaining_cpus

tlbVars == <<cur, switch, cr3, tlb, mm, task, refcount, tlb_remaining_cpus>>
vars == <<bootVars, tlbVars>>

\* Tasks are numbered by next_tid.
Task == 1..NTASK
init == 1
Idle == 0
kernel_mmu == 0
NotPresent == [frame |-> 0, writable |-> FALSE, cow |-> FALSE]

\* An address space has the name of the task it was made for.  Each maps one frame,
\* so with one frame more an allocation always finds a free one.
Mmu == Task
Frame == 1..(NTASK + 1)
Pte == [frame : Frame, writable : BOOLEAN, cow : BOOLEAN] \cup {NotPresent}

\* cpuset_t by the numbers of the bits that are set: bit 0 is the pin.
cpuset_query_id(cpus, id) == (id + 1) \in cpus
cpuset_set_id(cpus, id, val) == IF val THEN cpus \cup {id + 1} ELSE cpus \ {id + 1}

\* pmm_alloc_order(0, GFP_NONE)
pmm_alloc_order == Min(Frame \ {mm[m].pte.frame : m \in Mmu})

mmu_of(t) == IF t = Idle THEN kernel_mmu ELSE task[t].mmu

TlbTypeOK ==
  /\ cur \in [CpuIndex -> Task \cup {Idle}]
  /\ switch \in [CpuIndex -> [at : {"no", "cpusets", "cr3"}, prev : Task \cup {Idle}]]
  /\ cr3 \in [CpuIndex -> Mmu \cup {kernel_mmu}]
  /\ tlb \in [CpuIndex -> Pte]
  /\ mm \in [Mmu -> [cpus : SUBSET (0..lapic_list_size), users : 0..NTASK,
                     pte : Pte, pgtab_lock : Task \cup {NULL}]]
  /\ task \in [Task -> [at : {"none", "forked", "execve", "shootdown", "spin", "map", "cpuset",
                              "cr3", "user", "fault", "clone", "panic"},
                        mmu : Mmu \cup {kernel_mmu}, child : Task \cup {NULL}]]
  /\ refcount \in [Frame -> 0..(2 * NTASK)]
  /\ tlb_remaining_cpus \in 0..lapic_list_size

TypeOK == BootTypeOK /\ TlbTypeOK

\* sched_run: every CPU starts from the dummy task; init_kernel is in the queue.
TlbInit ==
  /\ cur = [c \in CpuIndex |-> Idle]
  /\ switch = [c \in CpuIndex |-> [at |-> "no", prev |-> Idle]]
  /\ cr3 = [c \in CpuIndex |-> kernel_mmu]
  /\ tlb = [c \in CpuIndex |-> NotPresent]
  /\ mm = [m \in Mmu |-> [cpus |-> {}, users |-> 0, pte |-> NotPresent, pgtab_lock |-> NULL]]
  /\ task = [t \in Task |-> [at |-> IF t = init THEN "execve" ELSE "none",
                             mmu |-> kernel_mmu, child |-> NULL]]
  /\ refcount = [f \in Frame |-> 0]
  /\ tlb_remaining_cpus = 0

\* The CPUs leave the barrier one after the other, which nothing here depends on; the
\* model waits for the last.  Start-ups with a late AP, which may share a stack, are
\* not followed further.
Running == Late = {} /\ \A c \in Cpu : cpu[c].at = "run"
At(c, s) == switch[c].at = "no" /\ cur[c] # Idle /\ task[cur[c]].at = s
Goto(c, s) == task' = [task EXCEPT ![cur[c]].at = s]
next_tid == Cardinality({t \in Task : task[t].at # "none"}) + 1
Ready == {t \in Task : task[t].at \notin {"none", "forked", "panic"} /\ \A c \in CpuIndex : cur[c] # t}

-----------------------------------------------------------------------------
(* Context switch *)

\* schedule and switch_to up to the call of mmu_switch: current is the next task.
switch_to(c) ==
  /\ Running /\ switch[c].at = "no"
  /\ cur[c] # Idle => task[cur[c]].at # "panic"
  /\ \E t \in (Ready \cup {Idle}) \ {cur[c]} :
       /\ cur' = [cur EXCEPT ![c] = t]
       /\ switch' = [switch EXCEPT ![c] =
                      IF mmu_of(t) = mmu_of(cur[c]) THEN @ ELSE [at |-> "cpusets", prev |-> cur[c]]]
  /\ UNCHANGED <<cr3, tlb, mm, task, refcount, tlb_remaining_cpus>>

\* kernel_mmu is skipped.  tlb_shootdown reads the set of an address space only while
\* execve maps its pages, so the model keeps the set of init and no other.
mmu_update_cpuset(m, c, val) ==
  IF m = init THEN [mm[m] EXCEPT !.cpus = cpuset_set_id(@, c, val)] ELSE mm[m]

\* tlb_shootdown holds shootdown_lock and the cpu_lock of the address space until
\* the CPUs have answered.  A task that is preempted there keeps them.
shootdown_lock_free == \A t \in Task : task[t].at # "spin"
cpu_lock_free(m) == \A t \in Task : task[t].at = "spin" => mmu_of(t) # m

\* mmu_switch: the CPU leaves the set of the next address space and enters the set of
\* the previous one, each under its cpu_lock; nothing reads two sets.
mmu_switch_cpusets(c) ==
  LET next == mmu_of(cur[c])
      prev == mmu_of(switch[c].prev)
  IN  /\ switch[c].at = "cpusets"
      /\ cpu_lock_free(next) /\ cpu_lock_free(prev)
      /\ mm' = [m \in Mmu |-> CASE m = next -> mmu_update_cpuset(m, c, FALSE)
                                [] m = prev -> mmu_update_cpuset(m, c, TRUE)
                                [] OTHER -> mm[m]]
      /\ switch' = [switch EXCEPT ![c].at = "cr3"]
      /\ UNCHANGED <<cur, cr3, tlb, task, refcount, tlb_remaining_cpus>>

\* write_cr3 drops the entries of the TLB that are not global.
write_cr3(c, m) == cr3' = [cr3 EXCEPT ![c] = m] /\ tlb' = [tlb EXCEPT ![c] = NotPresent]

mmu_switch(c) ==
  /\ switch[c].at = "cr3"
  /\ write_cr3(c, mmu_of(cur[c]))
  /\ switch' = [switch EXCEPT ![c] = [at |-> "no", prev |-> Idle]]
  /\ UNCHANGED <<cur, mm, task, refcount, tlb_remaining_cpus>>

\* Hardware: the page walker caches the entry of the loaded page table.
tlb_fill(c) ==
  /\ cr3[c] # kernel_mmu
  /\ tlb[c] = NotPresent
  /\ mm[cr3[c]].pte # NotPresent
  /\ tlb' = [tlb EXCEPT ![c] = mm[cr3[c]].pte]
  /\ UNCHANGED <<cur, switch, cr3, mm, task, refcount, tlb_remaining_cpus>>

-----------------------------------------------------------------------------
(* execve of the init task, and the shootdown of vmm_map_page *)

\* mmu_alloc and mmu_init, up to the page table lock of vmm_map_page.
task_execve(c) ==
  /\ At(c, "execve")
  /\ LET t == cur[c]
     IN  /\ task' = [task EXCEPT ![t].at = "shootdown", ![t].mmu = t]
         /\ mm' = [mm EXCEPT ![t] = [@ EXCEPT !.cpus = {}, !.users = 1, !.pgtab_lock = t]]
  /\ UNCHANGED <<cur, switch, cr3, tlb, refcount, tlb_remaining_cpus>>

\* One IPI for each CPU to interrupt.  The call is there in DEBUG builds only.
ShootdownTargets(c, m) ==
  {i \in 0..(g.smp_nr_cpus_ready - 1) : i # c /\ cpuset_query_id(mm[m].cpus, i)}

tlb_shootdown(c) ==
  /\ At(c, "shootdown")
  /\ shootdown_lock_free /\ cpu_lock_free(mmu_of(cur[c]))
  /\ tlb_remaining_cpus' = tlb_remaining_cpus + Cardinality(ShootdownTargets(c, mmu_of(cur[c])))
  /\ Goto(c, "spin")
  /\ UNCHANGED <<cur, switch, cr3, tlb, mm, refcount>>

tlb_shootdown_wait(c) ==
  /\ At(c, "spin")
  /\ tlb_remaining_cpus = 0
  /\ Goto(c, "map")
  /\ UNCHANGED <<cur, switch, cr3, tlb, mm, refcount, tlb_remaining_cpus>>

\* The page table entry, tlb_flush_single and the unlock.
vmm_map_page(c) ==
  /\ At(c, "map")
  /\ mm' = [mm EXCEPT ![mmu_of(cur[c])] =
             [@ EXCEPT !.pte = [frame |-> pmm_alloc_order, writable |-> TRUE, cow |-> FALSE],
                       !.pgtab_lock = NULL]]
  /\ tlb' = [tlb EXCEPT ![c] = NotPresent]
  /\ Goto(c, "cpuset")
  /\ UNCHANGED <<cur, switch, cr3, refcount, tlb_remaining_cpus>>

execve_cpuset(c) ==
  /\ At(c, "cpuset")
  /\ cpu_lock_free(mmu_of(cur[c]))
  /\ mm' = [mm EXCEPT ![mmu_of(cur[c])] = mmu_update_cpuset(mmu_of(cur[c]), c, TRUE)]
  /\ Goto(c, "cr3")
  /\ UNCHANGED <<cur, switch, cr3, tlb, refcount, tlb_remaining_cpus>>

execve_cr3(c) ==
  /\ At(c, "cr3")
  /\ write_cr3(c, mmu_of(cur[c]))
  /\ Goto(c, "user")
  /\ UNCHANGED <<cur, switch, mm, refcount, tlb_remaining_cpus>>

-----------------------------------------------------------------------------
(* Write faults and fork *)

\* The entry after cow_handle_write: a copy, unless this was the last reference.
cow_handle_write(pte) ==
  [frame |-> IF refcount[pte.frame] > 1 THEN pmm_alloc_order ELSE pte.frame,
   writable |-> TRUE, cow |-> FALSE]

\* A write through an entry that does not allow it: page_fault_handler with the page
\* table lock, up to tlb_flush_single.
page_fault_handler(c) ==
  /\ At(c, "user")
  /\ tlb[c] # NotPresent /\ ~tlb[c].writable
  /\ LET t == cur[c]
         m == mmu_of(t)
         pte == mm[m].pte
     IN  /\ mm[m].pgtab_lock = NULL
         /\ IF pte.cow
            THEN /\ mm' = [mm EXCEPT ![m] = [@ EXCEPT !.pgtab_lock = t,
                                                      !.pte = cow_handle_write(pte)]]
                 /\ refcount' = [refcount EXCEPT ![pte.frame] = @ - 1]
                 /\ Goto(c, "fault")
            ELSE Goto(c, "panic") /\ UNCHANGED <<mm, refcount>>
  /\ UNCHANGED <<cur, switch, cr3, tlb, tlb_remaining_cpus>>

\* Mutant: no tlb_flush_single.
page_fault_end_stale(c) ==
  /\ At(c, "fault")
  /\ mm' = [mm EXCEPT ![mmu_of(cur[c])].pgtab_lock = NULL]
  /\ Goto(c, "user")
  /\ UNCHANGED <<cur, switch, cr3, tlb, refcount, tlb_remaining_cpus>>

page_fault_end(c) ==
  /\ At(c, "fault")
  /\ tlb' = [tlb EXCEPT ![c] = NotPresent]
  /\ mm' = [mm EXCEPT ![mmu_of(cur[c])].pgtab_lock = NULL]
  /\ Goto(c, "user")
  /\ UNCHANGED <<cur, switch, cr3, refcount, tlb_remaining_cpus>>

\* cow_copy_pte on the entry of the parent.
Shared(pte) == [pte EXCEPT !.writable = FALSE, !.cow = TRUE]

\* fork of a process, up to the flush at the end of mmu_clone_cow.
mmu_clone_cow(c) ==
  /\ At(c, "user")
  /\ LET t == next_tid
         m == mmu_of(cur[c])
         pte == mm[m].pte
     IN  /\ t \in Task
         /\ mm[m].pgtab_lock = NULL
         /\ mm' = [mm EXCEPT ![m].pte = Shared(pte),
                             ![t] = [@ EXCEPT !.pte = Shared(pte), !.users = 1]]
         /\ refcount' = [refcount EXCEPT ![pte.frame] = @ + IF pte.cow THEN 1 ELSE 2]
         /\ task' = [task EXCEPT ![t] = [@ EXCEPT !.at = "forked", !.mmu = t],
                                 ![cur[c]] = [@ EXCEPT !.at = "clone", !.child = t]]
  /\ UNCHANGED <<cur, switch, cr3, tlb, tlb_remaining_cpus>>

\* Mutant: no tlb_flush_all.
syscall_fork_stale(c) ==
  /\ At(c, "clone")
  /\ task' = [task EXCEPT ![task[cur[c]].child].at = "user",
                          ![cur[c]] = [@ EXCEPT !.at = "user", !.child = NULL]]
  /\ UNCHANGED <<cur, switch, cr3, tlb, mm, refcount, tlb_remaining_cpus>>

\* tlb_flush_all of the CPU the parent is on, then task_wakeup.
syscall_fork(c) ==
  /\ At(c, "clone")
  /\ tlb' = [tlb EXCEPT ![c] = NotPresent]
  /\ task' = [task EXCEPT ![task[cur[c]].child].at = "user",
                          ![cur[c]] = [@ EXCEPT !.at = "user", !.child = NULL]]
  /\ UNCHANGED <<cur, switch, cr3, mm, refcount, tlb_remaining_cpus>>

\* fork with FORK_UTHREAD: the thread shares the address space.
fork_uthread(c) ==
  /\ At(c, "user")
  /\ next_tid \in Task
  /\ task' = [task EXCEPT ![next_tid] = [@ EXCEPT !.at = "user", !.mmu = mmu_of(cur[c])]]
  /\ mm' = [mm EXCEPT ![mmu_of(cur[c])].users = @ + 1]
  /\ UNCHANGED <<cur, switch, cr3, tlb, refcount, tlb_remaining_cpus>>

TlbNext(c) ==
  \/ switch_to(c) \/ mmu_switch_cpusets(c) \/ mmu_switch(c) \/ tlb_fill(c)
  \/ task_execve(c) \/ tlb_shootdown(c) \/ tlb_shootdown_wait(c) \/ vmm_map_page(c)
  \/ execve_cpuset(c) \/ execve_cr3(c) \/ page_fault_handler(c) \/ page_fault_end(c)
  \/ mmu_clone_cow(c) \/ syscall_fork(c) \/ fork_uthread(c)

Init == BootInit /\ TlbInit
Next ==
  \/ BootNext /\ UNCHANGED tlbVars
  \/ (\E c \in Worker : TlbNext(c)) /\ UNCHANGED bootVars

\* Each CPU executes its start-up code; the sleeps of the BSP end.
Fairness ==
  /\ WF_vars(BspNext /\ UNCHANGED tlbVars)
  /\ \A c \in Cpu : WF_vars(ApNext(c) /\ UNCHANGED tlbVars)

Spec == Init /\ [][Next]_vars /\ Fairness

-----------------------------------------------------------------------------
(* Properties *)

\* A task in user mode runs with its own page table loaded, and if its address space
\* has one user, the TLB holds no stale entry of it: neither a fault handled on
\* another CPU nor a fork leaves one behind, though only the local TLB is ever
\* flushed and the task may move between two steps (mmu.c:59, mmu.c:180, cow.c:54).
UserSeesItsTable ==
  /\ TypeOK
  /\ \A c \in CpuIndex : At(c, "user") =>
       LET m == mmu_of(cur[c])
       IN  cr3[c] = m /\ (mm[m].users = 1 => tlb[c] \in {NotPresent, mm[m].pte})

\* page_fault_handler panics when the page is not copy on write.  A process with one
\* thread never gets there by writing to its page; threads do, through entries that
\* the fault of another thread left in their TLB (exceptions.c:65).
PanicOnlyShared ==
  \A t \in Task : task[t].at = "panic" => mm[mmu_of(t)].users > 1

\* "Keep track of which CPUs are currently using the MMU" (mmu.c:49): outside a
\* context switch, the set of an address space holds the CPUs that have it loaded.
\* The code violates it: mmu_switch enters the CPU into the set it leaves.
CpusetTracks ==
  \A c \in CpuIndex :
    switch[c].at = "no" /\ (cur[c] = Idle \/ At(c, "user")) =>
      (cpuset_query_id(mm[init].cpus, c) <=> cr3[c] = init)
=============================================================================
