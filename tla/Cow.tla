-------------------------------- MODULE Cow ---------------------------------
(***************************************************************************)
(* Copy on write: fork shares the pages of the parent (kernel/mm/mmu.c,    *)
(* cow_copy_pte in kernel/mm/cow.c), a write fault gives a process a page  *)
(* of its own (cow_handle_write), and exit drops the pages (mmu_reap,      *)
(* cow_handle_free).  Processes run at the same time on different CPUs;    *)
(* each has one thread, so its page table entries and its pgtab_lock are   *)
(* its own, and what processes share is the reference count, the lock and  *)
(* the contents of a page.  A step is one access to these.                 *)
(*                                                                         *)
(* A slot is a virtual page that is mapped writable at first (the stack    *)
(* pages of task_execve); the pages that hold page tables are left out.    *)
(* pmm_alloc_order and pmm_free_order are atomic (zone_list_lock) and take *)
(* any free frame.                                                         *)
(***************************************************************************)
EXTENDS Integers, FiniteSets

CONSTANTS
  Proc,   \* address spaces with their only thread
  Slot,   \* virtual pages
  Frame,  \* page frames
  Val,    \* contents of a page
  first   \* the process that task_execve has set up

ASSUME FrameAssumption ==
  /\ IsFiniteSet(Proc) /\ IsFiniteSet(Slot) /\ Slot # {}
  /\ IsFiniteSet(Frame) /\ Cardinality(Frame) >= Cardinality(Proc) * Cardinality(Slot)
  /\ first \in Proc
  /\ "none" \notin Proc \cup Frame

VARIABLES
  pte,       \* for each process and slot the page table entry
  refcount,  \* page_data[f].refcount
  lock,      \* page_data[f].lock: the process that holds it
  free,      \* the frames of the page allocator
  mem,       \* contents of the frames
  op,        \* what the process is doing: "none" (no process), "user", or a
             \* step of fork, of a write fault, or of exit
  todo,      \* the slots the loop of fork or exit has not done
  page,      \* the page of a write fault
  child      \* the process a fork makes

vars == <<pte, refcount, lock, free, mem, op, todo, page, child>>

None == "none"
Empty == [frame |-> None, cow |-> FALSE, writable |-> FALSE]
Pte == {Empty} \cup [frame : Frame, cow : BOOLEAN, writable : BOOLEAN]
Steps == {"none", "born", "user", "clone", "inc", "lock", "dec", "copy", "unlock",
          "reap", "free"}

TypeOK ==
  /\ pte \in [Proc -> [Slot -> Pte]]
  /\ refcount \in [Frame -> 0..(2 * Cardinality(Proc) * Cardinality(Slot))]
  /\ lock \in [Frame -> Proc \cup {None}]
  /\ free \subseteq Frame
  /\ mem \in [Frame -> Val]
  /\ op \in [Proc -> Steps]
  /\ todo \in [Proc -> SUBSET Slot]
  /\ page \in [Proc -> Frame \cup {None}]
  /\ child \in [Proc -> Proc \cup {None}]

\* After task_execve of the first process: two pages for its stack.
Init ==
  \E f \in [Slot -> Frame], v \in Val :
    /\ \A s, t \in Slot : s # t => f[s] # f[t]
    /\ pte = [p \in Proc |-> [s \in Slot |->
                IF p = first THEN [frame |-> f[s], cow |-> FALSE, writable |-> TRUE]
                ELSE Empty]]
    /\ refcount = [g \in Frame |-> 0]
    /\ lock = [g \in Frame |-> None]
    /\ free = Frame \ {f[s] : s \in Slot}
    /\ mem = [g \in Frame |-> v]
    /\ op = [p \in Proc |-> IF p = first THEN "user" ELSE "none"]
    /\ todo = [p \in Proc |-> {}]
    /\ page = [p \in Proc |-> None]
    /\ child = [p \in Proc |-> None]

\* The slot p is at: loops visit the slots in a fixed order.
Cur(p) == CHOOSE s \in todo[p] : TRUE
CurFrame(p) == pte[p][Cur(p)].frame

-----------------------------------------------------------------------------

\* Mutant: the last reference but one is taken for the last.
last_reference_but_one(n) == n = 1

last_reference(n) == n = 0

\* The process writes to a page that is mapped writable.
Store(p, s, v) ==
  /\ op[p] = "user" /\ pte[p][s].writable
  /\ mem' = [mem EXCEPT ![pte[p][s].frame] = v]
  /\ UNCHANGED <<pte, refcount, lock, free, op, todo, page, child>>

-----------------------------------------------------------------------------
(* fork: mmu_alloc, and mmu_clone_cow under the parent's pgtab_lock. *)

task_fork(p, c) ==
  /\ op[p] = "user" /\ op[c] = "none"
  /\ op' = [op EXCEPT ![p] = "clone", ![c] = "born"]
  /\ todo' = [todo EXCEPT ![p] = Slot]
  /\ child' = [child EXCEPT ![p] = c]
  /\ UNCHANGED <<pte, refcount, lock, free, mem, page>>

\* Mutant: the parent's own reference is not counted.
cow_copy_pte_mark_uncounted(p) ==
  /\ pte' = [pte EXCEPT ![p][Cur(p)].writable = FALSE, ![p][Cur(p)].cow = TRUE]
  /\ UNCHANGED refcount

\* "Make page read-only and CoW if it isn't already".
cow_copy_pte_mark(p) ==
  IF pte[p][Cur(p)].cow THEN UNCHANGED <<pte, refcount>>
  ELSE /\ pte' = [pte EXCEPT ![p][Cur(p)].writable = FALSE, ![p][Cur(p)].cow = TRUE]
       /\ refcount' = [refcount EXCEPT ![CurFrame(p)] = @ + 1]

clone_single_page(p) ==
  /\ op[p] = "clone" /\ todo[p] # {}
  /\ cow_copy_pte_mark(p)
  /\ op' = [op EXCEPT ![p] = "inc"]
  /\ UNCHANGED <<lock, free, mem, todo, page, child>>

\* The child's reference, and the copy of the entry.
cow_copy_pte(p) ==
  /\ op[p] = "inc"
  /\ refcount' = [refcount EXCEPT ![CurFrame(p)] = @ + 1]
  /\ pte' = [pte EXCEPT ![child[p]][Cur(p)] = pte[p][Cur(p)]]
  /\ todo' = [todo EXCEPT ![p] = @ \ {Cur(p)}]
  /\ op' = [op EXCEPT ![p] = "clone"]
  /\ UNCHANGED <<lock, free, mem, page, child>>

\* The lock is released and the child is woken up.
fork_end(p) ==
  /\ op[p] = "clone" /\ todo[p] = {}
  /\ op' = [op EXCEPT ![p] = "user", ![child[p]] = "user"]
  /\ child' = [child EXCEPT ![p] = None]
  /\ UNCHANGED <<pte, refcount, lock, free, mem, todo, page>>

-----------------------------------------------------------------------------
(* A write fault. *)

page_fault_handler(p, s) ==
  /\ op[p] = "user" /\ ~pte[p][s].writable /\ pte[p][s].cow
  /\ op' = [op EXCEPT ![p] = "lock"]
  /\ todo' = [todo EXCEPT ![p] = {s}]
  /\ page' = [page EXCEPT ![p] = pte[p][s].frame]
  /\ UNCHANGED <<pte, refcount, lock, free, mem, child>>

\* Mutant: the page lock is not taken.
cow_spin_lock_none(f, p) == UNCHANGED lock

cow_spin_lock(f, p) == lock[f] = None /\ lock' = [lock EXCEPT ![f] = p]

cow_handle_write_lock(p) ==
  /\ op[p] = "lock"
  /\ cow_spin_lock(page[p], p)
  /\ op' = [op EXCEPT ![p] = "dec"]
  /\ UNCHANGED <<pte, refcount, free, mem, todo, page, child>>

cow_handle_write_dec(p) ==
  /\ op[p] = "dec"
  /\ refcount' = [refcount EXCEPT ![page[p]] = @ - 1]
  /\ op' = [op EXCEPT ![p] = IF last_reference(refcount'[page[p]]) THEN "unlock" ELSE "copy"]
  /\ UNCHANGED <<pte, lock, free, mem, todo, page, child>>

cow_handle_write_copy(p, d) ==
  /\ op[p] = "copy" /\ d \in free
  /\ free' = free \ {d}
  /\ mem' = [mem EXCEPT ![d] = mem[page[p]]]
  /\ pte' = [pte EXCEPT ![p][Cur(p)].frame = d]
  /\ op' = [op EXCEPT ![p] = "unlock"]
  /\ UNCHANGED <<refcount, lock, todo, page, child>>

\* Mutant: the lock of the page that is mapped now is released.
cow_spin_unlock_new(p) == lock' = [lock EXCEPT ![CurFrame(p)] = None]

cow_spin_unlock(p) == lock' = [lock EXCEPT ![page[p]] = None]

cow_handle_write_unlock(p) ==
  /\ op[p] = "unlock"
  /\ cow_spin_unlock(p)
  /\ pte' = [pte EXCEPT ![p][Cur(p)].cow = FALSE, ![p][Cur(p)].writable = TRUE]
  /\ op' = [op EXCEPT ![p] = "user"]
  /\ todo' = [todo EXCEPT ![p] = {}]
  /\ page' = [page EXCEPT ![p] = None]
  /\ UNCHANGED <<refcount, free, mem, child>>

-----------------------------------------------------------------------------
(* exit: mmu_reap *)

task_exit(p) ==
  /\ op[p] = "user"
  /\ op' = [op EXCEPT ![p] = "reap"]
  /\ todo' = [todo EXCEPT ![p] = Slot]
  /\ UNCHANGED <<pte, refcount, lock, free, mem, page, child>>

\* The entry of the loop is cleared and the loop goes on.
Cleared(p) ==
  /\ pte' = [pte EXCEPT ![p][Cur(p)] = Empty]
  /\ todo' = [todo EXCEPT ![p] = @ \ {Cur(p)}]

\* A page that is not shared is freed; the count of one that is drops, and it
\* is freed with the last reference.
free_single_page(p) ==
  LET f == CurFrame(p)
      cow == pte[p][Cur(p)].cow
  IN /\ op[p] = "reap" /\ todo[p] # {}
     /\ refcount' = IF cow THEN [refcount EXCEPT ![f] = @ - 1] ELSE refcount
     /\ IF ~cow \/ last_reference(refcount'[f])
        THEN op' = [op EXCEPT ![p] = "free"] /\ UNCHANGED <<pte, todo>>
        ELSE Cleared(p) /\ UNCHANGED op
     /\ UNCHANGED <<lock, free, mem, page, child>>

pmm_free_page(p) ==
  /\ op[p] = "free"
  /\ free' = free \cup {CurFrame(p)}
  /\ Cleared(p)
  /\ op' = [op EXCEPT ![p] = "reap"]
  /\ UNCHANGED <<refcount, lock, mem, page, child>>

mmu_reap_end(p) ==
  /\ op[p] = "reap" /\ todo[p] = {}
  /\ op' = [op EXCEPT ![p] = "none"]
  /\ UNCHANGED <<pte, refcount, lock, free, mem, todo, page, child>>

-----------------------------------------------------------------------------

\* A write fault drops its reference before it copies the page, and exit does
\* not take the page lock: exit may free the page meanwhile ("This might be a
\* race condition", cow.c).  The page may be anybody's then; the model stops.
FreedWhileCopied == \E p \in Proc : op[p] = "copy" /\ page[p] \in free

Step(p) ==
  \/ \E c \in Proc : task_fork(p, c)
  \/ clone_single_page(p) \/ cow_copy_pte(p) \/ fork_end(p)
  \/ \E s \in Slot : page_fault_handler(p, s)
  \/ cow_handle_write_lock(p) \/ cow_handle_write_dec(p)
  \/ \E d \in Frame : cow_handle_write_copy(p, d)
  \/ cow_handle_write_unlock(p)
  \/ task_exit(p) \/ free_single_page(p) \/ pmm_free_page(p) \/ mmu_reap_end(p)

Next == /\ ~FreedWhileCopied
        /\ \E p \in Proc : Step(p) \/ \E s \in Slot, v \in Val : Store(p, s, v)

Spec == Init /\ [][Next]_vars

\* Kernel code that has begun keeps running.
FairSpec ==
  Spec /\ \A p \in Proc : WF_vars(~FreedWhileCopied /\ op[p] # "user" /\ Step(p))

-----------------------------------------------------------------------------
(***************************************************************************)
(* Properties.                                                             *)
(***************************************************************************)

Entries(f) == {e \in Proc \X Slot : pte[e[1]][e[2]].frame = f}

\* The entry at which its process has just dropped the count.
Dropped(e) == /\ op[e[1]] \in {"copy", "unlock", "free"} /\ e[2] = Cur(e[1])
Counting(f) == {e \in Entries(f) : pte[e[1]][e[2]].cow /\ ~Dropped(e)}

\* The reference count of a page is the number of entries that are marked copy
\* on write and have not given up their reference, and a page that somebody may
\* write to without a fault is mapped only there.
Counted ==
  /\ TypeOK
  /\ \A f \in Frame : refcount[f] = Cardinality(Counting(f))
  /\ \A p \in Proc, s \in Slot : pte[p][s].writable =>
       Entries(pte[p][s].frame) = {<<p, s>>}

\* No frame is lost, and none is free and mapped: until a page is freed while
\* a write fault copies it, the allocator has exactly the frames no entry maps.
FramesAccounted ==
  ~FreedWhileCopied => free = {f \in Frame : Entries(f) = {}}

\* Sharing pages is not visible: each process sees its own memory, a copy of
\* its parent's at the time of the fork, changed by nobody else.
Contents(p) == IF op[p] \in {"none", "born", "reap", "free"} THEN <<>>
               ELSE [s \in Slot |-> mem[pte[p][s].frame]]
Promise == INSTANCE PrivateMemory WITH memory <- [p \in Proc |-> Contents(p)]
Implements == Promise!Spec

\* A page lock is not held for ever.
LockReleased == \A f \in Frame : [](lock[f] # None => <>(lock[f] = None \/ FreedWhileCopied))
=============================================================================
