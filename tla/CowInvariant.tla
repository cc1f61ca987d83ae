---------------------------- MODULE CowInvariant ----------------------------
(***************************************************************************)
(* The inductive invariant of copy on write, for any processes, slots,     *)
(* frames and contents: stores and faults preserve it, and so does exit    *)
(* until it gives a page back.  From it follows what each step does to the *)
(* memory that the processes see.                                          *)
(*                                                                         *)
(* The reference count alone does not tell who maps a page: a process that *)
(* has dropped its reference still maps the page until it has copied or    *)
(* freed it.  The invariant says for each of these moments who else may    *)
(* map the page (Alone).                                                   *)
(***************************************************************************)
EXTENDS Cow, FiniteSetTheorems, TLAPS

Faulting == {"lock", "dec", "copy", "unlock"}
\* The steps at which every slot of a process is mapped.
Whole == {"user", "clone", "inc"} \cup Faulting

\* The types, with a count that may be any integer.
Types ==
  /\ pte \in [Proc -> [Slot -> Pte]]
  /\ refcount \in [Frame -> Int]
  /\ lock \in [Frame -> Proc \cup {None}]
  /\ free \in SUBSET Frame
  /\ mem \in [Frame -> Val]
  /\ op \in [Proc -> Steps]
  /\ todo \in [Proc -> SUBSET Slot]
  /\ page \in [Proc -> Frame \cup {None}]
  /\ child \in [Proc -> Proc \cup {None}]

\* What the entries and the loop of a process are at each of its steps.
Shape(p) ==
  /\ op[p] \in Whole => \A s \in Slot : pte[p][s] # Empty
  /\ op[p] = "none" => \A s \in Slot : pte[p][s] = Empty
  /\ \A s \in Slot : pte[p][s] # Empty => (pte[p][s].writable <=> ~pte[p][s].cow)
  /\ op[p] \in {"none", "born", "user"} => todo[p] = {}
  /\ op[p] \in Faulting => \E s \in Slot : todo[p] = {s} /\ pte[p][s].cow
  /\ op[p] \in {"inc", "free"} => todo[p] # {}
  /\ op[p] = "inc" => pte[p][Cur(p)].cow
  /\ op[p] \in {"reap", "free"} => \A s \in Slot : pte[p][s] # Empty <=> s \in todo[p]
Shapes == \A p \in Proc : Shape(p)

\* A fork has copied the entries its loop is through with, to a child of its own.
Fork(p) ==
  /\ op[p] \notin {"clone", "inc"} => child[p] = None
  /\ op[p] \in {"clone", "inc"} =>
       /\ child[p] \in Proc /\ op[child[p]] = "born"
       /\ \A s \in Slot : pte[child[p]][s] = IF s \in todo[p] THEN Empty ELSE pte[p][s]
       /\ \A s \in Slot \ todo[p] : pte[p][s].cow
Forks ==
  /\ \A p \in Proc : Fork(p)
  /\ \A p, q \in Proc : child[p] = child[q] => p = q \/ child[p] = None

\* The page of a write fault and its lock.
Fault(p) ==
  /\ op[p] \in {"lock", "dec", "copy"} => page[p] = CurFrame(p)
  /\ op[p] \in {"dec", "copy", "unlock"} => page[p] \in Frame /\ lock[page[p]] = p
Faults == \A p \in Proc : Fault(p)

\* Nobody else maps a page that an entry lets its process write to ...
WriterAlone ==
  \A p, q \in Proc, s, t \in Slot :
    pte[p][s].writable /\ pte[q][t].frame = pte[p][s].frame => q = p /\ t = s
\* ... or that a write fault is about to make writable, ...
UnlockAlone ==
  \A p, q \in Proc, t \in Slot :
    op[p] = "unlock" /\ pte[q][t].frame = CurFrame(p) => q = p /\ t = Cur(p)
\* ... and a page that exit is about to free only write faults that copy it map.
FreeAlone ==
  \A p, q \in Proc, t \in Slot :
    op[p] = "free" /\ pte[q][t].frame = CurFrame(p) => (q = p \/ op[q] = "copy") /\ t = Cur(q)
\* A page that is copied has another entry, or has been freed.
CopyShared ==
  \A p \in Proc : op[p] = "copy" /\ page[p] \notin free =>
    \E q \in Proc, t \in Slot : pte[q][t].frame = page[p] /\ ~(q = p /\ t = Cur(p))
Alone == WriterAlone /\ UnlockAlone /\ FreeAlone /\ CopyShared

\* The count of a page is the number of entries that count.
Refs == \A f \in Frame : refcount[f] = Cardinality(Counting(f))

\* The free frames are those that no entry maps.
Frames == ~FreedWhileCopied =>
            \A f \in Frame : f \in free <=> \A p \in Proc, s \in Slot : pte[p][s].frame # f

IInv == Types /\ Shapes /\ Forks /\ Faults /\ Alone /\ Refs /\ Frames

-----------------------------------------------------------------------------

\* A page table entry is empty or maps a frame.
LEMMA PteFacts ==
  ASSUME Types, NEW p \in Proc, NEW s \in Slot
  PROVE  /\ pte[p][s] \in Pte
         /\ pte[p][s].cow \in BOOLEAN /\ pte[p][s].writable \in BOOLEAN
         /\ pte[p][s] # Empty <=> pte[p][s].frame \in Frame
         /\ pte[p][s] = Empty => ~pte[p][s].cow /\ ~pte[p][s].writable /\ pte[p][s].frame = None
<1>1. pte[p][s] \in Pte
  BY DEF Types
<1>2. None \notin Frame
  BY FrameAssumption DEF None
<1>3. CASE pte[p][s] = Empty
  BY <1>1, <1>2, <1>3 DEF Empty
<1>4. CASE pte[p][s] \in [frame : Frame, cow : BOOLEAN, writable : BOOLEAN]
  BY <1>1, <1>2, <1>4 DEF Empty
<1> QED
  BY <1>1, <1>3, <1>4 DEF Pte

\* The slot a loop is at is one of those it has to do.
LEMMA CurIn ==
  ASSUME Types, NEW p \in Proc, todo[p] # {}
  PROVE  Cur(p) \in todo[p] /\ Cur(p) \in Slot
<1>1. \E s : s \in todo[p]
  OBVIOUS
<1>2. todo[p] \subseteq Slot
  BY DEF Types
<1> QED
  BY <1>1, <1>2 DEF Cur

\* In a write fault it is the slot of the fault.
LEMMA CurOne ==
  ASSUME NEW p, NEW s, todo[p] = {s}
  PROVE  Cur(p) = s
BY DEF Cur

\* A write fault is at the entry it is about.
LEMMA FaultCur ==
  ASSUME IInv, NEW p \in Proc, op[p] \in Faulting
  PROVE  /\ Cur(p) \in Slot /\ todo[p] = {Cur(p)}
         /\ pte[p][Cur(p)].cow /\ CurFrame(p) \in Frame
<1>1. PICK s \in Slot : todo[p] = {s} /\ pte[p][s].cow
  BY DEF IInv, Shapes, Shape
<1>2. Cur(p) = s
  BY Zenon, <1>1, CurOne
<1> QED
  BY <1>1, <1>2, PteFacts DEF IInv, CurFrame

\* The entry at slot s of process p counts for frame f.
Counts(p, s, f) ==
  /\ pte[p][s].frame = f
  /\ pte[p][s].cow
  /\ ~(op[p] \in {"copy", "unlock", "free"} /\ s = Cur(p))

\* Counting, in terms of Counts.
LEMMA CountingIn ==
  ASSUME NEW f
  PROVE  Counting(f) = {e \in Proc \X Slot : Counts(e[1], e[2], f)}
BY DEF Counting, Entries, Dropped, Counts

\* There are finitely many entries.
LEMMA CountingFinite ==
  ASSUME NEW f
  PROVE  /\ IsFiniteSet(Counting(f))
         /\ Cardinality(Counting(f)) \in 0..(Cardinality(Proc) * Cardinality(Slot))
<1>1. IsFiniteSet(Proc \X Slot) /\ Cardinality(Proc \X Slot) = Cardinality(Proc) * Cardinality(Slot)
  BY FrameAssumption, FS_Product
<1>2. Counting(f) \in SUBSET (Proc \X Slot)
  BY CountingIn
<1> QED
  BY <1>1, <1>2, FS_Subset, FS_CardinalityType

\* A step after which the same entries count keeps the number.
LEMMA CountSame ==
  ASSUME NEW f, \A q \in Proc, t \in Slot : Counts(q, t, f)' <=> Counts(q, t, f)
  PROVE  Cardinality(Counting(f))' = Cardinality(Counting(f))
<1>1. Counting(f)' = {e \in Proc \X Slot : Counts(e[1], e[2], f)'}
  BY CountingIn DEF Counting, Entries, Dropped, Counts
<1>2. Counting(f)' = Counting(f)
  BY <1>1, CountingIn
<1> QED
  BY <1>2

\* A step after which one more entry counts adds one.
LEMMA CountAdd ==
  ASSUME NEW f, NEW p \in Proc, NEW s \in Slot, ~Counts(p, s, f),
         \A q \in Proc, t \in Slot : Counts(q, t, f)' <=> Counts(q, t, f) \/ (q = p /\ t = s)
  PROVE  Cardinality(Counting(f))' = Cardinality(Counting(f)) + 1
<1>1. Counting(f)' = {e \in Proc \X Slot : Counts(e[1], e[2], f)'}
  BY DEF Counting, Entries, Dropped, Counts
<1>2. Counting(f)' = Counting(f) \cup {<<p, s>>} /\ <<p, s>> \notin Counting(f)
  BY <1>1, CountingIn
<1> QED
  BY Zenon, <1>2, CountingFinite, FS_AddElement

\* A step after which one entry fewer counts takes one away.
LEMMA CountDrop ==
  ASSUME NEW f, NEW p \in Proc, NEW s \in Slot, Counts(p, s, f),
         \A q \in Proc, t \in Slot : Counts(q, t, f)' <=> Counts(q, t, f) /\ ~(q = p /\ t = s)
  PROVE  Cardinality(Counting(f))' = Cardinality(Counting(f)) - 1
<1>1. Counting(f)' = {e \in Proc \X Slot : Counts(e[1], e[2], f)'}
  BY DEF Counting, Entries, Dropped, Counts
<1>2. Counting(f)' = Counting(f) \ {<<p, s>>} /\ <<p, s>> \in Counting(f)
  BY <1>1, CountingIn
<1> QED
  BY SMTT(30), <1>2, CountingFinite, FS_RemoveElement

\* A count of 0 means that no entry counts, and the other way round.
LEMMA ZeroCount ==
  ASSUME NEW C \in SUBSET (Proc \X Slot)
  PROVE  Cardinality(C) = 0 <=> \A q \in Proc, t \in Slot : <<q, t>> \notin C
<1>1. IsFiniteSet(C)
  BY Zenon, FrameAssumption, FS_Product, FS_Subset
<1>2. Cardinality(C) = 0 <=> C = {}
  BY <1>1, FS_EmptySet
<1>3. C = {} <=> \A q \in Proc, t \in Slot : <<q, t>> \notin C
  OBVIOUS
<1> QED
  BY <1>2, <1>3

\* The same for the state after a step.
LEMMA CountZeroNext ==
  ASSUME NEW f
  PROVE  Cardinality(Counting(f))' = 0 <=> \A q \in Proc, t \in Slot : ~Counts(q, t, f)'
<1>1. Counting(f)' = {e \in Proc \X Slot : Counts(e[1], e[2], f)'}
  BY DEF Counting, Entries, Dropped, Counts
<1>2. \A q \in Proc, t \in Slot : <<q, t>> \in Counting(f)' <=> Counts(q, t, f)'
  BY <1>1
<1>3. Counting(f)' \in SUBSET (Proc \X Slot)
  BY <1>1
<1> QED
  BY Zenon, <1>2, <1>3, ZeroCount

-----------------------------------------------------------------------------
(* What a step does to the memory a process sees. *)

\* The steps at which a process has no memory of its own.
Gone == {"none", "born", "reap", "free"}
View == [p \in Proc |-> Contents(p)]

\* What a process sees, and that it is something.
LEMMA ContentsFacts ==
  ASSUME NEW p
  PROVE  /\ op[p] \in Gone => Contents(p) = <<>>
         /\ op[p] \notin Gone => /\ Contents(p) = [s \in Slot |-> mem[pte[p][s].frame]]
                                 /\ Contents(p) # <<>>
<1>1. op[p] \in Gone => Contents(p) = <<>>
  BY DEF Gone, Contents
<1>2. op[p] \notin Gone => Contents(p) = [s \in Slot |-> mem[pte[p][s].frame]]
  BY DEF Gone, Contents
<1>3. [s \in Slot |-> mem[pte[p][s].frame]] # <<>>
  <2>1. DOMAIN [s \in Slot |-> mem[pte[p][s].frame]] = Slot
    OBVIOUS
  <2>2. DOMAIN <<>> = {}
    OBVIOUS
  <2> QED
    BY <2>1, <2>2, FrameAssumption
<1> QED
  BY <1>1, <1>2, <1>3

\* What a process sees is not changed when its pages move or are shared.
LEMMA SameContents ==
  ASSUME NEW q, op'[q] \in Gone <=> op[q] \in Gone,
         op[q] \notin Gone =>
           \A t \in Slot : mem'[pte'[q][t].frame] = mem[pte[q][t].frame]
  PROVE  Contents(q)' = Contents(q)
BY DEF Contents, Gone

\* A store is seen by the process that makes it, and by no other.
LEMMA StoreRefines ==
  ASSUME IInv, NEW p \in Proc, NEW s \in Slot, NEW v \in Val, Store(p, s, v)
  PROVE  Promise!Store(p, s, v)
<1>1. PICK f : f = pte[p][s].frame
  OBVIOUS
<1>2. /\ op[p] = "user" /\ pte[p][s].writable /\ f \in Frame
      /\ mem' = [mem EXCEPT ![f] = v] /\ pte' = pte /\ op' = op
  BY <1>1, PteFacts DEF Store, IInv
<1>3. \A q \in Proc, t \in Slot : pte[q][t].frame = f => q = p /\ t = s
  BY <1>1, <1>2 DEF IInv, Alone, WriterAlone
<1>4. \A g : g # f => mem'[g] = mem[g]
  BY <1>2 DEF IInv, Types
<1>5. \A q \in Proc : q # p => Contents(q)' = Contents(q)
  BY <1>2, <1>3, <1>4, SameContents
<1>6. Contents(p)' = [Contents(p) EXCEPT ![s] = v]
  <2>1. /\ Contents(p) = [t \in Slot |-> mem[pte[p][t].frame]]
        /\ Contents(p)' = [t \in Slot |-> mem'[pte[p][t].frame]]
    BY <1>2 DEF Contents
  <2>2. mem'[pte[p][s].frame] = v
    BY <1>1, <1>2 DEF IInv, Types
  <2>3. \A t \in Slot : t # s => mem'[pte[p][t].frame] = mem[pte[p][t].frame]
    BY <1>3, <1>4
  <2> QED
    BY <2>1, <2>2, <2>3
<1>7. View' = [View EXCEPT ![p][s] = v]
  BY Zenon, <1>5, <1>6 DEF View
<1>8. View[p] # <<>>
  BY <1>2, ContentsFacts DEF View, Gone
<1> QED
  BY <1>7, <1>8 DEF Promise!Store, Promise!Alive, View

\* At the end of fork the child sees what its parent sees.
LEMMA ForkRefines ==
  ASSUME IInv, NEW p \in Proc, fork_end(p)
  PROVE  \E c \in Proc : Promise!Fork(p, c)
<1>1. PICK c \in Proc : c = child[p] /\ op[c] = "born" /\ \A s \in Slot : pte[c][s] = pte[p][s]
  BY DEF fork_end, IInv, Forks, Fork
<1>2. /\ op[p] = "clone" /\ op' = [op EXCEPT ![p] = "user", ![c] = "user"]
      /\ pte' = pte /\ mem' = mem
  BY <1>1 DEF fork_end
<1>3. \A q \in Proc : q # c => Contents(q)' = Contents(q)
  BY Zenon, <1>2, SameContents DEF IInv, Types, Gone
<1>4. Contents(c)' = Contents(p)
  BY <1>1, <1>2 DEF Contents, IInv, Types
<1>5. View' = [View EXCEPT ![c] = View[p]]
  BY Zenon, <1>3, <1>4 DEF View
<1>6. View[p] # <<>> /\ View[c] = <<>>
  BY <1>1, <1>2, ContentsFacts DEF View, Gone
<1>7. Promise!Fork(p, c)
  BY <1>5, <1>6 DEF Promise!Fork, Promise!Alive, View
<1> QED
  BY <1>7

\* When exit begins the process and its memory are gone.
LEMMA ExitRefines ==
  ASSUME IInv, NEW p \in Proc, task_exit(p)
  PROVE  Promise!Exit(p)
<1>1. /\ op[p] = "user" /\ op' = [op EXCEPT ![p] = "reap"] /\ pte' = pte /\ mem' = mem
  BY DEF task_exit
<1>2. \A q \in Proc : q # p => Contents(q)' = Contents(q)
  BY <1>1, SameContents DEF IInv, Types, Gone
<1>3. Contents(p)' = <<>>
  BY <1>1 DEF Contents, IInv, Types
<1>4. View' = [View EXCEPT ![p] = <<>>]
  BY Zenon, <1>2, <1>3 DEF View
<1>5. View[p] # <<>>
  BY <1>1, ContentsFacts DEF View, Gone
<1> QED
  BY <1>4, <1>5 DEF Promise!Exit, Promise!Alive, View

\* The other steps of the kernel are not seen.
LEMMA HiddenStep ==
  ASSUME IInv, ~FreedWhileCopied, NEW p \in Proc, Step(p), ~fork_end(p), ~task_exit(p)
  PROVE  View' = View
<1> SUFFICES ASSUME NEW q \in Proc PROVE Contents(q)' = Contents(q)
  BY DEF View
<1>1. CASE \E c \in Proc : task_fork(p, c)
  BY SMTT(30), <1>1, SameContents DEF task_fork, IInv, Types, Gone
<1>2. CASE clone_single_page(p)
  <2>1. op' = [op EXCEPT ![p] = "inc"] /\ op[p] = "clone" /\ mem' = mem
    BY <1>2 DEF clone_single_page
  <2>2. \A t \in Slot : pte'[q][t].frame = pte[q][t].frame
    <3>1. PICK s : s = Cur(p)
      OBVIOUS
    <3>2. \/ pte' = pte
          \/ pte' = [pte EXCEPT ![p][s].writable = FALSE, ![p][s].cow = TRUE]
      BY Zenon, <1>2, <3>1 DEF clone_single_page, cow_copy_pte_mark
    <3>3. s \in Slot /\ pte[p][s] # Empty
      BY <1>2, <3>1, CurIn DEF clone_single_page, IInv, Shapes, Shape, Whole
    <3>4. pte[p][s] \in [frame : Frame, cow : BOOLEAN, writable : BOOLEAN]
      BY <3>3, PteFacts DEF IInv, Pte
    <3>5. pte \in [Proc -> [Slot -> Pte]]
      BY DEF IInv, Types
    <3>6. CASE pte' = pte
      BY <3>6
    <3>7. CASE pte' = [pte EXCEPT ![p][s].writable = FALSE, ![p][s].cow = TRUE]
      <4>1. pte'[p][s].frame = pte[p][s].frame
        BY <3>3, <3>4, <3>5, <3>7, Zenon
      <4>2. ASSUME NEW t \in Slot, q # p \/ t # s PROVE pte'[q][t] = pte[q][t]
        BY <3>5, <3>7, <4>2
      <4> QED
        BY <4>1, <4>2
    <3> QED
      BY Zenon, <3>2, <3>6, <3>7
  <2> QED
    BY <2>1, <2>2, SameContents DEF IInv, Types, Gone
<1>3. CASE cow_copy_pte(p)
  <2>1. op' = [op EXCEPT ![p] = "clone"] /\ op[p] = "inc" /\ mem' = mem
        /\ op[child[p]] = "born" /\ pte' = [pte EXCEPT ![child[p]][Cur(p)] = pte[p][Cur(p)]]
    BY <1>3 DEF cow_copy_pte, IInv, Forks, Fork
  <2>2. op[q] # "born" => pte'[q] = pte[q]
    BY <2>1 DEF IInv, Types
  <2> QED
    BY <2>1, <2>2, SameContents DEF IInv, Types, Gone
<1>4. CASE \E s \in Slot : page_fault_handler(p, s)
  BY SMTT(30), <1>4, SameContents DEF page_fault_handler, IInv, Types, Gone
<1>5. CASE cow_handle_write_lock(p)
  BY <1>5, SameContents DEF cow_handle_write_lock, IInv, Types, Gone
<1>6. CASE cow_handle_write_dec(p)
  BY SMTT(30), <1>6, SameContents DEF cow_handle_write_dec, IInv, Types, Gone
<1>7. ASSUME NEW d \in Frame, cow_handle_write_copy(p, d) PROVE Contents(q)' = Contents(q)
  <2>1. PICK s : s = Cur(p)
    OBVIOUS
  <2>2. /\ op[p] = "copy" /\ d \in free /\ mem' = [mem EXCEPT ![d] = mem[page[p]]]
        /\ pte' = [pte EXCEPT ![p][s].frame = d] /\ op' = [op EXCEPT ![p] = "unlock"]
    BY <1>7, <2>1 DEF cow_handle_write_copy
  <2>3. s \in Slot /\ pte[p][s].frame = page[p]
    BY <2>1, <2>2, FaultCur DEF Faulting, IInv, Faults, Fault, CurFrame
  <2>4. \A t \in Slot : pte[q][t].frame # d
    BY <2>2 DEF IInv, Frames
  <2>5. /\ \A t \in Slot : ~(q = p /\ t = s) => pte'[q][t] = pte[q][t]
        /\ mem'[d] = mem[page[p]] /\ \A g : g # d => mem'[g] = mem[g]
    BY <2>2 DEF IInv, Types
  <2>6. pte'[p][s].frame = d
    <3>1. pte[p][s] # Empty /\ pte[p][s] \in Pte
      BY <2>1, <2>2, <2>3, FaultCur, PteFacts DEF Faulting, IInv
    <3>2. pte[p][s] \in [frame : Frame, cow : BOOLEAN, writable : BOOLEAN]
      BY <3>1 DEF Pte
    <3> QED
      BY <2>2, <2>3, <3>2 DEF IInv, Types
  <2>7. \A t \in Slot : mem'[pte'[q][t].frame] = mem[pte[q][t].frame]
    BY <2>3, <2>4, <2>5, <2>6
  <2> QED
    BY SMTT(30), <2>2, <2>7, SameContents DEF IInv, Types, Gone
<1>8. CASE cow_handle_write_unlock(p)
  <2>1. op' = [op EXCEPT ![p] = "user"] /\ op[p] = "unlock" /\ mem' = mem
    BY <1>8 DEF cow_handle_write_unlock
  <2>2. PICK s : s = Cur(p)
    OBVIOUS
  <2>3. s \in Slot /\ pte[p][s] \in [frame : Frame, cow : BOOLEAN, writable : BOOLEAN]
    BY <2>1, <2>2, FaultCur, PteFacts DEF Faulting, IInv, Pte, CurFrame
  <2>4. pte' = [pte EXCEPT ![p][s].cow = FALSE, ![p][s].writable = TRUE]
    BY <1>8, <2>2 DEF cow_handle_write_unlock
  <2>5. \A t \in Slot : pte'[q][t].frame = pte[q][t].frame
    BY <2>3, <2>4 DEF IInv, Types
  <2> QED
    BY <2>1, <2>5, SameContents DEF IInv, Types, Gone
<1>9. CASE free_single_page(p)
  <2>1. /\ op[p] = "reap" /\ mem' = mem
        /\ op' = op \/ op' = [op EXCEPT ![p] = "free"]
        /\ pte' = pte \/ pte' = [pte EXCEPT ![p][Cur(p)] = Empty]
    BY <1>9 DEF free_single_page, Cleared
  <2>2. q # p => pte'[q] = pte[q]
    BY <2>1 DEF IInv, Types
  <2> QED
    BY <2>1, <2>2, SameContents DEF IInv, Types, Gone
<1>10. CASE pmm_free_page(p)
  <2>1. /\ op[p] = "free" /\ mem' = mem /\ op' = [op EXCEPT ![p] = "reap"]
        /\ pte' = [pte EXCEPT ![p][Cur(p)] = Empty]
    BY <1>10 DEF pmm_free_page, Cleared
  <2>2. q # p => pte'[q] = pte[q]
    BY <2>1 DEF IInv, Types
  <2> QED
    BY <2>1, <2>2, SameContents DEF IInv, Types, Gone
<1>11. CASE mmu_reap_end(p)
  BY <1>11, SameContents DEF mmu_reap_end, IInv, Types, Gone
<1> QED
  BY <1>1, <1>2, <1>3, <1>4, <1>5, <1>6, <1>7, <1>8, <1>9, <1>10, <1>11 DEF Step

-----------------------------------------------------------------------------
(* Every action preserves the invariant.  The parts that are about one process *)
(* hold of a process the step leaves alone. *)

\* The entries, the step and the loop of process q are not changed.
Still(q) == pte'[q] = pte[q] /\ op'[q] = op[q] /\ todo'[q] = todo[q]

\* The slot of a loop stays where it is.
LEMMA StillCur ==
  ASSUME NEW q, todo'[q] = todo[q]
  PROVE  Cur(q)' = Cur(q)
BY DEF Cur

\* The parts of the invariant that are about one process.
LEMMA StillShape ==
  ASSUME NEW q \in Proc, Still(q), Shape(q)
  PROVE  Shape(q)'
BY StillCur DEF Shape, Still

\* So does a write fault whose page lock stays as it is.
LEMMA StillFault ==
  ASSUME NEW q \in Proc, Still(q), Fault(q), page'[q] = page[q],
         page[q] \in Frame => lock'[page[q]] = lock[page[q]]
  PROVE  Fault(q)'
BY StillCur DEF Fault, Still, CurFrame

\* So does a fork whose child is left alone.
LEMMA StillFork ==
  ASSUME NEW q \in Proc, Still(q), Fork(q), child'[q] = child[q],
         op[q] \in {"clone", "inc"} => Still(child[q])
  PROVE  Fork(q)'
<1>1. CASE op[q] \in {"clone", "inc"}
  <2>1. /\ child[q] \in Proc /\ op[child[q]] = "born"
        /\ \A s \in Slot : pte[child[q]][s] = IF s \in todo[q] THEN Empty ELSE pte[q][s]
        /\ \A s \in Slot \ todo[q] : pte[q][s].cow
    BY <1>1 DEF Fork
  <2>2. op'[q] = op[q] /\ pte'[q] = pte[q] /\ todo'[q] = todo[q]
    BY DEF Still
  <2>3. op'[child'[q]] = op[child[q]] /\ pte'[child'[q]] = pte[child[q]]
    BY <1>1 DEF Still
  <2> QED
    BY <1>1, <2>1, <2>2, <2>3 DEF Fork
<1>2. CASE op[q] \notin {"clone", "inc"}
  BY <1>2 DEF Fork, Still
<1> QED
  BY <1>1, <1>2

\* Its entries count as before.
LEMMA StillCounts ==
  ASSUME NEW q \in Proc, NEW t, NEW f, Still(q)
  PROVE  Counts(q, t, f)' <=> Counts(q, t, f)
BY StillCur DEF Counts, Still

\* A step that changes no entry, count and free frame, and that neither begins
\* nor ends one of the steps at which a process has dropped its reference.
Quiet ==
  /\ UNCHANGED <<pte, refcount, free>>
  /\ \A q \in Proc :
       \/ op'[q] = op[q] /\ todo'[q] = todo[q] /\ page'[q] = page[q]
       \/ /\ op[q] \notin {"copy", "unlock", "free"}
          /\ op'[q] \notin {"copy", "unlock", "free"}

\* Such a step keeps what is said about entries and counts.
LEMMA QuietStep ==
  ASSUME IInv, Quiet
  PROVE  Alone' /\ Refs' /\ Frames'
<1>1. \A q \in Proc : op[q] \in {"copy", "unlock", "free"} \/ op'[q] \in {"copy", "unlock", "free"}
        => op'[q] = op[q] /\ page'[q] = page[q] /\ Cur(q)' = Cur(q) /\ CurFrame(q)' = CurFrame(q)
  BY StillCur DEF Quiet, CurFrame
<1>2. pte' = pte /\ refcount' = refcount /\ free' = free
  BY DEF Quiet
<1>3. WriterAlone'
  BY <1>2 DEF IInv, Alone, WriterAlone
<1>4. UnlockAlone'
  BY <1>1, <1>2 DEF IInv, Alone, UnlockAlone
<1>5. FreeAlone'
  BY <1>1, <1>2 DEF IInv, Alone, FreeAlone
<1>6. CopyShared'
  BY <1>1, <1>2 DEF IInv, Alone, CopyShared
<1>7. \A f \in Frame : Cardinality(Counting(f))' = Cardinality(Counting(f))
  BY <1>1, <1>2, CountSame DEF Counts
<1>8. Refs'
  BY <1>2, <1>7 DEF IInv, Refs
<1>9. Frames'
  BY <1>1, <1>2 DEF IInv, Frames, FreedWhileCopied
<1> QED
  BY <1>3, <1>4, <1>5, <1>6, <1>8, <1>9 DEF Alone

\* A store changes no entry and no count.
LEMMA StoreIInv ==
  ASSUME IInv, NEW p \in Proc, NEW s \in Slot, NEW v \in Val, Store(p, s, v)
  PROVE  IInv'
<1>1. Types'
  BY Zenon DEF IInv, Types, Store
<1>2. UNCHANGED <<pte, refcount, lock, free, op, todo, page, child>>
  BY DEF Store
<1>3. \A q : Cur(q)' = Cur(q)
  BY ZenonT(30), <1>2 DEF Cur
<1>4. Shapes' /\ Forks' /\ Faults'
  BY <1>2, <1>3 DEF IInv, Shapes, Shape, Forks, Fork, Faults, Fault, CurFrame
<1>5. Quiet
  BY <1>2 DEF Quiet
<1> QED
  BY <1>1, <1>4, <1>5, QuietStep DEF IInv

\* Steps of a process that neither forks nor is being made by a fork leave the
\* forks of the others alone.
LEMMA ForksKept ==
  ASSUME IInv, NEW p \in Proc, op[p] \notin {"clone", "inc", "born"},
         op'[p] \notin {"clone", "inc"}, child' = child,
         \A q \in Proc : q # p => Still(q)
  PROVE  Forks'
<1>1. \A q \in Proc : child[q] # p
  BY FrameAssumption DEF IInv, Forks, Fork, None
<1>2. Fork(p)'
  BY DEF IInv, Forks, Fork
<1>3. ASSUME NEW q \in Proc, q # p PROVE Fork(q)'
  BY <1>1, <1>3, StillFork DEF IInv, Forks, Fork
<1> QED
  BY <1>2, <1>3 DEF IInv, Forks

\* A write fault begins at an entry that is marked.
LEMMA PageFaultIInv ==
  ASSUME IInv, NEW p \in Proc, NEW s \in Slot, page_fault_handler(p, s)
  PROVE  IInv'
<1>0. /\ op[p] = "user" /\ pte[p][s].cow
      /\ op' = [op EXCEPT ![p] = "lock"]
      /\ todo' = [todo EXCEPT ![p] = {s}]
      /\ page' = [page EXCEPT ![p] = pte[p][s].frame]
      /\ UNCHANGED <<pte, refcount, lock, free, mem, child>>
  BY DEF page_fault_handler
<1>1. pte[p][s].frame \in Frame
  BY <1>0, PteFacts DEF IInv
<1>2. Types'
  BY <1>0, <1>1 DEF IInv, Types, Steps
<1>3. /\ op'[p] = "lock" /\ todo'[p] = {s} /\ page'[p] = pte[p][s].frame
      /\ \A q \in Proc : q # p => Still(q) /\ page'[q] = page[q]
  BY <1>0 DEF IInv, Types, Still
<1>4. Cur(p)' = s
  BY <1>3 DEF Cur
<1>5. Shapes'
  <2>1. Shape(p)'
    BY <1>0, <1>3 DEF IInv, Shapes, Shape, Whole, Faulting
  <2> QED
    BY <1>3, <2>1, StillShape DEF IInv, Shapes
<1>6. Forks'
  BY <1>0, <1>3, ForksKept
<1>7. Faults'
  <2>1. Fault(p)'
    BY <1>0, <1>3, <1>4 DEF Fault, CurFrame
  <2> QED
    BY <1>0, <1>3, <2>1, StillFault DEF IInv, Faults
<1>8. Quiet
  BY <1>0, <1>3 DEF Quiet, Still
<1> QED
  BY <1>2, <1>5, <1>6, <1>7, <1>8, QuietStep DEF IInv

\* The lock of the page is taken when nobody holds it.
LEMMA WriteLockIInv ==
  ASSUME IInv, NEW p \in Proc, cow_handle_write_lock(p)
  PROVE  IInv'
<1>0. /\ op[p] = "lock" /\ lock[page[p]] = None
      /\ lock' = [lock EXCEPT ![page[p]] = p]
      /\ op' = [op EXCEPT ![p] = "dec"]
      /\ UNCHANGED <<pte, refcount, free, mem, todo, page, child>>
  BY DEF cow_handle_write_lock, cow_spin_lock
<1>1. page[p] = CurFrame(p) /\ page[p] \in Frame
  BY <1>0, FaultCur DEF Faulting, IInv, Faults, Fault
<1>2. Types'
  BY <1>0, <1>1 DEF IInv, Types, Steps
<1>3. /\ op'[p] = "dec" /\ lock'[page[p]] = p /\ Cur(p)' = Cur(p)
      /\ \A q \in Proc : q # p => Still(q) /\ page'[q] = page[q]
  BY <1>0, <1>1, StillCur DEF IInv, Types, Still
<1>5. Shapes'
  <2>1. Shape(p)'
    BY <1>0, <1>3 DEF IInv, Shapes, Shape, Whole, Faulting
  <2> QED
    BY ZenonT(30), <1>3, <2>1, StillShape DEF IInv, Shapes
<1>6. Forks'
  BY <1>0, <1>3, ForksKept
<1>7. Faults'
  <2>1. Fault(p)'
    BY <1>0, <1>1, <1>3 DEF Fault, CurFrame
  <2>2. ASSUME NEW q \in Proc, q # p PROVE Fault(q)'
    <3>1. Cur(q)' = Cur(q) /\ op'[q] = op[q] /\ page'[q] = page[q]
      BY <1>3, <2>2, StillCur DEF Still
    <3>2. op[q] \in {"dec", "copy", "unlock"} => page[q] # page[p]
      BY <1>0, <2>2, FrameAssumption DEF IInv, Faults, Fault, None
    <3> QED
      BY ZenonT(30), <1>0, <1>1, <3>1, <3>2 DEF IInv, Types, Faults, Fault, CurFrame
  <2> QED
    BY <2>1, <2>2 DEF Faults
<1>8. Quiet
  BY <1>0, <1>3 DEF Quiet, Still
<1> QED
  BY <1>2, <1>5, <1>6, <1>7, <1>8, QuietStep DEF IInv

\* The beginning of exit.
LEMMA ExitIInv ==
  ASSUME IInv, NEW p \in Proc, task_exit(p)
  PROVE  IInv'
<1>0. /\ op[p] = "user"
      /\ op' = [op EXCEPT ![p] = "reap"]
      /\ todo' = [todo EXCEPT ![p] = Slot]
      /\ UNCHANGED <<pte, refcount, lock, free, mem, page, child>>
  BY DEF task_exit
<1>2. Types'
  BY <1>0 DEF IInv, Types, Steps
<1>3. /\ op'[p] = "reap" /\ todo'[p] = Slot
      /\ \A q \in Proc : q # p => Still(q) /\ page'[q] = page[q]
  BY <1>0 DEF IInv, Types, Still
<1>5. Shapes'
  <2>1. Shape(p)'
    BY <1>0, <1>3 DEF IInv, Shapes, Shape, Whole, Faulting
  <2> QED
    BY ZenonT(30), <1>3, <2>1, StillShape DEF IInv, Shapes
<1>6. Forks'
  BY <1>0, <1>3, ForksKept
<1>7. Faults'
  BY <1>0, <1>3, StillFault DEF IInv, Faults, Fault
<1>8. Quiet
  BY <1>0, <1>3 DEF Quiet, Still
<1> QED
  BY <1>2, <1>5, <1>6, <1>7, <1>8, QuietStep DEF IInv

\* The end of exit: no entry is left.
LEMMA ReapEndIInv ==
  ASSUME IInv, NEW p \in Proc, mmu_reap_end(p)
  PROVE  IInv'
<1>0. /\ op[p] = "reap" /\ todo[p] = {}
      /\ op' = [op EXCEPT ![p] = "none"]
      /\ UNCHANGED <<pte, refcount, lock, free, mem, todo, page, child>>
  BY DEF mmu_reap_end
<1>2. Types'
  BY <1>0 DEF IInv, Types, Steps
<1>3. /\ op'[p] = "none"
      /\ \A q \in Proc : q # p => Still(q) /\ page'[q] = page[q]
  BY <1>0 DEF IInv, Types, Still
<1>5. Shapes'
  <2>1. Shape(p)'
    BY <1>0, <1>3 DEF IInv, Shapes, Shape, Whole, Faulting
  <2> QED
    BY ZenonT(30), <1>3, <2>1, StillShape DEF IInv, Shapes
<1>6. Forks'
  BY <1>0, <1>3, ForksKept
<1>7. Faults'
  BY <1>0, <1>3, StillFault DEF IInv, Faults, Fault
<1>8. Quiet
  BY <1>0, <1>3 DEF Quiet, Still
<1> QED
  BY <1>2, <1>5, <1>6, <1>7, <1>8, QuietStep DEF IInv

\* Who maps a page that no longer counts a reference: an entry that is marked
\* and does not count belongs to a process that has dropped it.
LEMMA Uncounted ==
  ASSUME IInv, NEW q \in Proc, NEW t \in Slot, NEW f \in Frame,
         pte[q][t].frame = f, ~pte[q][t].writable, ~Counts(q, t, f)
  PROVE  op[q] \in {"copy", "unlock", "free"} /\ t = Cur(q)
<1>1. pte[q][t] # Empty
  BY ZenonT(30), PteFacts DEF IInv
<1>2. pte[q][t].cow
  BY <1>1, PteFacts DEF IInv, Shapes, Shape
<1> QED
  BY <1>2 DEF Counts

\* The reference of the write fault is dropped: the page is copied if others
\* still count, and otherwise it is mapped nowhere else.
LEMMA WriteDecIInv ==
  ASSUME IInv, ~FreedWhileCopied, NEW p \in Proc, cow_handle_write_dec(p)
  PROVE  IInv'
<1>a. PICK f : f = page[p]
  OBVIOUS
<1>b. PICK s : s = Cur(p)
  OBVIOUS
<1>0. /\ op[p] = "dec"
      /\ refcount' = [refcount EXCEPT ![f] = @ - 1]
      /\ op' = [op EXCEPT ![p] = IF refcount'[f] = 0 THEN "unlock" ELSE "copy"]
      /\ UNCHANGED <<pte, lock, free, mem, todo, page, child>>
  BY <1>a DEF cow_handle_write_dec, last_reference
<1>1. f \in Frame /\ s \in Slot /\ pte[p][s].frame = f /\ pte[p][s].cow /\ lock[f] = p
  BY <1>a, <1>b, <1>0, FaultCur DEF Faulting, IInv, Faults, Fault, CurFrame
<1>2. Types'
  BY <1>0, <1>1 DEF IInv, Types, Steps
<1>3. /\ op'[p] = IF refcount'[f] = 0 THEN "unlock" ELSE "copy"
      /\ \A q \in Proc : Cur(q)' = Cur(q)
      /\ \A q \in Proc : q # p => Still(q) /\ page'[q] = page[q]
  BY <1>0, <1>1, StillCur DEF IInv, Types, Still
<1>4. \A q \in Proc, t \in Slot, g \in Frame :
        Counts(q, t, g)' <=> Counts(q, t, g) /\ ~(q = p /\ t = s)
  BY <1>b, <1>0, <1>3, StillCounts DEF Counts
<1>5. Counts(p, s, f) /\ ~Counts(p, s, f)'
  BY <1>b, <1>0, <1>1, <1>4 DEF Counts
<1>6. Refs'
  <2>1. refcount'[f] = Cardinality(Counting(f))'
    BY <1>0, <1>1, <1>4, <1>5, CountDrop DEF IInv, Types, Refs
  <2>2. ASSUME NEW g \in Frame, g # f PROVE refcount'[g] = Cardinality(Counting(g))'
    <3>1. \A q \in Proc, t \in Slot : Counts(q, t, g)' <=> Counts(q, t, g)
      BY <1>1, <1>4, <2>2 DEF Counts
    <3> QED
      BY ZenonT(30), <1>0, <2>2, <3>1, CountSame DEF IInv, Types, Refs
  <2> QED
    BY <2>1, <2>2 DEF Refs
<1>7. Shapes'
  <2>1. Shape(p)'
    BY <1>0, <1>3 DEF IInv, Shapes, Shape, Whole, Faulting
  <2> QED
    BY ZenonT(30), <1>3, <2>1, StillShape DEF IInv, Shapes
<1>8. Forks'
  BY <1>0, <1>3, ForksKept
<1>9. Faults'
  <2>1. Fault(p)'
    BY <1>0, <1>3 DEF IInv, Faults, Fault, CurFrame
  <2> QED
    BY <1>0, <1>3, <2>1, StillFault DEF IInv, Faults
<1>10. UnlockAlone'
  <2>1. ASSUME refcount'[f] = 0, NEW q \in Proc, NEW t \in Slot, pte[q][t].frame = f
        PROVE  q = p /\ t = s
    <3>1. ~Counts(q, t, f)'
      BY <1>1, <1>6, <2>1, CountZeroNext DEF Refs
    <3>2. SUFFICES ASSUME ~(q = p /\ t = s) PROVE FALSE
      OBVIOUS
    <3>3. ~Counts(q, t, f)
      BY <1>1, <1>4, <3>1, <3>2
    <3>4. ~pte[q][t].writable
      BY <1>1, <2>1, <3>2 DEF IInv, Alone, WriterAlone
    <3>5. op[q] \in {"copy", "unlock", "free"} /\ t = Cur(q)
      BY <1>1, <2>1, <3>3, <3>4, Uncounted
    <3>6. q # p /\ CurFrame(q) = f
      BY <1>0, <2>1, <3>5 DEF CurFrame
    <3>7. op[q] # "copy"
      BY <1>1, <3>6 DEF IInv, Faults, Fault
    <3>8. op[q] # "unlock"
      BY <1>1, <3>6 DEF IInv, Alone, UnlockAlone
    <3>9. op[q] # "free"
      BY ZenonT(30), <1>0, <1>1, <3>6 DEF IInv, Alone, FreeAlone
    <3> QED
      BY ZenonT(30), <3>5, <3>7, <3>8, <3>9
  <2> QED
    BY <1>b, <1>0, <1>1, <1>3, <2>1 DEF IInv, Alone, UnlockAlone, CurFrame, Still
<1>11. CopyShared'
  <2>1. ASSUME refcount'[f] # 0
        PROVE  \E q \in Proc, t \in Slot : pte[q][t].frame = f /\ ~(q = p /\ t = s)
    <3>1. PICK q \in Proc, t \in Slot : Counts(q, t, f)'
      BY <1>1, <1>6, <2>1, CountZeroNext DEF Refs
    <3> QED
      BY SMTT(30), <1>1, <1>4, <3>1 DEF Counts
  <2> QED
    BY <1>a, <1>b, <1>0, <1>3, <2>1 DEF IInv, Alone, CopyShared, Still
<1>12. FreeAlone'
  BY <1>0, <1>3 DEF IInv, Alone, FreeAlone, CurFrame, Still
<1>13. WriterAlone'
  BY <1>0 DEF IInv, Alone, WriterAlone
<1>14. Frames'
  BY <1>0 DEF IInv, Frames
<1> QED
  BY <1>2, <1>6, <1>7, <1>8, <1>9, <1>10, <1>11, <1>12, <1>13, <1>14 DEF IInv, Alone

\* The page of a copy is mapped elsewhere too: the copy, a frame that nothing
\* maps, takes the place of one of several entries.
LEMMA WriteCopyIInv ==
  ASSUME IInv, ~FreedWhileCopied, NEW p \in Proc, NEW d \in Frame, cow_handle_write_copy(p, d)
  PROVE  IInv'
<1>a. PICK f : f = page[p]
  OBVIOUS
<1>b. PICK s : s = Cur(p)
  OBVIOUS
<1>0. /\ op[p] = "copy" /\ d \in free
      /\ free' = free \ {d}
      /\ mem' = [mem EXCEPT ![d] = mem[f]]
      /\ pte' = [pte EXCEPT ![p][s].frame = d]
      /\ op' = [op EXCEPT ![p] = "unlock"]
      /\ UNCHANGED <<refcount, lock, todo, page, child>>
  BY <1>a, <1>b DEF cow_handle_write_copy
<1>1. f \in Frame /\ s \in Slot /\ pte[p][s].frame = f /\ pte[p][s].cow /\ lock[f] = p
      /\ todo[p] = {s}
  BY <1>a, <1>b, <1>0, FaultCur DEF Faulting, IInv, Faults, Fault, CurFrame
<1>2. \A q \in Proc, t \in Slot : pte[q][t].frame # d
  BY <1>0 DEF IInv, Frames
<1>3. pte[p][s] \in [frame : Frame, cow : BOOLEAN, writable : BOOLEAN] /\ ~pte[p][s].writable
  <2>1. pte[p][s] # Empty /\ pte[p][s] \in Pte
    BY <1>1, PteFacts DEF IInv
  <2> QED
    BY <1>1, <2>1 DEF Pte, IInv, Shapes, Shape
<1>4. /\ pte'[p][s] = [frame |-> d, cow |-> TRUE, writable |-> FALSE]
      /\ \A q \in Proc, t \in Slot : ~(q = p /\ t = s) => pte'[q][t] = pte[q][t]
  BY Zenon, <1>0, <1>1, <1>3 DEF IInv, Types
<1>5. Types'
  <2>1. pte' \in [Proc -> [Slot -> Pte]]
    <3>1. pte'[p][s] \in Pte
      BY <1>4 DEF Pte
    <3> QED
      BY Zenon, <1>0, <1>1, <3>1 DEF IInv, Types
  <2> QED
    BY <1>0, <1>1, <2>1 DEF IInv, Types, Steps
<1>6. /\ op'[p] = "unlock"
      /\ \A q \in Proc : Cur(q)' = Cur(q)
      /\ \A q \in Proc : q # p => Still(q) /\ page'[q] = page[q]
  BY <1>0, StillCur DEF IInv, Types, Still
<1>7. \A q \in Proc : q # p => CurFrame(q)' = CurFrame(q)
  BY <1>6 DEF CurFrame, Still
<1>8. Refs'
  <2>1. \A q \in Proc, t \in Slot, g \in Frame : Counts(q, t, g)' <=> Counts(q, t, g)
    BY <1>b, <1>0, <1>4, <1>6, StillCounts DEF Counts
  <2> QED
    BY <1>0, <2>1, CountSame DEF IInv, Refs
<1>9. Shapes'
  <2>1. d # None
    BY FrameAssumption DEF None
  <2>2. \A t \in Slot : pte[p][t] # Empty
    BY <1>0 DEF IInv, Shapes, Shape, Whole, Faulting
  <2>3. \A t \in Slot : pte'[p][t] # Empty
    <3>1. pte'[p][s].frame # Empty.frame
      BY <1>4, <2>1 DEF Empty
    <3> QED
      BY <1>4, <2>2, <3>1
  <2>4. \A t \in Slot : pte'[p][t].writable <=> ~pte'[p][t].cow
    BY <1>4, <2>2 DEF IInv, Shapes, Shape
  <2>5. Shape(p)'
    BY <1>0, <1>1, <1>4, <1>6, <2>3, <2>4 DEF Shape, Whole, Faulting
  <2> QED
    BY <1>6, <2>5, StillShape DEF IInv, Shapes
<1>10. Forks'
  BY <1>0, <1>6, ForksKept
<1>11. Faults'
  <2>1. Fault(p)'
    BY <1>0, <1>6 DEF IInv, Faults, Fault
  <2> QED
    BY <1>0, <1>6, <2>1, StillFault DEF IInv, Faults
<1>12. WriterAlone'
  BY <1>2, <1>4 DEF IInv, Alone, WriterAlone
<1>13. UnlockAlone'
  <2>1. ASSUME NEW q \in Proc, NEW t \in Slot, pte'[q][t].frame = CurFrame(p)'
        PROVE  q = p /\ t = s
    BY <1>b, <1>2, <1>4, <1>6, <2>1 DEF CurFrame
  <2>2. ASSUME NEW x \in Proc, x # p, op[x] = "unlock", NEW q \in Proc, NEW t \in Slot,
               pte'[q][t].frame = CurFrame(x)
        PROVE  q = x /\ t = Cur(x)
    <3>1. CurFrame(x) # d
      BY <1>2, <2>2, FaultCur DEF Faulting, CurFrame
    <3> QED
      BY <1>4, <2>2, <3>1 DEF IInv, Alone, UnlockAlone
  <2> QED
    BY ZenonT(30), <1>b, <1>6, <1>7, <2>1, <2>2 DEF UnlockAlone, Still
<1>14. FreeAlone'
  <2>1. ASSUME NEW x \in Proc, x # p, op[x] = "free", NEW q \in Proc, NEW t \in Slot,
               pte'[q][t].frame = CurFrame(x)
        PROVE  (q = x \/ op'[q] = "copy") /\ t = Cur(q)
    <3>1. Cur(x) \in Slot
      BY <2>1, CurIn DEF IInv, Shapes, Shape
    <3>2. ~(q = p /\ t = s)
      BY <1>2, <1>4, <2>1, <3>1 DEF CurFrame
    <3>3. pte[q][t].frame = CurFrame(x)
      BY <1>4, <2>1, <3>2
    <3>4. (q = x \/ op[q] = "copy") /\ t = Cur(q)
      BY ZenonT(30), <2>1, <3>3 DEF IInv, Alone, FreeAlone
    <3> QED
      BY ZenonT(30), <1>b, <1>6, <3>2, <3>4 DEF Still
  <2> QED
    BY <1>6, <1>7, <2>1 DEF FreeAlone, Still
<1>15. CopyShared'
  <2>1. ASSUME NEW x \in Proc, x # p, op[x] = "copy"
        PROVE  \E q \in Proc, t \in Slot : pte'[q][t].frame = page[x] /\ ~(q = x /\ t = Cur(x))
    <3>1. page[x] \notin free
      BY <2>1 DEF FreedWhileCopied
    <3>2. PICK q \in Proc, t \in Slot : pte[q][t].frame = page[x] /\ ~(q = x /\ t = Cur(x))
      BY <2>1, <3>1 DEF IInv, Alone, CopyShared
    <3>3. page[x] # f
      BY <1>1, <2>1 DEF IInv, Faults, Fault
    <3> QED
      BY <1>1, <1>4, <3>2, <3>3
  <2> QED
    BY <1>6, <2>1 DEF CopyShared, Still
<1>16. Frames'
  <2>1. PICK q \in Proc, t \in Slot : pte[q][t].frame = f /\ ~(q = p /\ t = s)
    BY <1>a, <1>b, <1>0 DEF IInv, Alone, CopyShared, FreedWhileCopied
  <2>2. pte'[q][t].frame = f
    BY <1>4, <2>1
  <2>3. ASSUME NEW g \in Frame
        PROVE  g \in free' <=> \A x \in Proc, u \in Slot : pte'[x][u].frame # g
    <3>1. g \in free <=> \A x \in Proc, u \in Slot : pte[x][u].frame # g
      BY DEF IInv, Frames
    <3>2. CASE g = d
      BY <1>0, <1>1, <1>4, <3>2
    <3>3. CASE g = f
      BY <1>0, <1>1, <2>2, <3>1, <3>3
    <3>4. CASE g # d /\ g # f
      BY <1>0, <1>1, <1>4, <3>1, <3>4
    <3> QED
      BY <3>2, <3>3, <3>4
  <2> QED
    BY <2>3 DEF Frames
<1> QED
  BY <1>5, <1>8, <1>9, <1>10, <1>11, <1>12, <1>13, <1>14, <1>15, <1>16 DEF IInv, Alone

\* The entry becomes writable and the lock is released.
LEMMA WriteUnlockIInv ==
  ASSUME IInv, ~FreedWhileCopied, NEW p \in Proc, cow_handle_write_unlock(p)
  PROVE  IInv'
<1>b. PICK s : s = Cur(p)
  OBVIOUS
<1>0. /\ op[p] = "unlock"
      /\ lock' = [lock EXCEPT ![page[p]] = None]
      /\ pte' = [pte EXCEPT ![p][s].cow = FALSE, ![p][s].writable = TRUE]
      /\ op' = [op EXCEPT ![p] = "user"]
      /\ todo' = [todo EXCEPT ![p] = {}]
      /\ page' = [page EXCEPT ![p] = None]
      /\ UNCHANGED <<refcount, free, mem, child>>
  BY <1>b DEF cow_handle_write_unlock, cow_spin_unlock
<1>1. page[p] \in Frame /\ lock[page[p]] = p /\ s \in Slot /\ pte[p][s].cow
  BY <1>b, <1>0, FaultCur DEF Faulting, IInv, Faults, Fault
<1>2. pte[p][s] \in [frame : Frame, cow : BOOLEAN, writable : BOOLEAN]
  <2>1. pte[p][s] # Empty /\ pte[p][s] \in Pte
    BY <1>1, PteFacts DEF IInv
  <2> QED
    BY ZenonT(30), <2>1 DEF Pte
<1>c. op[p] = "unlock" /\ UNCHANGED <<refcount, free, mem, child>>
  BY <1>0
<1>3. /\ pte'[p][s] = [frame |-> pte[p][s].frame, cow |-> FALSE, writable |-> TRUE]
      /\ \A q \in Proc, t \in Slot : ~(q = p /\ t = s) => pte'[q][t] = pte[q][t]
  BY Zenon, <1>0, <1>1, <1>2 DEF IInv, Types
<1>4. \A q \in Proc, t \in Slot : pte'[q][t].frame = pte[q][t].frame
  BY <1>3
<1>5. Types'
  <2>1. pte' \in [Proc -> [Slot -> Pte]]
    <3>1. pte'[p][s] \in Pte
      BY <1>2, <1>3 DEF Pte
    <3>2. pte' = [q \in Proc |-> [t \in Slot |-> pte'[q][t]]]
      BY ZenonT(30), <1>0 DEF IInv, Types
    <3>3. \A q \in Proc, t \in Slot : pte[q][t] \in Pte
      BY DEF IInv, Types
    <3>4. \A q \in Proc, t \in Slot : pte'[q][t] \in Pte
      BY <1>3, <3>1, <3>3
    <3> QED
      BY <3>2, <3>4
  <2> QED
    BY <1>0, <1>1, <2>1 DEF IInv, Types, Steps
<1>6. /\ op'[p] = "user" /\ todo'[p] = {}
      /\ \A q \in Proc : q # p => Still(q) /\ page'[q] = page[q]
  BY <1>0 DEF IInv, Types, Still
<1>7. \A q \in Proc : q # p => Cur(q)' = Cur(q) /\ CurFrame(q)' = CurFrame(q)
  BY <1>6, StillCur DEF CurFrame, Still
<1>8. Refs'
  <2>1. \A q \in Proc, t \in Slot, g \in Frame : Counts(q, t, g)' <=> Counts(q, t, g)
    <3>1. \A g \in Frame : ~Counts(p, s, g)' /\ ~Counts(p, s, g)
      BY <1>b, <1>c, <1>3 DEF Counts
    <3>2. \A t \in Slot, g \in Frame : t # s => (Counts(p, t, g)' <=> Counts(p, t, g))
      BY <1>b, <1>3, <1>6 DEF Counts
    <3> QED
      BY ZenonT(30), <1>6, <3>1, <3>2, StillCounts
  <2> QED
    BY ZenonT(30), <1>0, <2>1, CountSame DEF IInv, Refs
<1>9. Shapes'
  <2>1. \A t \in Slot : pte[p][t] # Empty
    BY <1>0 DEF IInv, Shapes, Shape, Whole, Faulting
  <2>2. \A t \in Slot : pte'[p][t] # Empty
    <3>1. pte'[p][s].writable # Empty.writable
      BY <1>3 DEF Empty
    <3> QED
      BY ZenonT(30), <1>3, <2>1, <3>1
  <2>3. \A t \in Slot : pte'[p][t].writable <=> ~pte'[p][t].cow
    BY <1>3, <2>1 DEF IInv, Shapes, Shape
  <2>4. Shape(p)'
    BY <1>6, <2>2, <2>3 DEF Shape, Whole, Faulting
  <2> QED
    BY <1>6, <2>4, StillShape DEF IInv, Shapes
<1>10. Forks'
  BY <1>0, <1>6, ForksKept
<1>11. Faults'
  <2>1. Fault(p)'
    BY <1>6 DEF Fault
  <2>2. ASSUME NEW q \in Proc, q # p PROVE Fault(q)'
    <3>1. op'[q] = op[q] /\ page'[q] = page[q]
      BY <1>6, <2>2 DEF Still
    <3>2. op[q] \in {"dec", "copy", "unlock"} => page[q] # page[p]
      BY ZenonT(30), <1>1, <2>2 DEF IInv, Faults, Fault
    <3> QED
      BY <1>0, <1>1, <1>7, <2>2, <3>1, <3>2 DEF IInv, Types, Faults, Fault
  <2> QED
    BY <2>1, <2>2 DEF Faults
<1>12. WriterAlone'
  <2>1. \A q \in Proc, t \in Slot : pte[q][t].frame = pte[p][s].frame => q = p /\ t = s
    BY ZenonT(30), <1>b, <1>0 DEF IInv, Alone, UnlockAlone, CurFrame
  <2> QED
    BY <1>3, <1>4, <2>1 DEF IInv, Alone, WriterAlone
<1>13. UnlockAlone'
  <2>1. UnlockAlone
    BY ZenonT(30) DEF IInv, Alone
  <2> QED
    BY <1>4, <1>6, <1>7, <2>1 DEF UnlockAlone, Still
<1>14. FreeAlone'
  BY <1>c, <1>4, <1>6, <1>7 DEF IInv, Alone, FreeAlone, Still
<1>15. CopyShared'
  BY <1>c, <1>4, <1>6, <1>7 DEF IInv, Alone, CopyShared, Still
<1>16. Frames'
  BY <1>c, <1>4 DEF IInv, Frames
<1> QED
  BY <1>5, <1>8, <1>9, <1>10, <1>11, <1>12, <1>13, <1>14, <1>15, <1>16 DEF IInv, Alone

\* A process drops its reference, or has none to drop, and the page is to be freed.
LEMMA ReapLastIInv ==
  ASSUME IInv, ~FreedWhileCopied, NEW p \in Proc, free_single_page(p), op'[p] = "free"
  PROVE  IInv'
<1>b. PICK s : s = Cur(p)
  OBVIOUS
<1>a. PICK f : f = pte[p][s].frame
  BY ZenonT(30)
<1>0. /\ op[p] = "reap" /\ todo[p] # {}
      /\ refcount' = IF pte[p][s].cow THEN [refcount EXCEPT ![f] = @ - 1] ELSE refcount
      /\ op' = [op EXCEPT ![p] = "free"]
      /\ ~pte[p][s].cow \/ refcount'[f] = 0
      /\ UNCHANGED <<pte, lock, free, mem, todo, page, child>>
  BY <1>a, <1>b DEF free_single_page, last_reference, CurFrame
<1>1. s \in Slot /\ f \in Frame /\ pte[p][s] # Empty
  <2>1. s \in Slot /\ pte[p][s] # Empty
    BY <1>b, <1>0, CurIn DEF IInv, Shapes, Shape
  <2> QED
    BY ZenonT(30), <1>a, <2>1, PteFacts DEF IInv
<1>2. Types'
  BY <1>0, <1>1 DEF IInv, Types, Steps
<1>3. /\ op'[p] = "free"
      /\ \A q \in Proc : Cur(q)' = Cur(q)
      /\ \A q \in Proc : q # p => Still(q) /\ page'[q] = page[q]
  BY SMTT(30), <1>0, StillCur DEF IInv, Types, Still
<1>4. \A q \in Proc, t \in Slot, g \in Frame :
        Counts(q, t, g)' <=> Counts(q, t, g) /\ ~(q = p /\ t = s)
  <2>1. \A t \in Slot, g \in Frame : Counts(p, t, g)' <=> Counts(p, t, g) /\ t # s
    BY <1>b, <1>0, <1>3 DEF Counts
  <2> QED
    BY ZenonT(30), <1>3, <2>1, StillCounts
<1>5. Counts(p, s, f) <=> pte[p][s].cow
  BY <1>a, <1>0 DEF Counts
<1>6. Refs'
  <2>1. ASSUME NEW g \in Frame, g # f \/ ~pte[p][s].cow
        PROVE refcount'[g] = Cardinality(Counting(g))'
    <3>1. \A q \in Proc, t \in Slot : Counts(q, t, g)' <=> Counts(q, t, g)
      BY <1>a, <1>4, <2>1 DEF Counts
    <3> QED
      BY <1>0, <2>1, <3>1, CountSame DEF IInv, Types, Refs
  <2>2. CASE pte[p][s].cow
    <3>1. refcount'[f] = refcount[f] - 1 /\ refcount[f] = Cardinality(Counting(f))
      BY ZenonT(30), <1>0, <1>1, <2>2 DEF IInv, Types, Refs
    <3>2. Cardinality(Counting(f))' = Cardinality(Counting(f)) - 1
      BY <1>1, <1>4, <1>5, <2>2, CountDrop
    <3> QED
      BY <2>1, <3>1, <3>2 DEF Refs
  <2> QED
    BY <2>1, <2>2 DEF Refs
<1>7. Shapes'
  <2>1. Shape(p)'
    BY ZenonT(30), <1>0, <1>3 DEF IInv, Shapes, Shape, Whole, Faulting
  <2> QED
    BY ZenonT(30), <1>3, <2>1, StillShape DEF IInv, Shapes
<1>8. Forks'
  BY ZenonT(30), <1>0, <1>3, ForksKept
<1>9. Faults'
  BY ZenonT(30), <1>0, <1>3, StillFault DEF IInv, Faults, Fault
<1>10. FreeAlone'
  <2>1. ASSUME NEW q \in Proc, NEW t \in Slot, pte[q][t].frame = f
        PROVE  (q = p \/ op[q] = "copy") /\ t = Cur(q)
    <3>1. SUFFICES ASSUME ~(q = p /\ t = s) PROVE op[q] = "copy" /\ t = Cur(q)
      BY <1>b
    <3>2. ~pte[p][s].writable
      BY <1>a, <1>1, <2>1, <3>1 DEF IInv, Alone, WriterAlone
    <3>3. pte[p][s].cow
      BY ZenonT(30), <1>1, <3>2, PteFacts DEF IInv, Shapes, Shape
    <3>4. ~Counts(q, t, f)'
      BY ZenonT(30), <1>0, <1>1, <1>6, <3>3, CountZeroNext DEF Refs
    <3>5. ~Counts(q, t, f)
      BY <1>1, <1>4, <3>1, <3>4
    <3>6. ~pte[q][t].writable
      BY <1>a, <1>1, <2>1, <3>1 DEF IInv, Alone, WriterAlone
    <3>7. op[q] \in {"copy", "unlock", "free"} /\ t = Cur(q)
      BY ZenonT(30), <1>1, <2>1, <3>5, <3>6, Uncounted
    <3>8. q # p /\ CurFrame(q) = f
      BY <1>0, <2>1, <3>7 DEF CurFrame
    <3>9. op[q] # "unlock"
      BY <1>a, <1>1, <3>8 DEF IInv, Alone, UnlockAlone
    <3>10. op[q] # "free"
      BY ZenonT(30), <1>a, <1>0, <1>1, <3>8 DEF IInv, Alone, FreeAlone
    <3> QED
      BY <3>7, <3>9, <3>10
  <2>2. CurFrame(p)' = f /\ \A q \in Proc : CurFrame(q)' = CurFrame(q)
    BY <1>a, <1>b, <1>0, <1>3 DEF CurFrame
  <2>3. \A q \in Proc : q # p => op'[q] = op[q]
    BY ZenonT(30), <1>3 DEF Still
  <2> QED
    BY <1>0, <1>3, <2>1, <2>2, <2>3 DEF IInv, Alone, FreeAlone
<1>11. WriterAlone' /\ UnlockAlone'
  BY <1>0, <1>3 DEF IInv, Alone, WriterAlone, UnlockAlone, CurFrame, Still
<1>12. CopyShared'
  BY ZenonT(30), <1>0, <1>3 DEF IInv, Alone, CopyShared, Still
<1>13. Frames'
  BY <1>0 DEF IInv, Frames
<1> QED
  BY <1>2, <1>6, <1>7, <1>8, <1>9, <1>10, <1>11, <1>12, <1>13 DEF IInv, Alone
=============================================================================
