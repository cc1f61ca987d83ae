----------------------------- MODULE CowProofs ------------------------------
(***************************************************************************)
(* Proofs about copy on write, for any processes, slots, frames and        *)
(* contents: the reference counts are right (Counted), no frame is lost    *)
(* (FramesAccounted), and processes see memory of their own (Implements).  *)
(* CowInvariant has the invariant; the steps of fork and those of exit     *)
(* that give pages back follow here.                                       *)
(***************************************************************************)
EXTENDS CowInvariant

\* fork marks an entry of the parent, which counts from then on.
LEMMA ClonePageIInv ==
  ASSUME IInv, NEW p \in Proc, clone_single_page(p)
  PROVE  IInv'
<1>b. PICK s : s = Cur(p)
  OBVIOUS
<1>a. PICK f : f = pte[p][s].frame
  OBVIOUS
<1>0. /\ op[p] = "clone" /\ todo[p] # {}
      /\ op' = [op EXCEPT ![p] = "inc"]
      /\ UNCHANGED <<lock, free, mem, todo, page, child>>
  BY DEF clone_single_page
<1>1. s \in Slot /\ s \in todo[p] /\ pte[p][s] # Empty /\ f \in Frame
  <2>1. s \in Slot /\ s \in todo[p] /\ pte[p][s] # Empty
    BY <1>b, <1>0, CurIn DEF IInv, Shapes, Shape, Whole
  <2> QED
    BY <1>a, <2>1, PteFacts DEF IInv
<1>2. /\ pte'[p][s] = [frame |-> f, cow |-> TRUE, writable |-> FALSE]
      /\ \A q \in Proc, t \in Slot : ~(q = p /\ t = s) => pte'[q][t] = pte[q][t]
      /\ \A q \in Proc : q # p => pte'[q] = pte[q]
      /\ pte' \in [Proc -> [Slot -> Pte]]
      /\ refcount' = IF pte[p][s].cow THEN refcount ELSE [refcount EXCEPT ![f] = @ + 1]
  <2>1. pte[p][s] \in [frame : Frame, cow : BOOLEAN, writable : BOOLEAN]
    BY <1>1, PteFacts DEF IInv, Pte
  <2>2. CASE pte[p][s].cow
    <3>1. pte' = pte /\ refcount' = refcount /\ ~pte[p][s].writable
      BY <1>b, <1>1, <2>2 DEF clone_single_page, cow_copy_pte_mark, IInv, Shapes, Shape
    <3> QED
      BY Zenon, <1>a, <2>1, <2>2, <3>1 DEF IInv, Types
  <2>3. CASE ~pte[p][s].cow
    <3>1. /\ pte' = [pte EXCEPT ![p][s].writable = FALSE, ![p][s].cow = TRUE]
          /\ refcount' = [refcount EXCEPT ![f] = @ + 1]
      BY Zenon, <1>a, <1>b, <2>3 DEF clone_single_page, cow_copy_pte_mark, CurFrame
    <3>2. /\ pte'[p][s] = [frame |-> f, cow |-> TRUE, writable |-> FALSE]
          /\ \A q \in Proc, t \in Slot : ~(q = p /\ t = s) => pte'[q][t] = pte[q][t]
          /\ \A q \in Proc : q # p => pte'[q] = pte[q]
      BY Zenon, <1>a, <1>1, <2>1, <3>1 DEF IInv, Types
    <3>3. pte' = [q \in Proc |-> [t \in Slot |-> pte'[q][t]]]
      BY Zenon, <3>1 DEF IInv, Types
    <3>4. pte'[p][s] \in Pte
      BY <1>1, <3>2 DEF Pte
    <3>5. \A q \in Proc, t \in Slot : pte'[q][t] \in Pte
      <4>1. \A q \in Proc, t \in Slot : pte[q][t] \in Pte
        BY DEF IInv, Types
      <4> QED
        BY <3>2, <3>4, <4>1
    <3>6. pte' \in [Proc -> [Slot -> Pte]]
      BY <3>3, <3>5
    <3> QED
      BY <2>3, <3>1, <3>2, <3>6
  <2> QED
    BY <2>2, <2>3
<1>3. Types'
  <2>1. refcount' \in [Frame -> Int]
    BY <1>1, <1>2 DEF IInv, Types
  <2>2. op' \in [Proc -> Steps]
    BY <1>0 DEF IInv, Types, Steps
  <2> QED
    BY <1>0, <1>2, <2>1, <2>2 DEF IInv, Types
<1>4. /\ op'[p] = "inc" /\ \A q \in Proc : Cur(q)' = Cur(q)
      /\ \A q \in Proc : q # p => Still(q) /\ CurFrame(q)' = CurFrame(q)
      /\ \A q \in Proc, t \in Slot : pte'[q][t].frame = pte[q][t].frame
  <2>1. op'[p] = "inc" /\ \A q \in Proc : Cur(q)' = Cur(q)
    BY <1>0, StillCur DEF IInv, Types
  <2>2. \A q \in Proc : q # p => Still(q)
    BY <1>0, <1>2 DEF IInv, Types, Still
  <2>3. \A q \in Proc : q # p => CurFrame(q)' = CurFrame(q)
    BY <2>1, <2>2 DEF Still, CurFrame
  <2>4. \A q \in Proc, t \in Slot : pte'[q][t].frame = pte[q][t].frame
    BY <1>a, <1>2
  <2> QED
    BY <2>1, <2>2, <2>3, <2>4
<1>5. \A q \in Proc, t \in Slot, g \in Frame :
        Counts(q, t, g)' <=> Counts(q, t, g) \/ (q = p /\ t = s /\ g = f)
  <2>1. \A g \in Frame : Counts(p, s, g)' <=> g = f
    BY <1>2, <1>4 DEF Counts
  <2>2. \A t \in Slot, g \in Frame : t # s => (Counts(p, t, g)' <=> Counts(p, t, g))
    BY <1>0, <1>2, <1>4 DEF Counts
  <2>3. \A g \in Frame : Counts(p, s, g) => g = f
    BY <1>a DEF Counts
  <2> QED
    BY <1>4, <2>1, <2>2, <2>3, StillCounts
<1>6. Counts(p, s, f) <=> pte[p][s].cow
  BY <1>a, <1>0 DEF Counts
<1>7. Refs'
  <2>1. ASSUME NEW g \in Frame, g # f \/ pte[p][s].cow
        PROVE refcount'[g] = Cardinality(Counting(g))'
    <3>1. \A q \in Proc, t \in Slot : Counts(q, t, g)' <=> Counts(q, t, g)
      BY <1>5, <1>6, <2>1
    <3> QED
      BY <1>2, <2>1, <3>1, CountSame DEF IInv, Types, Refs
  <2>2. CASE ~pte[p][s].cow
    <3>1. refcount'[f] = Cardinality(Counting(f))'
      BY <1>1, <1>2, <1>5, <1>6, <2>2, CountAdd DEF IInv, Types, Refs
    <3> QED
      BY <2>1, <3>1 DEF Refs
  <2> QED
    BY <2>1, <2>2 DEF Refs
<1>8. Shapes'
  <2>1. \A t \in Slot : pte[p][t] # Empty
    BY <1>0 DEF IInv, Shapes, Shape, Whole
  <2>2. \A t \in Slot : pte'[p][t] # Empty
    <3>1. pte'[p][s].cow # Empty.cow
      BY <1>2 DEF Empty
    <3> QED
      BY Zenon, <1>2, <2>1, <3>1
  <2>3. \A t \in Slot : pte'[p][t].writable <=> ~pte'[p][t].cow
    BY <1>2, <2>1 DEF IInv, Shapes, Shape
  <2>4. todo'[p] # {} /\ pte'[p][Cur(p)'].cow
    BY <1>b, <1>0, <1>2, <1>4
  <2>5. Shape(p)'
    BY <1>4, <2>2, <2>3, <2>4 DEF Shape, Whole, Faulting
  <2> QED
    BY <1>4, <2>5, StillShape DEF IInv, Shapes
<1>9. Forks'
  <2>1. PICK c \in Proc : c = child[p] /\ c # p /\ op[c] = "born"
    BY <1>0 DEF IInv, Forks, Fork
  <2>2. pte'[c] = pte[c] /\ op'[c] = op[c] /\ child'[p] = c
    BY <1>0, <1>4, <2>1 DEF Still
  <2>3. Fork(p)'
    <3>1. \A t \in Slot : pte'[c][t] = IF t \in todo'[p] THEN Empty ELSE pte'[p][t]
      BY <1>0, <1>1, <1>2, <2>1, <2>2 DEF IInv, Forks, Fork
    <3>2. \A t \in Slot \ todo'[p] : pte'[p][t].cow
      BY <1>0, <1>2 DEF IInv, Forks, Fork
    <3> QED
      BY <1>4, <2>1, <2>2, <3>1, <3>2 DEF Fork
  <2>4. ASSUME NEW q \in Proc, q # p PROVE Fork(q)'
    <3>1. child[q] # p
      BY <1>0, FrameAssumption DEF IInv, Forks, Fork, None
    <3> QED
      BY <1>0, <1>4, <2>4, <3>1, StillFork DEF IInv, Forks, Fork
  <2> QED
    BY <1>0, <2>3, <2>4 DEF IInv, Forks
<1>10. Faults'
  BY <1>0, <1>4, StillFault DEF IInv, Faults, Fault
<1>11. WriterAlone'
  <2>1. \A q \in Proc, t \in Slot : pte'[q][t].writable => pte[q][t].writable
    BY <1>2
  <2> QED
    BY <1>4, <2>1 DEF IInv, Alone, WriterAlone
<1>12. UnlockAlone'
  BY <1>4 DEF IInv, Alone, UnlockAlone, Still
<1>13. FreeAlone'
  BY <1>0, <1>4 DEF IInv, Alone, FreeAlone, Still
<1>14. CopyShared'
  BY <1>0, <1>4 DEF IInv, Alone, CopyShared, Still
<1>15. Frames'
  BY <1>0, <1>4 DEF IInv, Frames, FreedWhileCopied, Still
<1> QED
  BY <1>3, <1>7, <1>8, <1>9, <1>10, <1>11, <1>12, <1>13, <1>14, <1>15 DEF IInv, Alone

\* fork copies a marked entry to the child, which counts too.
LEMMA CopyPteIInv ==
  ASSUME IInv, NEW p \in Proc, cow_copy_pte(p)
  PROVE  IInv'
<1>b. PICK s : s = Cur(p)
  OBVIOUS
<1>a. PICK f : f = pte[p][s].frame
  OBVIOUS
<1>c. PICK c \in Proc : c = child[p] /\ c # p /\ op[c] = "born"
  BY DEF cow_copy_pte, IInv, Forks, Fork
<1>0. /\ op[p] = "inc"
      /\ refcount' = [refcount EXCEPT ![f] = @ + 1]
      /\ pte' = [pte EXCEPT ![c][s] = pte[p][s]]
      /\ todo' = [todo EXCEPT ![p] = @ \ {s}]
      /\ op' = [op EXCEPT ![p] = "clone"]
      /\ UNCHANGED <<lock, free, mem, page, child>>
  BY <1>a, <1>b, <1>c DEF cow_copy_pte, CurFrame
<1>1. /\ s \in Slot /\ s \in todo[p] /\ pte[p][s] # Empty /\ pte[p][s].cow
      /\ ~pte[p][s].writable /\ f \in Frame /\ pte[c][s] = Empty
  <2>1. s \in Slot /\ s \in todo[p] /\ pte[p][s] # Empty /\ pte[p][s].cow
    BY <1>b, <1>0, CurIn DEF IInv, Shapes, Shape, Whole
  <2>2. f \in Frame /\ ~pte[p][s].writable
    BY <1>a, <2>1, PteFacts DEF IInv, Shapes, Shape
  <2>3. pte[c][s] = Empty
    BY <1>c, <1>0, <2>1 DEF IInv, Forks, Fork
  <2> QED
    BY <2>1, <2>2, <2>3
<1>2. /\ pte'[c][s] = pte[p][s]
      /\ \A q \in Proc, t \in Slot : ~(q = c /\ t = s) => pte'[q][t] = pte[q][t]
      /\ \A q \in Proc : q # c => pte'[q] = pte[q]
      /\ pte' \in [Proc -> [Slot -> Pte]]
  BY <1>0, <1>1 DEF IInv, Types
<1>3. Types'
  <2>1. refcount' \in [Frame -> Int]
    BY <1>0, <1>1 DEF IInv, Types
  <2>2. op' \in [Proc -> Steps] /\ todo' \in [Proc -> SUBSET Slot]
    BY <1>0 DEF IInv, Types, Steps
  <2> QED
    BY <1>0, <1>2, <2>1, <2>2 DEF IInv, Types
<1>4. /\ op'[p] = "clone" /\ op'[c] = "born" /\ todo'[p] = todo[p] \ {s} /\ todo'[c] = todo[c]
      /\ \A q \in Proc : q \notin {p, c} => Still(q)
  BY <1>c, <1>0, <1>2 DEF IInv, Types, Still
<1>5. \A q \in Proc : op'[q] \in {"copy", "unlock", "free"} \/ op[q] \in {"copy", "unlock", "free"} =>
        q \notin {p, c} /\ op'[q] = op[q] /\ Cur(q)' = Cur(q) /\ CurFrame(q)' = CurFrame(q)
  BY <1>c, <1>0, <1>4, StillCur DEF Still, CurFrame
<1>6. \A q \in Proc, t \in Slot, g \in Frame :
        Counts(q, t, g)' <=> Counts(q, t, g) \/ (q = c /\ t = s /\ g = f)
  <2>1. \A g \in Frame : (Counts(c, s, g)' <=> g = f) /\ ~Counts(c, s, g)
    <3>1. ~Empty.cow
      BY DEF Empty
    <3> QED
      BY <1>a, <1>1, <1>2, <1>4, <3>1 DEF Counts
  <2>2. \A t \in Slot, g \in Frame : t # s => (Counts(c, t, g)' <=> Counts(c, t, g))
    BY <1>c, <1>2, <1>4 DEF Counts
  <2>3. \A t \in Slot, g \in Frame : Counts(p, t, g)' <=> Counts(p, t, g)
    BY <1>c, <1>0, <1>2, <1>4 DEF Counts
  <2> QED
    BY <1>c, <1>4, <2>1, <2>2, <2>3, StillCounts
<1>7. Refs'
  <2>1. ASSUME NEW g \in Frame, g # f PROVE refcount'[g] = Cardinality(Counting(g))'
    <3>1. \A q \in Proc, t \in Slot : Counts(q, t, g)' <=> Counts(q, t, g)
      BY <1>6, <2>1
    <3> QED
      BY <1>0, <2>1, <3>1, CountSame DEF IInv, Types, Refs
  <2>2. ~Counts(c, s, f)
    BY <1>1 DEF Counts, Empty
  <2>3. refcount'[f] = Cardinality(Counting(f))'
    BY <1>0, <1>1, <1>6, <2>2, CountAdd DEF IInv, Types, Refs
  <2> QED
    BY <2>1, <2>3 DEF Refs
<1>8. Shapes'
  <2>1. Shape(p)'
    <3>1. Shape(p) /\ pte'[p] = pte[p]
      BY <1>c, <1>2 DEF IInv, Shapes
    <3> QED
      BY <1>0, <1>4, <3>1 DEF Shape, Whole, Faulting
  <2>2. \A t \in Slot : pte'[c][t] # Empty => (pte'[c][t].writable <=> ~pte'[c][t].cow)
    BY <1>1, <1>2 DEF IInv, Shapes, Shape
  <2>3. Shape(c)'
    BY <1>c, <1>4, <2>2 DEF IInv, Shapes, Shape, Whole, Faulting
  <2> QED
    BY <1>4, <2>1, <2>3, StillShape DEF IInv, Shapes
<1>9. Forks'
  <2>1. Fork(p)'
    <3>1. child'[p] = c /\ pte'[p] = pte[p]
      BY <1>c, <1>0, <1>2
    <3>2. \A t \in Slot : pte[c][t] = IF t \in todo[p] THEN Empty ELSE pte[p][t]
      BY <1>c, <1>0 DEF IInv, Forks, Fork
    <3>3. \A t \in Slot : pte'[c][t] = IF t \in todo'[p] THEN Empty ELSE pte'[p][t]
      BY <1>1, <1>2, <1>4, <3>1, <3>2
    <3>4. \A t \in Slot \ todo'[p] : pte'[p][t].cow
      BY <1>0, <1>1, <1>4, <3>1 DEF IInv, Forks, Fork
    <3> QED
      BY <1>4, <3>1, <3>3, <3>4 DEF Fork
  <2>2. Fork(c)'
    BY <1>c, <1>0, <1>4 DEF IInv, Forks, Fork
  <2>3. ASSUME NEW q \in Proc, q \notin {p, c} PROVE Fork(q)'
    <3>1. child[q] # p
      BY <1>0, FrameAssumption DEF IInv, Forks, Fork, None
    <3>2. child[q] # c
      BY <1>c, <2>3, FrameAssumption DEF IInv, Forks, None
    <3> QED
      BY <1>0, <1>4, <2>3, <3>1, <3>2, StillFork DEF IInv, Forks, Fork
  <2> QED
    BY <1>0, <2>1, <2>2, <2>3 DEF IInv, Forks
<1>10. Faults'
  BY <1>0, <1>4, StillFault DEF IInv, Faults, Fault
<1>11. \A q \in Proc, t \in Slot : pte'[q][t].frame = pte[q][t].frame \/ (q = c /\ t = s)
  BY <1>2
<1>12. WriterAlone'
  <2>1. \A q \in Proc, t \in Slot : pte'[q][t].writable =>
          pte'[q][t] = pte[q][t] /\ pte[q][t].frame # f
    BY <1>a, <1>1, <1>2 DEF IInv, Alone, WriterAlone
  <2>2. pte'[c][s].frame = f
    BY SMTT(30), <1>a, <1>2
  <2> QED
    BY <1>11, <2>1, <2>2 DEF IInv, Alone, WriterAlone
<1>13. UnlockAlone'
  <2>1. \A x \in Proc : op[x] = "unlock" => CurFrame(x) # f
    BY <1>a, <1>0, <1>1 DEF IInv, Alone, UnlockAlone
  <2> QED
    BY <1>a, <1>2, <1>5, <1>11, <2>1 DEF IInv, Alone, UnlockAlone
<1>14. FreeAlone'
  <2>1. \A x \in Proc : op[x] = "free" => CurFrame(x) # f
    BY <1>a, <1>0, <1>1 DEF IInv, Alone, FreeAlone
  <2> QED
    BY <1>a, <1>2, <1>5, <1>11, <2>1 DEF IInv, Alone, FreeAlone
<1>15. CopyShared'
  <2>1. \A q \in Proc, t \in Slot, g \in Frame : pte[q][t].frame = g => pte'[q][t].frame = g
    BY <1>1, <1>11, PteFacts DEF IInv
  <2>2. \A x \in Proc : op[x] = "copy" => page[x] \in Frame
    BY DEF IInv, Faults, Fault
  <2> QED
    BY <1>0, <1>5, <2>1, <2>2 DEF IInv, Alone, CopyShared
<1>16. Frames'
  <2>1. \A g \in Frame : (\A q \in Proc, t \in Slot : pte'[q][t].frame # g)
                     <=> (\A q \in Proc, t \in Slot : pte[q][t].frame # g)
    <3>1. \A q \in Proc, t \in Slot, g \in Frame : pte[q][t].frame = g => pte'[q][t].frame = g
      BY <1>1, <1>11, PteFacts DEF IInv
    <3>2. pte'[c][s].frame = pte[p][s].frame
      BY <1>2
    <3> QED
      BY <1>1, <1>11, <3>1, <3>2
  <2>2. FreedWhileCopied' <=> FreedWhileCopied
    BY <1>0, <1>5 DEF FreedWhileCopied
  <2> QED
    BY <1>0, <2>1, <2>2 DEF IInv, Frames
<1> QED
  BY <1>3, <1>7, <1>8, <1>9, <1>10, <1>12, <1>13, <1>14, <1>15, <1>16 DEF IInv, Alone

\* Clearing the entry of the loop of exit.
LEMMA ClearedFacts ==
  ASSUME IInv, NEW p \in Proc, op[p] \in {"reap", "free"}, todo[p] # {}, Cleared(p)
  PROVE  /\ Cur(p) \in Slot /\ Cur(p) \in todo[p] /\ CurFrame(p) \in Frame
         /\ pte'[p][Cur(p)] = Empty
         /\ \A q \in Proc, t \in Slot : ~(q = p /\ t = Cur(p)) => pte'[q][t] = pte[q][t]
         /\ todo'[p] = todo[p] \ {Cur(p)}
         /\ \A q \in Proc : q # p => pte'[q] = pte[q] /\ todo'[q] = todo[q]
         /\ pte' \in [Proc -> [Slot -> Pte]] /\ todo' \in [Proc -> SUBSET Slot]
<1>1. Cur(p) \in Slot /\ Cur(p) \in todo[p] /\ pte[p][Cur(p)] # Empty
  BY CurIn DEF IInv, Shapes, Shape
<1>2. CurFrame(p) \in Frame
  BY <1>1, PteFacts DEF IInv, CurFrame
<1>3. PICK s \in Slot : s = Cur(p)
  BY <1>1
<1>4. pte' = [pte EXCEPT ![p][s] = Empty] /\ todo' = [todo EXCEPT ![p] = @ \ {s}]
  BY <1>3 DEF Cleared
<1>5. Empty \in Pte
  BY DEF Pte
<1> QED
  BY <1>1, <1>2, <1>3, <1>4, <1>5 DEF IInv, Types

\* A process drops its reference and others are left: its entry goes.
LEMMA ReapSharedIInv ==
  ASSUME IInv, ~FreedWhileCopied, NEW p \in Proc, free_single_page(p), op'[p] # "free"
  PROVE  IInv'
<1>b. PICK s : s = Cur(p)
  OBVIOUS
<1>a. PICK f : f = pte[p][s].frame
  OBVIOUS
<1>0. /\ op[p] = "reap" /\ todo[p] # {} /\ pte[p][s].cow /\ refcount'[f] # 0
      /\ refcount' = [refcount EXCEPT ![f] = @ - 1]
      /\ Cleared(p)
      /\ UNCHANGED <<op, lock, free, mem, page, child>>
  BY <1>a, <1>b DEF free_single_page, last_reference, CurFrame, IInv, Types
<1>1. /\ s \in Slot /\ s \in todo[p] /\ f \in Frame
      /\ pte'[p][s] = Empty
      /\ \A q \in Proc, t \in Slot : ~(q = p /\ t = s) => pte'[q][t] = pte[q][t]
      /\ todo'[p] = todo[p] \ {s}
      /\ \A q \in Proc : q # p => Still(q)
      /\ pte' \in [Proc -> [Slot -> Pte]] /\ todo' \in [Proc -> SUBSET Slot]
  BY <1>a, <1>b, <1>0, ClearedFacts DEF Still, CurFrame
<1>2. Types'
  BY <1>0, <1>1 DEF IInv, Types
<1>3. /\ Empty.frame \notin Frame /\ ~Empty.cow /\ ~Empty.writable
      /\ \A q \in Proc : q # p => Cur(q)' = Cur(q) /\ CurFrame(q)' = CurFrame(q)
  BY <1>1, StillCur, FrameAssumption DEF Empty, None, Still, CurFrame
<1>4. \A q \in Proc, t \in Slot, g \in Frame :
        Counts(q, t, g)' <=> Counts(q, t, g) /\ ~(q = p /\ t = s)
  <2>1. \A g \in Frame : ~Counts(p, s, g)'
    BY <1>1, <1>3 DEF Counts
  <2>2. \A t \in Slot, g \in Frame : t # s => (Counts(p, t, g)' <=> Counts(p, t, g))
    BY <1>0, <1>1 DEF Counts
  <2> QED
    BY <1>1, <2>1, <2>2, StillCounts
<1>5. Refs'
  <2>1. ASSUME NEW g \in Frame, g # f PROVE refcount'[g] = Cardinality(Counting(g))'
    <3>1. \A q \in Proc, t \in Slot : Counts(q, t, g)' <=> Counts(q, t, g)
      BY <1>a, <1>4, <2>1 DEF Counts
    <3> QED
      BY <1>0, <2>1, <3>1, CountSame DEF IInv, Types, Refs
  <2>2. Counts(p, s, f)
    BY <1>a, <1>0 DEF Counts
  <2>3. refcount'[f] = Cardinality(Counting(f))'
    BY <1>0, <1>1, <1>4, <2>2, CountDrop DEF IInv, Types, Refs
  <2> QED
    BY <2>1, <2>3 DEF Refs
<1>6. PICK q0 \in Proc, t0 \in Slot : Counts(q0, t0, f)'
  BY Zenon, <1>0, <1>1, <1>5, CountZeroNext DEF Refs
<1>7. Shapes'
  <2>1. Shape(p)'
    <3>1. \A t \in Slot : pte'[p][t] # Empty <=> t \in todo'[p]
      BY <1>0, <1>1 DEF IInv, Shapes, Shape
    <3>2. \A t \in Slot : pte'[p][t] # Empty => (pte'[p][t].writable <=> ~pte'[p][t].cow)
      BY <1>1 DEF IInv, Shapes, Shape
    <3> QED
      BY ZenonT(30), <1>0, <3>1, <3>2 DEF Shape, Whole, Faulting
  <2> QED
    BY <1>1, <2>1, StillShape DEF IInv, Shapes
<1>8. Forks'
  BY ZenonT(30), <1>0, <1>1, ForksKept
<1>9. Faults'
  BY <1>0, <1>1, StillFault DEF IInv, Faults, Fault
<1>10. WriterAlone'
  <2>1. \A q \in Proc, t \in Slot : pte'[q][t].writable =>
          pte'[q][t] = pte[q][t] /\ pte[q][t].frame \in Frame
    BY <1>1, <1>3, PteFacts DEF IInv
  <2>2. \A q \in Proc, t \in Slot : pte'[q][t].frame \in Frame => pte'[q][t] = pte[q][t]
    BY <1>1, <1>3
  <2> QED
    BY <2>1, <2>2 DEF IInv, Alone, WriterAlone
<1>11. UnlockAlone'
  <2>1. \A x \in Proc : op[x] = "unlock" => CurFrame(x) \in Frame
    BY FaultCur DEF Faulting
  <2> QED
    BY <1>0, <1>1, <1>3, <2>1 DEF IInv, Alone, UnlockAlone
<1>12. FreeAlone'
  <2>1. ASSUME NEW x \in Proc, op[x] = "free", NEW q \in Proc, NEW t \in Slot,
               pte'[q][t].frame = CurFrame(x)
        PROVE  (q = x \/ op[q] = "copy") /\ t = Cur(q) /\ q # p
    <3>1. Cur(x) \in Slot /\ CurFrame(x) \in Frame
      BY <2>1, CurIn, PteFacts DEF IInv, Shapes, Shape, CurFrame
    <3>2. pte[q][t].frame = CurFrame(x)
      BY ZenonT(30), <1>1, <1>3, <2>1, <3>1
    <3> QED
      BY ZenonT(30), <1>0, <2>1, <3>2 DEF IInv, Alone, FreeAlone
  <2> QED
    BY ZenonT(30), <1>0, <1>3, <2>1 DEF FreeAlone
<1>13. CopyShared'
  <2>1. ASSUME NEW x \in Proc, op[x] = "copy", page[x] \notin free
        PROVE  \E q \in Proc, t \in Slot : pte'[q][t].frame = page[x] /\ ~(q = x /\ t = Cur(x))
    <3>1. PICK q \in Proc, t \in Slot : pte[q][t].frame = page[x] /\ ~(q = x /\ t = Cur(x))
      BY <2>1 DEF IInv, Alone, CopyShared
    <3>2. CASE q = p /\ t = s
      <4>1. page[x] = f /\ x # p
        BY ZenonT(30), <1>a, <1>0, <2>1, <3>1, <3>2
      <4>2. pte'[q0][t0].frame = f /\ ~(q0 = x /\ t0 = Cur(x))
        BY ZenonT(30), <1>0, <1>3, <1>6, <2>1, <4>1 DEF Counts
      <4> QED
        BY <4>1, <4>2
    <3>3. CASE ~(q = p /\ t = s)
      BY <1>1, <3>1, <3>3
    <3> QED
      BY <3>2, <3>3
  <2> QED
    BY ZenonT(30), <1>0, <1>3, <2>1 DEF CopyShared
<1>14. Frames'
  <2>1. pte'[q0][t0].frame = f
    BY <1>6 DEF Counts
  <2>2. ASSUME NEW g \in Frame
        PROVE  g \in free' <=> \A x \in Proc, u \in Slot : pte'[x][u].frame # g
    <3>1. g \in free <=> \A x \in Proc, u \in Slot : pte[x][u].frame # g
      BY ZenonT(30) DEF IInv, Frames
    <3>2. CASE g = f
      BY ZenonT(30), <1>a, <1>0, <1>1, <2>1, <3>1, <3>2
    <3>3. CASE g # f
      <4>1. pte[p][s].frame # g /\ pte'[p][s].frame # g
        BY SMTT(30), <1>a, <1>1, <1>3, <3>3
      <4>2. \A x \in Proc, u \in Slot : pte'[x][u].frame = g <=> pte[x][u].frame = g
        BY <1>1, <4>1
      <4> QED
        BY <1>0, <3>1, <4>2
    <3> QED
      BY <3>2, <3>3
  <2> QED
    BY <2>2 DEF Frames
<1> QED
  BY <1>2, <1>5, <1>7, <1>8, <1>9, <1>10, <1>11, <1>12, <1>13, <1>14 DEF IInv, Alone

\* The page is freed and the entry goes: unless a write fault copies the page,
\* nobody maps it any more.
LEMMA FreePageIInv ==
  ASSUME IInv, ~FreedWhileCopied, NEW p \in Proc, pmm_free_page(p)
  PROVE  IInv'
<1>b. PICK s : s = Cur(p)
  OBVIOUS
<1>a. PICK f : f = pte[p][s].frame
  OBVIOUS
<1>0. /\ op[p] = "free" /\ todo[p] # {}
      /\ free' = free \cup {f}
      /\ Cleared(p)
      /\ op' = [op EXCEPT ![p] = "reap"]
      /\ UNCHANGED <<refcount, lock, mem, page, child>>
  BY ZenonT(30), <1>a, <1>b DEF pmm_free_page, CurFrame, IInv, Shapes, Shape
<1>1. /\ s \in Slot /\ s \in todo[p] /\ f \in Frame
      /\ pte'[p][s] = Empty
      /\ \A q \in Proc, t \in Slot : ~(q = p /\ t = s) => pte'[q][t] = pte[q][t]
      /\ todo'[p] = todo[p] \ {s} /\ op'[p] = "reap"
      /\ \A q \in Proc : q # p => Still(q)
      /\ pte' \in [Proc -> [Slot -> Pte]] /\ todo' \in [Proc -> SUBSET Slot]
  BY <1>a, <1>b, <1>0, ClearedFacts DEF Still, CurFrame, IInv, Types
<1>2. Types'
  BY ZenonT(30), <1>0, <1>1 DEF IInv, Types, Steps
<1>3. /\ Empty.frame \notin Frame /\ ~Empty.cow /\ ~Empty.writable
      /\ \A q \in Proc : q # p => Cur(q)' = Cur(q) /\ CurFrame(q)' = CurFrame(q)
  BY <1>1, StillCur, FrameAssumption DEF Empty, None, Still, CurFrame
<1>4. Refs'
  <2>1. \A g \in Frame : ~Counts(p, s, g)' /\ ~Counts(p, s, g)
    BY ZenonT(30), <1>b, <1>0, <1>1, <1>3 DEF Counts
  <2>2. \A t \in Slot, g \in Frame : t # s => (Counts(p, t, g)' <=> Counts(p, t, g))
    BY ZenonT(30), <1>b, <1>0, <1>1 DEF Counts
  <2>3. \A q \in Proc, t \in Slot, g \in Frame : Counts(q, t, g)' <=> Counts(q, t, g)
    BY <1>1, <2>1, <2>2, StillCounts
  <2> QED
    BY ZenonT(30), <1>0, <2>3, CountSame DEF IInv, Refs
<1>5. Shapes'
  <2>1. Shape(p)'
    <3>1. \A t \in Slot : pte'[p][t] # Empty <=> t \in todo'[p]
      BY <1>0, <1>1 DEF IInv, Shapes, Shape
    <3>2. \A t \in Slot : pte'[p][t] # Empty => (pte'[p][t].writable <=> ~pte'[p][t].cow)
      BY <1>1 DEF IInv, Shapes, Shape
    <3> QED
      BY ZenonT(30), <1>1, <3>1, <3>2 DEF Shape, Whole, Faulting
  <2> QED
    BY ZenonT(30), <1>1, <2>1, StillShape DEF IInv, Shapes
<1>6. Forks'
  BY ZenonT(30), <1>0, <1>1, ForksKept
<1>7. Faults'
  BY <1>0, <1>1, StillFault DEF IInv, Faults, Fault
<1>8. WriterAlone'
  <2>1. \A q \in Proc, t \in Slot : pte'[q][t].writable =>
          pte'[q][t] = pte[q][t] /\ pte[q][t].frame \in Frame
    BY ZenonT(30), <1>1, <1>3, PteFacts DEF IInv
  <2>2. \A q \in Proc, t \in Slot : pte'[q][t].frame \in Frame => pte'[q][t] = pte[q][t]
    BY ZenonT(30), <1>1, <1>3
  <2> QED
    BY <2>1, <2>2 DEF IInv, Alone, WriterAlone
<1>9. UnlockAlone'
  <2>1. \A x \in Proc : op[x] = "unlock" => CurFrame(x) \in Frame
    BY FaultCur DEF Faulting
  <2> QED
    BY SMTT(30), <1>0, <1>1, <1>3, <2>1 DEF IInv, Alone, UnlockAlone, Still
<1>10. FreeAlone'
  <2>1. ASSUME NEW x \in Proc, x # p, op[x] = "free", NEW q \in Proc, NEW t \in Slot,
               pte'[q][t].frame = CurFrame(x)
        PROVE  (q = x \/ op[q] = "copy") /\ t = Cur(q) /\ q # p
    <3>1. Cur(x) \in Slot /\ CurFrame(x) \in Frame
      BY <2>1, CurIn, PteFacts DEF IInv, Shapes, Shape, CurFrame
    <3>2. pte[q][t].frame = CurFrame(x)
      BY ZenonT(30), <1>1, <1>3, <2>1, <3>1
    <3> QED
      BY ZenonT(30), <1>0, <2>1, <3>2 DEF IInv, Alone, FreeAlone
  <2> QED
    BY <1>1, <1>3, <2>1 DEF FreeAlone, Still
<1>11. CopyShared'
  <2>1. ASSUME NEW x \in Proc, op[x] = "copy", page[x] \notin free'
        PROVE  \E q \in Proc, t \in Slot : pte'[q][t].frame = page[x] /\ ~(q = x /\ t = Cur(x))
    <3>1. PICK q \in Proc, t \in Slot : pte[q][t].frame = page[x] /\ ~(q = x /\ t = Cur(x))
      BY <1>0, <2>1 DEF IInv, Alone, CopyShared
    <3> QED
      BY ZenonT(30), <1>a, <1>0, <1>1, <2>1, <3>1
  <2> QED
    BY <1>0, <1>1, <1>3, <2>1 DEF CopyShared, Still
<1>12. Frames'
  <2>1. SUFFICES ASSUME ~FreedWhileCopied', NEW g \in Frame
        PROVE  g \in free' <=> \A x \in Proc, u \in Slot : pte'[x][u].frame # g
    BY DEF Frames
  <2>2. g \in free <=> \A x \in Proc, u \in Slot : pte[x][u].frame # g
    BY DEF IInv, Frames
  <2>3. CASE g = f
    <3>1. SUFFICES ASSUME NEW x \in Proc, NEW u \in Slot, pte'[x][u].frame = f PROVE FALSE
      BY <1>0, <2>3
    <3>2. ~(x = p /\ u = s) /\ pte[x][u].frame = f
      BY <1>1, <1>3, <3>1
    <3>3. (x = p \/ op[x] = "copy") /\ u = Cur(x)
      BY ZenonT(30), <1>a, <1>b, <1>0, <3>2 DEF IInv, Alone, FreeAlone, CurFrame
    <3>4. x # p /\ op'[x] = "copy" /\ page'[x] = f
      BY <1>b, <1>0, <1>1, <3>2, <3>3 DEF IInv, Faults, Fault, CurFrame, Still
    <3> QED
      BY <1>0, <2>1, <3>4 DEF FreedWhileCopied
  <2>4. CASE g # f
    <3>1. pte[p][s].frame # g /\ pte'[p][s].frame # g
      BY <1>a, <1>1, <1>3, <2>4
    <3>2. \A x \in Proc, u \in Slot : pte'[x][u].frame = g <=> pte[x][u].frame = g
      BY <1>1, <3>1
    <3> QED
      BY <1>0, <2>2, <2>4, <3>2
  <2> QED
    BY <2>3, <2>4
<1> QED
  BY <1>2, <1>4, <1>5, <1>6, <1>7, <1>8, <1>9, <1>10, <1>11, <1>12 DEF IInv, Alone

\* The beginning of a fork.
LEMMA ForkIInv ==
  ASSUME IInv, NEW p \in Proc, NEW c \in Proc, task_fork(p, c)
  PROVE  IInv'
<1>0. /\ op[p] = "user" /\ op[c] = "none" /\ p # c
      /\ op' = [op EXCEPT ![p] = "clone", ![c] = "born"]
      /\ todo' = [todo EXCEPT ![p] = Slot]
      /\ child' = [child EXCEPT ![p] = c]
      /\ UNCHANGED <<pte, refcount, lock, free, mem, page>>
  BY DEF task_fork
<1>1. Types'
  BY SMTT(30), <1>0 DEF IInv, Types, Steps
<1>2. /\ op'[p] = "clone" /\ op'[c] = "born" /\ todo'[p] = Slot /\ todo'[c] = todo[c]
      /\ child'[p] = c
      /\ \A q \in Proc : q \notin {p, c} => Still(q) /\ child'[q] = child[q]
      /\ child'[c] = child[c]
  BY <1>0 DEF IInv, Types, Still
<1>4. Shapes'
  <2>1. Shape(p)'
    BY ZenonT(30), <1>0, <1>2 DEF IInv, Shapes, Shape, Whole, Faulting
  <2>2. Shape(c)'
    BY <1>0, <1>2 DEF IInv, Shapes, Shape, Whole, Faulting
  <2> QED
    BY <1>2, <2>1, <2>2, StillShape DEF IInv, Shapes
<1>5. Forks'
  <2>1. \A q \in Proc : child[q] # c /\ child[q] # p
    BY ZenonT(30), <1>0, FrameAssumption DEF IInv, Forks, Fork, None
  <2>2. Fork(p)'
    BY <1>0, <1>2 DEF IInv, Shapes, Shape, Fork
  <2>3. Fork(c)'
    BY ZenonT(30), <1>0, <1>2 DEF IInv, Forks, Fork
  <2>4. ASSUME NEW q \in Proc, q \notin {p, c} PROVE Fork(q)'
    BY <1>2, <2>1, <2>4, StillFork DEF IInv, Forks, Fork
  <2>5. \A x, y \in Proc : child'[x] = child'[y] => x = y \/ child'[x] = None
    BY <1>0, <1>2, <2>1 DEF IInv, Forks
  <2> QED
    BY <2>2, <2>3, <2>4, <2>5 DEF Forks
<1>6. Faults'
  BY Zenon, <1>0, <1>2, StillFault DEF IInv, Faults, Fault
<1>7. Quiet
  BY Zenon, <1>0, <1>2 DEF Quiet, Still
<1> QED
  BY <1>1, <1>4, <1>5, <1>6, <1>7, QuietStep DEF IInv

\* The end of a fork: the child has a copy of every entry.
LEMMA ForkEndIInv ==
  ASSUME IInv, NEW p \in Proc, fork_end(p)
  PROVE  IInv'
<1>a. PICK c \in Proc : c = child[p]
  BY DEF fork_end, IInv, Forks, Fork
<1>0. /\ op[p] = "clone" /\ todo[p] = {} /\ op[c] = "born" /\ p # c
      /\ op' = [op EXCEPT ![p] = "user", ![c] = "user"]
      /\ child' = [child EXCEPT ![p] = None]
      /\ UNCHANGED <<pte, refcount, lock, free, mem, todo, page>>
      /\ \A s \in Slot : pte[c][s] = pte[p][s]
  BY <1>a DEF fork_end, IInv, Forks, Fork
<1>1. Types'
  BY Zenon, <1>0 DEF IInv, Types, Steps
<1>2. /\ op'[p] = "user" /\ op'[c] = "user"
      /\ child'[p] = None
      /\ \A q \in Proc : q \notin {p, c} => Still(q) /\ child'[q] = child[q]
      /\ child'[c] = child[c]
  BY <1>0 DEF IInv, Types, Still
<1>4. Shapes'
  <2>1. Shape(p)'
    BY ZenonT(30), <1>0, <1>2 DEF IInv, Shapes, Shape, Whole, Faulting
  <2>2. Shape(c)'
    <3>1. Shape(p) /\ Shape(c)
      BY DEF IInv, Shapes
    <3>2. \A s \in Slot : pte[c][s] # Empty /\ (pte[c][s].writable <=> ~pte[c][s].cow)
      BY ZenonT(30), <1>0, <3>1 DEF Shape, Whole
    <3>3. todo[c] = {}
      BY <1>0, <3>1 DEF Shape
    <3> QED
      BY ZenonT(30), <1>0, <1>2, <3>2, <3>3 DEF Shape, Whole, Faulting
  <2> QED
    BY ZenonT(30), <1>2, <2>1, <2>2, StillShape DEF IInv, Shapes
<1>5. Forks'
  <2>1. \A q \in Proc : q # p => child[q] # c
    BY ZenonT(30), <1>a, FrameAssumption DEF IInv, Forks, None
  <2>2. \A q \in Proc : child[q] # p
    BY <1>0, FrameAssumption DEF IInv, Forks, Fork, None
  <2>3. Fork(p)' /\ Fork(c)'
    BY <1>0, <1>2 DEF IInv, Forks, Fork
  <2>4. ASSUME NEW q \in Proc, q \notin {p, c} PROVE Fork(q)'
    BY ZenonT(30), <1>2, <2>1, <2>2, <2>4, StillFork DEF IInv, Forks, Fork
  <2>5. \A x, y \in Proc : child'[x] = child'[y] => x = y \/ child'[x] = None
    BY <1>0, <1>2, <2>1 DEF IInv, Forks
  <2> QED
    BY <2>3, <2>4, <2>5 DEF Forks
<1>6. Faults'
  BY Zenon, <1>0, <1>2, StillFault DEF IInv, Faults, Fault
<1>7. Quiet
  BY Zenon, <1>0, <1>2 DEF Quiet, Still
<1> QED
  BY ZenonT(30), <1>1, <1>4, <1>5, <1>6, <1>7, QuietStep DEF IInv

\* Every step keeps the invariant.
LEMMA StepIInv ==
  ASSUME IInv, [Next]_vars
  PROVE  IInv'
<1>1. CASE UNCHANGED vars
  <2>1. UNCHANGED <<pte, refcount, lock, free, mem, op, todo, page, child>>
    BY ZenonT(30), <1>1 DEF vars
  <2>2. \A q \in Proc : Still(q)
    BY <2>1 DEF Still
  <2>3. Types'
    BY <2>1 DEF IInv, Types
  <2>4. Shapes' /\ Forks' /\ Faults'
    <3>1. Shapes'
      BY SMTT(30), <2>2, StillShape DEF IInv, Shapes
    <3>2. Forks'
      BY <2>1 DEF IInv, Forks, Fork
    <3>3. Faults'
      BY <2>1, <2>2, StillFault DEF IInv, Faults
    <3> QED
      BY <3>1, <3>2, <3>3
  <2>5. Quiet
    BY <2>1 DEF Quiet
  <2> QED
    BY <2>3, <2>4, <2>5, QuietStep DEF IInv
<1>2. ASSUME Next PROVE IInv'
  <2>1. ~FreedWhileCopied
    BY <1>2 DEF Next
  <2>2. PICK p \in Proc : Step(p) \/ \E s \in Slot, v \in Val : Store(p, s, v)
    BY <1>2 DEF Next
  <2>3. CASE \E s \in Slot, v \in Val : Store(p, s, v)
    BY <2>3, StoreIInv
  <2>4. CASE \E c \in Proc : task_fork(p, c)
    BY <2>4, ForkIInv
  <2>5. CASE clone_single_page(p)
    BY <2>5, ClonePageIInv
  <2>6. CASE cow_copy_pte(p)
    BY <2>6, CopyPteIInv
  <2>7. CASE fork_end(p)
    BY <2>7, ForkEndIInv
  <2>8. CASE \E s \in Slot : page_fault_handler(p, s)
    BY <2>8, PageFaultIInv
  <2>9. CASE cow_handle_write_lock(p)
    BY <2>9, WriteLockIInv
  <2>10. CASE cow_handle_write_dec(p)
    BY <2>1, <2>10, WriteDecIInv
  <2>11. CASE \E d \in Frame : cow_handle_write_copy(p, d)
    BY <2>1, <2>11, WriteCopyIInv
  <2>12. CASE cow_handle_write_unlock(p)
    BY <2>1, <2>12, WriteUnlockIInv
  <2>13. CASE task_exit(p)
    BY <2>13, ExitIInv
  <2>14. CASE free_single_page(p)
    BY <2>1, <2>14, ReapLastIInv, ReapSharedIInv
  <2>15. CASE pmm_free_page(p)
    BY <2>1, <2>15, FreePageIInv
  <2>16. CASE mmu_reap_end(p)
    BY <2>16, ReapEndIInv
  <2> QED
    BY ZenonT(30), <2>2, <2>3, <2>4, <2>5, <2>6, <2>7, <2>8, <2>9, <2>10, <2>11, <2>12, <2>13, <2>14,
       <2>15, <2>16 DEF Step
<1> QED
  BY <1>1, <1>2

\* The state after task_execve: the pages of the first process are its own.
LEMMA InitIInv ==
  ASSUME Init
  PROVE  IInv
<1>0. PICK F \in [Slot -> Frame], v \in Val :
    /\ \A s, t \in Slot : s # t => F[s] # F[t]
    /\ pte = [p \in Proc |-> [s \in Slot |->
                IF p = first THEN [frame |-> F[s], cow |-> FALSE, writable |-> TRUE]
                ELSE Empty]]
    /\ refcount = [g \in Frame |-> 0]
    /\ lock = [g \in Frame |-> None]
    /\ free = Frame \ {F[s] : s \in Slot}
    /\ mem = [g \in Frame |-> v]
    /\ op = [p \in Proc |-> IF p = first THEN "user" ELSE "none"]
    /\ todo = [p \in Proc |-> {}]
    /\ page = [p \in Proc |-> None]
    /\ child = [p \in Proc |-> None]
  BY Zenon DEF Init
<1>1. \A p \in Proc, s \in Slot :
        /\ p = first => pte[p][s] = [frame |-> F[s], cow |-> FALSE, writable |-> TRUE]
        /\ p # first => pte[p][s] = Empty
  BY <1>0
<1>2. \A s \in Slot : [frame |-> F[s], cow |-> FALSE, writable |-> TRUE] # Empty
  BY FrameAssumption DEF Empty, None
<1>3. Empty.frame \notin Frame /\ ~Empty.cow /\ ~Empty.writable
  BY FrameAssumption DEF Empty, None
<1>f. \A p \in Proc, s \in Slot :
        /\ p = first => pte[p][s].frame = F[s] /\ ~pte[p][s].cow
        /\ p # first => pte[p][s].frame \notin Frame /\ ~pte[p][s].cow /\ ~pte[p][s].writable
  <2>1. SUFFICES ASSUME NEW p \in Proc, NEW s \in Slot
        PROVE  /\ p = first => pte[p][s].frame = F[s] /\ ~pte[p][s].cow
               /\ p # first => pte[p][s].frame \notin Frame /\ ~pte[p][s].cow /\ ~pte[p][s].writable
    OBVIOUS
  <2>2. CASE p = first
    <3>1. pte[p][s] = [frame |-> F[s], cow |-> FALSE, writable |-> TRUE]
      BY <1>1, <2>2
    <3> QED
      BY <2>2, <3>1
  <2>3. CASE p # first
    BY ZenonT(30), <1>1, <1>3, <2>3
  <2> QED
    BY <2>2, <2>3
<1>4. Types
  <2>1. Empty \in Pte /\ \A s \in Slot : [frame |-> F[s], cow |-> FALSE, writable |-> TRUE] \in Pte
    BY DEF Pte
  <2>2. pte \in [Proc -> [Slot -> Pte]]
    BY <1>0, <2>1
  <2> QED
    BY <1>0, <2>2 DEF Types, Steps
<1>5. Shapes
  BY <1>0, <1>1, <1>2 DEF Shapes, Shape, Whole, Faulting
<1>6. Forks /\ Faults
  BY <1>0 DEF Forks, Fork, Faults, Fault
<1>7. \A q \in Proc, t \in Slot, f \in Frame : pte[q][t].frame = f <=> q = first /\ F[t] = f
  BY <1>f
<1>8. Alone
  <2>1. \A q \in Proc, t \in Slot : pte[q][t].writable => q = first
    BY Zenon, <1>1, <1>3
  <2>2. WriterAlone
    <3>1. ASSUME NEW p \in Proc, NEW q \in Proc, NEW s \in Slot, NEW t \in Slot,
                 pte[p][s].writable, pte[q][t].frame = pte[p][s].frame
          PROVE  q = p /\ t = s
      <4>1. p = first /\ pte[p][s].frame = F[s]
        BY <1>f, <2>1, <3>1
      <4>2. q = first /\ F[t] = F[s]
        BY <1>7, <3>1, <4>1
      <4> QED
        BY <1>0, <4>1, <4>2
    <3> QED
      BY <3>1 DEF WriterAlone
  <2> QED
    BY <1>0, <2>2 DEF Alone, UnlockAlone, FreeAlone, CopyShared
<1>9. Refs
  <2>1. \A q \in Proc, t \in Slot : ~pte[q][t].cow
    BY <1>f
  <2>2. ASSUME NEW f \in Frame PROVE Cardinality(Counting(f)) = 0
    <3>1. Counting(f) = {}
      BY <2>1 DEF Counting, Entries
    <3> QED
      BY <3>1, FS_EmptySet
  <2> QED
    BY <1>0, <2>2 DEF Refs
<1>10. Frames
  <2>1. \A f \in Frame : f \in free <=> \A s \in Slot : F[s] # f
    BY <1>0
  <2> QED
    BY <1>7, <2>1, FrameAssumption DEF Frames
<1> QED
  BY <1>4, <1>5, <1>6, <1>8, <1>9, <1>10 DEF IInv

\* The invariant holds in every reachable state.
LEMMA Invariance == Spec => []IInv
<1>1. Init => IInv
  BY InitIInv
<1>2. IInv /\ [Next]_vars => IInv'
  BY StepIInv
<1> QED
  BY <1>1, <1>2, PTL DEF Spec

\* The reference count of a page is the number of the entries that refer to it,
\* whatever fork, write faults and exit do at the same time, and a page that is
\* mapped writable is mapped once.
THEOREM CountedAlways == Spec => []Counted
<1>1. ASSUME IInv PROVE Counted
  <2>1. TypeOK
    <3>1. ASSUME NEW f \in Frame
          PROVE  refcount[f] \in 0..(2 * Cardinality(Proc) * Cardinality(Slot))
      <4>1. PICK P \in Nat, S \in Nat : P = Cardinality(Proc) /\ S = Cardinality(Slot)
        BY FrameAssumption, FS_CardinalityType
      <4>2. refcount[f] \in 0..(P * S)
        BY <1>1, <4>1, CountingFinite DEF IInv, Refs
      <4>3. 2 * P * S = P * S + P * S /\ P * S \in Nat
        BY <4>1
      <4> QED
        BY <4>1, <4>2, <4>3
    <3>2. refcount \in [Frame -> 0..(2 * Cardinality(Proc) * Cardinality(Slot))]
      BY <1>1, <3>1 DEF IInv, Types
    <3> QED
      BY <1>1, <3>2 DEF IInv, Types, TypeOK
  <2>2. ASSUME NEW p \in Proc, NEW s \in Slot, pte[p][s].writable
        PROVE  Entries(pte[p][s].frame) = {<<p, s>>}
    BY <1>1, <2>2 DEF IInv, Alone, WriterAlone, Entries
  <2> QED
    BY <1>1, <2>1, <2>2 DEF IInv, Refs, Counted
<1> QED
  BY <1>1, Invariance, PTL

\* No frame is lost, and none is free and mapped.
THEOREM FramesAccountedAlways == Spec => []FramesAccounted
<1>1. ASSUME IInv PROVE FramesAccounted
  <2>1. SUFFICES ASSUME ~FreedWhileCopied PROVE free = {f \in Frame : Entries(f) = {}}
    BY DEF FramesAccounted
  <2>2. ASSUME NEW f \in Frame
        PROVE  Entries(f) = {} <=> \A p \in Proc, s \in Slot : pte[p][s].frame # f
    <3>1. \A p \in Proc, s \in Slot : pte[p][s].frame = f <=> <<p, s>> \in Entries(f)
      BY DEF Entries
    <3>2. Entries(f) \subseteq Proc \X Slot
      BY DEF Entries
    <3>3. Entries(f) = {} <=> \A p \in Proc, s \in Slot : <<p, s>> \notin Entries(f)
      BY <3>2
    <3> QED
      BY Zenon, <3>1, <3>3
  <2>3. free \subseteq Frame
    BY <1>1 DEF IInv, Types
  <2> QED
    BY <1>1, <2>1, <2>2, <2>3 DEF IInv, Frames
<1> QED
  BY <1>1, Invariance, PTL

-----------------------------------------------------------------------------
(* Refinement: the memory a process sees is its own. *)

\* Copy on write implements memory that is not shared: whatever processes fork,
\* write and exit at the same time, each sees the memory of PrivateMemory.
THEOREM CowImplements == Spec => Implements
<1>1. Init => Promise!Init
  <2> SUFFICES ASSUME Init PROVE Promise!Init
    OBVIOUS
  <2>1. PICK F \in [Slot -> Frame], v \in Val :
          /\ pte = [p \in Proc |-> [s \in Slot |->
                IF p = first THEN [frame |-> F[s], cow |-> FALSE, writable |-> TRUE]
                ELSE Empty]]
          /\ mem = [g \in Frame |-> v]
          /\ op = [p \in Proc |-> IF p = first THEN "user" ELSE "none"]
    BY Zenon DEF Init
  <2>2. \A p \in Proc : Contents(p) = IF p = first THEN [s \in Slot |-> v] ELSE <<>>
    BY <2>1 DEF Contents
  <2> QED
    BY <2>2 DEF Promise!Init
<1>2. IInv /\ [Next]_vars => [Promise!Next]_(Promise!vars)
  <2> SUFFICES ASSUME IInv, [Next]_vars PROVE [Promise!Next]_(Promise!vars)
    OBVIOUS
  <2>1. CASE UNCHANGED vars
    BY <2>1 DEF vars, Promise!vars, Contents
  <2>2. ASSUME NEW p \in Proc, ~FreedWhileCopied, Step(p) PROVE [Promise!Next]_(Promise!vars)
    BY <2>2, ForkRefines, ExitRefines, HiddenStep DEF Promise!Next, Promise!vars, View
  <2>3. ASSUME NEW p \in Proc, NEW s \in Slot, NEW v \in Val, Store(p, s, v) PROVE Promise!Next
    BY <2>3, StoreRefines DEF Promise!Next
  <2> QED
    BY <2>1, <2>2, <2>3 DEF Next
<1> QED
  BY <1>1, <1>2, Invariance, PTL DEF Spec, Implements, Promise!Spec
=============================================================================
