----------------------------- MODULE SlobProofs -----------------------------
(***************************************************************************)
(* Proofs about the kernel heap, for any sizes of pages and headers, any   *)
(* number of pages and any requests: the blocks tile the pages of the heap *)
(* (Tiled), and slob_alloc calls morecore at most once (LoopsOnce).        *)
(*                                                                         *)
(* The list of free blocks is described by the sequence w of its k blocks: *)
(* following next from head visits w[1], ..., w[k] and no block twice.     *)
(***************************************************************************)
EXTENDS Slob, FiniteSetTheorems, TLAPS

\* From h on, the links nx visit the k different blocks of w and then end.
Linked(h, nx, k, w) ==
  /\ k \in Nat /\ w \in [1..k -> Addr]
  /\ \A i, j \in 1..k : w[i] = w[j] => i = j
  /\ h = IF k = 0 THEN NULL ELSE w[1]
  /\ \A i \in 1..k : nx[w[i]] = IF i = k THEN NULL ELSE w[i + 1]

\* w is the list of free blocks.
List(k, w) == Linked(head, next, k, w)

\* The scan of slob_alloc is behind i blocks of the list.
Behind(k, w, i) ==
  /\ op.prev = IF i = 0 THEN NULL ELSE w[i]
  /\ op.block = IF i = k THEN NULL ELSE w[i + 1]

Scan(k, w) == op.kind = "alloc" => \E i \in 0..k : Behind(k, w, i)

\* The block at b lies in page p.
Inside(b, p) == p * PageUnits <= b /\ b + units[b] < p * PageUnits + PageUnits

\* The blocks B tile the pages of the heap.
Tiles(B) ==
  /\ \A b \in B : \E p \in pages : Inside(b, p)
  /\ \A a, b \in B : a < b => a + units[a] < b
  /\ \A p \in pages : \A x \in (p * PageUnits)..(p * PageUnits + PageUnits - 1) :
       \E b \in B : x \in Extent(b)

\* The free blocks, and all of them.
Free(k, w) == {w[i] : i \in 1..k}
Blocks(k, w) == Free(k, w) \cup HeldAddrs

\* Each block is free or held once.
Once(k, w) ==
  /\ \A i \in 1..k : w[i] \notin HeldAddrs
  /\ \A m, n \in held : m.addr = n.addr => m = n

Shape(k, w) ==
  /\ List(k, w) /\ Scan(k, w)
  /\ op.kind # "shared" => Once(k, w) /\ Tiles(Blocks(k, w))

\* A caller has the units it asked for, in one page.
HeldFit ==
  \A m \in held : /\ units[m.addr] = UnitsFor(m.bytes)
                  /\ \E p \in Nat : Inside(m.addr, p)

\* Only requests that fit into a page are looked for, and after morecore there is
\* a block to look at.
Request ==
  op.kind = "alloc" => op.bytes < BIGALLOC /\ (op.rounds > 0 => op.block # NULL)

IInv == TypeOK /\ (\E k, w : Shape(k, w)) /\ HeldFit /\ Request /\ LoopsOnce

-----------------------------------------------------------------------------
(* Units and pages. *)

\* A page is at least three units long.
LEMMA PageFacts ==
  /\ PageUnits \in Nat /\ PageUnits >= 3
  /\ PAGE_SIZE = PageUnits * UNIT
<1>1. PageUnits \in Int /\ PAGE_SIZE = UNIT * PageUnits
  BY UnitAssumption DEF PageUnits
<1>2. PageUnits > 2
  BY UnitAssumption, <1>1
<1> QED
  BY <1>1, <1>2, UnitAssumption

\* morecore makes a block of a whole page.
LEMMA FreshFacts == FreshUnits = PageUnits - 1
  BY PageFacts, UnitAssumption DEF FreshUnits

\* The rounding of slob_alloc: enough for the request, and no more than the page
\* of morecore if the request is not a large one.
LEMMA UnitsForFacts ==
  ASSUME NEW n \in Sizes
  PROVE  /\ UnitsFor(n) \in Nat /\ UnitsFor(n) >= 1
         /\ UnitsFor(n) * UNIT >= n
         /\ n < BIGALLOC => UnitsFor(n) <= FreshUnits
<1>1. n \in Nat /\ n >= 1 /\ UNIT \in Nat /\ UNIT >= 1
  BY SizeAssumption, UnitAssumption
<1>2. PICK q \in Int : q = UnitsFor(n)
  BY <1>1 DEF UnitsFor
<1>3. UNIT * q <= n + UNIT - 1 /\ n + UNIT - 1 < UNIT * q + UNIT
  BY <1>1, <1>2 DEF UnitsFor
<1>4. q >= 1
  BY <1>1, <1>3
<1>5. ASSUME n < BIGALLOC PROVE q <= PageUnits - 1
  <2>1. UNIT * q < UNIT * PageUnits
    BY <1>1, <1>3, <1>5, PageFacts DEF BIGALLOC
  <2> QED
    BY <1>1, <2>1, PageFacts
<1> QED
  BY <1>1, <1>2, <1>3, <1>4, <1>5, FreshFacts

\* The page an address is in.
LEMMA DivFacts ==
  ASSUME NEW p \in Nat, NEW a \in Nat, p * PageUnits <= a, a < p * PageUnits + PageUnits
  PROVE  a \div PageUnits = p /\ a % PageUnits = a - p * PageUnits
BY PageFacts

\* Pages do not overlap.
LEMMA PagesApart ==
  ASSUME NEW p \in Nat, NEW q \in Nat, p < q
  PROVE  p * PageUnits + PageUnits <= q * PageUnits
BY PageFacts

\* The pages of the heap consist of addresses.
LEMMA PageAddrs ==
  ASSUME NEW p \in 0..(NPage - 1)
  PROVE  /\ p * PageUnits \in Nat /\ (p + 1) * PageUnits = p * PageUnits + PageUnits
         /\ (p * PageUnits)..(p * PageUnits + PageUnits - 1) \subseteq Addr
<1>1. p \in Nat /\ NPage \in Nat /\ p < NPage
  BY SizeAssumption
<1>2. p * PageUnits \in Nat /\ NPage * PageUnits \in Nat
  BY <1>1, PageFacts
<1>3. p * PageUnits + PageUnits <= NPage * PageUnits
  BY <1>1, PagesApart
<1>4. (p + 1) * PageUnits = p * PageUnits + PageUnits
  BY <1>1, PageFacts
<1> QED
  BY <1>2, <1>3, <1>4, PageFacts DEF Addr, NAddr

-----------------------------------------------------------------------------
(* The list of free blocks. *)

\* A non-empty set of numbers has a least element.
LEMMA Least == ASSUME NEW S \in SUBSET Nat, S # {} PROVE \E n \in S : \A m \in S : n <= m
<1> DEFINE R == OpToRel(<, Nat)
<1>1. IsWellFoundedOn(R, Nat)
  BY Zenon, NatLessThanWellFounded
<1>2. \A x, y \in Nat : x < y => <<x, y>> \in R
  BY DEF OpToRel
<1> HIDE DEF R
<1>3. PICK n \in S : \A m \in S : ~(<<m, n>> \in R)
  BY Zenon, <1>1, WFMin
<1>4. ASSUME NEW m \in S PROVE n <= m
  <2>1. ~(m < n)
    BY <1>2, <1>3, Zenon
  <2> QED
    BY <2>1
<1> QED
  BY <1>4

\* No block is listed twice, so the list is not longer than the heap.
LEMMA ListLength == ASSUME NEW k, NEW w, List(k, w) PROVE k \in 0..NAddr
<1>1. k \in Nat /\ w \in Injection(1..k, Addr)
  BY DEF List, Linked, Injection, IsInjective
<1>2. NAddr \in Nat
  BY SizeAssumption, PageFacts DEF NAddr
<1>3. IsFiniteSet(Addr) /\ Cardinality(Addr) = NAddr
  BY <1>2, FS_Interval DEF Addr
<1>4. Cardinality(1..k) = k
  BY <1>1, FS_Interval
<1> QED
  BY <1>1, <1>2, <1>3, <1>4, FS_Injection

\* What one meets on the way from head: the walk is defined by recursion, and a
\* least step at which it left the list would have left it one step before.
LEMMA WalkList ==
  ASSUME NEW k, NEW w, List(k, w)
  PROVE  \A n \in 0..NAddr : Walk[n] = IF n < k THEN w[n + 1] ELSE NULL
<1> DEFINE e(n) == IF n < k THEN w[n + 1] ELSE NULL
           W == [n \in 0..NAddr |-> e(n)]
           Step(V) == [n \in 0..NAddr |->
                         IF n = 0 THEN head
                         ELSE LET a == V[n - 1] IN IF a = NULL THEN NULL ELSE next[a]]
<1>1. k \in 0..NAddr /\ NAddr \in Nat
  BY ListLength, SizeAssumption, PageFacts DEF NAddr
<1>2. ASSUME NEW n \in 0..NAddr, n # 0
      PROVE  e(n) = IF e(n - 1) = NULL THEN NULL ELSE next[e(n - 1)]
  <2>1. CASE n - 1 < k
    <3>1. n \in 1..k /\ w[n] \in Addr /\ w[n] # NULL
      BY <1>1, <1>2, <2>1 DEF List, Linked, Addr, NULL
    <3>2. next[w[n]] = IF n = k THEN NULL ELSE w[n + 1]
      BY <3>1 DEF List, Linked
    <3> QED
      BY <1>1, <3>1, <3>2
  <2> QED
    BY <1>1, <1>2, <2>1
<1>3. e(0) = head
  BY <1>1 DEF List, Linked
<1>4. W = Step(W)
  <2>1. ASSUME NEW n \in 0..NAddr PROVE W[n] = Step(W)[n]
    <3>1. CASE n = 0
      BY <1>3, <2>1, <3>1
    <3>2. CASE n # 0
      <4>1. n - 1 \in 0..NAddr /\ W[n - 1] = e(n - 1) /\ W[n] = e(n)
        BY <1>1, <2>1, <3>2
      <4> HIDE DEF e, W
      <4> QED
        BY <1>2, <3>2, <4>1
    <3> QED
      BY <3>1, <3>2
  <2> HIDE DEF e
  <2> QED
    BY <2>1
<1>5. Walk = Step(Walk)
  <2> HIDE DEF W
  <2> QED
    BY Zenon, <1>4 DEF Walk
<1>6. SUFFICES ASSUME {n \in 0..NAddr : Walk[n] # e(n)} # {} PROVE FALSE
  OBVIOUS
<1>7. PICK n \in 0..NAddr : Walk[n] # e(n) /\ \A m \in 0..NAddr : Walk[m] # e(m) => n <= m
  <2> DEFINE S == {m \in 0..NAddr : Walk[m] # e(m)}
  <2>1. S \in SUBSET Nat /\ S # {}
    BY <1>1, <1>6
  <2>2. PICK n \in S : \A m \in S : n <= m
    BY ZenonT(30), <2>1, Least
  <2> QED
    BY <2>2
<1> HIDE DEF e
<1>8. n # 0
  BY <1>1, <1>3, <1>5, <1>7
<1>9. n - 1 \in 0..NAddr /\ Walk[n - 1] = e(n - 1)
  BY <1>1, <1>7, <1>8
<1> QED
  BY <1>2, <1>5, <1>7, <1>8, <1>9

\* The free blocks are those of the list, and the list ends.
LEMMA ListedList ==
  ASSUME NEW k, NEW w, List(k, w)
  PROVE  Listed = {w[i] : i \in 1..k} /\ Walk[NAddr] = NULL
<1>1. k \in 0..NAddr /\ NAddr \in Nat
  BY ListLength, SizeAssumption, PageFacts DEF NAddr
<1>2. \A i \in 1..k : w[i] \in Addr /\ w[i] # NULL
  BY DEF List, Linked, Addr, NULL
<1>3. ASSUME NEW n \in 0..NAddr, Walk[n] # NULL PROVE \E i \in 1..k : Walk[n] = w[i]
  <2>1. n < k /\ Walk[n] = w[n + 1]
    BY <1>3, WalkList
  <2> QED
    BY <1>1, <2>1
<1>4. ASSUME NEW i \in 1..k PROVE i - 1 \in 0..NAddr /\ Walk[i - 1] = w[i]
  BY <1>1, WalkList
<1> QED
  BY <1>1, <1>2, <1>3, <1>4, WalkList DEF Listed

-----------------------------------------------------------------------------
(* The invariant implies the properties. *)

\* A block in one page: the memory behind its header begins in the same page.
LEMMA InsideFacts ==
  ASSUME NEW b \in Nat, NEW p \in Nat, units[b] \in Nat, Inside(b, p)
  PROVE  /\ b \div PageUnits = p /\ (b + units[b]) \div PageUnits = p
         /\ units[b] >= 1 => (b + 1) % PageUnits # 0
<1>1. p * PageUnits \in Nat /\ PageUnits \in Nat
  BY PageFacts
<1>2. p * PageUnits <= b /\ b + units[b] < p * PageUnits + PageUnits
  BY DEF Inside
<1>3. ASSUME units[b] >= 1 PROVE (b + 1) % PageUnits # 0
  <2>1. PICK a \in Nat : a = b + 1
    OBVIOUS
  <2>2. p * PageUnits < a /\ a < p * PageUnits + PageUnits
    BY <1>1, <1>2, <1>3, <2>1
  <2>3. a % PageUnits = a - p * PageUnits
    <3>1. p * PageUnits <= a
      BY <1>1, <2>2
    <3> QED
      BY Zenon, <2>2, <3>1, DivFacts
  <2> QED
    BY <1>1, <2>1, <2>2, <2>3
<1>4. /\ b < p * PageUnits + PageUnits
      /\ b + units[b] \in Nat /\ p * PageUnits <= b + units[b]
  BY <1>1, <1>2
<1>5. b \div PageUnits = p /\ (b + units[b]) \div PageUnits = p
  BY Zenon, <1>2, <1>4, DivFacts
<1> QED
  BY <1>3, <1>5

\* What the callers have.
LEMMA HeldFacts ==
  ASSUME TypeOK, HeldFit, NEW m \in held
  PROVE  /\ m.addr \in Addr /\ m.addr \in Nat /\ m.bytes \in Sizes /\ m.addr \in HeldAddrs
         /\ units[m.addr] \in Nat /\ units[m.addr] >= 1
         /\ units[m.addr] * UNIT >= m.bytes
         /\ m.addr \div PageUnits = (m.addr + units[m.addr]) \div PageUnits
         /\ (m.addr + 1) % PageUnits # 0
<1>1. m.addr \in Addr /\ m.addr \in Nat /\ m.bytes \in Sizes /\ m.addr \in HeldAddrs
  BY DEF TypeOK, Addr, HeldAddrs
<1>2. units[m.addr] = UnitsFor(m.bytes)
  BY DEF HeldFit
<1>3. units[m.addr] \in Nat /\ units[m.addr] >= 1 /\ units[m.addr] * UNIT >= m.bytes
  BY <1>1, <1>2, UnitsForFacts
<1>4. PICK p \in Nat : Inside(m.addr, p)
  BY DEF HeldFit
<1> QED
  BY <1>1, <1>3, <1>4, InsideFacts

\* The blocks are addresses.
LEMMA BlockFacts ==
  ASSUME TypeOK, NEW k, NEW w, List(k, w)
  PROVE  \A b \in Blocks(k, w) : b \in Addr /\ b \in Nat /\ units[b] \in Nat /\ b \in Extent(b)
<1>1. \A b \in Blocks(k, w) : b \in Addr
  BY DEF Blocks, Free, List, Linked, HeldAddrs, TypeOK
<1>2. \A b \in Addr : b \in Nat /\ units[b] \in Nat
  BY PageFacts DEF TypeOK, Addr
<1> QED
  BY <1>1, <1>2 DEF Extent

\* The invariant says that the heap is tiled.
LEMMA IInvTiled == ASSUME IInv PROVE Tiled
<1>1. PICK k, w : Shape(k, w)
  BY DEF IInv
<1>2. TypeOK /\ HeldFit /\ List(k, w)
  BY <1>1 DEF IInv, Shape
<1>3. Listed \cup HeldAddrs = Blocks(k, w) /\ Walk[NAddr] = NULL /\ Listed = {w[i] : i \in 1..k}
  BY <1>2, ListedList DEF Blocks, Free
<1>4. \A m \in held :
        /\ units[m.addr] * UNIT >= m.bytes
        /\ m.addr \div PageUnits = (m.addr + units[m.addr]) \div PageUnits
        /\ (m.addr + 1) % PageUnits # 0
  BY <1>2, HeldFacts
<1>5. ASSUME op.kind # "shared"
      PROVE  /\ Listed \cap HeldAddrs = {}
             /\ \A m, n \in held : m.addr = n.addr => m = n
             /\ UNION {Extent(b) : b \in Blocks(k, w)}
                  = UNION {(p * PageUnits)..((p + 1) * PageUnits - 1) : p \in pages}
             /\ \A a, b \in Blocks(k, w) : a # b => Extent(a) \cap Extent(b) = {}
  <2>1. Once(k, w) /\ Tiles(Blocks(k, w))
    BY <1>1, <1>5 DEF Shape
  <2>2. \A p \in pages : /\ p \in 0..(NPage - 1) /\ p * PageUnits \in Nat
                         /\ (p + 1) * PageUnits = p * PageUnits + PageUnits
    BY <1>2, PageAddrs DEF TypeOK
  <2>3. ASSUME NEW b \in Blocks(k, w), NEW x \in Extent(b)
        PROVE  \E p \in pages : x \in (p * PageUnits)..((p + 1) * PageUnits - 1)
    <3>1. PICK p \in pages : Inside(b, p)
      BY <2>1 DEF Tiles
    <3>2. b \in Nat /\ units[b] \in Nat
      BY <1>2, BlockFacts
    <3>3. x \in Nat /\ b <= x /\ x <= b + units[b]
      BY <3>2 DEF Extent
    <3> QED
      BY <2>2, <3>1, <3>2, <3>3, PageFacts DEF Inside
  <2>4. ASSUME NEW p \in pages, NEW x \in (p * PageUnits)..((p + 1) * PageUnits - 1)
        PROVE  \E b \in Blocks(k, w) : x \in Extent(b)
    <3>1. x \in (p * PageUnits)..(p * PageUnits + PageUnits - 1)
      BY <2>2, <2>4, PageFacts
    <3> QED
      BY <2>1, <3>1 DEF Tiles
  <2>5. ASSUME NEW a \in Blocks(k, w), NEW b \in Blocks(k, w), a # b
        PROVE  Extent(a) \cap Extent(b) = {}
    <3>1. a \in Nat /\ b \in Nat /\ units[a] \in Nat /\ units[b] \in Nat
      BY <1>2, BlockFacts
    <3>2. a + units[a] < b \/ b + units[b] < a
      BY <2>1, <2>5, <3>1 DEF Tiles
    <3> QED
      BY <3>1, <3>2 DEF Extent
  <2>6. Listed \cap HeldAddrs = {} /\ \A m, n \in held : m.addr = n.addr => m = n
    BY <1>3, <2>1 DEF Once
  <2>7. UNION {Extent(b) : b \in Blocks(k, w)}
          = UNION {(p * PageUnits)..((p + 1) * PageUnits - 1) : p \in pages}
    BY <2>3, <2>4
  <2> QED
    BY <2>5, <2>6, <2>7
<1> QED
  BY <1>2, <1>3, <1>4, <1>5 DEF Tiled

-----------------------------------------------------------------------------
(* Every step preserves the invariant. *)

\* The fields of an allocation in progress.
LEMMA AllocFacts ==
  ASSUME TypeOK, op.kind = "alloc"
  PROVE  /\ op \in [kind : {"alloc"}, bytes : Sizes, prev : Addr \cup {NULL},
                    block : Addr \cup {NULL}, rounds : 0..2]
         /\ op.bytes \in Sizes /\ op.rounds \in 0..2
BY DEF TypeOK

\* A step that only moves the operation in progress.
LEMMA OpStep ==
  ASSUME IInv, UNCHANGED <<head, next, units, pages, held>>, op.kind # "shared",
         TypeOK', \A k, w : Shape(k, w) => Scan(k, w)', Request', LoopsOnce'
  PROVE  IInv'
<1>1. PICK k, w : Shape(k, w)
  BY DEF IInv
<1>2. List(k, w)' /\ Once(k, w)' /\ Tiles(Blocks(k, w))'
  BY <1>1 DEF Shape, List, Linked, Once, Tiles, Blocks, Free, HeldAddrs, Inside, Extent
<1>3. Shape(k, w)'
  BY <1>1, <1>2 DEF Shape
<1>4. HeldFit'
  BY DEF IInv, HeldFit, Inside
<1> QED
  BY <1>3, <1>4 DEF IInv

\* kmalloc starts at the head of the list.
LEMMA KmallocIInv == ASSUME IInv, NEW n \in Sizes, kmalloc(n) PROVE IInv'
<1>1. /\ UNCHANGED <<head, next, units, pages, held>> /\ op.kind = "none"
      /\ \/ op' = [kind |-> "panic"]
         \/ /\ op' = [kind |-> "alloc", bytes |-> n, prev |-> NULL, block |-> head, rounds |-> 0]
            /\ n < BIGALLOC
  BY DEF kmalloc, Idle
<1>2. TypeOK'
  BY <1>1 DEF IInv, TypeOK
<1>3. ASSUME NEW k, NEW w, Shape(k, w) PROVE Scan(k, w)'
  <2>1. k \in Nat /\ 0 \in 0..k /\ head = IF k = 0 THEN NULL ELSE w[1]
    BY <1>3 DEF Shape, List, Linked
  <2> QED
    BY <1>1, <2>1 DEF Scan, Behind
<1>4. Request' /\ LoopsOnce'
  BY <1>1 DEF Request, LoopsOnce
<1> QED
  BY <1>1, <1>2, <1>3, <1>4, OpStep

\* A block that is too small is passed over.  After morecore there is none.
LEMMA ScanIInv == ASSUME IInv, scan PROVE IInv'
<1>1. /\ UNCHANGED <<head, next, units, pages, held>> /\ op.kind = "alloc" /\ op.block # NULL
      /\ op' = [op EXCEPT !.prev = op.block, !.block = next[op.block]]
      /\ units[op.block] < UnitsFor(op.bytes)
  BY DEF scan, Scanning
<1>2. /\ op \in [kind : {"alloc"}, bytes : Sizes, prev : Addr \cup {NULL},
                 block : Addr \cup {NULL}, rounds : 0..2]
      /\ op.bytes \in Sizes /\ op.rounds \in 0..2 /\ op.block \in Addr
  BY <1>1, AllocFacts DEF IInv
<1>3. next[op.block] \in Addr \cup {NULL} /\ units[op.block] \in Nat
  BY <1>2, PageFacts DEF IInv, TypeOK
<1>4. /\ op'.kind = "alloc" /\ op'.bytes = op.bytes /\ op'.rounds = op.rounds
      /\ op'.prev = op.block /\ op'.block = next[op.block]
      /\ op' \in [kind : {"alloc"}, bytes : Sizes, prev : Addr \cup {NULL},
                  block : Addr \cup {NULL}, rounds : 0..2]
  BY ZenonT(30), <1>1, <1>2, <1>3
<1>5. TypeOK'
  BY <1>1, <1>4 DEF IInv, TypeOK
<1>6. ASSUME NEW k, NEW w, Shape(k, w) PROVE Scan(k, w)'
  <2>1. PICK i \in 0..k : Behind(k, w, i)
    BY <1>1, <1>6 DEF Shape, Scan
  <2>2. k \in Nat /\ i # k /\ op.block = w[i + 1] /\ i + 1 \in 1..k
    BY <1>1, <1>6, <2>1 DEF Shape, List, Linked, Behind
  <2>3. next[w[i + 1]] = IF i + 1 = k THEN NULL ELSE w[(i + 1) + 1]
    BY <1>6, <2>2 DEF Shape, List, Linked
  <2> QED
    BY <1>4, <2>2, <2>3 DEF Scan, Behind
<1>7. UnitsFor(op.bytes) \in Nat
  BY <1>2, UnitsForFacts
<1>8. Request' /\ LoopsOnce'
  BY <1>1, <1>2, <1>3, <1>4, <1>7 DEF IInv, Request, LoopsOnce
<1> QED
  BY <1>1, <1>5, <1>6, <1>8, OpStep

\* b in front of the blocks of w.
Front(b, k, w) == [i \in 1..(k + 1) |-> IF i = 1 THEN b ELSE w[i - 1]]

\* What is free then.
LEMMA FrontFree ==
  ASSUME NEW k \in Nat, NEW w, NEW b PROVE Free(k + 1, Front(b, k, w)) = Free(k, w) \cup {b}
<1>1. PICK v : v = Front(b, k, w)
  OBVIOUS
<1>2. \A i \in 2..(k + 1) : i - 1 \in 1..k /\ v[i] = w[i - 1]
  BY <1>1 DEF Front
<1>3. \A i \in 1..k : i + 1 \in 1..(k + 1) /\ w[i] = v[i + 1]
  BY <1>1 DEF Front
<1>4. 1 \in 1..(k + 1) /\ b = v[1]
  BY <1>1 DEF Front
<1>5. \A i \in 1..(k + 1) : v[i] \in Free(k, w) \cup {b}
  BY <1>2, <1>4 DEF Free
<1>6. \A x \in Free(k, w) \cup {b} : x \in Free(k + 1, v)
  BY <1>3, <1>4 DEF Free
<1>7. \A x \in Free(k + 1, v) : x \in Free(k, w) \cup {b}
  BY <1>5 DEF Free
<1> QED
  BY <1>1, <1>6, <1>7

\* A block is put in front of the list.
LEMMA Prepend ==
  ASSUME NEW h, NEW nx \in [Addr -> Addr \cup {NULL}], NEW k, NEW w, Linked(h, nx, k, w),
         NEW b \in Addr, \A i \in 1..k : w[i] # b
  PROVE  Linked(b, [nx EXCEPT ![b] = h], k + 1, Front(b, k, w))
<1>1. PICK v : v = Front(b, k, w)
  OBVIOUS
<1>2. PICK ny : ny = [nx EXCEPT ![b] = h]
  BY ZenonT(30)
<1>3. k \in Nat /\ w \in [1..k -> Addr]
  BY DEF Linked
<1>4. v \in [1..(k + 1) -> Addr] /\ v[1] = b /\ \A i \in 1..k : v[i + 1] = w[i]
  BY <1>1, <1>3 DEF Front
<1>5. \A i \in 2..(k + 1) : i - 1 \in 1..k /\ v[i] = w[i - 1]
  BY <1>1, <1>3 DEF Front
<1>6. \A i, j \in 1..(k + 1) : v[i] = v[j] => i = j
  BY <1>3, <1>4, <1>5 DEF Linked
<1>7. ASSUME NEW i \in 1..(k + 1) PROVE ny[v[i]] = IF i = k + 1 THEN NULL ELSE v[i + 1]
  <2>1. CASE i = 1
    BY <1>2, <1>3, <1>4, <2>1 DEF Linked
  <2>2. CASE i # 1
    <3>1. i - 1 \in 1..k /\ v[i] = w[i - 1] /\ w[i - 1] \in Addr /\ w[i - 1] # b
      BY <1>3, <1>5, <1>7, <2>2
    <3>2. ny[v[i]] = nx[w[i - 1]]
      BY <1>2, <3>1
    <3>3. nx[w[i - 1]] = IF i - 1 = k THEN NULL ELSE w[(i - 1) + 1]
      BY <3>1 DEF Linked
    <3> QED
      BY <1>3, <1>4, <2>2, <3>1, <3>2, <3>3
  <2> QED
    BY <2>1, <2>2
<1>8. Linked(b, ny, k + 1, v)
  BY <1>3, <1>4, <1>6, <1>7 DEF Linked
<1> QED
  BY <1>1, <1>2, <1>8

\* kfree puts the block of a caller in front of the list.
LEMMA KfreeIInv == ASSUME IInv, NEW m \in held, kfree(m) PROVE IInv'
<1>1. PICK k, w : Shape(k, w)
  BY DEF IInv
<1>2. PICK b \in Addr : b = m.addr
  BY DEF IInv, TypeOK
<1>3. /\ op.kind = "none" /\ op' = op /\ units' = units /\ pages' = pages
      /\ held' = held \ {m} /\ head' = b /\ next' = [next EXCEPT ![b] = head]
  BY <1>2, HeldFacts DEF kfree, link_first, Idle, IInv
<1>4. TypeOK /\ List(k, w) /\ Once(k, w) /\ Tiles(Blocks(k, w)) /\ HeldFit
  BY <1>1, <1>3 DEF IInv, Shape
<1>5. b \in HeldAddrs /\ HeldAddrs' = HeldAddrs \ {b}
  BY <1>2, <1>3, <1>4 DEF HeldAddrs, Once
<1>6. \A i \in 1..k : w[i] # b
  BY <1>4, <1>5 DEF Once
<1>7. PICK v : List(k + 1, v)' /\ Free(k + 1, v) = Free(k, w) \cup {b}
  <2>1. next \in [Addr -> Addr \cup {NULL}] /\ Linked(head, next, k, w)
    BY <1>4 DEF TypeOK, List
  <2>2. PICK v : v = Front(b, k, w)
    OBVIOUS
  <2>3. /\ Linked(b, [next EXCEPT ![b] = head], k + 1, Front(b, k, w))
        /\ Free(k + 1, Front(b, k, w)) = Free(k, w) \cup {b}
    <3>1. Linked(b, [next EXCEPT ![b] = head], k + 1, Front(b, k, w))
      BY Zenon, <1>6, <2>1, Prepend
    <3>2. k \in Nat
      BY <2>1 DEF Linked
    <3> QED
      BY <3>1, <3>2, FrontFree
  <2>4. List(k + 1, v)'
    BY <1>3, <2>2, <2>3 DEF List
  <2> QED
    BY <2>2, <2>3, <2>4
<1>8. Blocks(k + 1, v)' = Blocks(k, w)
  BY <1>5, <1>7 DEF Blocks, Free
<1>9. Tiles(Blocks(k + 1, v))'
  BY <1>3, <1>4, <1>8 DEF Tiles, Inside, Extent
<1>10. Once(k + 1, v)'
  <2>1. \A i \in 1..(k + 1) : v[i] \in {w[j] : j \in 1..k} \cup {b}
    BY <1>7 DEF Free
  <2>2. \A i \in 1..(k + 1) : v[i] \notin HeldAddrs'
    BY <1>4, <1>5, <2>1 DEF Once
  <2> QED
    BY <1>3, <1>4, <2>2 DEF Once
<1>11. Shape(k + 1, v)'
  BY <1>3, <1>7, <1>9, <1>10 DEF Shape, Scan
<1>12. TypeOK'
  BY <1>3, <1>4 DEF TypeOK
<1>13. HeldFit' /\ Request' /\ LoopsOnce'
  BY <1>3, <1>4 DEF HeldFit, Inside, Request, LoopsOnce
<1> QED
  BY <1>11, <1>12, <1>13 DEF IInv

\* The block of a caller: the new one has the units that were asked for.
LEMMA GiveFit ==
  ASSUME TypeOK, HeldFit, op.kind = "alloc", NEW b \in Addr, Give(b),
         units'[b] = UnitsFor(op.bytes), NEW p \in Nat, Inside(b, p)',
         \A m \in held : units'[m.addr] = units[m.addr]
  PROVE  HeldFit' /\ HeldAddrs' = HeldAddrs \cup {b} /\ held' \in SUBSET [addr : Addr, bytes : Sizes]
<1>1. PICK n : n = [addr |-> b, bytes |-> op.bytes]
  BY ZenonT(30)
<1>2. held' = held \cup {n} /\ n.addr = b /\ n.bytes = op.bytes /\ n \in [addr : Addr, bytes : Sizes]
  BY <1>1, AllocFacts DEF Give
<1>3. \A m \in held : /\ units'[m.addr] = UnitsFor(m.bytes)
                      /\ \E q \in Nat : Inside(m.addr, q)'
  BY DEF HeldFit, Inside
<1>4. HeldFit'
  BY <1>2, <1>3 DEF HeldFit
<1>5. HeldAddrs' = HeldAddrs \cup {b}
  BY <1>2 DEF HeldAddrs
<1> QED
  BY <1>2, <1>4, <1>5 DEF TypeOK

\* Where the scan is.
LEMMA ScanAt ==
  ASSUME IInv, Scanning, NEW k, NEW w, Shape(k, w)
  PROVE  \E i \in 0..k : /\ Behind(k, w, i) /\ i + 1 \in 1..k /\ k \in Nat
                         /\ op.block = w[i + 1] /\ op.block \in Addr
                         /\ op.prev = NULL <=> i = 0
                         /\ op.prev # NULL => i \in 1..k /\ op.prev = w[i]
<1>1. PICK i \in 0..k : Behind(k, w, i)
  BY DEF Shape, Scan, Scanning
<1>2. k \in Nat /\ i # k
  BY <1>1 DEF Shape, List, Linked, Behind, Scanning
<1>3. i + 1 \in 1..k /\ op.block = w[i + 1]
  BY <1>1, <1>2 DEF Behind
<1>4. \A j \in 1..k : w[j] \in Addr /\ w[j] # NULL
  BY DEF Shape, List, Linked, Addr, NULL
<1>5. op.block \in Addr
  BY <1>3, <1>4
<1>6. i # 0 => i \in 1..k
  BY <1>2
<1>7. (op.prev = NULL <=> i = 0) /\ (op.prev # NULL => i \in 1..k /\ op.prev = w[i])
  BY <1>1, <1>4, <1>6 DEF Behind
<1> QED
  BY <1>1, <1>2, <1>3, <1>5, <1>7

\* No two callers have the same block.
LEMMA GiveOnce ==
  ASSUME NEW b, Give(b), b \notin HeldAddrs, \A m, n \in held : m.addr = n.addr => m = n
  PROVE  \A m, n \in held' : m.addr = n.addr => m = n
<1>1. PICK r : r = [addr |-> b, bytes |-> op.bytes]
  BY ZenonT(30)
<1>2. held' = held \cup {r} /\ r.addr = b
  BY <1>1 DEF Give
<1>3. \A m \in held : m.addr # b
  BY DEF HeldAddrs
<1> QED
  BY <1>2, <1>3

\* The blocks of w without the one at j.
Without(k, w, j) == [i \in 1..(k - 1) |-> IF i < j THEN w[i] ELSE w[i + 1]]

\* What is free without it.
LEMMA WithoutFree ==
  ASSUME NEW k \in Nat, NEW w, NEW j \in 1..k, \A i \in 1..k : w[i] = w[j] => i = j
  PROVE  Free(k - 1, Without(k, w, j)) = Free(k, w) \ {w[j]}
<1>1. PICK v : v = Without(k, w, j)
  OBVIOUS
<1>2. ASSUME NEW i \in 1..(k - 1) PROVE v[i] \in Free(k, w) \ {w[j]}
  <2>1. PICK l \in 1..k : v[i] = w[l] /\ l # j
    <3>1. CASE i < j
      <4>1. i \in 1..k /\ v[i] = w[i] /\ i # j
        BY <1>1, <3>1 DEF Without
      <4> QED
        BY <4>1
    <3>2. CASE ~(i < j)
      <4>1. i + 1 \in 1..k /\ v[i] = w[i + 1] /\ i + 1 # j
        BY <1>1, <3>2 DEF Without
      <4> QED
        BY <4>1
    <3> QED
      BY <3>1, <3>2
  <2> QED
    BY <2>1 DEF Free
<1>3. ASSUME NEW l \in 1..k, l # j PROVE \E i \in 1..(k - 1) : v[i] = w[l]
  <2>1. CASE l < j
    <3>1. l \in 1..(k - 1) /\ v[l] = w[l]
      BY <1>1, <2>1 DEF Without
    <3> QED
      BY <3>1
  <2>2. CASE l > j
    <3>1. l - 1 \in 1..(k - 1) /\ v[l - 1] = w[l]
      BY <1>1, <2>2 DEF Without
    <3> QED
      BY <3>1
  <2> QED
    BY <1>3, <2>1, <2>2
<1>4. \A x \in Free(k, w) \ {w[j]} : x \in Free(k - 1, v)
  BY <1>3 DEF Free
<1>5. \A x \in Free(k - 1, v) : x \in Free(k, w) \ {w[j]}
  BY <1>2 DEF Free
<1> QED
  BY <1>1, <1>4, <1>5

\* A block that is not the first is taken out of the list.
LEMMA Unlink ==
  ASSUME NEW h, NEW nx \in [Addr -> Addr \cup {NULL}], NEW k, NEW w, Linked(h, nx, k, w),
         NEW i \in 1..k, i + 1 \in 1..k
  PROVE  Linked(h, [nx EXCEPT ![w[i]] = nx[w[i + 1]]], k - 1, Without(k, w, i + 1))
<1>1. PICK v : v = Without(k, w, i + 1)
  OBVIOUS
<1>2. PICK ny : ny = [nx EXCEPT ![w[i]] = nx[w[i + 1]]]
  BY ZenonT(30)
<1>3. k \in Nat /\ k - 1 \in Nat /\ i \in 1..(k - 1) /\ w \in [1..k -> Addr]
  BY DEF Linked
<1>4. \A j \in 1..(k - 1) : /\ j \in 1..k /\ j + 1 \in 1..k
                            /\ v[j] = IF j < i + 1 THEN w[j] ELSE w[j + 1]
  BY <1>1, <1>3 DEF Without
<1>5. v \in [1..(k - 1) -> Addr]
  <2>1. DOMAIN v = 1..(k - 1) /\ v = [j \in 1..(k - 1) |-> v[j]]
    BY <1>1 DEF Without
  <2>2. \A j \in 1..(k - 1) : v[j] \in Addr
    BY <1>3, <1>4
  <2> QED
    BY <2>1, <2>2
<1>6. \A j, l \in 1..(k - 1) : v[j] = v[l] => j = l
  BY <1>3, <1>4 DEF Linked
<1>7. h = IF k - 1 = 0 THEN NULL ELSE v[1]
  BY <1>3, <1>4 DEF Linked
<1>8. ASSUME NEW j \in 1..(k - 1) PROVE ny[v[j]] = IF j = k - 1 THEN NULL ELSE v[j + 1]
  <2>1. j \in 1..k /\ j + 1 \in 1..k /\ i + 1 \in 1..k
    BY <1>4, <1>8
  <2>2. \A l \in 1..k : /\ w[l] \in Addr /\ (w[l] = w[i] => l = i)
                        /\ nx[w[l]] = IF l = k THEN NULL ELSE w[l + 1]
    BY <1>3 DEF Linked
  <2>3. CASE j < i
    <3>1. v[j] = w[j] /\ v[j + 1] = w[j + 1] /\ j + 1 \in 1..(k - 1)
      BY <1>3, <1>4, <1>8, <2>3
    <3>2. ny[w[j]] = nx[w[j]]
      BY <1>2, <2>1, <2>2, <2>3
    <3> QED
      BY <1>3, <2>1, <2>2, <3>1, <3>2
  <2>4. CASE j = i
    <3>1. v[j] = w[i] /\ ny[w[i]] = nx[w[i + 1]]
      BY <1>2, <1>3, <1>4, <2>1, <2>2, <2>4
    <3>2. nx[w[i + 1]] = IF i + 1 = k THEN NULL ELSE w[(i + 1) + 1]
      BY <2>1, <2>2
    <3>3. j # k - 1 => j + 1 \in 1..(k - 1) /\ v[j + 1] = w[(i + 1) + 1]
      BY <1>3, <1>4, <2>4
    <3> QED
      BY <1>3, <2>4, <3>1, <3>2, <3>3
  <2>5. CASE j > i
    <3>1. v[j] = w[j + 1] /\ j + 1 # i
      BY <1>3, <1>4, <2>5
    <3>2. ny[w[j + 1]] = nx[w[j + 1]]
      BY <1>2, <2>1, <2>2, <3>1
    <3>3. nx[w[j + 1]] = IF j + 1 = k THEN NULL ELSE w[(j + 1) + 1]
      BY <2>1, <2>2
    <3>4. j # k - 1 => j + 1 \in 1..(k - 1) /\ v[j + 1] = w[(j + 1) + 1]
      BY <1>3, <1>4, <1>8, <2>5
    <3> QED
      BY <1>3, <3>1, <3>2, <3>3, <3>4
  <2> QED
    BY <1>3, <2>3, <2>4, <2>5
<1> QED
  BY <1>1, <1>2, <1>3, <1>5, <1>6, <1>7, <1>8 DEF Linked

\* An exact match behind another block changes from free to held.
LEMMA TakeExactIInv == ASSUME IInv, take_exact PROVE IInv'
<1>1. PICK k, w : Shape(k, w)
  BY DEF IInv
<1>2. Scanning /\ op.kind = "alloc" /\ op.kind # "shared"
  BY DEF take_exact, Scanning
<1>3. PICK i \in 0..k : /\ i + 1 \in 1..k /\ k \in Nat /\ op.block = w[i + 1]
                        /\ op.prev # NULL => i \in 1..k /\ op.prev = w[i]
  BY <1>1, <1>2, ScanAt
<1>4. PICK b \in Addr : b = op.block
  BY <1>1, <1>2, ScanAt
<1>5. /\ i \in 1..k /\ op.prev = w[i] /\ b = w[i + 1]
      /\ next' = [next EXCEPT ![w[i]] = next[w[i + 1]]]
      /\ head' = head /\ units' = units /\ pages' = pages /\ op' = [kind |-> "none"]
      /\ Give(b) /\ units[b] = UnitsFor(op.bytes)
  BY ZenonT(30), <1>3, <1>4 DEF take_exact, Idle
<1>6. TypeOK /\ HeldFit /\ Linked(head, next, k, w) /\ Once(k, w) /\ Tiles(Blocks(k, w))
  BY <1>1, <1>2 DEF IInv, Shape, List
<1>7. next \in [Addr -> Addr \cup {NULL}] /\ w \in [1..k -> Addr]
  BY <1>6 DEF TypeOK, Linked
<1>8. PICK v : v = Without(k, w, i + 1)
  OBVIOUS
<1>9. List(k - 1, v)'
  <2>1. Linked(head, [next EXCEPT ![w[i]] = next[w[i + 1]]], k - 1, Without(k, w, i + 1))
    BY Zenon, <1>3, <1>5, <1>6, <1>7, Unlink
  <2> QED
    BY <1>5, <1>8, <2>1 DEF List
<1>10. Free(k - 1, v) = Free(k, w) \ {b}
  <2>1. \A j \in 1..k : w[j] = w[i + 1] => j = i + 1
    BY <1>3, <1>6 DEF Linked
  <2>2. Free(k - 1, Without(k, w, i + 1)) = Free(k, w) \ {w[i + 1]}
    BY <1>3, <2>1, WithoutFree
  <2> QED
    BY <1>5, <1>8, <2>2
<1>11. b \in Free(k, w) /\ b \in Blocks(k, w) /\ b \notin HeldAddrs
  BY <1>3, <1>5, <1>6 DEF Free, Blocks, Once
<1>12. HeldFit' /\ HeldAddrs' = HeldAddrs \cup {b} /\ held' \in SUBSET [addr : Addr, bytes : Sizes]
  <2>1. PICK p \in pages : Inside(b, p)
    BY <1>6, <1>11 DEF Tiles
  <2>2. p \in Nat /\ Inside(b, p)'
    BY <1>5, <1>6, <2>1, SizeAssumption DEF TypeOK, Inside
  <2>3. units'[b] = UnitsFor(op.bytes) /\ \A m \in held : units'[m.addr] = units[m.addr]
    BY <1>5
  <2> QED
    BY <1>2, <1>5, <1>6, <2>2, <2>3, GiveFit
<1>13. Blocks(k - 1, v)' = Blocks(k, w)
  <2>1. Blocks(k - 1, v)' = Free(k - 1, v) \cup HeldAddrs'
    BY DEF Blocks, Free
  <2> QED
    BY <1>10, <1>11, <1>12, <2>1 DEF Blocks
<1>14. Tiles(Blocks(k - 1, v))'
  BY <1>5, <1>6, <1>13 DEF Tiles, Inside, Extent
<1>15. Once(k - 1, v)'
  <2>1. \A m, n \in held' : m.addr = n.addr => m = n
    BY <1>5, <1>6, <1>11, GiveOnce DEF Once
  <2>2. \A j \in 1..(k - 1) : v[j] \in Free(k, w) \ {b}
    BY <1>10 DEF Free
  <2>3. \A j \in 1..(k - 1) : v[j] \notin HeldAddrs'
    BY <1>6, <1>12, <2>2 DEF Once, Free
  <2> QED
    BY <2>1, <2>3 DEF Once
<1>16. Shape(k - 1, v)'
  BY <1>5, <1>9, <1>14, <1>15 DEF Shape, Scan
<1>17. TypeOK'
  <2>1. next' \in [Addr -> Addr \cup {NULL}]
    BY <1>3, <1>5, <1>7
  <2> QED
    BY <1>5, <1>6, <1>12, <2>1 DEF TypeOK
<1>18. Request' /\ LoopsOnce'
  BY <1>5 DEF Request, LoopsOnce
<1> QED
  BY <1>12, <1>16, <1>17, <1>18 DEF IInv

\* An exact match at the head is held and stays in the list.
LEMMA TakeExactHeadIInv == ASSUME IInv, take_exact_head PROVE IInv'
<1>1. PICK k, w : Shape(k, w)
  BY DEF IInv
<1>2. Scanning /\ op.kind = "alloc" /\ op.kind # "shared"
  BY DEF take_exact_head, Scanning
<1>3. PICK i \in 0..k : i + 1 \in 1..k /\ op.block = w[i + 1]
  BY <1>1, <1>2, ScanAt
<1>4. PICK b \in Addr : b = op.block
  BY <1>1, <1>2, ScanAt
<1>5. /\ UNCHANGED <<head, next, units, pages>> /\ op' = [kind |-> "shared"]
      /\ Give(b) /\ units[b] = UnitsFor(op.bytes)
  BY <1>4 DEF take_exact_head
<1>6. TypeOK /\ HeldFit /\ List(k, w) /\ Tiles(Blocks(k, w)) /\ b \in Blocks(k, w)
  BY <1>1, <1>2, <1>3, <1>4 DEF IInv, Shape, Blocks, Free
<1>7. HeldFit' /\ held' \in SUBSET [addr : Addr, bytes : Sizes]
  <2>1. PICK p \in pages : Inside(b, p)
    BY <1>6 DEF Tiles
  <2>2. p \in Nat /\ Inside(b, p)'
    BY <1>5, <1>6, <2>1, SizeAssumption DEF TypeOK, Inside
  <2>3. units'[b] = UnitsFor(op.bytes) /\ \A m \in held : units'[m.addr] = units[m.addr]
    BY <1>5
  <2> QED
    BY <1>2, <1>5, <1>6, <2>2, <2>3, GiveFit
<1>8. Shape(k, w)'
  BY <1>5, <1>6 DEF Shape, Scan, List
<1>9. TypeOK'
  BY <1>5, <1>6, <1>7 DEF TypeOK
<1>10. Request' /\ LoopsOnce'
  BY <1>5 DEF Request, LoopsOnce
<1> QED
  BY <1>7, <1>8, <1>9, <1>10 DEF IInv

\* A new block takes the place of the one behind i blocks of the list.
LEMMA Relink ==
  ASSUME NEW h, NEW g, NEW nx, NEW ny, NEW k, NEW w, Linked(h, nx, k, w),
         NEW i \in 0..k, i + 1 \in 1..k, NEW n \in Addr, \A j \in 1..k : w[j] # n,
         g = IF i = 0 THEN n ELSE h, ny[n] = nx[w[i + 1]], i # 0 => ny[w[i]] = n,
         \A j \in 1..k : j # i => ny[w[j]] = nx[w[j]]
  PROVE  Linked(g, ny, k, [w EXCEPT ![i + 1] = n])
<1>1. PICK v : v = [w EXCEPT ![i + 1] = n]
  BY ZenonT(30)
<1>2. k \in Nat /\ w \in [1..k -> Addr]
  BY DEF Linked
<1>3. v \in [1..k -> Addr] /\ v[i + 1] = n /\ \A j \in 1..k : j # i + 1 => v[j] = w[j]
  BY <1>1, <1>2
<1>4. \A j, l \in 1..k : v[j] = v[l] => j = l
  BY <1>3 DEF Linked
<1>5. g = IF k = 0 THEN NULL ELSE v[1]
  <2>1. CASE i = 0
    BY <1>2, <1>3, <2>1
  <2>2. CASE i # 0
    BY <1>2, <1>3, <2>2 DEF Linked
  <2> QED
    BY <2>1, <2>2
<1>6. ASSUME NEW j \in 1..k PROVE ny[v[j]] = IF j = k THEN NULL ELSE v[j + 1]
  <2>1. nx[w[j]] = IF j = k THEN NULL ELSE w[j + 1]
    BY DEF Linked
  <2>2. j # k => j + 1 \in 1..k
    BY <1>2
  <2>3. CASE j = i + 1
    <3>1. v[j] = n /\ ny[n] = nx[w[j]]
      BY <1>3, <2>3
    <3>2. j # k => v[j + 1] = w[j + 1]
      BY <1>2, <1>3, <2>2, <2>3
    <3> QED
      BY <2>1, <3>1, <3>2
  <2>4. CASE j = i
    <3>1. v[j] = w[j] /\ ny[w[j]] = n /\ j # k /\ v[j + 1] = n
      BY <1>2, <1>3, <2>4
    <3> QED
      BY <3>1
  <2>5. CASE j # i /\ j # i + 1
    <3>1. v[j] = w[j] /\ ny[w[j]] = nx[w[j]]
      BY <1>3, <2>5
    <3>2. j # k => v[j + 1] = w[j + 1]
      BY <1>2, <1>3, <2>2, <2>5
    <3> QED
      BY <2>1, <3>1, <3>2
  <2> QED
    BY <2>3, <2>4, <2>5
<1> QED
  BY <1>1, <1>2, <1>3, <1>4, <1>5, <1>6 DEF Linked

\* An address within a block belongs to no other.
LEMMA CutBlock ==
  ASSUME TypeOK, NEW B \in SUBSET Addr, Tiles(B), NEW b \in B, NEW n \in Nat,
         b < n, n <= b + units[b]
  PROVE  n \in Addr /\ n \notin B
<1>1. b \in Nat /\ units[b] \in Nat /\ PageUnits \in Nat
  BY PageFacts DEF TypeOK, Addr
<1>2. PICK p \in pages : Inside(b, p)
  BY DEF Tiles
<1>3. p \in 0..(NPage - 1) /\ p * PageUnits \in Nat
  BY <1>2, PageAddrs DEF TypeOK
<1>4. n \in (p * PageUnits)..(p * PageUnits + PageUnits - 1)
  BY <1>1, <1>2, <1>3 DEF Inside
<1>5. n \in Addr
  BY <1>3, <1>4, PageAddrs
<1>6. n \notin B
  BY <1>1 DEF Tiles
<1> QED
  BY <1>5, <1>6

\* A block is cut into two: they tile what it tiled.
LEMMA CutTiles ==
  ASSUME TypeOK, NEW B \in SUBSET Addr, Tiles(B), NEW b \in B, NEW n \in Addr, n \notin B,
         b < n, NEW C, C = B \cup {n}, pages' = pages,
         b + units'[b] = n - 1, n + units'[n] = b + units[b],
         units'[b] \in Nat, units'[n] \in Nat,
         \A a \in Addr : a # b /\ a # n => units'[a] = units[a],
         NEW p \in pages, Inside(b, p)
  PROVE  Tiles(C)' /\ Inside(b, p)'
<1>1. /\ \A a \in Addr : a \in Nat /\ units[a] \in Nat
      /\ \A q \in pages : q \in Nat
  <2>1. \A a \in Addr : a \in Nat /\ units[a] \in Nat
    BY PageFacts DEF TypeOK, Addr
  <2>2. \A q \in pages : q \in Nat
    BY SizeAssumption DEF TypeOK
  <2> QED
    BY <2>1, <2>2
<1>2. b \in Addr /\ b \in Nat /\ units[b] \in Nat /\ n \in Nat /\ b < n
  BY <1>1
<1>3. p \in Nat /\ p * PageUnits \in Nat /\ PageUnits \in Nat
  BY <1>1, PageFacts
<1>4. p * PageUnits <= b /\ b + units[b] < p * PageUnits + PageUnits
  BY DEF Inside
<1>5. n + units'[n] = b + units[b] /\ b + units'[b] = n - 1 /\ n <= b + units[b]
  BY <1>2
<1>6. Inside(b, p)' /\ Inside(n, p)'
  BY <1>2, <1>3, <1>4, <1>5 DEF Inside
<1>7. ASSUME NEW a \in C PROVE \E q \in pages' : Inside(a, q)'
  <2>1. CASE a = b \/ a = n
    BY <1>6, <2>1
  <2>2. CASE a \in B /\ a # b /\ a # n
    <3>1. PICK q \in pages : Inside(a, q)
      BY <2>2 DEF Tiles
    <3> QED
      BY <2>2, <3>1 DEF Inside
  <2> QED
    BY <1>7, <2>1, <2>2
<1>8. ASSUME NEW a \in C, NEW c \in C, a < c PROVE a + units'[a] < c
  <2>1. \A x, y \in B : x < y => x + units[x] < y
    BY DEF Tiles
  <2>2. a \in Addr /\ c \in Addr /\ a \in Nat /\ c \in Nat /\ units[a] \in Nat /\ units[c] \in Nat
    BY <1>1
  <2>3. CASE a = n
    <3>1. c \in B /\ b < c
      BY <1>2, <1>8, <2>2, <2>3
    <3> QED
      BY <1>5, <2>1, <2>3, <3>1
  <2>4. CASE a = b
    BY <1>2, <1>5, <1>8, <2>1, <2>2, <2>4
  <2>5. CASE a # n /\ a # b
    <3>1. a \in B /\ units'[a] = units[a]
      BY <2>2, <2>5
    <3>2. CASE c = n
      <4>1. a < b
        BY <1>2, <1>8, <2>1, <2>2, <2>5, <3>1, <3>2
      <4> QED
        BY <1>2, <2>1, <2>2, <3>1, <3>2, <4>1
    <3> QED
      BY <1>8, <2>1, <3>1, <3>2
  <2> QED
    BY <2>3, <2>4, <2>5
<1>9. ASSUME NEW q \in pages', NEW x \in (q * PageUnits)..(q * PageUnits + PageUnits - 1)
       PROVE  \E a \in C : x \in Extent(a)'
  <2>1. PICK a \in B : x \in Extent(a)
    BY <1>9 DEF Tiles
  <2>2. a \in Addr /\ a \in Nat /\ units[a] \in Nat /\ a <= x /\ x <= a + units[a] /\ x \in Nat
    BY <1>1, <2>1 DEF Extent
  <2>3. CASE a # b
    BY <2>1, <2>2, <2>3 DEF Extent
  <2>4. CASE a = b /\ x < n
    <3>1. x \in b..(b + units'[b])
      BY <1>2, <1>5, <2>2, <2>4
    <3> QED
      BY <3>1 DEF Extent
  <2>5. CASE a = b /\ ~(x < n)
    <3>1. x \in n..(n + units'[n])
      BY <1>2, <1>5, <2>2, <2>5
    <3> QED
      BY <3>1 DEF Extent
  <2> QED
    BY <2>3, <2>4, <2>5
<1>10. Tiles(C)'
  BY <1>7, <1>8, <1>9 DEF Tiles
<1> QED
  BY <1>6, <1>10

\* A larger block is cut, the front is held and the rest is free in its place.
LEMMA SplitIInv == ASSUME IInv, split PROVE IInv'
<1>1. PICK k, w : Shape(k, w)
  BY DEF IInv
<1>2. Scanning /\ op.kind = "alloc" /\ op.kind # "shared" /\ op.bytes \in Sizes
  BY AllocFacts DEF split, Scanning, IInv
<1>3. PICK i \in 0..k : /\ i + 1 \in 1..k /\ k \in Nat /\ op.block = w[i + 1]
                        /\ op.prev = NULL <=> i = 0
                        /\ op.prev # NULL => i \in 1..k /\ op.prev = w[i]
  BY ZenonT(30), <1>1, <1>2, ScanAt
<1>4. PICK b \in Addr : b = op.block
  BY <1>1, <1>2, ScanAt
<1>5. PICK u \in Nat : u = UnitsFor(op.bytes)
  BY <1>2, UnitsForFacts
<1>6. PICK n : n = b + u + 1
  OBVIOUS
<1>7. /\ b = w[i + 1] /\ units[b] > u /\ Give(b) /\ pages' = pages /\ op' = [kind |-> "none"]
      /\ units' = [units EXCEPT ![n] = units[b] - u - 1, ![b] = u]
  BY <1>3, <1>4, <1>5, <1>6 DEF split, Idle, Rest
<1>8. /\ i = 0 => head' = n /\ next' = [next EXCEPT ![n] = next[b]]
      /\ i # 0 => /\ head' = head /\ i \in 1..k
                  /\ next' = [next EXCEPT ![n] = next[b], ![w[i]] = n]
  BY <1>3, <1>4, <1>5, <1>6 DEF split
<1>9. TypeOK /\ HeldFit /\ Linked(head, next, k, w) /\ Once(k, w) /\ Tiles(Blocks(k, w))
  BY <1>1, <1>2 DEF IInv, Shape, List
<1>10. next \in [Addr -> Addr \cup {NULL}] /\ w \in [1..k -> Addr]
  BY <1>9 DEF TypeOK, Linked
<1>11. PICK B \in SUBSET Addr : B = Blocks(k, w)
  <2>1. \A a \in Blocks(k, w) : a \in Addr
    BY <1>9, BlockFacts DEF List
  <2> QED
    BY <2>1
<1>12. b \in Free(k, w) /\ b \in B /\ b \notin HeldAddrs
  BY <1>3, <1>7, <1>9, <1>11 DEF Free, Blocks, Once
<1>13. PICK C : C = B \cup {n}
  BY ZenonT(30)
<1>14. PICK p \in pages : Inside(b, p)
  BY <1>9, <1>11, <1>12 DEF Tiles
<1>15. /\ n \in Addr /\ n \notin B /\ Tiles(C)' /\ Inside(b, p)'
       /\ units' \in [Addr -> 0..(PageUnits - 1)]
       /\ \A a \in B : a # b => units'[a] = units[a]
  <2>1. TypeOK /\ Tiles(B) /\ b \in B /\ pages' = pages
    BY <1>7, <1>9, <1>11, <1>12
  <2>2. b \in Nat /\ units[b] \in 0..(PageUnits - 1) /\ PageUnits \in Nat
    BY <1>9, PageFacts DEF TypeOK, Addr
  <2>3. n \in Nat /\ b < n /\ n <= b + units[b]
    BY <1>6, <1>7, <2>2
  <2>4. n \in Addr /\ n \notin B
    BY <2>1, <2>3, CutBlock
  <2>5. /\ units'[n] = units[b] - u - 1 /\ units'[b] = u
        /\ \A a \in Addr : a # b /\ a # n => units'[a] = units[a]
    BY <1>7, <1>9, <2>3, <2>4 DEF TypeOK
  <2>6. units' \in [Addr -> 0..(PageUnits - 1)]
    <3>1. units[b] - u - 1 \in 0..(PageUnits - 1) /\ u \in 0..(PageUnits - 1)
      BY <1>7, <2>2
    <3> QED
      BY <1>7, <1>9, <2>4, <3>1 DEF TypeOK
  <2>7. /\ b + units'[b] = n - 1 /\ n + units'[n] = b + units[b]
        /\ units'[b] \in Nat /\ units'[n] \in Nat
    BY <1>6, <1>7, <2>2, <2>5
  <2>8. Tiles(C)' /\ Inside(b, p)'
    BY ZenonT(30), <1>13, <1>14, <2>1, <2>3, <2>4, <2>5, <2>7, CutTiles
  <2> QED
    BY <2>4, <2>5, <2>6, <2>8
<1>16. units'[b] = u
  BY <1>7, <1>9 DEF TypeOK
<1>17. HeldFit' /\ HeldAddrs' = HeldAddrs \cup {b} /\ held' \in SUBSET [addr : Addr, bytes : Sizes]
  <2>1. \A m \in held : units'[m.addr] = units[m.addr]
    BY <1>11, <1>12, <1>15 DEF Blocks, HeldAddrs
  <2>2. p \in Nat
    BY <1>9, <1>14, SizeAssumption DEF TypeOK
  <2> QED
    BY ZenonT(30), <1>2, <1>5, <1>7, <1>9, <1>15, <1>16, <2>1, <2>2, GiveFit
<1>18. PICK v : v = [w EXCEPT ![i + 1] = n]
  BY ZenonT(30)
<1>19. \A j \in 1..k : w[j] \in Addr /\ w[j] # n /\ w[j] \in Free(k, w)
  BY <1>10, <1>11, <1>15 DEF Blocks, Free
<1>20. List(k, v)'
  <2>1. head' = IF i = 0 THEN n ELSE head
    BY <1>8
  <2>2. next'[n] = next[w[i + 1]] /\ (i # 0 => next'[w[i]] = n)
    BY <1>7, <1>8, <1>10, <1>15, <1>19
  <2>3. ASSUME NEW j \in 1..k, j # i PROVE next'[w[j]] = next[w[j]]
    <3>1. i # 0 => i \in 1..k /\ w[j] # w[i]
      BY <1>8, <1>9, <2>3 DEF Linked
    <3> QED
      BY <1>8, <1>10, <1>15, <1>19, <3>1
  <2>4. PICK g, ny : g = head' /\ ny = next'
    OBVIOUS
  <2>5. /\ g = IF i = 0 THEN n ELSE head
        /\ ny[n] = next[w[i + 1]] /\ (i # 0 => ny[w[i]] = n)
        /\ \A j \in 1..k : j # i => ny[w[j]] = next[w[j]]
        /\ \A j \in 1..k : w[j] # n
    BY ZenonT(30), <1>19, <2>1, <2>2, <2>3, <2>4
  <2>6. Linked(g, ny, k, [w EXCEPT ![i + 1] = n])
    BY <1>3, <1>9, <1>15, <2>5, Relink
  <2> QED
    BY <1>18, <2>4, <2>6 DEF List
<1>21. Free(k, v) = (Free(k, w) \ {b}) \cup {n}
  <2>1. v[i + 1] = n /\ \A j \in 1..k : j # i + 1 => v[j] = w[j]
    BY <1>3, <1>10, <1>18
  <2>2. \A j \in 1..k : w[j] = w[i + 1] => j = i + 1
    BY <1>3, <1>9 DEF Linked
  <2>3. \A x \in Free(k, v) : x \in (Free(k, w) \ {b}) \cup {n}
    BY <1>7, <2>1, <2>2 DEF Free
  <2>4. \A x \in (Free(k, w) \ {b}) \cup {n} : x \in Free(k, v)
    BY <1>3, <1>7, <2>1 DEF Free
  <2> QED
    BY <2>3, <2>4
<1>22. Blocks(k, v)' = C
  <2>1. Blocks(k, v)' = Free(k, v) \cup HeldAddrs'
    BY DEF Blocks, Free
  <2> QED
    BY <1>11, <1>12, <1>13, <1>17, <1>21, <2>1 DEF Blocks
<1>23. Tiles(Blocks(k, v))'
  BY <1>15, <1>22 DEF Tiles
<1>24. Once(k, v)'
  <2>1. \A m, r \in held' : m.addr = r.addr => m = r
    BY <1>7, <1>9, <1>12, GiveOnce DEF Once
  <2>2. \A j \in 1..k : v[j] \in (Free(k, w) \ {b}) \cup {n}
    BY <1>21 DEF Free
  <2>3. n \notin HeldAddrs'
    BY ZenonT(30), <1>11, <1>12, <1>15, <1>17 DEF Blocks
  <2>4. \A j \in 1..k : v[j] \notin HeldAddrs'
    BY <1>9, <1>17, <2>2, <2>3 DEF Once, Free
  <2> QED
    BY <2>1, <2>4 DEF Once
<1>25. Shape(k, v)'
  BY ZenonT(30), <1>7, <1>20, <1>23, <1>24 DEF Shape, Scan
<1>26. TypeOK'
  <2>1. head' \in Addr \cup {NULL}
    BY <1>8, <1>9, <1>15 DEF TypeOK
  <2>2. next' \in [Addr -> Addr \cup {NULL}]
    <3>1. next[b] \in Addr \cup {NULL}
      BY <1>10
    <3>2. CASE i = 0
      BY <1>8, <1>10, <3>1, <3>2
    <3>3. CASE i # 0
      BY <1>8, <1>10, <1>15, <3>1, <3>3
    <3> QED
      BY <3>2, <3>3
  <2> QED
    BY ZenonT(30), <1>7, <1>9, <1>15, <1>17, <2>1, <2>2 DEF TypeOK
<1>27. Request' /\ LoopsOnce'
  BY <1>7 DEF Request, LoopsOnce
<1> QED
  BY <1>17, <1>25, <1>26, <1>27 DEF IInv

\* A page is added as one block.
LEMMA PageTiles ==
  ASSUME TypeOK, NEW B \in SUBSET Addr, Tiles(B), NEW p \in 0..(NPage - 1), p \notin pages,
         NEW hd \in Addr, hd = p * PageUnits, NEW C, C = B \cup {hd}, pages' = pages \cup {p},
         units'[hd] = FreshUnits, \A a \in Addr : a # hd => units'[a] = units[a]
  PROVE  hd \notin B /\ Tiles(C)'
<1>1. /\ p \in Nat /\ hd \in Nat /\ PageUnits \in Nat /\ PageUnits >= 3
      /\ FreshUnits = PageUnits - 1
  BY PageFacts, PageAddrs, FreshFacts, SizeAssumption
<1>2. units'[hd] = PageUnits - 1
  BY <1>1
<1>3. ASSUME NEW a \in B
      PROVE  /\ a \in Nat /\ units[a] \in Nat
             /\ a + units[a] < hd \/ hd + PageUnits <= a
  <2>1. a \in Nat /\ units[a] \in Nat
    BY <1>1 DEF TypeOK, Addr
  <2>2. PICK q \in pages : Inside(a, q)
    BY DEF Tiles
  <2>3. q \in Nat /\ q # p /\ q * PageUnits \in Nat
    BY <1>1, <2>2, SizeAssumption DEF TypeOK
  <2>4. q * PageUnits <= a /\ a + units[a] < q * PageUnits + PageUnits
    BY <2>2 DEF Inside
  <2>5. CASE q < p
    <3>1. q * PageUnits + PageUnits <= p * PageUnits
      BY <1>1, <2>3, <2>5, PagesApart
    <3> QED
      BY <1>1, <2>1, <2>3, <2>4, <3>1
  <2>6. CASE p < q
    <3>1. p * PageUnits + PageUnits <= q * PageUnits
      BY <1>1, <2>3, <2>6, PagesApart
    <3> QED
      BY <1>1, <2>1, <2>3, <2>4, <3>1
  <2> QED
    BY <1>1, <2>1, <2>3, <2>5, <2>6
<1>4. hd \notin B
  BY <1>1, <1>3
<1>5. \A a \in B : units'[a] = units[a]
  BY <1>4
<1>6. ASSUME NEW a \in C PROVE \E q \in pages' : Inside(a, q)'
  <2>1. CASE a = hd
    BY <1>1, <1>2, <2>1 DEF Inside
  <2>2. CASE a \in B
    <3>1. PICK q \in pages : Inside(a, q)
      BY <2>2 DEF Tiles
    <3> QED
      BY <1>5, <2>2, <3>1 DEF Inside
  <2> QED
    BY <2>1, <2>2
<1>7. ASSUME NEW a \in C, NEW c \in C, a < c PROVE a + units'[a] < c
  <2>1. \A x, y \in B : x < y => x + units[x] < y
    BY DEF Tiles
  <2>2. CASE a = hd
    <3>1. c \in B /\ c # hd
      BY <1>1, <1>7, <2>2
    <3> QED
      BY <1>1, <1>2, <1>3, <1>7, <2>2, <3>1
  <2>3. CASE a \in B
    BY <1>1, <1>3, <1>5, <1>7, <2>1, <2>3
  <2> QED
    BY <2>2, <2>3
<1>8. ASSUME NEW q \in pages', NEW x \in (q * PageUnits)..(q * PageUnits + PageUnits - 1)
      PROVE  \E a \in C : x \in Extent(a)'
  <2>1. CASE q = p
    <3>1. x \in hd..(hd + units'[hd])
      BY <1>1, <1>2, <1>8, <2>1
    <3> QED
      BY <3>1 DEF Extent
  <2>2. CASE q \in pages
    <3>1. PICK a \in B : x \in Extent(a)
      BY <1>8, <2>2 DEF Tiles
    <3> QED
      BY <1>5, <3>1 DEF Extent
  <2> QED
    BY <2>1, <2>2
<1>9. Tiles(C)'
  BY ZenonT(30), <1>6, <1>7, <1>8 DEF Tiles
<1> QED
  BY <1>4, <1>9

\* At the end of the list morecore puts a page in front of it; the request fits.
LEMMA MorecoreIInv == ASSUME IInv, morecore PROVE IInv'
<1>1. op.kind = "alloc" /\ op.block = NULL /\ held' = held /\ op.kind # "shared"
  BY ZenonT(30) DEF morecore
<1>2. CASE op' = [kind |-> "panic"] /\ UNCHANGED <<head, next, units, pages>>
  <2>1. TypeOK' /\ Request' /\ LoopsOnce' /\ \A k, w : Shape(k, w) => Scan(k, w)'
    BY <1>1, <1>2 DEF IInv, TypeOK, Request, LoopsOnce, Scan
  <2> QED
    BY ZenonT(30), <1>1, <1>2, <2>1, OpStep
<1>3. ASSUME NEW p \in (0..(NPage - 1)) \ pages, pages' = pages \cup {p},
             units' = [units EXCEPT ![p * PageUnits] = FreshUnits],
             next' = [next EXCEPT ![p * PageUnits] = head], head' = p * PageUnits,
             op' = [op EXCEPT !.prev = NULL, !.block = p * PageUnits, !.rounds = @ + 1]
      PROVE  IInv'
  <2>1. PICK k, w : Shape(k, w)
    BY DEF IInv
  <2>2. TypeOK /\ HeldFit /\ List(k, w) /\ Once(k, w) /\ Tiles(Blocks(k, w))
    BY <1>1, <2>1 DEF IInv, Shape
  <2>3. PICK hd \in Addr : hd = p * PageUnits
    <3>1. p * PageUnits \in (p * PageUnits)..(p * PageUnits + PageUnits - 1)
      BY PageFacts, PageAddrs
    <3> QED
      BY <3>1, PageAddrs
  <2>4. PICK B \in SUBSET Addr : B = Blocks(k, w)
    <3>1. \A a \in Blocks(k, w) : a \in Addr
      BY <2>2, BlockFacts
    <3> QED
      BY <3>1
  <2>5. PICK C : C = B \cup {hd}
    BY ZenonT(30)
  <2>6. /\ FreshUnits \in 0..(PageUnits - 1)
        /\ units' \in [Addr -> 0..(PageUnits - 1)] /\ units'[hd] = FreshUnits
        /\ \A a \in Addr : a # hd => units'[a] = units[a]
    <3>1. FreshUnits \in 0..(PageUnits - 1)
      BY PageFacts, FreshFacts
    <3> QED
      BY <1>3, <2>2, <2>3, <3>1 DEF TypeOK
  <2>7. hd \notin B /\ Tiles(C)'
    BY <1>3, <2>2, <2>3, <2>4, <2>5, <2>6, PageTiles
  <2>8. \A i \in 1..k : w[i] # hd
    BY <2>4, <2>7 DEF Blocks, Free
  <2>9. next \in [Addr -> Addr \cup {NULL}] /\ Linked(head, next, k, w) /\ k \in Nat
    BY <2>2 DEF TypeOK, List, Linked
  <2>10. PICK v : v = Front(hd, k, w)
    OBVIOUS
  <2>11. List(k + 1, v)'
    <3>1. Linked(hd, [next EXCEPT ![hd] = head], k + 1, Front(hd, k, w))
      BY Zenon, <2>8, <2>9, Prepend
    <3> QED
      BY <1>3, <2>3, <2>10, <3>1 DEF List
  <2>12. Free(k + 1, v) = Free(k, w) \cup {hd}
    <3>1. Free(k + 1, Front(hd, k, w)) = Free(k, w) \cup {hd}
      BY <2>9, FrontFree
    <3> QED
      BY <2>10, <3>1
  <2>13. HeldAddrs' = HeldAddrs
    BY <1>1 DEF HeldAddrs
  <2>14. Tiles(Blocks(k + 1, v))'
    <3>1. Blocks(k + 1, v)' = Free(k + 1, v) \cup HeldAddrs'
      BY DEF Blocks, Free
    <3>2. Blocks(k + 1, v)' = C
      BY <2>4, <2>5, <2>12, <2>13, <3>1 DEF Blocks
    <3> QED
      BY <2>7, <3>2 DEF Tiles
  <2>15. Once(k + 1, v)'
    <3>1. hd \notin HeldAddrs
      BY <2>4, <2>7 DEF Blocks
    <3>2. \A i \in 1..(k + 1) : v[i] \in Free(k, w) \cup {hd}
      BY <2>12 DEF Free
    <3>3. \A i \in 1..(k + 1) : v[i] \notin HeldAddrs'
      BY <2>2, <2>13, <3>1, <3>2 DEF Once, Free
    <3> QED
      BY <1>1, <2>2, <3>3 DEF Once
  <2>16. /\ op \in [kind : {"alloc"}, bytes : Sizes, prev : Addr \cup {NULL},
                    block : Addr \cup {NULL}, rounds : 0..2]
         /\ op.bytes \in Sizes /\ op.rounds \in 0..2
    BY <1>1, <2>2, AllocFacts
  <2>17. op.rounds = 0
    BY <1>1, <2>16 DEF IInv, Request
  <2>18. /\ op'.kind = "alloc" /\ op'.bytes = op.bytes /\ op'.rounds = 1
         /\ op'.prev = NULL /\ op'.block = hd
         /\ op' \in [kind : {"alloc"}, bytes : Sizes, prev : Addr \cup {NULL},
                     block : Addr \cup {NULL}, rounds : 0..2]
    <3>1. op' = [op EXCEPT !.prev = NULL, !.block = hd, !.rounds = 1]
      BY <1>3, <2>3, <2>17
    <3>2. op = [kind |-> "alloc", bytes |-> op.bytes, prev |-> op.prev, block |-> op.block,
                rounds |-> op.rounds]
      BY <2>16
    <3>3. op' = [kind |-> "alloc", bytes |-> op.bytes, prev |-> NULL, block |-> hd, rounds |-> 1]
      <4>1. PICK x : x = [op EXCEPT !.prev = NULL]
        BY ZenonT(30)
      <4>2. PICK y : y = [x EXCEPT !.block = hd]
        BY ZenonT(30)
      <4>3. op' = [y EXCEPT !.rounds = 1]
        BY <3>1, <4>1, <4>2
      <4>4. x = [kind |-> "alloc", bytes |-> op.bytes, prev |-> NULL, block |-> op.block,
                 rounds |-> op.rounds]
        BY <3>2, <4>1
      <4>5. y = [kind |-> "alloc", bytes |-> op.bytes, prev |-> NULL, block |-> hd,
                 rounds |-> op.rounds]
        BY <4>2, <4>4
      <4> QED
        BY <4>3, <4>5
    <3> QED
      BY <2>16, <3>3
  <2>19. Scan(k + 1, v)'
    <3>1. v[1] = hd /\ 0 \in 0..(k + 1) /\ k + 1 # 0
      BY <2>9, <2>10 DEF Front
    <3> QED
      BY <2>18, <3>1 DEF Scan, Behind
  <2>20. Shape(k + 1, v)'
    BY <2>11, <2>14, <2>15, <2>19 DEF Shape
  <2>21. HeldFit'
    <3>1. \A m \in held : m.addr \in Addr /\ m.addr # hd
      BY <2>2, <2>4, <2>7 DEF TypeOK, Blocks, HeldAddrs
    <3>2. \A m \in held : units'[m.addr] = units[m.addr]
      BY <2>6, <3>1
    <3> QED
      BY <1>1, <2>2, <3>2 DEF HeldFit, Inside
  <2>22. TypeOK'
    <3>1. next' \in [Addr -> Addr \cup {NULL}] /\ head' \in Addr \cup {NULL}
      BY <1>3, <2>2, <2>3 DEF TypeOK
    <3>2. pages' \in SUBSET (0..(NPage - 1))
      BY <1>3, <2>2 DEF TypeOK
    <3> QED
      BY <1>1, <2>2, <2>6, <2>18, <3>1, <3>2 DEF TypeOK
  <2>23. Request' /\ LoopsOnce'
    <3>1. op.bytes < BIGALLOC /\ UnitsFor(op.bytes) <= FreshUnits /\ UnitsFor(op.bytes) \in Nat
      BY <1>1, <2>16, UnitsForFacts DEF IInv, Request
    <3>2. hd # NULL /\ head' = hd /\ FreshUnits \in Int
      BY <1>3, <2>3, <2>6, PageFacts DEF Addr, NULL
    <3> QED
      BY <2>6, <2>18, <3>1, <3>2 DEF Request, LoopsOnce
  <2> QED
    BY <2>20, <2>21, <2>22, <2>23 DEF IInv
<1> QED
  BY ZenonT(30), <1>2, <1>3 DEF morecore

-----------------------------------------------------------------------------
(* The theorems. *)

\* The heap is empty at first.
LEMMA InitIInv == ASSUME Init PROVE IInv
<1>1. TypeOK /\ HeldFit /\ Request /\ LoopsOnce
  BY PageFacts DEF Init, TypeOK, HeldFit, Request, LoopsOnce, Idle
<1>2. PICK w : w = [i \in 1..0 |-> NULL]
  OBVIOUS
<1>3. List(0, w)
  BY <1>2 DEF Init, List, Linked
<1>4. Blocks(0, w) = {} /\ Once(0, w)
  BY DEF Init, Blocks, Free, Once, HeldAddrs
<1>5. Shape(0, w)
  BY <1>3, <1>4 DEF Init, Idle, Shape, Scan, Tiles
<1> QED
  BY ZenonT(30), <1>1, <1>5 DEF IInv

\* The invariant is inductive.
LEMMA StepIInv == ASSUME IInv, [Next]_vars PROVE IInv'
<1>1. CASE UNCHANGED vars
  BY <1>1 DEF vars, IInv, TypeOK, Shape, List, Scan, Behind, Once, Tiles, Blocks, HeldAddrs,
              Inside, Extent, HeldFit, Request, LoopsOnce
<1>2. ASSUME NEW n \in Sizes, kmalloc(n) PROVE IInv'
  BY <1>2, KmallocIInv
<1>3. ASSUME NEW m \in held, kfree(m) PROVE IInv'
  BY <1>3, KfreeIInv
<1>4. CASE KernelStep
  BY <1>4, ScanIInv, TakeExactIInv, TakeExactHeadIInv, SplitIInv, MorecoreIInv DEF KernelStep
<1> QED
  BY ZenonT(30), <1>1, <1>2, <1>3, <1>4 DEF Next

\* Every state of the heap satisfies the invariant.
THEOREM Invariance == Spec => []IInv
<1>1. Init => IInv
  BY InitIInv
<1>2. IInv /\ [Next]_vars => IInv'
  BY StepIInv
<1> QED
  BY <1>1, <1>2, PTL DEF Spec

\* kmalloc and kfree lose no memory and hand none out twice, up to an exact match
\* at the head of the list; a caller has what it asked for, within one page.
THEOREM TiledAlways == Spec => []Tiled
<1>1. IInv => Tiled
  BY IInvTiled
<1> QED
  BY <1>1, Invariance, PTL

\* slob_alloc calls morecore at most once, and then takes the first block.
THEOREM LoopsOnceAlways == Spec => []LoopsOnce
<1>1. IInv => LoopsOnce
  BY DEF IInv
<1> QED
  BY <1>1, Invariance, PTL
=============================================================================
