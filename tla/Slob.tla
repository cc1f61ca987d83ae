-------------------------------- MODULE Slob --------------------------------
(***************************************************************************)
(* The kernel heap of kernel/mm/slob.c: one first-fit list of free blocks, *)
(* carved out of single pages.                                             *)
(*                                                                         *)
(* Addresses count units of UNIT bytes, the size of a struct slob_header:  *)
(* a block at address a with u units is its header at a and the caller's   *)
(* memory a + 1..a + u.  slob_lock is held from the start to the end of an *)
(* operation, so at most one is in progress; a step of slob_alloc looks at *)
(* one block of the list.  Callers free what they hold, once, and do not   *)
(* write outside of it.                                                    *)
(***************************************************************************)
EXTENDS Integers, FiniteSets

CONSTANTS
  UNIT,       \* sizeof(struct slob_header)
  PAGE_SIZE,
  NPage,      \* the page frames pmm_alloc_order may return
  Sizes       \* the sizes that callers of kmalloc ask for

ASSUME UnitAssumption ==
  UNIT \in Nat \ {0} /\ PAGE_SIZE \in Nat /\ PAGE_SIZE % UNIT = 0 /\ PAGE_SIZE > 2 * UNIT
ASSUME SizeAssumption == Sizes \subseteq Nat \ {0} /\ NPage \in Nat

VARIABLES
  head,   \* head
  next,   \* list.next of the header at each address
  units,  \* units of the header at each address
  pages,  \* the pages the heap has taken from the physical memory manager
  held,   \* the blocks [addr, bytes] of the callers, addr that of the header
  op      \* the operation in progress

vars == <<head, next, units, pages, held, op>>

PageUnits == PAGE_SIZE \div UNIT
BIGALLOC == PAGE_SIZE - UNIT
NAddr == NPage * PageUnits
Addr == 0..(NAddr - 1)
NULL == -1
Idle == [kind |-> "none"]

\* The units of a block, header included.
Extent(a) == a..(a + units[a])

TypeOK ==
  /\ head \in Addr \cup {NULL}
  /\ next \in [Addr -> Addr \cup {NULL}]
  /\ units \in [Addr -> 0..(PageUnits - 1)]
  /\ pages \in SUBSET (0..(NPage - 1))
  /\ held \in SUBSET [addr : Addr, bytes : Sizes]
  /\ \/ op \in [kind : {"none", "panic", "shared"}]
     \/ op \in [kind : {"alloc"}, bytes : Sizes, prev : Addr \cup {NULL},
                block : Addr \cup {NULL}, rounds : 0..2]

Init ==
  /\ head = NULL
  /\ next = [a \in Addr |-> NULL]
  /\ units = [a \in Addr |-> 0]
  /\ pages = {}
  /\ held = {}
  /\ op = Idle

-----------------------------------------------------------------------------

\* DIV_ROUND_UP(bytes, UNIT).
UnitsFor(bytes) == (bytes + UNIT - 1) \div UNIT

\* slob_alloc up to the loop: large sizes are not implemented.
kmalloc(n) ==
  /\ op = Idle
  /\ op' = IF n < BIGALLOC
           THEN [kind |-> "alloc", bytes |-> n, prev |-> NULL, block |-> head, rounds |-> 0]
           ELSE [kind |-> "panic"]
  /\ UNCHANGED <<head, next, units, pages, held>>

Scanning == op.kind = "alloc" /\ op.block # NULL

Give(b) == held' = held \cup {[addr |-> b, bytes |-> op.bytes]}

\* Mutant: the loop does not advance.
scan_stay ==
  /\ Scanning
  /\ units[op.block] < UnitsFor(op.bytes)
  /\ op' = [op EXCEPT !.prev = op.block]
  /\ UNCHANGED <<head, next, units, pages, held>>

\* The block is too small: on to the next one.
scan ==
  /\ Scanning
  /\ units[op.block] < UnitsFor(op.bytes)
  /\ op' = [op EXCEPT !.prev = op.block, !.block = next[op.block]]
  /\ UNCHANGED <<head, next, units, pages, held>>

\* An exact match behind another block is taken out of the list.
take_exact ==
  /\ Scanning /\ op.prev # NULL
  /\ units[op.block] = UnitsFor(op.bytes)
  /\ next' = [next EXCEPT ![op.prev] = next[op.block]]
  /\ Give(op.block)
  /\ op' = Idle
  /\ UNCHANGED <<head, units, pages>>

\* An exact match at the head: "head = block" leaves the list as it is, and
\* the block is handed out and free at the same time.  What follows depends on
\* what its holders write, so the model ends here.
take_exact_head ==
  /\ Scanning /\ op.prev = NULL
  /\ units[op.block] = UnitsFor(op.bytes)
  /\ Give(op.block)
  /\ op' = [kind |-> "shared"]
  /\ UNCHANGED <<head, next, units, pages>>

\* Mutant: the header of the rest is not subtracted.
Rest_whole(b, u) == units[b] - u

\* The units of the block that a split leaves over.
Rest(b, u) == units[b] - u - 1

\* A larger block is split; the rest takes its place in the list.
split ==
  LET u == UnitsFor(op.bytes)
      b == op.block
      new_block == b + u + 1
  IN /\ Scanning
     /\ units[b] > u
     /\ units' = [units EXCEPT ![new_block] = Rest(b, u), ![b] = u]
     /\ IF op.prev = NULL
        THEN head' = new_block /\ next' = [next EXCEPT ![new_block] = next[b]]
        ELSE /\ next' = [next EXCEPT ![new_block] = next[b], ![op.prev] = new_block]
             /\ UNCHANGED head
     /\ Give(b)
     /\ op' = Idle
     /\ UNCHANGED pages

\* Mutant: room for two headers is subtracted.
FreshUnits_two == (PAGE_SIZE - 2 * UNIT) \div UNIT

FreshUnits == (PAGE_SIZE - UNIT) \div UNIT

\* The end of the list: one page from pmm_alloc_order (which panics when there
\* is none), put in front of the list, and the scan starts again.
morecore ==
  /\ op.kind = "alloc" /\ op.block = NULL
  /\ IF Cardinality(pages) = NPage
     THEN op' = [kind |-> "panic"] /\ UNCHANGED <<head, next, units, pages>>
     ELSE \E p \in (0..(NPage - 1)) \ pages :
            LET hd == p * PageUnits
            IN /\ pages' = pages \cup {p}
               /\ units' = [units EXCEPT ![hd] = FreshUnits]
               /\ next' = [next EXCEPT ![hd] = head]
               /\ head' = hd
               /\ op' = [op EXCEPT !.prev = NULL, !.block = hd, !.rounds = @ + 1]
  /\ UNCHANGED held

link_first(b) == head' = b /\ next' = [next EXCEPT ![b] = head]

\* slob_free: a page aligned pointer would be a large allocation.
kfree(m) ==
  /\ op = Idle
  /\ held' = held \ {m}
  /\ IF (m.addr + 1) % PageUnits = 0
     THEN op' = [kind |-> "panic"] /\ UNCHANGED <<head, next>>
     ELSE link_first(m.addr) /\ UNCHANGED op
  /\ UNCHANGED <<units, pages>>

-----------------------------------------------------------------------------

KernelStep == scan \/ take_exact \/ take_exact_head \/ split \/ morecore

Next ==
  \/ \E n \in Sizes : kmalloc(n)
  \/ \E m \in held : kfree(m)
  \/ KernelStep

Spec == Init /\ [][Next]_vars

\* A CPU that holds slob_lock keeps running.
FairSpec == Spec /\ WF_vars(KernelStep)

-----------------------------------------------------------------------------
(***************************************************************************)
(* Properties.                                                             *)
(***************************************************************************)

\* The blocks met by following next from head.
Walk[n \in 0..NAddr] ==
  IF n = 0 THEN head
  ELSE LET a == Walk[n - 1] IN IF a = NULL THEN NULL ELSE next[a]

Listed == {Walk[n] : n \in 0..NAddr} \ {NULL}
HeldAddrs == {m.addr : m \in held}

\* The pages of the heap are cut into blocks without gap or overlap, each of
\* them free or held once: kmalloc and kfree lose no memory and hand none out
\* twice.  A size of units + 1 leaves a free block of no units.  The list of free
\* blocks ends, and a caller has at least the bytes it asked for, within one page,
\* at an address that kfree does not take for a large allocation.
Tiled ==
  LET blocks == Listed \cup HeldAddrs
  IN /\ TypeOK
     /\ Walk[NAddr] = NULL
     /\ \A m \in held :
          /\ units[m.addr] * UNIT >= m.bytes
          /\ m.addr \div PageUnits = (m.addr + units[m.addr]) \div PageUnits
          /\ (m.addr + 1) % PageUnits # 0
     /\ op.kind # "shared" =>
          /\ Listed \cap HeldAddrs = {}
          /\ \A m, n \in held : m.addr = n.addr => m = n
          /\ UNION {Extent(b) : b \in blocks}
               = UNION {(p * PageUnits)..((p + 1) * PageUnits - 1) : p \in pages}
          /\ \A a, b \in blocks : a # b => Extent(a) \cap Extent(b) = {}

\* "This should only loop at most once since our allocation is guaranteed to
\* succeed if morecore() is called": after morecore the first block fits.
LoopsOnce ==
  op.kind = "alloc" /\ op.rounds > 0 =>
    op.rounds = 1 /\ op.block = head /\ units[op.block] >= UnitsFor(op.bytes)

\* slob_alloc ends, and with it the time that slob_lock is held.
AllocEnds == op.kind = "alloc" ~> op.kind # "alloc"

\* "Remove allocated block from list".  The code violates it: an exact match at the
\* head of the list stays there (slob.c:64).
HeldNotListed == HeldAddrs \cap Listed = {}
=============================================================================
