-------------------------------- MODULE PMM ---------------------------------
(***************************************************************************)
(* The buddy allocator of kernel/mm/pmm.c with its free lists at the level *)
(* of pointers: free_lists holds the heads, and the next, prev and order   *)
(* fields of struct page carry the rest.  A removed page keeps what the    *)
(* code leaves in its fields.                                              *)
(*                                                                         *)
(* zone_list_lock is held from the start to the end of an operation, so at *)
(* most one is in progress: op says which and where it is.  A step is one  *)
(* iteration of a loop or one level of the recursion of __pmm_free_order.  *)
(* Callers free what they hold, with the order they asked for, as all the  *)
(* callers in the kernel do.                                               *)
(***************************************************************************)
EXTENDS Integers, Sequences, FiniteSetsExt

CONSTANTS
  MAX_ORDER,  \* number of free lists of a zone
  NPage,      \* size of page_data
  Zones,      \* the zone list: a sequence of records [first, start, len], in pages
  Leftover    \* what a struct page may hold that nobody has cleared

ASSUME OrderAssumption == MAX_ORDER \in Nat \ {0}
ASSUME PageAssumption == NPage \in Nat /\ NPage % 2^MAX_ORDER = 0
ASSUME ZoneAssumption ==
  \A i \in DOMAIN Zones :
    /\ Zones[i].len > 0 /\ Zones[i].first >= 0
    /\ Zones[i].start - Zones[i].first \in {0, 1}
    /\ Zones[i].start + Zones[i].len <= NPage
    /\ \A j \in DOMAIN Zones : i < j =>
         Zones[i].start + Zones[i].len < Zones[j].start

ASSUME LeftoverAssumption ==
  \A l \in Leftover : {l.next, l.prev} \subseteq -1..(NPage - 1) /\ l.order \in 0..(MAX_ORDER - 1)

VARIABLES
  free_lists, \* zone->free_lists, for each zone
  next,       \* page->list.next
  prev,       \* page->list.prev
  order,      \* page->order
  held,       \* the blocks <<page, order>> that callers hold
  op          \* the operation in progress

links == <<free_lists, next, prev, order>>
vars == <<free_lists, next, prev, order, held, op>>

NULL == -1
Page == 0..(NPage - 1)
Order == 0..(MAX_ORDER - 1)
Zone == DOMAIN Zones

Block(p, o) == p..(p + 2^o - 1)
ZonePages(z) == Zones[z].start..(Zones[z].start + Zones[z].len - 1)

Idle == [kind |-> "none"]

TypeOK ==
  /\ free_lists \in [Zone -> [Order -> Page \cup {NULL}]]
  /\ next \in [Page -> Page \cup {NULL}]
  /\ prev \in [Page -> Page \cup {NULL}]
  /\ order \in [Page -> Order]
  /\ held \in SUBSET (Page \X Order)
  /\ \/ op = Idle \/ op = [kind |-> "panic"]
     \/ op \in [kind : {"init"}, zone : Zone, page : Page]
     \/ op \in [kind : {"alloc"}, zone : Zone, order : Order, can_fail : BOOLEAN]
     \/ op \in [kind : {"free"}, zone : Zone, order : Order, page : Page]

\* The struct pages reserve_page_data has cleared: as many as a zone has pages,
\* from the first page of its region on.  A region with an aligned base has its
\* struct zone in that page, and its zone starts one page later.
Cleared == UNION {Zones[z].first..(Zones[z].first + Zones[z].len - 1) : z \in Zone}

\* init_zone clears the lists.  A struct page that is not cleared holds what the
\* memory of page_data held before.
Init ==
  /\ free_lists = [z \in Zone |-> [o \in Order |-> NULL]]
  /\ \E l \in Leftover :
       /\ next = [p \in Page |-> IF p \in Cleared THEN NULL ELSE l.next]
       /\ prev = [p \in Page |-> IF p \in Cleared THEN NULL ELSE l.prev]
       /\ order = [p \in Page |-> IF p \in Cleared THEN 0 ELSE l.order]
  /\ held = {}
  /\ op = [kind |-> "init", zone |-> 1, page |-> Zones[1].start]

-----------------------------------------------------------------------------

\* Mutant: the block is not linked back to.
push_single(z, o, p) ==
  /\ next' = [next EXCEPT ![p] = free_lists[z][o]]
  /\ prev' = prev
  /\ free_lists' = [free_lists EXCEPT ![z][o] = p]
  /\ order' = [order EXCEPT ![p] = o]

\* dlist_set_next(p, free_lists[o]) and free_lists[o] = p.
push(z, o, p) ==
  /\ next' = [next EXCEPT ![p] = free_lists[z][o]]
  /\ prev' = [q \in Page |-> IF q = free_lists[z][o] THEN p ELSE prev[q]]
  /\ free_lists' = [free_lists EXCEPT ![z][o] = p]
  /\ order' = [order EXCEPT ![p] = o]

get_max_order(start, end) ==
  Max({o \in Order : start + 2^o <= end /\ start % 2^o = 0})

\* One iteration of the loop of init_zone, and the step to the next zone.
init_zone ==
  LET z == op.zone
      end == Zones[z].start + Zones[z].len
      o == get_max_order(op.page, end)
  IN /\ op.kind = "init"
     /\ push(z, o, op.page)
     /\ op' = IF op.page + 2^o < end THEN [op EXCEPT !.page = @ + 2^o]
              ELSE IF z < Len(Zones)
              THEN [op EXCEPT !.zone = z + 1, !.page = Zones[z + 1].start]
              ELSE Idle
     /\ UNCHANGED held

page_buddy(p, o) == IF (p \div 2^o) % 2 = 0 THEN p + 2^o ELSE p - 2^o

-----------------------------------------------------------------------------

pmm_alloc_order(o, can_fail) ==
  /\ op = Idle
  /\ op' = [kind |-> "alloc", zone |-> 1, order |-> o, can_fail |-> can_fail]
  /\ UNCHANGED <<links, held>>

\* Orders from o on with a free block in the zone.
FreeOrders(z, o) == {f \in Order : o <= f /\ free_lists[z][f] # NULL}

\* Mutant: the loop over the zones does not advance.
zone_alloc_stuck ==
  /\ op.kind = "alloc"
  /\ FreeOrders(op.zone, op.order) = {}
  /\ op' = IF op.zone < Len(Zones) THEN op
           ELSE IF op.can_fail THEN Idle ELSE [kind |-> "panic"]
  /\ UNCHANGED <<links, held>>

\* Nothing is free in this zone: try the next one, or fail.
zone_alloc_none ==
  /\ op.kind = "alloc"
  /\ FreeOrders(op.zone, op.order) = {}
  /\ op' = IF op.zone < Len(Zones) THEN [op EXCEPT !.zone = @ + 1]
           ELSE IF op.can_fail THEN Idle ELSE [kind |-> "panic"]
  /\ UNCHANGED <<links, held>>

\* Mutant: the larger block stays in its list.
split_keep(z, fo, removed, buddy) ==
  /\ free_lists' = [free_lists EXCEPT ![z][fo - 1] = removed]
  /\ next' = [next EXCEPT ![removed] = buddy, ![buddy] = free_lists[z][fo - 1]]
  /\ prev' = [prev EXCEPT ![buddy] = removed]
  /\ order' = [order EXCEPT ![removed] = fo - 1, ![buddy] = fo - 1]

\* The body of the splitting loop.
split(z, fo, removed, buddy) ==
  /\ free_lists' = [free_lists EXCEPT ![z][fo] = next[removed], ![z][fo - 1] = removed]
  /\ next' = [next EXCEPT ![removed] = buddy, ![buddy] = free_lists[z][fo - 1]]
  /\ prev' = [q \in Page |-> IF q = free_lists[z][fo - 1] THEN buddy
                             ELSE IF q = buddy THEN removed ELSE prev[q]]
  /\ order' = [order EXCEPT ![removed] = fo - 1, ![buddy] = fo - 1]

\* The lists between order and the order found are empty, so the order the
\* loop goes on with is the least one with a free block again.
zone_alloc_split ==
  /\ op.kind = "alloc"
  /\ free_lists[op.zone][op.order] = NULL
  /\ FreeOrders(op.zone, op.order) # {}
  /\ LET fo == Min(FreeOrders(op.zone, op.order))
         removed == free_lists[op.zone][fo]
     IN split(op.zone, fo, removed, page_buddy(removed, fo - 1))
  /\ UNCHANGED <<held, op>>

\* The first page of the list is taken out; the one behind it keeps its prev.
unlink_head(z, o) ==
  /\ free_lists' = [free_lists EXCEPT ![z][o] = next[free_lists[z][o]]]
  /\ next' = [next EXCEPT ![free_lists[z][o]] = NULL]
  /\ prev' = [prev EXCEPT ![free_lists[z][o]] = NULL]

\* Mutant: the least block that is large enough, not split.
zone_alloc_take_unsplit ==
  /\ op.kind = "alloc"
  /\ FreeOrders(op.zone, op.order) # {}
  /\ LET fo == Min(FreeOrders(op.zone, op.order))
     IN unlink_head(op.zone, fo) /\ held' = held \cup {<<free_lists[op.zone][fo], fo>>}
  /\ op' = Idle
  /\ UNCHANGED order

zone_alloc_take ==
  /\ op.kind = "alloc"
  /\ free_lists[op.zone][op.order] # NULL
  /\ unlink_head(op.zone, op.order)
  /\ held' = held \cup {<<free_lists[op.zone][op.order], op.order>>}
  /\ op' = Idle
  /\ UNCHANGED order

-----------------------------------------------------------------------------

pmm_free_order(b) ==
  /\ op = Idle
  /\ b \in held
  /\ held' = held \ {b}
  /\ op' = [kind |-> "free", order |-> b[2], page |-> b[1],
            zone |-> CHOOSE z \in Zone : b[1] \in ZonePages(z)]
  /\ UNCHANGED links

is_page_free(p, z) ==
  /\ next[p] # NULL \/ prev[p] # NULL
  /\ \A o \in Order : free_lists[z][o] # p

CanMerge == is_page_free(page_buddy(op.page, op.order), op.zone)
              /\ order[page_buddy(op.page, op.order)] = op.order

\* The neighbours in the list are linked to each other; p keeps its links.
unlink(p) ==
  /\ next' = [q \in Page |-> IF q = prev[p] THEN next[p] ELSE next[q]]
  /\ prev' = [q \in Page |-> IF q = next[p] THEN prev[p] ELSE prev[q]]

\* One level of __pmm_free_order.  With order = MAX_ORDER the code goes on
\* behind the end of free_lists: the model has no step for that.
free_merge ==
  LET buddy == page_buddy(op.page, op.order)
  IN /\ op.kind = "free" /\ op.order < MAX_ORDER
     /\ CanMerge
     /\ unlink(buddy)
     /\ op' = [op EXCEPT !.page = IF buddy < @ THEN buddy ELSE @, !.order = @ + 1]
     /\ UNCHANGED <<free_lists, order, held>>

free_insert ==
  /\ op.kind = "free" /\ op.order < MAX_ORDER
  /\ ~CanMerge
  /\ push(op.zone, op.order, op.page)
  /\ op' = Idle
  /\ UNCHANGED held

-----------------------------------------------------------------------------

KernelStep ==
  \/ init_zone
  \/ zone_alloc_none
  \/ zone_alloc_split
  \/ zone_alloc_take
  \/ free_merge
  \/ free_insert

Next ==
  \/ \E o \in Order, can_fail \in BOOLEAN : pmm_alloc_order(o, can_fail)
  \/ \E b \in held : pmm_free_order(b)
  \/ KernelStep

Spec == Init /\ [][Next]_vars

\* A CPU that holds zone_list_lock keeps running.
FairSpec == Spec /\ WF_vars(KernelStep)

-----------------------------------------------------------------------------
(***************************************************************************)
(* Properties.                                                             *)
(***************************************************************************)

\* The pages met by following next from the head of a free list: a walk that
\* is longer than page_data goes round in a circle.
Walk(z, o) ==
  LET at[n \in 0..NPage] ==
        IF n = 0 THEN free_lists[z][o]
        ELSE LET p == at[n - 1] IN IF p = NULL THEN NULL ELSE next[p]
  IN at

Listed(z, o) == {Walk(z, o)[n] : n \in 0..NPage} \ {NULL}

FreeBlocks == UNION {Listed(z, o) \X {o} : z \in Zone, o \in Order}

\* The block that an operation has in its hands: the pages that init_zone has
\* yet to insert, or the block that __pmm_free_order is merging.
Pending ==
  CASE op.kind = "init" ->
         UNION {ZonePages(z) : z \in {y \in Zone : y > op.zone}}
           \cup {p \in ZonePages(op.zone) : p >= op.page}
    [] op.kind = "free" -> Block(op.page, op.order)
    [] OTHER -> {}

AllPages == UNION {ZonePages(z) : z \in Zone}

\* Every page of every zone is in exactly one block, free, held or in the
\* hands of the operation in progress: pmm_alloc_order never gives out a page
\* twice, and splitting and merging lose none.
Partition ==
  LET blocks == FreeBlocks \cup held
      pages(b) == Block(b[1], b[2])
  IN /\ TypeOK
     /\ AllPages = Pending \cup UNION {pages(b) : b \in blocks}
     /\ \A a, b \in blocks : a # b => pages(a) \cap pages(b) = {}
     /\ \A b \in blocks : pages(b) \cap Pending = {}
     /\ FreeBlocks \cap held = {}

\* What lets __pmm_free_order remove a buddy from the middle of a list without
\* walking it: every list ends, the page behind another one points back to it,
\* and no page of a list is the head of a second one.  The prev of a head may
\* be stale: zone_alloc_order does not reset it.  A block in free_lists[o] of a
\* zone has order o (asserted by zone_alloc_order), starts at a multiple of its
\* size and lies in the zone; one that a caller holds is not linked to anything,
\* as pmm_free_order asserts when it comes back.
ListsLinked ==
  /\ \A z \in Zone, o \in Order :
       /\ Walk(z, o)[NPage] = NULL
       /\ \A p \in Listed(z, o) :
            /\ next[p] # NULL => prev[next[p]] = p
            /\ \A y \in Zone, f \in Order : free_lists[y][f] = p => <<y, f>> = <<z, o>>
            /\ order[p] = o /\ p % 2^o = 0 /\ Block(p, o) \subseteq ZonePages(z)
  /\ \A b \in held : next[b[1]] = NULL /\ prev[b[1]] = NULL

\* The allocator gives its callers what Allocator promises: aligned blocks of
\* the order they asked for, of pages that nobody holds.
Promise == INSTANCE Allocator WITH
             Pages <- AllPages,
             asked <- IF op.kind = "alloc" THEN op.order ELSE -1,
             free <- Pending \cup UNION {Block(b[1], b[2]) : b \in FreeBlocks}
Implements == Promise!Spec

\* The loops and the recursion under zone_list_lock end.
OperationsEnd == [](op.kind # "none" => <>(op.kind \in {"none", "panic"}))

\* "kassert_dbg(order < MAX_ORDER)": __pmm_free_order is called with the order
\* of an existing list.  The code violates it in a zone of several blocks of the
\* largest order (Zones <- FourBlocks): two of them merge (pmm.c:229).
OrderInRange == op.kind = "free" => op.order < MAX_ORDER

\* What __pmm_free_order merges lies in the zone it frees to.  The code violates
\* it in a zone that ends in the middle of a larger block (Zones <- UnalignedEnd):
\* the buddy's struct page was not cleared, and may look free (pmm.c:203-219).
MergedInZone ==
  op.kind = "free" /\ op.order < MAX_ORDER => Block(op.page, op.order) \subseteq ZonePages(op.zone)
=============================================================================
