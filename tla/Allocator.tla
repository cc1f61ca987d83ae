----------------------------- MODULE Allocator ------------------------------
(***************************************************************************)
(* What the physical memory manager promises its callers (include/mm.h):   *)
(* pmm_alloc_order hands out 2^order consecutive, aligned pages that nobody *)
(* holds, and pmm_free_order takes them back.                              *)
(***************************************************************************)
EXTENDS Integers

CONSTANTS
  MAX_ORDER,  \* orders are 0..MAX_ORDER-1
  Pages       \* the page frames of all zones

VARIABLES
  free,       \* the pages that nobody holds
  held,       \* the blocks <<first page, order>> of the callers
  asked       \* the order a caller is waiting for, or None

vars == <<free, held, asked>>

None == -1

\* The pages of the block of the given order that starts at p.
Block(p, o) == p..(p + 2^o - 1)

Init == free = Pages /\ held = {} /\ asked = None

Ask(o) == asked = None /\ asked' = o /\ UNCHANGED <<free, held>>

\* The caller gets a block of the order it asked for ...
Alloc(p) ==
  /\ asked # None
  /\ p % 2^asked = 0
  /\ Block(p, asked) \subseteq free
  /\ free' = free \ Block(p, asked)
  /\ held' = held \cup {<<p, asked>>}
  /\ asked' = None

\* ... or none.
Fail == asked # None /\ asked' = None /\ UNCHANGED <<free, held>>

Free(b) ==
  /\ asked = None
  /\ held' = held \ {b}
  /\ free' = free \cup Block(b[1], b[2])
  /\ UNCHANGED asked

Next ==
  \/ \E o \in 0..(MAX_ORDER - 1) : Ask(o)
  \/ \E p \in Pages : Alloc(p)
  \/ Fail
  \/ \E b \in held : Free(b)

Spec == Init /\ [][Next]_vars
=============================================================================
