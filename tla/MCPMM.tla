------------------------------- MODULE MCPMM --------------------------------
(* Instances of PMM for model checking: lists of zones. *)
EXTENDS PMM

\* Two regions of two pages, the first for the struct zone and the second, whose
\* struct page was not cleared, for the zone; and a region with its struct zone in front
\* of a block of the largest order.  All the buddies that the code looks at have
\* been cleared.
ThreeZones == <<[first |-> 0, start |-> 1, len |-> 1],
                [first |-> 4, start |-> 4, len |-> 4],
                [first |-> 10, start |-> 11, len |-> 1]>>

\* Memory that was zero, and leftovers that look like a page of some list.
Zeroes == {[next |-> -1, prev |-> -1, order |-> 0]}
SomeLeftover ==
  Zeroes \cup {[next |-> 2, prev |-> -1, order |-> 0], [next |-> 6, prev |-> 4, order |-> 1],
               [next |-> 1, prev |-> 1, order |-> 2]}

\* A zone of four blocks of the largest order (MAX_ORDER = 2, Leftover <- Zeroes).
FourBlocks == <<[first |-> 0, start |-> 0, len |-> 8]>>

\* A zone that ends in the middle of a block.
UnalignedEnd == <<[first |-> 0, start |-> 0, len |-> 3]>>
=============================================================================
