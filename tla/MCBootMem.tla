------------------------------ MODULE MCBootMem -----------------------------
(* Instances of BootMem for model checking: boot loader's maps. *)
EXTENDS BootMem

Ram(addr, len) == [addr |-> addr, len |-> len, avail |-> TRUE]
Hole(addr, len) == [addr |-> addr, len |-> len, avail |-> FALSE]

\* Low memory, then memory with a hole in it, then memory from c; maps with
\* adjacent and with very small entries; maps with two regions behind one of b
\* grains that the tables use up; and no memory but at the end of what is mapped.
SomeMaps ==
  {<<Ram(0, a), Hole(a, 4 - a), Ram(4, b - 4), Hole(b, c - b), Ram(c, 64 - c)>> :
      a \in {0, 3}, b \in {8, 12, 20, 24, 28, 32, 36, 44}, c \in {36, 41, 44, 52, 58}}
  \cup {<<Ram(0, a), Ram(a, b - a), Hole(b, 2), Ram(c, d - c), Ram(e, 64 - e)>> :
      a \in {2, 5, 8}, b \in {12, 20, 24}, c \in {26, 27}, d \in {28, 32, 36}, e \in {36, 38}}
  \cup {<<Ram(0, 8), Hole(8, 32 - b), Ram(40 - b, b), Hole(40, 4), Ram(44, c - 44),
          Hole(c, 4), Ram(c + 4, 60 - c)>> :
      b \in {8, 12, 16}, c \in {48, 52, 56}}
  \cup {<<Ram(0, 8), Hole(8, c - 8), Ram(c, 64 - c)>> : c \in {33, 38}}

GoodMaps == {m \in SomeMaps :
  \A k \in DOMAIN m :
    /\ m[k].len >= 0
    /\ m[k].avail /\ m[k].addr + m[k].len > kern_end => (m[k].addr + m[k].len) % PAGE_SIZE = 0}
TableSpans2 == <<32, 8>>
=============================================================================
