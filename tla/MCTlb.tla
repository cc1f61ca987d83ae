------------------------------- MODULE MCTlb --------------------------------
(* A board whose MADT lists one CPU more than lapic_list holds. *)
EXTENDS Tlb

Lapics(ids) == [i \in DOMAIN ids |-> [type |-> "lapic", apic_id |-> ids[i], flags |-> 1]]
MCmadt ==
  Lapics(<<"L0", "L4">>) \o <<[type |-> "ioapic", apic_id |-> "IO", flags |-> 0]>>
    \o Lapics(<<"L2", "L6">>)
MCStack == 1..5
=============================================================================
