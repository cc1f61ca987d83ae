------------------------------ MODULE BootMem -------------------------------
(***************************************************************************)
(* Physical memory from the boot loader's map to the zones of the buddy    *)
(* allocator, on the one CPU that runs: mmap_init and mmap_alloc_low       *)
(* (kernel/mm/mmap.c), vmm_map_all with the page tables it needs           *)
(* (kernel/mm/vmm.c), the pages acpi_init and apic_init map, and pmm_init  *)
(* (kernel/mm/pmm.c) as far as the extent of the zones.                    *)
(*                                                                         *)
(* Addresses count grains; a page has PAGE_SIZE of them.  uintptr_t and    *)
(* size_t wrap at WORD.  The region lists change under the loops that walk *)
(* them, because mapping a page may take a page table from the list: a     *)
(* step is one iteration, or one allocation inside of it.  All callers of  *)
(* mmap_alloc_low want one page, page aligned.  The flags of a region are  *)
(* MMAP_NONE throughout.                                                   *)
(***************************************************************************)
EXTENDS Integers, SequencesExt

CONSTANTS
  PAGE_SIZE,
  WORD,                 \* 2^64
  ZONE_SIZE,            \* sizeof(struct zone)
  KERNEL_PHYS_MAP_END,  \* what boot.asm has mapped
  kern_end,             \* _kernel_end_phys
  MMAP_MAX_REGIONS,
  PageDataSpan,         \* struct pages in a page
  PageDataBase,         \* the virtual page of page_data
  Firmware,             \* the pages ACPI tables and APICs may lie in
  TableSpans,           \* pages below a table, for each level that may be missing
  Maps                  \* the boot loader's maps: sequences of [addr, len, avail]

\* The last conjunct: the page the kernel ends in has room for a struct zone
\* behind it.  Otherwise calc_available_pages wraps for that piece.
ASSUME PageAssumption ==
  /\ PAGE_SIZE \in Nat /\ ZONE_SIZE \in 1..(PAGE_SIZE - 1) /\ WORD % PAGE_SIZE = 0
  /\ KERNEL_PHYS_MAP_END % PAGE_SIZE = 0 /\ kern_end < KERNEL_PHYS_MAP_END
  /\ kern_end % PAGE_SIZE \in 0..(PAGE_SIZE - ZONE_SIZE)

\* Tables and registers of the firmware are mapped below page_data.
ASSUME FirmwareAssumption == Firmware \subseteq 0..(PageDataBase - 1)

\* The entries of a map are disjoint and ascending, and memory above the
\* kernel ends at a page boundary, as boot loaders report it.
ASSUME MapAssumption ==
  \A m \in Maps : \A i \in DOMAIN m :
    /\ m[i].avail /\ m[i].addr + m[i].len > kern_end => (m[i].addr + m[i].len) % PAGE_SIZE = 0
    /\ \A j \in DOMAIN m : i < j => m[i].addr + m[i].len <= m[j].addr

VARIABLES
  mboot,          \* the map; entries before entry have been read
  entry,
  available,      \* mem_map.available: a sequence of [base, len]
  reserved,       \* mem_map.reserved
  highest_mapped,
  phase,          \* which function runs
  i, j, end,      \* its loop variables
  pending,        \* the virtual page vmm_map_page is at, or None
  tables,         \* the page tables there are: <<level, number>>
  mapped,         \* the virtual pages that are mapped; page n of memory is page n
  given,          \* the frames mmap_alloc_low returned, with the phase it was in
  temp_rgs,       \* pmm_init's copy of available.regions
  zeroed,         \* the pfns whose struct page was cleared
  zones           \* zone_list: [zone, start, pages]

lists == <<available, reserved>>
loop == <<i, j, end>>
vars == <<mboot, entry, lists, highest_mapped, phase, loop, pending, tables,
          mapped, given, temp_rgs, zeroed, zones>>

None == -1
Word == 0..(WORD - 1)
Region == [base : Word, len : Word]
ALIGNUP(a) == ((a + PAGE_SIZE - 1) \div PAGE_SIZE) * PAGE_SIZE
Minus(a, b) == (a - b) % WORD
Grains(base, len) == base..(base + len - 1)
Pages(base, n) == (base \div PAGE_SIZE)..(base \div PAGE_SIZE + n - 1)
Levels == DOMAIN TableSpans

TypeOK ==
  /\ available \in Seq(Region) /\ reserved \in Seq(Region) /\ temp_rgs \in Seq(Region)
  /\ Len(available) <= MMAP_MAX_REGIONS /\ Len(reserved) <= MMAP_MAX_REGIONS
  /\ highest_mapped \in Word
  /\ phase \in {"mmap_init", "vmm_map_all", "acpi_init", "reserve_page_data",
                "init_zone", "done", "panic"}
  /\ pending \in Nat \cup {None}
  /\ tables \subseteq (Levels \X Nat)
  /\ \A z \in Range(zones) : z.pages > 0

Init ==
  /\ mboot \in Maps
  /\ entry = 1
  /\ available = <<>> /\ reserved = <<>>
  /\ highest_mapped = 0
  /\ phase = "mmap_init"
  /\ i = 1 /\ j = 0 /\ end = 0
  /\ pending = None
  /\ tables = {} /\ mapped = {} /\ given = {}
  /\ temp_rgs = <<>> /\ zeroed = {} /\ zones = <<>>

-----------------------------------------------------------------------------
(* The region lists. *)

\* The loop stops at the first region that is above the new one with a gap, or
\* that ends where the new one starts.  A region that starts where the new one
\* ends takes it in on the way, and the loop goes on.
mmap_insert_region(rs, addr, len) ==
  LET below(k) == addr + len = rs[k].base
      stops == {k \in DOMAIN rs :
                  ~below(k) /\ (addr + len < rs[k].base \/ rs[k].base + rs[k].len = addr)}
      stop == IF stops = {} THEN Len(rs) + 1 ELSE Min(stops)
      new == [base |-> addr, len |-> len]
      rs1 == [k \in DOMAIN rs |-> IF k < stop /\ below(k)
                                  THEN [base |-> addr, len |-> rs[k].len + len] ELSE rs[k]]
  IN IF len = 0 THEN rs
     ELSE IF stops = {} THEN Append(rs1, new)
     ELSE IF addr + len < rs[stop].base THEN InsertAt(rs1, stop, new)
     ELSE IF stop < Len(rs) /\ addr + len = rs[stop + 1].base
     THEN RemoveAt([rs1 EXCEPT ![stop].len = @ + len + rs[stop + 1].len], stop + 1)
     ELSE [rs1 EXCEPT ![stop].len = @ + len]

\* Mutant: the padding in front is not subtracted from the length.
available_bytes_padded(rg) ==
  Min({Minus(highest_mapped, ALIGNUP(rg.base)), rg.len})

\* Mutant: memory that is not mapped is used.
available_bytes_unmapped(rg) == Minus(rg.len, ALIGNUP(rg.base) - rg.base)

\* What mmap_alloc_low can use of a region.
available_bytes(rg) ==
  Min({Minus(highest_mapped, ALIGNUP(rg.base)),
       Minus(rg.len, ALIGNUP(rg.base) - rg.base)})

\* The regions mmap_alloc_low finds large enough before it meets one that is
\* not mapped.
Fits == {k \in DOMAIN available :
           /\ \A l \in 1..k : available[l].base < highest_mapped
           /\ PAGE_SIZE <= available_bytes(available[k])}

\* mmap_alloc_low(PAGE_SIZE, MMAP_ALLOC_PA): the padding and the rest of the
\* first region that fits go back to the list, without what lies above
\* highest_mapped.
mmap_alloc_low ==
  LET k == Min(Fits)
      rg == available[k]
      base == ALIGNUP(rg.base)
      padded == mmap_insert_region(RemoveAt(available, k), rg.base, base - rg.base)
      remaining == available_bytes(rg) - PAGE_SIZE
  IN /\ \E rs \in {padded} :
          available' = mmap_insert_region(rs, base + PAGE_SIZE, remaining)
     /\ reserved' = mmap_insert_region(reserved, base, PAGE_SIZE)
     /\ given' = given \cup {[base |-> base, phase |-> phase]}

Full == Len(available') > MMAP_MAX_REGIONS \/ Len(reserved') > MMAP_MAX_REGIONS

-----------------------------------------------------------------------------
(* mmap_init *)

\* One entry of the map.  Available memory below the end of the kernel is
\* reserved.
mmap_init ==
  LET e == mboot[entry]
      to_reserved == ~e.avail \/ e.addr + e.len < kern_end
      split == ~to_reserved /\ e.addr < kern_end
  IN /\ phase = "mmap_init" /\ entry <= Len(mboot)
     /\ available' = IF to_reserved THEN available
                     ELSE IF split
                     THEN mmap_insert_region(available, kern_end, e.len - (kern_end - e.addr))
                     ELSE mmap_insert_region(available, e.addr, e.len)
     /\ reserved' = IF to_reserved THEN mmap_insert_region(reserved, e.addr, e.len)
                    ELSE IF split
                    THEN mmap_insert_region(reserved, e.addr, kern_end - e.addr)
                    ELSE reserved
     /\ entry' = entry + 1
     /\ phase' = IF Full THEN "panic" ELSE phase
     /\ UNCHANGED <<mboot, highest_mapped, loop, pending, tables, mapped, given,
                    temp_rgs, zeroed, zones>>

mmap_init_end ==
  /\ phase = "mmap_init" /\ entry > Len(mboot)
  /\ highest_mapped' = KERNEL_PHYS_MAP_END
  /\ phase' = "vmm_map_all"
  /\ UNCHANGED <<mboot, entry, lists, loop, pending, tables, mapped, given,
                 temp_rgs, zeroed, zones>>

-----------------------------------------------------------------------------
(* vmm_map_page of the pending page, for all callers. *)

Missing == {l \in Levels : <<l, pending \div TableSpans[l]>> \notin tables}

\* The table of the first level that is missing.
alloc_pgtab ==
  /\ pending # None /\ Missing # {}
  /\ IF Fits = {}
     THEN phase' = "panic" /\ UNCHANGED <<lists, given, tables>>
     ELSE /\ mmap_alloc_low
          /\ tables' = tables \cup {<<Min(Missing), pending \div TableSpans[Min(Missing)]>>}
          /\ phase' = IF Full THEN "panic" ELSE phase
  /\ UNCHANGED <<mboot, entry, highest_mapped, loop, pending, mapped, temp_rgs,
                 zeroed, zones>>

\* Mutant: the loop of vmm_map_all does not move on.
vmm_map_all_advance_stuck ==
  /\ highest_mapped' = IF j > highest_mapped THEN j ELSE highest_mapped
  /\ UNCHANGED j

vmm_map_all_advance ==
  /\ highest_mapped' = IF j > highest_mapped THEN j ELSE highest_mapped
  /\ j' = j + PAGE_SIZE

\* All levels are there: the entry is written, and the caller goes on.  One CPU
\* runs, so there is no shootdown, and nothing is unmapped.
vmm_map_page ==
  /\ pending # None /\ Missing = {}
  /\ mapped' = mapped \cup {pending}
  /\ pending' = None
  /\ IF phase = "vmm_map_all"
     THEN vmm_map_all_advance
     ELSE UNCHANGED <<highest_mapped, j>>
  /\ UNCHANGED <<mboot, entry, lists, phase, i, end, tables, given, temp_rgs,
                 zeroed, zones>>

-----------------------------------------------------------------------------
(* vmm_map_all.  end = 0: the loop is at the start of region i. *)

\* The next region of the list as it is now.
vmm_map_all_next ==
  IF i <= Len(available)
  THEN /\ j' = ALIGNUP(available[i].base)
       /\ end' = available[i].base + available[i].len
       /\ UNCHANGED <<i, phase>>
  ELSE phase' = "acpi_init" /\ i' = 1 /\ UNCHANGED <<j, end>>

vmm_map_all_region ==
  /\ phase = "vmm_map_all" /\ pending = None /\ end = 0
  /\ vmm_map_all_next
  /\ UNCHANGED <<mboot, entry, lists, highest_mapped, pending, tables, mapped,
                 given, temp_rgs, zeroed, zones>>

\* Mutant: the last page is left out.
MorePages_short == j < Minus(end, PAGE_SIZE)

MorePages == j <= Minus(end, PAGE_SIZE)

vmm_map_all ==
  /\ phase = "vmm_map_all" /\ pending = None /\ end > 0
  /\ IF MorePages
     THEN pending' = j \div PAGE_SIZE /\ UNCHANGED loop
     ELSE i' = i + 1 /\ end' = 0 /\ UNCHANGED <<j, pending>>
  /\ UNCHANGED <<mboot, entry, lists, highest_mapped, phase, tables, mapped,
                 given, temp_rgs, zeroed, zones>>

-----------------------------------------------------------------------------
(* acpi_init and apic_init, between vmm_map_all and pmm_init. *)

\* map_table, add_ioapic and parse_madt map a table or the registers of an
\* APIC: which there are, and where, is the machine's.  To map a page again
\* changes nothing.
map_firmware(p) ==
  /\ phase = "acpi_init" /\ pending = None
  /\ p \notin mapped
  /\ pending' = p
  /\ UNCHANGED <<mboot, entry, lists, highest_mapped, phase, loop, tables, mapped,
                 given, temp_rgs, zeroed, zones>>

\* The start of pmm_init: it copies the list.
pmm_init_copy ==
  /\ phase = "acpi_init" /\ pending = None
  /\ temp_rgs' = available
  /\ phase' = "reserve_page_data"
  /\ UNCHANGED <<mboot, entry, lists, highest_mapped, loop, pending, tables,
                 mapped, given, zeroed, zones>>

-----------------------------------------------------------------------------
(* pmm_init, on its copy of the list. *)

\* Mutant: the page of the struct zone is counted.
calc_available_pages_all(rg) == rg.len \div PAGE_SIZE

calc_available_pages(rg) ==
  LET start == ALIGNUP(rg.base + ZONE_SIZE)
  IN Minus(rg.len, start - (rg.base + ZONE_SIZE)) \div PAGE_SIZE

\* reserve_page_data_range: from the loop's first pfn to its memset.
reserve_page_data_start ==
  /\ phase = "reserve_page_data" /\ pending = None /\ end = 0
  /\ IF i <= Len(temp_rgs)
     THEN /\ j' = ALIGNUP(temp_rgs[i].base) \div PAGE_SIZE
          /\ end' = j' + calc_available_pages(temp_rgs[i])
          /\ UNCHANGED <<i, phase>>
     ELSE phase' = "init_zone" /\ i' = 1 /\ UNCHANGED <<j, end>>
  /\ UNCHANGED <<mboot, entry, lists, highest_mapped, pending, tables, mapped,
                 given, temp_rgs, zeroed, zones>>

PageDataPage(pfn) == PageDataBase + pfn \div PageDataSpan

\* A pfn whose struct page is not mapped gets a frame from mmap_alloc_low.
reserve_page_data_alloc ==
  /\ phase = "reserve_page_data" /\ pending = None
  /\ j < end /\ PageDataPage(j) \notin mapped
  /\ IF Fits = {}
     THEN phase' = "panic" /\ UNCHANGED <<lists, given, pending>>
     ELSE /\ mmap_alloc_low
          /\ pending' = PageDataPage(j)
          /\ phase' = IF Full THEN "panic" ELSE phase
  /\ UNCHANGED <<mboot, entry, highest_mapped, loop, tables, mapped, temp_rgs,
                 zeroed, zones>>

\* On to the next pfn that is not mapped, or to the memset of the range.
reserve_page_data_range ==
  LET todo == {p \in j..(end - 1) : PageDataPage(p) \notin mapped}
      start == ALIGNUP(temp_rgs[i].base) \div PAGE_SIZE
  IN /\ phase = "reserve_page_data" /\ pending = None /\ end > 0
     /\ j \notin todo
     /\ IF todo = {}
        THEN /\ zeroed' = zeroed \cup (start..(end - 1))
             /\ i' = i + 1 /\ end' = 0 /\ UNCHANGED j
        ELSE j' = Min(todo) /\ UNCHANGED <<i, end, zeroed>>
     /\ UNCHANGED <<mboot, entry, lists, highest_mapped, phase, pending, tables,
                    mapped, given, temp_rgs, zones>>

zone_of(rg) == [zone |-> rg.base, pages |-> calc_available_pages(rg),
                start |-> ALIGNUP(rg.base + ZONE_SIZE)]

init_zone(rg) ==
  zones' = IF calc_available_pages(rg) = 0 THEN zones ELSE Append(zones, zone_of(rg))

\* pmm_init's second loop.
pmm_init ==
  /\ phase = "init_zone"
  /\ IF i <= Len(temp_rgs)
     THEN init_zone(temp_rgs[i]) /\ i' = i + 1 /\ UNCHANGED phase
     ELSE phase' = "done" /\ UNCHANGED <<i, zones>>
  /\ UNCHANGED <<mboot, entry, lists, highest_mapped, j, end, pending, tables,
                 mapped, given, temp_rgs, zeroed>>

-----------------------------------------------------------------------------

Next ==
  \/ mmap_init \/ mmap_init_end
  \/ phase \in {"vmm_map_all", "acpi_init", "reserve_page_data"} /\ (alloc_pgtab \/ vmm_map_page)
  \/ vmm_map_all_region \/ vmm_map_all
  \/ (\E p \in Firmware : map_firmware(p)) \/ pmm_init_copy
  \/ reserve_page_data_start \/ reserve_page_data_alloc \/ reserve_page_data_range
  \/ pmm_init

Spec == Init /\ [][Next]_vars

\* The CPU keeps running.
FairSpec == Spec /\ WF_vars(Next)

-----------------------------------------------------------------------------
(***************************************************************************)
(* Properties.                                                             *)
(***************************************************************************)

\* The grains the map says are usable, above the kernel.
Usable == {g \in Word : g >= kern_end /\ \E e \in Range(mboot) :
                           e.avail /\ g \in Grains(e.addr, e.len)}
Listed(rs) == UNION {Grains(r.base, r.len) : r \in Range(rs)}
Frame(f) == Grains(f.base, PAGE_SIZE)
ZonePages(z) == Pages(z.start, z.pages)

\* mmap_alloc_low never gives a frame twice, gives usable and aligned frames
\* only, and none that is still in the list, which insertions and allocations keep
\* sorted: a gap between any two regions, nothing empty, nothing unusable.
GivenOnce ==
  /\ TypeOK
  /\ \A k \in DOMAIN available :
       /\ available[k].len > 0
       /\ k > 1 => available[k - 1].base + available[k - 1].len < available[k].base
  /\ Listed(available) \subseteq Usable
  /\ \A f \in given : /\ f.base % PAGE_SIZE = 0
                      /\ Frame(f) \subseteq Usable \ Listed(available)
  /\ \A f, g \in given : f # g => f.base # g.base
  /\ Cardinality(given) = Cardinality(tables) +
       Cardinality({p \in mapped \cup {pending} : p >= PageDataBase})

WholePages(grains) == {p \in 0..(WORD \div PAGE_SIZE - 1) :
                         Grains(p * PAGE_SIZE, PAGE_SIZE) \subseteq grains}

\* The whole pages of the stretch of usable memory without holes p lies in.
Stretch(p) ==
  LET pages == WholePages(Usable)
  IN {q \in pages : p..q \subseteq pages /\ q..p \subseteq pages}

\* The stretch of p has not been mapped, and no page is left in the list of
\* another one: its region has gone, the regions behind it have moved up under
\* the loop of vmm_map_all, and the loop has stepped over one of them (vmm.c:40).
SteppedOver(p) ==
  LET left == WholePages(Listed(IF phase \in {"vmm_map_all", "acpi_init"}
                                THEN available ELSE temp_rgs))
  IN /\ Stretch(p) \cap mapped = {}
     /\ \E q \in WholePages(Usable) : Stretch(q) \cap left = {}

MappedFrame(f) == f.base < KERNEL_PHYS_MAP_END \/ f.base \div PAGE_SIZE \in mapped

\* "Mmap low allocs are guaranteed to be mapped" (alloc_pgtab): a frame from
\* mmap_alloc_low lies in what boot.asm mapped or vmm_map_all has mapped.  The
\* condition: the loop of vmm_map_all has not stepped over its region.
GivenMapped ==
  [][\A f \in given' \ given : MappedFrame(f) \/ SteppedOver(f.base \div PAGE_SIZE)]_vars

\* "First map all regions marked available" (vmm_map_all): every whole page of
\* the list is mapped when the loop ends and when pmm_init copies the list,
\* although the list grows and shrinks under the loop.  The condition: the loop
\* has not stepped over the region of the page.
AllMapped ==
  phase \in {"acpi_init", "reserve_page_data", "init_zone", "done"} =>
    \A p \in WholePages(Listed(IF phase = "acpi_init" THEN available ELSE temp_rgs)) \ mapped :
      SteppedOver(p)

\* A zone lies in the region it is made of, behind its struct zone, and apart
\* from the other zones and from the page tables taken before pmm_init.  "TODO:
\* Check we aren't losing any bytes here" (calc_available_pages): in the end every
\* whole page behind the struct zone of a region is in a zone.
ZonesPlaced ==
  /\ \A k \in DOMAIN zones :
       LET z == zones[k]
           pages == Grains(z.start, z.pages * PAGE_SIZE)
       IN /\ pages \cup Grains(z.zone, ZONE_SIZE) \subseteq Listed(temp_rgs)
          /\ pages \cap Grains(z.zone, ZONE_SIZE) = {}
          /\ \A l \in DOMAIN zones : l # k => ZonePages(z) \cap ZonePages(zones[l]) = {}
          /\ \A f \in given : f.phase # "reserve_page_data" => Frame(f) \cap pages = {}
  /\ phase = "done" =>
       \A r \in Range(temp_rgs) :
         WholePages(Grains(r.base + ZONE_SIZE, r.len - ZONE_SIZE))
           \subseteq UNION {ZonePages(z) : z \in Range(zones)}

\* The loops over the changing lists end.
BootEnds == <>(phase \in {"done", "panic"})

\* "Try and squeeze any available memory into the mmap": what the map says is
\* usable stays in the list until it is given out.  The code violates it: mmap_alloc_low
\* drops what a region has above highest_mapped (mmap.c:109-123).
NothingLost ==
  phase # "mmap_init" =>
    Usable \subseteq Listed(available) \cup UNION {Frame(f) : f \in given}

\* "Copy into a new temporary array, since allocating might edit the array
\* underneath us": the frames allocated meanwhile are not the allocator's.  The code
\* violates it: the copy does not know of the frames that hold page_data (pmm.c:110).
ZonesExclusive ==
  \A z \in Range(zones), f \in given : f.base \div PAGE_SIZE \notin ZonePages(z)

\* "Mmap low allocs are guaranteed to be mapped", without a condition.  The code
\* violates it: highest_mapped is above a region that vmm_map_all has stepped
\* over (vmm.c:40, 45), and mmap_alloc_low gives frames of it.
AllocsMapped ==
  [][\A f \in given' \ given : MappedFrame(f)]_vars

\* reserve_page_data makes page_data ready for init_zone: every page of a zone has a
\* struct page that is mapped and cleared.  The code violates it: a region with an
\* aligned base has its zone a page behind the range that is reserved (pmm.c:43).
PageDataReady ==
  \A z \in Range(zones) : \A p \in ZonePages(z) :
    p \in zeroed /\ PageDataPage(p) \in mapped
=============================================================================
