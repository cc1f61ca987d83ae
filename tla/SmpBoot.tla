------------------------------ MODULE SmpBoot -------------------------------
(***************************************************************************)
(* Start-up of the application processors (APs): smp_init and smp_boot_ap  *)
(* on the boot processor, the trampoline, percpu_init_ap, smp_ap_kmain and *)
(* the barrier before the scheduler on the others.  The processors run at  *)
(* the same time and share smp_ap_stack, smp_ap_started_flag, the          *)
(* trampoline page, the PIT and the count of ready CPUs.                   *)
(*                                                                         *)
(* A CPU is named by the id of its local APIC; its index is its place in   *)
(* lapic_list.  The boot processor is the first of the list (ACPI asks     *)
(* firmware for that, smp_init relies on it).  Time is not modelled: a     *)
(* sleep ends at any moment, so an AP may be slower than any timeout, and  *)
(* a start-up IPI may be lost.                                             *)
(***************************************************************************)
EXTENDS Integers, Sequences, FiniteSetsExt, Functions

CONSTANTS
  madt,        \* the entries of the MADT: records with type, apic_id, flags
  MAX_LAPICS,  \* length of lapic_list
  Stack        \* stacks the page allocator can give: a set of numbers

ASSUME MadtAssumption ==
  /\ MAX_LAPICS \in Nat \ {0}
  /\ Stack \subseteq Nat \ {0} /\ IsFiniteSet(Stack)
  /\ Len(madt) \in Nat \ {0} /\ DOMAIN madt = 1..Len(madt)
  /\ \A i, j \in DOMAIN madt :
       madt[i].type = "lapic" /\ madt[j].type = "lapic" /\ madt[i].apic_id = madt[j].apic_id
         => i = j
  /\ madt[1].type = "lapic" /\ Cardinality(Stack) >= Len(madt)

VARIABLES
  g,    \* the memory the CPUs share (Globals)
  cpu   \* for each CPU how far its own start is, and the stack it runs on

bootVars == <<g, cpu>>

None == "none"
Unset == "unset"
NULL == 0

\* parse_madt and add_lapic: the first MAX_LAPICS local APICs of the table.
add_lapic(list, entry) ==
  IF entry.type # "lapic" \/ Len(list) >= MAX_LAPICS THEN list
  ELSE Append(list, [id |-> entry.apic_id, present |-> entry.flags # 0])

\* The list after the first n entries of the table.
parse_madt[n \in 0..Len(madt)] ==
  IF n = 0 THEN <<>> ELSE add_lapic(parse_madt[n - 1], madt[n])

lapic_list == parse_madt[Len(madt)]
lapic_list_size == Len(lapic_list)

CpuIndex == 0..(lapic_list_size - 1)
Lapic(i) == lapic_list[i + 1].id
Cpu == {Lapic(i) : i \in CpuIndex}
BSP == Lapic(0)

smp_cpu_id_full(c) == CHOOSE i \in CpuIndex : Lapic(i) = c

\* The stages of a CPU, in the order it goes through them: not started, in the
\* trampoline, in the kernel, on its stack and set up, with a run queue.
NotStarted == {"off", "wait", "sipi"}
Trampoline == {"real", "long"}
Queued == {"queued", "barrier", "run"}
SetUp == {"stack", "flag", "percpu", "lapic", "calibrated", "online"} \cup Queued
Stages == NotStarted \cup Trampoline \cup {"kernel"} \cup SetUp

Globals ==
  [bsp : {"init", "boot", "sent_init", "sipi", "sent_sipi", "check", "watch", "check_again",
          "unmap", "free", "wait", "done"},  \* where the boot processor is in smp_init
   index : 1..lapic_list_size,               \* the AP it is booting
   present : [Cpu -> BOOLEAN],               \* lapic_list[i].present
   smp_ap_stack : Stack \cup {NULL},
   smp_ap_started_flag : 0..255,
   smp_nr_cpus_ready : 0..lapic_list_size,
   schedulers_waiting : 0..lapic_list_size,
   pit_lock : Cpu \cup {None},               \* the CPU that sleeps
   free : SUBSET Stack,                      \* stacks that belong to the page allocator
   trampoline : BOOLEAN,                     \* the trampoline page is mapped
   tmp_gdt_ptr : {"tmp_gdt", "gdt64"},
   percpu_table : [CpuIndex -> Cpu \cup {None, Unset}]]  \* the apic_id stored there

BootTypeOK ==
  /\ g \in Globals
  /\ cpu \in [Cpu -> [at : Stages, rsp : Stack \cup {NULL}]]

\* kmain before smp_init: percpu_init_bsp and lapic_enable of the boot processor.
BootInit ==
  /\ g = [bsp |-> "init", index |-> 1,
          present |-> [c \in Cpu |-> \E e \in Range(lapic_list) : e.id = c /\ e.present],
          smp_ap_stack |-> NULL, smp_ap_started_flag |-> 0, smp_nr_cpus_ready |-> 0,
          schedulers_waiting |-> 0, pit_lock |-> None, free |-> Stack, trampoline |-> FALSE,
          tmp_gdt_ptr |-> "tmp_gdt",
          percpu_table |-> [i \in CpuIndex |-> IF i = 0 THEN BSP ELSE None]]
  /\ cpu = [c \in Cpu |-> [at |-> IF c = BSP THEN "calibrated" ELSE "off", rsp |-> NULL]]

-----------------------------------------------------------------------------
(* The boot processor *)

\* The loop of smp_init goes on to AP i.
LoopTo(i) == IF i < lapic_list_size THEN "boot" ELSE "unmap"

\* The first lines of smp_init: count oneself and copy the trampoline.
smp_init ==
  /\ g.bsp = "init"
  /\ g' = [g EXCEPT !.smp_nr_cpus_ready = @ + 1, !.trampoline = TRUE, !.bsp = LoopTo(g.index)]
  /\ UNCHANGED cpu

\* smp_boot_ap up to the INIT IPI, which makes the AP wait for a start-up IPI.
smp_boot_ap ==
  /\ g.bsp = "boot"
  /\ g.smp_ap_stack # NULL \/ g.free # {}
  /\ LET s == IF g.smp_ap_stack # NULL THEN g.smp_ap_stack ELSE CHOOSE f \in g.free : TRUE
     IN  g' = [g EXCEPT !.smp_ap_stack = s, !.free = @ \ {s}, !.smp_ap_started_flag = 0,
                        !.bsp = "sent_init"]
  /\ cpu' = [cpu EXCEPT ![Lapic(g.index)].at = "wait"]

\* A sleep: the PIT is taken, and given back when the time is over.
pit_sleep(next) ==
  /\ \/ g.pit_lock = None /\ g' = [g EXCEPT !.pit_lock = BSP]
     \/ g.pit_lock = BSP /\ g' = [g EXCEPT !.pit_lock = None, !.bsp = next]
  /\ UNCHANGED cpu

pit_sleep_10 == g.bsp = "sent_init" /\ pit_sleep("sipi")
pit_sleep_5 == g.bsp = "sent_sipi" /\ pit_sleep("check")

\* A start-up IPI: an AP in the wait state starts, unless the IPI is lost or the
\* firmware has disabled the CPU.
lapic_send_sipi(next) ==
  /\ g' = [g EXCEPT !.bsp = next]
  /\ LET c == Lapic(g.index)
     IN  \/ cpu[c].at = "wait" /\ g.present[c] /\ cpu' = [cpu EXCEPT ![c].at = "sipi"]
         \/ UNCHANGED cpu

first_sipi == g.bsp = "sipi" /\ lapic_send_sipi("sent_sipi")
second_sipi == g.bsp = "check" /\ g.smp_ap_started_flag = 0 /\ lapic_send_sipi("watch")

\* It ends when the flag is set or the time is over.
pit_sleep_watch_flag == g.bsp = "watch" /\ pit_sleep("check_again")

\* Mutant: the next AP gets the stack again.
ap_started_keeps_stack ==
  /\ g.bsp \in {"check", "check_again"}
  /\ g.smp_ap_started_flag # 0
  /\ g' = [g EXCEPT !.index = @ + 1, !.bsp = LoopTo(g.index + 1)]
  /\ UNCHANGED cpu

\* The AP has started and keeps the stack.
ap_started ==
  /\ g.bsp \in {"check", "check_again"}
  /\ g.smp_ap_started_flag # 0
  /\ g' = [g EXCEPT !.smp_ap_stack = NULL, !.index = @ + 1, !.bsp = LoopTo(g.index + 1)]
  /\ UNCHANGED cpu

\* The BSP gives the AP up and keeps its stack for the next one.
failed_to_boot ==
  /\ g.bsp = "check_again"
  /\ g.smp_ap_started_flag = 0
  /\ g' = [g EXCEPT !.present[Lapic(g.index)] = FALSE, !.index = @ + 1,
                    !.bsp = LoopTo(g.index + 1)]
  /\ UNCHANGED cpu

\* vmm_map_page with VMM_UNMAP; its shootdown has no target, since nothing enters
\* a CPU into the set of kernel_mmu.
unmap_trampoline ==
  /\ g.bsp = "unmap"
  /\ g' = [g EXCEPT !.trampoline = FALSE, !.bsp = "free"]
  /\ UNCHANGED cpu

free_unused_stack ==
  /\ g.bsp = "free"
  /\ g' = [g EXCEPT !.free = @ \cup ({g.smp_ap_stack} \ {NULL}), !.bsp = "wait"]
  /\ UNCHANGED cpu

\* Mutant: the boot processor is counted twice.
smp_init_wait_less ==
  /\ g.bsp = "wait"
  /\ g.smp_nr_cpus_ready + 1 >= lapic_list_size
  /\ g' = [g EXCEPT !.bsp = "done"]
  /\ cpu' = [cpu EXCEPT ![BSP].at = "online"]

smp_init_wait ==
  /\ g.bsp = "wait"
  /\ g.smp_nr_cpus_ready >= lapic_list_size
  /\ g' = [g EXCEPT !.bsp = "done"]
  /\ cpu' = [cpu EXCEPT ![BSP].at = "online"]

-----------------------------------------------------------------------------
(* The application processors *)

Advance(c, from, to) == cpu[c].at = from /\ cpu' = [cpu EXCEPT ![c].at = to]

\* Real mode: it loads the table that tmp_gdt_ptr names and enters long mode.
smp_trampoline_16(c) == Advance(c, "sipi", "real") /\ UNCHANGED g

smp_trampoline_64(c) == Advance(c, "real", "long") /\ g' = [g EXCEPT !.tmp_gdt_ptr = "gdt64"]

\* Mutant: the pointer is left as the first AP set it.
fix_rip_unrestored(c) == Advance(c, "long", "kernel") /\ UNCHANGED g

\* "Restore it to its previous state for the next AP", and leave the page.
fix_rip(c) == Advance(c, "long", "kernel") /\ g' = [g EXCEPT !.tmp_gdt_ptr = "tmp_gdt"]

load_stack(c) ==
  /\ cpu[c].at = "kernel"
  /\ cpu' = [cpu EXCEPT ![c] = [at |-> "stack", rsp |-> g.smp_ap_stack]]
  /\ UNCHANGED g

set_started_flag(c) ==
  Advance(c, "stack", "flag") /\ g' = [g EXCEPT !.smp_ap_started_flag = (@ + 1) % 256]

\* kmalloc does not clear the structure: apic_id is set by lapic_enable.
percpu_init_ap(c) ==
  Advance(c, "flag", "percpu") /\ g' = [g EXCEPT !.percpu_table[smp_cpu_id_full(c)] = Unset]

\* lapic_timer_prepare sleeps to calibrate the timer.
lapic_enable(c) ==
  /\ Advance(c, "percpu", "lapic")
  /\ g.pit_lock = None
  /\ g' = [g EXCEPT !.percpu_table[smp_cpu_id_full(c)] = c, !.pit_lock = c]

\* Mutant: pit_sleep_ms returns without the unlock.
lapic_timer_prepare_locked(c) == Advance(c, "lapic", "calibrated") /\ UNCHANGED g

lapic_timer_prepare(c) ==
  Advance(c, "lapic", "calibrated") /\ g' = [g EXCEPT !.pit_lock = None]

smp_ap_kmain(c) ==
  /\ c # BSP
  /\ Advance(c, "calibrated", "online")
  /\ g' = [g EXCEPT !.smp_nr_cpus_ready = @ + 1]

\* sched_run_bsp and sched_run_ap make the run queue and enter the barrier.
sched_run(c) == Advance(c, "online", "queued") /\ UNCHANGED g

wait_for_schedulers(c) ==
  \/ Advance(c, "queued", "barrier") /\ g' = [g EXCEPT !.schedulers_waiting = @ + 1]
  \/ /\ Advance(c, "barrier", "run")
     /\ g.schedulers_waiting >= g.smp_nr_cpus_ready
     /\ UNCHANGED g

BspNext ==
  \/ smp_init \/ smp_boot_ap \/ pit_sleep_10 \/ first_sipi \/ pit_sleep_5 \/ second_sipi
  \/ pit_sleep_watch_flag \/ ap_started \/ failed_to_boot \/ unmap_trampoline
  \/ free_unused_stack \/ smp_init_wait

ApNext(c) ==
  \/ smp_trampoline_16(c) \/ smp_trampoline_64(c) \/ fix_rip(c) \/ load_stack(c)
  \/ set_started_flag(c) \/ percpu_init_ap(c) \/ lapic_enable(c) \/ lapic_timer_prepare(c)
  \/ smp_ap_kmain(c) \/ sched_run(c) \/ wait_for_schedulers(c)

BootNext == BspNext \/ \E c \in Cpu : ApNext(c)

-----------------------------------------------------------------------------
(* What the start-up promises *)

\* APs that started after the BSP had given them up.  The code has no defence
\* against them: they take the stack of the next AP, or one that is free.
Late == {c \in Cpu : ~g.present[c] /\ cpu[c].at \notin NotStarted}
OnStack == {c \in Cpu \ {BSP} : cpu[c].at \in SetUp}

\* As long as no AP is late, every AP runs on a stack of its own that is not free
\* memory, whichever IPIs are lost and APs given up: smp_boot_ap hands the stack of
\* a failed AP to the next one and smp_init frees what is left (smp.c:37, 65, 96).
StackOwn ==
  Late = {} =>
    \A c \in OnStack :
      /\ cpu[c].rsp \in Stack \ g.free
      /\ \A d \in OnStack \ {c} : cpu[c].rsp # cpu[d].rsp

InTrampoline == {c \in Cpu : cpu[c].at \in Trampoline}

\* As long as no AP is late, the trampoline holds one AP at a time, it is mapped while
\* it does ("We rely on the fact that no CPU is going to access their trampoline
\* memory", smp.c:89), and an AP that enters finds the descriptor table pointer as
\* it was linked, though each AP overwrites it (trampoline.asm:58-64).
TrampolineAlone ==
  Late = {} =>
    /\ \A c, d \in InTrampoline : c = d
    /\ InTrampoline # {} => g.trampoline
    /\ \A c \in Cpu : cpu[c].at = "sipi" /\ g.present[c] => g.tmp_gdt_ptr = "tmp_gdt" /\ g.trampoline

\* As long as no AP is late, a CPU that has passed the barrier may index percpu_table and the run queues with
\* any number below smp_nr_cpus(), as runq_balance_pull and tlb_shootdown do: each
\* of these CPUs has stored its APIC id and made its queue, although the APs become
\* ready in any order and the count grows while others already wait (sched.c:76).
CpusInitialised ==
  \A c \in Cpu : Late = {} /\ cpu[c].at = "run" =>
    \A i \in 0..(g.smp_nr_cpus_ready - 1) :
      g.percpu_table[i] = Lapic(i) /\ cpu[Lapic(i)].at \in Queued

\* If no AP is given up, all CPUs reach the scheduler: the handshakes, the PIT that
\* the BSP and the calibrating APs share, the wait at the end of smp_init and the
\* barrier all end.  (With an AP given up the wait of smp.c:102 never ends.)
BootEnds ==
  [](\A c \in Cpu : g.present[c]) => <>(\A c \in Cpu : cpu[c].at = "run")
=============================================================================
