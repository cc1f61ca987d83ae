--------------------------- MODULE SmpBootProofs ----------------------------
(***************************************************************************)
(* StackOwn, TrampolineAlone and CpusInitialised for every number of CPUs  *)
(* and of stacks.                                                          *)
(*                                                                         *)
(* The invariant follows the loop of smp_init.  The CPUs after the one at  *)
(* g.index are off.  As long as no AP is late, those before it have either *)
(* passed the started flag or never left the wait state; so whatever is in *)
(* the trampoline, or has a stack and has not yet set the flag, is the CPU *)
(* at g.index, and smp_ap_stack is the stack of that CPU and of no other.  *)
(*                                                                         *)
(* The second part counts: smp_nr_cpus_ready is the number of CPUs that    *)
(* have counted themselves, schedulers_waiting that of the CPUs at the     *)
(* barrier.  The BSP leaves smp_init only when all are counted, so a count *)
(* that opens the barrier with the BSP at it has all CPUs at it.           *)
(***************************************************************************)
EXTENDS Tlb, FiniteSetTheorems, WellFoundedInduction, TLAPS

\* Where the BSP waits for the AP at g.index.
Mid == {"sent_init", "sipi", "sent_sipi", "check", "watch", "check_again"}
After == {"unmap", "free", "wait", "done"}
Flagged == SetUp \ {"stack"}
\* From the start-up IPI to the started flag.
Starting == Trampoline \cup {"kernel", "stack"}

\* The types of the fields the invariant speaks of.
Fields ==
  {"bsp", "index", "present", "smp_ap_stack", "smp_ap_started_flag", "smp_nr_cpus_ready",
   "schedulers_waiting", "pit_lock", "free", "trampoline", "tmp_gdt_ptr", "percpu_table"}

Types ==
  /\ DOMAIN g = Fields
  /\ g.bsp \in {"init", "boot"} \cup Mid \cup After
  /\ g.index \in 1..lapic_list_size
  /\ g.present \in [Cpu -> BOOLEAN]
  /\ g.smp_ap_stack \in Stack \cup {NULL}
  /\ g.smp_ap_started_flag \in 0..255
  /\ g.free \in SUBSET Stack
  /\ cpu \in [Cpu -> [at : Stages, rsp : Stack \cup {NULL}]]

\* The loop of smp_init and the CPUs it has not reached.
LoopInv ==
  /\ g.bsp \in {"boot"} \cup Mid => g.index < lapic_list_size
  /\ g.bsp \in {"boot", "unmap"} \cup Mid => g.trampoline
  /\ \A i \in CpuIndex :
       i > g.index \/ (i = g.index /\ g.bsp \in {"init", "boot"}) => cpu[Lapic(i)].at = "off"
  /\ g.bsp \in After => g.index = lapic_list_size
  /\ cpu[BSP].at \in {"calibrated", "online"} \cup Queued

\* How far the APs are that the loop has reached.
ApInv ==
  /\ \A i \in CpuIndex : 0 < i /\ i < g.index /\ g.present[Lapic(i)] => cpu[Lapic(i)].at \in Flagged
  /\ g.bsp \in Mid /\ g.smp_ap_started_flag # 0 => cpu[Lapic(g.index)].at \in Flagged
  /\ g.tmp_gdt_ptr # "tmp_gdt" => g.bsp \in Mid /\ cpu[Lapic(g.index)].at = "long"

\* The stacks.
StackInv ==
  /\ g.bsp \in Mid => g.smp_ap_stack # NULL
  /\ g.bsp \notin {"wait", "done"} => g.smp_ap_stack \notin g.free
  /\ \A i \in CpuIndex \ {0} : cpu[Lapic(i)].at \in SetUp =>
       /\ cpu[Lapic(i)].rsp \in Stack \ g.free
       /\ cpu[Lapic(i)].rsp = g.smp_ap_stack <=> i = g.index
       /\ \A j \in CpuIndex \ {0, i} :
            cpu[Lapic(j)].at \in SetUp => cpu[Lapic(i)].rsp # cpu[Lapic(j)].rsp

NoLate == \A i \in CpuIndex : g.present[Lapic(i)] \/ cpu[Lapic(i)].at \in NotStarted

IInv == Types /\ LoopInv /\ (NoLate => ApInv /\ StackInv)

\* The CPUs are the entries of lapic_list.
LEMMA LapicIn == \A i \in CpuIndex : Lapic(i) \in Cpu
  BY DEF Cpu

\* A non-empty set of numbers has a least element.
LEMMA Least == ASSUME NEW S \in SUBSET Nat, S # {} PROVE \E n \in S : \A m \in S : n <= m
  <1> DEFINE R == OpToRel(<, Nat)
  <1>1. IsWellFoundedOn(R, Nat)
    BY Zenon, NatLessThanWellFounded
  <1>2. \A x, y \in Nat : x < y => <<x, y>> \in R
    BY DEF OpToRel
  <1> HIDE DEF R
  <1>3. PICK n \in S : \A m \in S : ~(<<m, n>> \in R)
    BY Zenon, <1>1, WFMin
  <1>4. ASSUME NEW m \in S PROVE n <= m
    <2>1. ~(m < n)
      BY <1>2, <1>3, Zenon
    <2> QED
      BY <2>1
  <1> QED
    BY <1>4

\* What parse_madt does with an entry of the table.  The list is defined by recursion
\* over the table; that the recursion has a solution is shown for longer and longer
\* beginnings of the table.
LEMMA ParseMadt ==
  \A n \in 0..Len(madt) :
    parse_madt[n] = IF n = 0 THEN <<>> ELSE add_lapic(parse_madt[n - 1], madt[n])
<1> DEFINE D == 0..Len(madt)
           val(F, n) == IF n = 0 THEN <<>> ELSE add_lapic(F[n - 1], madt[n])
           Upto(F, n) == F = [m \in D |-> F[m]] /\ \A m \in 0..n : F[m] = val(F, m)
           Bad == {n \in D : \A F : ~Upto(F, n)}
<1>1. Len(madt) \in Nat
  BY MadtAssumption
<1>2. Bad = {}
  <2> SUFFICES ASSUME Bad # {} PROVE FALSE
    OBVIOUS
  <2>1. PICK n \in Bad : \A m \in Bad : n <= m
    <3>1. Bad \in SUBSET Nat
      BY <1>1
    <3> HIDE DEF Bad
    <3> QED
      BY <3>1, Least
  <2>2. n \in D /\ n \in Nat /\ \A F : ~Upto(F, n)
    BY <1>1, <2>1
  <2>3. n # 0
    <3>1. PICK F : F = [m \in D |-> <<>>]
      BY ZenonT(30)
    <3>2. F[0] = <<>> /\ F = [m \in D |-> F[m]]
      BY <1>1, <3>1
    <3>3. \A m \in 0..0 : F[m] = val(F, m)
      BY <3>2
    <3> QED
      BY <2>2, <3>2, <3>3
  <2>4. n - 1 \in D /\ n - 1 \notin Bad
    BY <1>1, <2>1, <2>2, <2>3
  <2>5. PICK F : Upto(F, n - 1)
    BY <2>4
  <2>6. PICK E : E = [F EXCEPT ![n] = val(F, n)]
    BY ZenonT(30)
  <2>7. E = [m \in D |-> E[m]] /\ E[n] = val(F, n) /\ \A m \in D : m # n => E[m] = F[m]
    <3> HIDE DEF val
    <3> QED
      BY ZenonT(30), <2>2, <2>5, <2>6
  <2>8. ASSUME NEW m \in 0..n PROVE E[m] = val(E, m)
    <3>1. m \in D /\ (m # 0 => m - 1 \in D /\ m - 1 # n)
      BY <1>1, <2>2
    <3>2. m # 0 => E[m - 1] = F[m - 1]
      BY <2>7, <3>1
    <3>3. val(E, m) = val(F, m)
      BY <3>2
    <3>4. CASE m = n
      BY <2>7, <3>3, <3>4
    <3>5. CASE m # n
      <4>1. m \in 0..(n - 1) /\ E[m] = F[m]
        BY <2>2, <2>7, <3>1, <3>5
      <4> HIDE DEF val
      <4> QED
        BY <2>5, <3>3, <4>1
    <3> QED
      BY <3>4, <3>5
  <2> QED
    BY ZenonT(30), <2>2, <2>7, <2>8
<1>3. PICK F : Upto(F, Len(madt))
  BY <1>1, <1>2
<1>4. F = [n \in D |-> IF n = 0 THEN <<>> ELSE add_lapic(F[n - 1], madt[n])]
  BY <1>3
<1>5. parse_madt = [n \in D |-> IF n = 0 THEN <<>> ELSE add_lapic(parse_madt[n - 1], madt[n])]
  BY Zenon, <1>4 DEF parse_madt
<1> QED
  BY <1>5

\* lapic_list has an entry, and its entries are different CPUs, because those of the
\* table are: a least beginning of the table with another list cannot exist.
LEMMA LapicList ==
  /\ lapic_list_size \in Nat \ {0}
  /\ \A i, j \in 1..lapic_list_size : lapic_list[i].id = lapic_list[j].id => i = j
<1> DEFINE D == 0..Len(madt)
           R == {[id |-> madt[i].apic_id, present |-> madt[i].flags # 0] : i \in DOMAIN madt}
           From(s, n) == \A k \in 1..Len(s) : \E i \in 1..n :
                           madt[i].type = "lapic" /\ s[k].id = madt[i].apic_id
           Distinct(s) == \A k, l \in 1..Len(s) : s[k].id = s[l].id => k = l
           Good(n) == /\ parse_madt[n] \in Seq(R) /\ (n # 0 => parse_madt[n] # <<>>)
                      /\ From(parse_madt[n], n) /\ Distinct(parse_madt[n])
           Bad == {n \in D : ~Good(n)}
<1>1. Len(madt) \in Nat \ {0} /\ DOMAIN madt = 1..Len(madt) /\ MAX_LAPICS \in Nat \ {0}
  BY MadtAssumption
<1>2. Good(0)
  <2>1. parse_madt[0] = <<>>
    BY <1>1, ParseMadt
  <2> QED
    BY <2>1
<1>3. ASSUME NEW n \in D, n # 0, Good(n - 1) PROVE Good(n)
  <2>1. PICK s \in Seq(R) : s = parse_madt[n - 1]
    BY ZenonT(30), <1>3
  <2>2. n \in 1..Len(madt) /\ n - 1 \in Nat /\ n \in Nat /\ Len(s) \in Nat
    BY <1>1, <1>3
  <2>3. parse_madt[n] = add_lapic(s, madt[n])
    BY <1>3, <2>1, ParseMadt
  <2>4. From(s, n - 1) /\ Distinct(s) /\ (n # 1 => s # <<>>)
    BY <1>3, <2>1, <2>2
  <2>5. CASE madt[n].type # "lapic" \/ Len(s) >= MAX_LAPICS
    <3>1. parse_madt[n] = s
      BY <2>3, <2>5 DEF add_lapic
    <3>2. From(s, n)
      <4>1. 1..(n - 1) \subseteq 1..n
        BY <2>2
      <4> QED
        BY ZenonT(30), <2>4, <4>1
    <3>3. s # <<>>
      <4>1. CASE n = 1
        <5>1. Len(s) >= MAX_LAPICS
          BY <2>5, <4>1, MadtAssumption
        <5> QED
          BY <1>1, <5>1
      <4> QED
        BY <2>4, <4>1
    <3> HIDE DEF R, From, Distinct
    <3> QED
      BY <2>4, <3>1, <3>2, <3>3
  <2>6. CASE madt[n].type = "lapic" /\ Len(s) < MAX_LAPICS
    <3>1. PICK e : e = [id |-> madt[n].apic_id, present |-> madt[n].flags # 0]
      BY ZenonT(30)
    <3>2. e \in R /\ e.id = madt[n].apic_id
      BY <1>1, <2>2, <3>1
    <3>3. parse_madt[n] = Append(s, e)
      BY <1>1, <2>2, <2>3, <2>6, <3>1 DEF add_lapic
    <3>4. PICK t : t = Append(s, e)
      BY ZenonT(30)
    <3>5. /\ t \in Seq(R) /\ t # <<>> /\ Len(t) = Len(s) + 1
          /\ t[Len(s) + 1] = e /\ \A k \in 1..Len(s) : t[k] = s[k]
      <4> HIDE DEF R
      <4> QED
        BY <3>2, <3>4
    <3>6. \A k \in 1..Len(s) : s[k].id # e.id
      <4>1. \A i \in 1..(n - 1) : madt[i].type = "lapic" => madt[i].apic_id # madt[n].apic_id
        BY <1>1, <2>2, <2>6, MadtAssumption
      <4> QED
        BY <2>4, <3>2, <4>1
    <3>7. \A k \in 1..Len(t) : k \in 1..Len(s) \/ k = Len(s) + 1
      BY <2>2, <3>5
    <3>8. From(t, n)
      <4>1. n \in 1..n /\ 1..(n - 1) \subseteq 1..n
        BY <2>2
      <4>2. ASSUME NEW k \in 1..Len(t)
            PROVE  \E i \in 1..n : madt[i].type = "lapic" /\ t[k].id = madt[i].apic_id
        <5>1. CASE k \in 1..Len(s)
          <6>1. PICK i \in 1..(n - 1) : madt[i].type = "lapic" /\ s[k].id = madt[i].apic_id
            BY <2>4, <5>1
          <6>2. i \in 1..n /\ t[k] = s[k]
            BY <3>5, <4>1, <5>1
          <6> QED
            BY ZenonT(30), <6>1, <6>2
        <5>2. CASE k = Len(s) + 1
          <6>1. t[k].id = madt[n].apic_id
            BY <3>2, <3>5, <5>2
          <6> QED
            BY <2>6, <4>1, <6>1
        <5> QED
          BY <3>7, <5>1, <5>2
      <4> QED
        BY ZenonT(30), <4>2
    <3>9. Distinct(t)
      BY ZenonT(30), <2>4, <3>5, <3>6, <3>7
    <3> HIDE DEF R, From, Distinct
    <3> QED
      BY <3>3, <3>4, <3>5, <3>8, <3>9
  <2> HIDE DEF Good
  <2> QED
    BY <1>1, <2>2, <2>5, <2>6
<1>4. Bad = {}
  <2> SUFFICES ASSUME Bad # {} PROVE FALSE
    BY ZenonT(30)
  <2> HIDE DEF Good
  <2>1. PICK n \in Bad : \A m \in Bad : n <= m
    <3>1. Bad \in SUBSET Nat
      BY <1>1
    <3> HIDE DEF Bad
    <3> QED
      BY <3>1, Least
  <2>2. n \in D /\ n # 0 /\ ~Good(n)
    BY <1>2, <2>1
  <2>3. Good(n - 1)
    BY <1>1, <2>1, <2>2
  <2> QED
    BY <1>3, <2>2, <2>3
<1>5. Good(Len(madt))
  <2> HIDE DEF Good
  <2> QED
    BY <1>1, <1>4
<1>6. lapic_list \in Seq(R) /\ lapic_list # <<>> /\ Distinct(lapic_list)
  BY <1>1, <1>5 DEF lapic_list
<1> HIDE DEF R
<1> QED
  BY <1>6 DEF lapic_list_size

\* No two entries of lapic_list are the same CPU.
LEMMA LapicInj == \A i, j \in CpuIndex : Lapic(i) = Lapic(j) => i = j
<1>1. \A i \in CpuIndex : i \in Int /\ i + 1 \in 1..lapic_list_size
  BY LapicList DEF CpuIndex
<1> QED
  BY <1>1, LapicList DEF Lapic

\* The boot processor is the first entry; 0 is no stack.
LEMMA ZeroIn == lapic_list_size \in Nat /\ 0 \in CpuIndex /\ BSP = Lapic(0) /\ NULL \notin Stack
  BY LapicList, MadtAssumption DEF CpuIndex, BSP, NULL

\* NoLate says by index that no AP is late.
LEMMA NoLateIsLate == Late = {} => NoLate
  BY LapicIn DEF Late, NoLate

\* The invariant holds when kmain calls smp_init.
LEMMA InitIInv == BootInit => IInv
  <1> SUFFICES ASSUME BootInit PROVE IInv
    OBVIOUS
  <1>1. Types
    BY LapicIn, ZeroIn, LapicList DEF BootInit, Types, Fields, Stages, SetUp, NotStarted, Mid, After
  <1>2. LoopInv
    BY LapicIn, LapicInj, ZeroIn DEF BootInit, LoopInv, CpuIndex, Mid, After
  <1>3. ApInv
    BY DEF BootInit, ApInv, CpuIndex, Mid
  <1>4. StackInv
    BY LapicIn, LapicInj, ZeroIn DEF BootInit, StackInv, SetUp, Queued, Mid, NULL
  <1> QED
    BY <1>1, <1>2, <1>3, <1>4 DEF IInv

\* What is between its start-up IPI and the started flag is the CPU at g.index.
LEMMA StartingIsCurrent ==
  ASSUME IInv, NoLate, NEW i \in CpuIndex,
         cpu[Lapic(i)].at \in Starting \/ (cpu[Lapic(i)].at = "sipi" /\ g.present[Lapic(i)])
  PROVE  i = g.index /\ i # 0 /\ g.bsp \in Mid
  <1>1. i # 0
    BY ZeroIn DEF IInv, LoopInv, Starting, Trampoline, Queued
  <1>2. ~(i < g.index)
    BY <1>1 DEF IInv, ApInv, NoLate, Starting, Trampoline, NotStarted, Flagged, SetUp, Queued, CpuIndex
  <1>3. i \in Int /\ i < lapic_list_size /\ g.index \in Int /\ g.index <= lapic_list_size
    BY ZeroIn DEF IInv, Types, CpuIndex
  <1>4. cpu[Lapic(i)].at # "off"
    BY DEF Starting, Trampoline
  <1>5. i = g.index /\ g.bsp \notin {"init", "boot"}
    BY <1>2, <1>3, <1>4 DEF IInv, LoopInv
  <1>6. g.bsp \notin After
    BY <1>3, <1>5, ZeroIn DEF IInv, LoopInv
  <1> QED
    BY <1>1, <1>5, <1>6 DEF IInv, Types

-----------------------------------------------------------------------------
(* What the steps of an AP change *)

PlaceSame ==
  /\ DOMAIN g' = Fields
  /\ g'.index = g.index /\ g'.present = g.present
  /\ g'.smp_ap_stack = g.smp_ap_stack /\ g'.free = g.free /\ g'.trampoline = g.trampoline

ApSame == PlaceSame /\ g'.bsp = g.bsp
OthersSame(c) == \A d \in Cpu \ {c} : cpu'[d] = cpu[d]
FlagSame == g'.smp_ap_started_flag = g.smp_ap_started_flag
GdtSame == g'.tmp_gdt_ptr = g.tmp_gdt_ptr
RspSame(c) == cpu'[c].rsp = cpu[c].rsp

\* An AP enters the trampoline, goes through it, takes the stack, sets the flag, or
\* goes on behind the flag.
ApStep(c) ==
  \/ cpu[c].at = "sipi" /\ cpu'[c].at = "real" /\ FlagSame /\ GdtSame /\ RspSame(c)
  \/ cpu[c].at = "real" /\ cpu'[c].at = "long" /\ FlagSame /\ RspSame(c)
  \/ cpu[c].at = "long" /\ cpu'[c].at = "kernel" /\ FlagSame /\ RspSame(c) /\ g'.tmp_gdt_ptr = "tmp_gdt"
  \/ cpu[c].at = "kernel" /\ cpu'[c].at = "stack" /\ FlagSame /\ GdtSame /\ cpu'[c].rsp = g.smp_ap_stack
  \/ cpu[c].at = "stack" /\ cpu'[c].at = "flag" /\ GdtSame /\ RspSame(c)
       /\ g'.smp_ap_started_flag \in 0..255
  \/ cpu[c].at \in Flagged /\ cpu'[c].at \in Flagged /\ FlagSame /\ GdtSame /\ RspSame(c)
       /\ (c = BSP /\ cpu[c].at \in {"calibrated", "online"} \cup Queued
             => cpu'[c].at \in {"calibrated", "online"} \cup Queued)

\* Every step of an AP is one of those, and leaves what the BSP writes alone.
LEMMA ApEffect ==
  ASSUME Types, NEW c \in Cpu, ApNext(c)
  PROVE  ApSame /\ OthersSame(c) /\ ApStep(c) /\ cpu' \in [Cpu -> [at : Stages, rsp : Stack \cup {NULL}]]
  <1> USE DEF Types, Fields, ApSame, PlaceSame, OthersSame, FlagSame, GdtSame, RspSame, ApStep, Advance
  <1>1. cpu' \in [Cpu -> [at : Stages, rsp : Stack \cup {NULL}]]
    BY DEF ApNext, smp_trampoline_16, smp_trampoline_64, fix_rip, load_stack,
       set_started_flag, percpu_init_ap, lapic_enable, lapic_timer_prepare, smp_ap_kmain,
       sched_run, wait_for_schedulers, Stages, SetUp, Queued, Trampoline
  <1>2. CASE smp_trampoline_16(c)
    BY <1>1, <1>2 DEF smp_trampoline_16
  <1>3. CASE smp_trampoline_64(c)
    BY <1>1, <1>3 DEF smp_trampoline_64
  <1>4. CASE fix_rip(c)
    BY <1>1, <1>4 DEF fix_rip
  <1>5. CASE load_stack(c)
    BY <1>1, <1>5 DEF load_stack
  <1>6. CASE set_started_flag(c)
    BY <1>1, <1>6 DEF set_started_flag
  <1>7. CASE percpu_init_ap(c)
    BY <1>1, <1>7 DEF percpu_init_ap, Flagged, SetUp, Queued
  <1>8. CASE lapic_enable(c)
    BY <1>1, <1>8 DEF lapic_enable, Flagged, SetUp, Queued
  <1>9. CASE lapic_timer_prepare(c)
    BY <1>1, <1>9 DEF lapic_timer_prepare, Flagged, SetUp, Queued
  <1>10. CASE smp_ap_kmain(c)
    BY <1>1, <1>10 DEF smp_ap_kmain, Flagged, SetUp, Queued
  <1>11. CASE sched_run(c)
    BY <1>1, <1>11 DEF sched_run, Flagged, SetUp, Queued
  <1>12. CASE wait_for_schedulers(c)
    BY <1>1, <1>12 DEF wait_for_schedulers, Flagged, SetUp, Queued
  <1> QED
    BY ZenonT(30), <1>1, <1>2, <1>3, <1>4, <1>5, <1>6, <1>7, <1>8, <1>9, <1>10, <1>11, <1>12 DEF ApNext

\* The steps of an AP preserve the invariant.
LEMMA ApIInv ==
  ASSUME IInv, NEW c \in Cpu, ApNext(c) PROVE IInv'
  <1>1. PICK k \in CpuIndex : c = Lapic(k)
    BY DEF Cpu
  <1>2. Types /\ LoopInv /\ ApSame /\ OthersSame(c) /\ ApStep(c)
    BY ZenonT(30), ApEffect DEF IInv
  <1>3. Types'
    BY <1>2, ApEffect DEF Types, ApSame, PlaceSame, ApStep, FlagSame
  <1>4. cpu[c].at # "off" /\ cpu'[c].at \notin NotStarted
    BY <1>2 DEF ApStep, Flagged, SetUp, Queued, NotStarted
  <1>5. \A i \in CpuIndex \ {k} : cpu'[Lapic(i)] = cpu[Lapic(i)]
    BY <1>1, <1>2, LapicIn, LapicInj DEF OthersSame
  <1>6. LoopInv'
    <2>1. cpu'[BSP].at \in {"calibrated", "online"} \cup Queued
      <3>1. CASE k = 0
        BY <1>1, <1>2, <3>1, ZeroIn DEF LoopInv, ApStep, Queued
      <3>2. CASE k # 0
        BY <1>2, <1>5, <3>2, ZeroIn DEF LoopInv
      <3> QED
        BY <3>1, <3>2
    <2>2. ASSUME NEW i \in CpuIndex, i > g.index \/ (i = g.index /\ g.bsp \in {"init", "boot"})
          PROVE  cpu'[Lapic(i)].at = "off"
      BY <1>1, <1>2, <1>4, <1>5, <2>2 DEF LoopInv
    <2> QED
      BY <1>2, <2>1, <2>2 DEF LoopInv, ApSame, PlaceSame
  <1>7. SUFFICES ASSUME NoLate' PROVE ApInv' /\ StackInv'
    BY <1>3, <1>6 DEF IInv
  <1>8. g.present[c]
    BY <1>1, <1>2, <1>4, <1>7 DEF NoLate, ApSame, PlaceSame
  <1>9. NoLate
    BY <1>1, <1>2, <1>5, <1>7, <1>8 DEF NoLate, ApSame, PlaceSame
  <1>10. ApInv /\ StackInv
    BY <1>9 DEF IInv
  <1>11. cpu[c].at \in Starting \cup {"sipi"} => k = g.index /\ k # 0 /\ g.bsp \in Mid
    BY <1>1, <1>8, <1>9, StartingIsCurrent
  <1>12. ApInv'
    <2>1. ASSUME NEW i \in CpuIndex, 0 < i, i < g.index, g.present[Lapic(i)]
          PROVE  cpu'[Lapic(i)].at \in Flagged
      <3>1. cpu[Lapic(i)].at \in Flagged
        BY <1>10, <2>1 DEF ApInv
      <3>2. CASE i = k
        BY <1>1, <1>2, <3>1, <3>2 DEF ApStep, Flagged, SetUp, Queued
      <3> QED
        BY <1>5, <3>1, <3>2
    <2>2. ASSUME g.bsp \in Mid, g'.smp_ap_started_flag # 0
          PROVE  cpu'[Lapic(g.index)].at \in Flagged
      <3>1. CASE cpu[c].at = "stack"
        BY <1>1, <1>2, <1>11, <3>1 DEF ApStep, Starting, Flagged, SetUp, Queued
      <3>2. CASE cpu[c].at # "stack"
        <4>1. cpu[Lapic(g.index)].at \in Flagged
          BY <1>2, <1>10, <2>2, <3>2 DEF ApStep, FlagSame, ApInv
        <4>2. CASE k = g.index
          BY <1>1, <1>2, <4>1, <4>2 DEF ApStep, Flagged, SetUp, Queued
        <4>3. g.index \in CpuIndex
          BY <1>2, <2>2, ZeroIn DEF Types, LoopInv, CpuIndex
        <4> QED
          BY <1>5, <4>1, <4>2, <4>3
      <3> QED
        BY <3>1, <3>2
    <2>3. ASSUME g'.tmp_gdt_ptr # "tmp_gdt"
          PROVE  g.bsp \in Mid /\ cpu'[Lapic(g.index)].at = "long"
      <3>1. CASE cpu[c].at = "real"
        BY <1>1, <1>2, <1>11, <3>1 DEF ApStep, Starting, Trampoline, Flagged, SetUp, Queued
      <3>2. CASE cpu[c].at # "real"
        <4>1. g.bsp \in Mid /\ cpu[Lapic(g.index)].at = "long" /\ cpu[c].at # "long"
          BY <1>2, <1>10, <2>3, <3>2 DEF ApStep, GdtSame, ApInv, Flagged, SetUp, Queued
        <4>2. g.index \in CpuIndex
          BY <1>2, <4>1, ZeroIn DEF Types, LoopInv, CpuIndex
        <4> QED
          BY <1>1, <1>5, <4>1, <4>2
      <3> QED
        BY <3>1, <3>2
    <2> QED
      BY <1>2, <2>1, <2>2, <2>3 DEF ApInv, ApSame, PlaceSame
  <1>13. StackInv'
    <2>1. CASE cpu[c].at = "kernel"
      <3>1. k = g.index /\ k # 0 /\ g.smp_ap_stack \in Stack \ g.free
        BY <1>2, <1>10, <1>11, <2>1 DEF Starting, StackInv, Types, Mid
      <3>2. cpu'[Lapic(k)].rsp = g.smp_ap_stack /\ cpu'[Lapic(k)].at = "stack"
        BY <1>1, <1>2, <2>1 DEF ApStep, Flagged, SetUp, Queued
      <3> QED
        BY <1>2, <1>5, <1>10, <3>1, <3>2 DEF StackInv, ApSame, PlaceSame
    <2>2. CASE cpu[c].at # "kernel"
      <3>1. RspSame(c) /\ (cpu'[c].at \in SetUp => cpu[c].at \in SetUp)
        BY <1>2, <2>2 DEF ApStep, Flagged, SetUp, Queued
      <3>2. \A i \in CpuIndex : /\ cpu'[Lapic(i)].rsp = cpu[Lapic(i)].rsp
                                /\ cpu'[Lapic(i)].at \in SetUp => cpu[Lapic(i)].at \in SetUp
        BY <1>1, <1>5, <3>1 DEF RspSame
      <3> QED
        BY <1>2, <1>10, <3>2 DEF StackInv, ApSame, PlaceSame
    <2> QED
      BY <2>1, <2>2
  <1> QED
    BY <1>12, <1>13

-----------------------------------------------------------------------------
(* The steps of the BSP *)

\* Sleeps and start-up IPIs.
LEMMA WaitingIInv ==
  ASSUME IInv, NEW next \in Mid, g.bsp \in Mid, pit_sleep(next) \/ lapic_send_sipi(next)
  PROVE  IInv'
  <1> DEFINE k == g.index
  <1>1. Types /\ LoopInv /\ lapic_list_size \in Nat
    BY ZeroIn DEF IInv
  <1>2. k \in CpuIndex /\ k # 0 /\ Lapic(k) \in Cpu
    BY <1>1, LapicIn DEF Types, LoopInv, CpuIndex
  <1>3. PlaceSame /\ FlagSame /\ GdtSame /\ g'.bsp \in Mid
    BY ZenonT(30), <1>1 DEF pit_sleep, lapic_send_sipi, Types, Fields, PlaceSame, FlagSame, GdtSame
  <1>4. /\ cpu' \in [Cpu -> [at : Stages, rsp : Stack \cup {NULL}]]
        /\ OthersSame(Lapic(k)) /\ RspSame(Lapic(k))
        /\ \/ cpu'[Lapic(k)].at = cpu[Lapic(k)].at
           \/ cpu[Lapic(k)].at = "wait" /\ cpu'[Lapic(k)].at = "sipi"
    BY <1>1, <1>2 DEF pit_sleep, lapic_send_sipi, Types, OthersSame, RspSame, Stages, NotStarted
  <1>5. \A i \in CpuIndex : /\ cpu'[Lapic(i)].rsp = cpu[Lapic(i)].rsp
                            /\ \/ cpu'[Lapic(i)].at = cpu[Lapic(i)].at
                               \/ i = k /\ cpu[Lapic(i)].at = "wait" /\ cpu'[Lapic(i)].at = "sipi"
    <2>1. \A i \in CpuIndex \ {k} : cpu'[Lapic(i)] = cpu[Lapic(i)]
      BY <1>2, <1>4, LapicIn, LapicInj DEF OthersSame
    <2> QED
      BY <1>4, <2>1 DEF RspSame
  <1>6. Types'
    BY <1>1, <1>3, <1>4 DEF Types, PlaceSame, FlagSame
  <1>7. LoopInv'
    <2>1. ASSUME NEW i \in CpuIndex, i > k PROVE cpu'[Lapic(i)].at = "off"
      BY <1>1, <1>5, <2>1 DEF LoopInv
    <2>2. cpu'[BSP] = cpu[BSP]
      BY <1>2, <1>4, ZeroIn, LapicIn, LapicInj DEF OthersSame
    <2> QED
      BY <1>1, <1>3, <2>1, <2>2 DEF LoopInv, PlaceSame, Mid, After
  <1>8. SUFFICES ASSUME NoLate' PROVE ApInv' /\ StackInv'
    BY <1>6, <1>7 DEF IInv
  <1>9. ApInv /\ StackInv
    BY <1>3, <1>5, <1>8 DEF IInv, NoLate, PlaceSame, NotStarted
  <1>10. ApInv'
    BY <1>2, <1>3, <1>5, <1>9 DEF ApInv, PlaceSame, FlagSame, GdtSame, Flagged, SetUp, Queued
  <1>11. StackInv'
    <2>1. \A i \in CpuIndex : cpu'[Lapic(i)].at \in SetUp => cpu[Lapic(i)].at \in SetUp
      BY <1>5 DEF SetUp, Queued
    <2> QED
      BY <1>3, <1>5, <1>9, <2>1 DEF StackInv, PlaceSame, Mid
  <1> QED
    BY <1>10, <1>11

\* The BSP makes a stack ready and sends INIT to the next AP.
LEMMA BootApIInv ==
  ASSUME IInv, smp_boot_ap PROVE IInv'
  <1> DEFINE k == g.index
             s == g'.smp_ap_stack
  <1>1. Types /\ LoopInv /\ lapic_list_size \in Nat
    BY ZeroIn DEF IInv
  <1>2. k \in CpuIndex /\ k # 0 /\ Lapic(k) \in Cpu /\ cpu[Lapic(k)].at = "off"
    BY <1>1, LapicIn DEF Types, LoopInv, CpuIndex, smp_boot_ap
  <1>3. /\ DOMAIN g' = Fields /\ g'.bsp = "sent_init" /\ g'.index = k /\ g'.present = g.present
        /\ g'.smp_ap_started_flag = 0 /\ g'.free = g.free \ {s}
        /\ g'.trampoline = g.trampoline /\ GdtSame
        /\ s = IF g.smp_ap_stack # NULL THEN g.smp_ap_stack ELSE CHOOSE f \in g.free : TRUE
    BY <1>1 DEF smp_boot_ap, Types, Fields, GdtSame
  <1>4. s \in Stack /\ (s = g.smp_ap_stack \/ s \in g.free)
    BY <1>1, <1>3 DEF smp_boot_ap, Types
  <1>5. /\ cpu' \in [Cpu -> [at : Stages, rsp : Stack \cup {NULL}]]
        /\ cpu'[Lapic(k)].at = "wait"
        /\ \A i \in CpuIndex \ {k} : cpu'[Lapic(i)] = cpu[Lapic(i)]
    BY <1>1, <1>2, LapicIn, LapicInj DEF smp_boot_ap, Types, Stages, NotStarted
  <1>6. Types'
    BY <1>1, <1>3, <1>4, <1>5 DEF Types, Mid
  <1>7. LoopInv'
    <2>1. ASSUME NEW i \in CpuIndex, i > k PROVE cpu'[Lapic(i)].at = "off"
      BY <1>1, <1>2, <1>5, <2>1 DEF LoopInv, CpuIndex
    <2>2. cpu'[BSP] = cpu[BSP]
      BY <1>2, <1>5, ZeroIn
    <2> QED
      BY Zenon, <1>1, <1>3, <2>1, <2>2 DEF LoopInv, Mid, After, smp_boot_ap
  <1>8. SUFFICES ASSUME NoLate' PROVE ApInv' /\ StackInv'
    BY <1>6, <1>7 DEF IInv
  <1>9. ApInv /\ StackInv
    BY <1>2, <1>3, <1>5, <1>8 DEF IInv, NoLate, NotStarted
  <1>10. ApInv'
    BY <1>2, <1>3, <1>5, <1>9 DEF ApInv, GdtSame, Mid, CpuIndex, smp_boot_ap
  <1>11. StackInv'
    <2>1. \A i \in CpuIndex \ {0} : cpu'[Lapic(i)].at \in SetUp =>
            i # k /\ cpu[Lapic(i)].at \in SetUp /\ cpu'[Lapic(i)].rsp = cpu[Lapic(i)].rsp
      BY <1>5 DEF SetUp, Queued
    <2>2. s # NULL /\ s \notin g'.free
      BY Zenon, <1>3, <1>4, ZeroIn
    <2> QED
      BY <1>3, <1>4, <1>9, <2>1, <2>2 DEF StackInv, Mid
  <1> QED
    BY <1>10, <1>11

\* The loop goes on, after the flag of the AP was seen or the AP was given up.
LEMMA NextApIInv ==
  ASSUME IInv, ap_started \/ failed_to_boot PROVE IInv'
  <1> DEFINE k == g.index
  <1>1. Types /\ LoopInv /\ lapic_list_size \in Nat /\ g.bsp \in Mid
    BY ZeroIn DEF IInv, ap_started, failed_to_boot, Mid
  <1>2. k \in CpuIndex /\ k # 0 /\ Lapic(k) \in Cpu /\ k \in Nat /\ k + 1 \in 1..lapic_list_size
    BY <1>1, LapicIn DEF Types, LoopInv, CpuIndex
  <1>3. /\ DOMAIN g' = Fields /\ g'.index = k + 1 /\ g'.free = g.free
        /\ g'.bsp = LoopTo(k + 1) /\ g'.trampoline = g.trampoline /\ FlagSame /\ GdtSame /\ cpu' = cpu
    BY ZenonT(30), <1>1 DEF ap_started, failed_to_boot, Types, Fields, FlagSame, GdtSame
  <1>4. \/ ap_started /\ g'.present = g.present /\ g'.smp_ap_stack = NULL
        \/ /\ failed_to_boot /\ g'.smp_ap_stack = g.smp_ap_stack
           /\ g'.present = [g.present EXCEPT ![Lapic(k)] = FALSE]
    BY ZenonT(30), <1>1 DEF ap_started, failed_to_boot, Types, Fields
  <1>5. g'.bsp \in {"boot", "unmap"} /\ (g'.bsp = "boot" <=> k + 1 < lapic_list_size)
    BY <1>3 DEF LoopTo
  <1>6. Types'
    BY ZenonT(30), <1>1, <1>2, <1>3, <1>4, <1>5 DEF Types, FlagSame, After
  <1>7. LoopInv'
    <2>1. ASSUME NEW i \in CpuIndex, i > k PROVE cpu'[Lapic(i)].at = "off"
      BY <1>1, <1>3, <2>1 DEF LoopInv
    <2>2. \A i \in CpuIndex : i > k + 1 \/ i = k + 1 => i > k
      BY <1>2 DEF CpuIndex
    <2> QED
      BY <1>1, <1>2, <1>3, <1>5, <2>1, <2>2 DEF LoopInv, Mid, After
  <1>8. SUFFICES ASSUME NoLate' PROVE ApInv' /\ StackInv'
    BY <1>6, <1>7 DEF IInv
  <1>9. \A i \in CpuIndex : g'.present[Lapic(i)] => g.present[Lapic(i)]
    BY <1>1, <1>4, LapicIn DEF Types
  <1>10. ApInv /\ StackInv
    BY <1>3, <1>8, <1>9 DEF IInv, NoLate
  \* An AP that was given up and is not late has never started.
  <1>11. cpu[Lapic(k)].at \in IF ap_started THEN Flagged ELSE NotStarted
    <2>1. CASE ap_started
      BY <1>1, <1>10, <2>1 DEF ap_started, ApInv
    <2>2. CASE ~ap_started
      BY <1>1, <1>2, <1>3, <1>4, <1>8, <2>2 DEF NoLate, Types
    <2> QED
      BY <2>1, <2>2
  <1>12. ApInv'
    <2>1. ASSUME NEW i \in CpuIndex, 0 < i, i < k + 1, g'.present[Lapic(i)]
          PROVE  cpu[Lapic(i)].at \in Flagged
      <3>1. CASE i = k
        BY <1>1, <1>2, <1>4, <1>11, <2>1, <3>1 DEF Types
      <3>2. CASE i < k
        BY <1>9, <1>10, <2>1, <3>2 DEF ApInv
      <3> QED
        BY <1>2, <2>1, <3>1, <3>2 DEF CpuIndex
    <2>2. g.tmp_gdt_ptr = "tmp_gdt"
      BY <1>10, <1>11 DEF ApInv, Flagged, SetUp, Queued, NotStarted
    <2> QED
      BY <1>3, <1>5, <2>1, <2>2 DEF ApInv, GdtSame, Mid
  <1>13. StackInv'
    <2>1. ASSUME NEW i \in CpuIndex \ {0}, cpu[Lapic(i)].at \in SetUp
          PROVE  i # k + 1 /\ cpu[Lapic(i)].rsp # g'.smp_ap_stack
      <3>1. i # k + 1
        BY <1>1, <1>2, <2>1 DEF LoopInv, SetUp, Queued, CpuIndex
      <3>2. cpu[Lapic(i)].rsp \in Stack /\ (cpu[Lapic(i)].rsp = g.smp_ap_stack <=> i = k)
        BY <1>10, <2>1 DEF StackInv
      <3>3. CASE ap_started
        BY <1>4, <3>1, <3>2, <3>3, ZeroIn DEF ap_started, failed_to_boot
      <3>4. CASE ~ap_started
        BY <1>4, <1>11, <2>1, <3>1, <3>2, <3>4 DEF SetUp, Queued, NotStarted
      <3> QED
        BY <3>3, <3>4
    <2>2. g'.smp_ap_stack \notin g.free
      BY <1>1, <1>4, <1>10, ZeroIn DEF StackInv, Types, Mid
    <2> QED
      BY <1>3, <1>5, <1>10, <2>1, <2>2 DEF StackInv, Mid
  <1> QED
    BY <1>12, <1>13

\* Before and after the loop.
LEMMA AroundLoopIInv ==
  ASSUME IInv, smp_init \/ unmap_trampoline \/ free_unused_stack \/ smp_init_wait PROVE IInv'
  <1>1. Types /\ LoopInv /\ lapic_list_size \in Nat /\ BSP \in Cpu
    BY ZeroIn, LapicIn DEF IInv
  <1>2. /\ DOMAIN g' = Fields /\ g'.index = g.index /\ g'.present = g.present
        /\ g'.smp_ap_stack = g.smp_ap_stack /\ FlagSame /\ GdtSame
    BY ZenonT(30), <1>1
    DEF smp_init, unmap_trampoline, free_unused_stack, smp_init_wait, Types, Fields, FlagSame, GdtSame
  <1>3. \/ /\ g.bsp = "init" /\ g'.bsp = LoopTo(g.index) /\ g'.trampoline
           /\ g'.free = g.free /\ cpu' = cpu
        \/ /\ g.bsp \in After /\ g'.bsp \in After \ {"unmap"}
           /\ \/ g'.free = g.free /\ (g.bsp \in {"wait", "done"} <=> g'.bsp \in {"wait", "done"})
              \/ g'.free = g.free \cup ({g.smp_ap_stack} \ {NULL}) /\ g'.bsp = "wait" /\ g.bsp = "free"
           /\ cpu' = cpu \/ cpu' = [cpu EXCEPT ![BSP].at = "online"]
    BY ZenonT(30), <1>1 DEF smp_init, unmap_trampoline, free_unused_stack, smp_init_wait, Types, Fields, After
  <1>4. /\ cpu' \in [Cpu -> [at : Stages, rsp : Stack \cup {NULL}]]
        /\ \A i \in CpuIndex \ {0} : cpu'[Lapic(i)] = cpu[Lapic(i)]
        /\ cpu'[BSP].at = cpu[BSP].at \/ cpu'[BSP].at = "online"
    BY <1>1, <1>3, ZeroIn, LapicIn, LapicInj DEF Types, Stages, SetUp
  <1>5. Types'
    <2>1. g'.bsp \in {"init", "boot"} \cup Mid \cup After
      BY <1>3 DEF LoopTo, After
    <2> QED
      BY <1>1, <1>2, <1>3, <1>4, <2>1 DEF Types, FlagSame
  <1>6. g.index # 0
    BY <1>1 DEF Types
  <1>7. LoopInv'
    <2>1. ASSUME NEW i \in CpuIndex, i > g.index \/ (i = g.index /\ g'.bsp \in {"init", "boot"})
          PROVE  i # 0 /\ cpu'[Lapic(i)].at = "off"
      BY <1>1, <1>3, <1>4, <1>6, <2>1 DEF LoopInv, Types, After, CpuIndex
    <2> QED
      BY <1>1, <1>2, <1>3, <1>4, <2>1 DEF LoopInv, LoopTo, Mid, After, Types
  <1>8. SUFFICES ASSUME NoLate' PROVE ApInv' /\ StackInv'
    BY <1>5, <1>7 DEF IInv
  <1>9. ApInv /\ StackInv
    <2>1. NoLate
      <3>1. g.present[BSP] \/ cpu[BSP].at \in NotStarted
        BY <1>1, <1>2, <1>4, <1>8, ZeroIn DEF NoLate, LoopInv, NotStarted, Queued
      <3> QED
        BY <1>2, <1>4, <1>8, <3>1, ZeroIn DEF NoLate
    <2> QED
      BY <2>1 DEF IInv
  <1>10. g.bsp \notin Mid /\ g'.bsp \notin Mid
    BY <1>3 DEF LoopTo, Mid, After
  <1>11. ApInv'
    BY <1>2, <1>4, <1>9, <1>10 DEF ApInv, GdtSame
  <1>12. StackInv'
    <2>1. \A i \in CpuIndex \ {0} : cpu[Lapic(i)].at \in SetUp => cpu[Lapic(i)].rsp \notin g'.free
      <3>1. ASSUME g.bsp = "free", NEW i \in CpuIndex \ {0}, cpu[Lapic(i)].at \in SetUp
            PROVE  cpu[Lapic(i)].rsp # g.smp_ap_stack
        BY <1>1, <1>9, <3>1 DEF StackInv, LoopInv, After, CpuIndex
      <3> QED
        BY <1>3, <1>9, <3>1 DEF StackInv
    <2>2. g'.bsp \notin {"wait", "done"} => g'.smp_ap_stack \notin g'.free
      BY <1>2, <1>3, <1>9 DEF StackInv, LoopTo, After
    <2> QED
      BY <1>2, <1>4, <1>9, <1>10, <2>1, <2>2 DEF StackInv
  <1> QED
    BY <1>11, <1>12

-----------------------------------------------------------------------------
(* The theorems *)

\* Every step preserves the invariant; after start-up nothing it speaks of changes.
LEMMA StepIInv ==
  ASSUME IInv, [Next]_vars PROVE IInv'
  <1>1. CASE BspNext
    <2>1. CASE pit_sleep_10 \/ pit_sleep_5 \/ pit_sleep_watch_flag \/ first_sipi \/ second_sipi
      BY <2>1, WaitingIInv DEF pit_sleep_10, pit_sleep_5, pit_sleep_watch_flag, first_sipi, second_sipi, Mid
    <2> QED
      BY <1>1, <2>1, BootApIInv, NextApIInv, AroundLoopIInv DEF BspNext
  <1>2. ASSUME NEW c \in Cpu, ApNext(c) PROVE IInv'
    BY SMTT(30), <1>2, ApIInv
  <1>3. CASE UNCHANGED bootVars
    BY <1>3 DEF bootVars, IInv, Types, LoopInv, ApInv, StackInv, NoLate
  <1> QED
    BY <1>1, <1>2, <1>3 DEF Next, BootNext, vars

\* The invariant gives each AP its own stack.
LEMMA IInvStackOwn == IInv => StackOwn
  <1> SUFFICES ASSUME IInv, Late = {} PROVE StackOwn
    BY SMTT(30) DEF StackOwn
  <1>1. StackInv
    BY NoLateIsLate DEF IInv
  <1>2. ASSUME NEW c \in OnStack PROVE \E i \in CpuIndex \ {0} : c = Lapic(i) /\ cpu[Lapic(i)].at \in SetUp
    BY ZeroIn DEF OnStack, Cpu
  <1> QED
    BY <1>1, <1>2 DEF StackOwn, StackInv

\* The invariant gives the trampoline to the CPU at g.index.
LEMMA IInvTrampolineAlone == IInv => TrampolineAlone
  <1> SUFFICES ASSUME IInv, Late = {} PROVE TrampolineAlone
    BY DEF TrampolineAlone
  <1>1. ASSUME NEW c \in Cpu, cpu[c].at \in Trampoline \/ (cpu[c].at = "sipi" /\ g.present[c])
        PROVE  c = Lapic(g.index) /\ g.trampoline
    <2>1. PICK i \in CpuIndex : c = Lapic(i)
      BY DEF Cpu
    <2>2. i = g.index /\ g.bsp \in Mid
      BY <1>1, <2>1, NoLateIsLate, StartingIsCurrent DEF Starting
    <2> QED
      BY <2>1, <2>2 DEF IInv, LoopInv
  <1>2. ASSUME NEW c \in Cpu, cpu[c].at = "sipi", g.present[c] PROVE g.tmp_gdt_ptr = "tmp_gdt"
    BY <1>1, <1>2, NoLateIsLate DEF IInv, ApInv
  <1> QED
    BY <1>1, <1>2 DEF TrampolineAlone, InTrampoline

\* Whatever the number of CPUs and whichever start-up IPIs are lost or APs given up:
\* as long as no AP is late, each AP has a stack of its own that is not free memory.
THEOREM StackOwnAlways == Spec => []StackOwn
  <1>1. Init => IInv
    BY InitIInv DEF Init
  <1>2. IInv /\ [Next]_vars => IInv'
    BY StepIInv
  <1> QED
    BY <1>1, <1>2, IInvStackOwn, PTL DEF Spec

\* Likewise the trampoline page and its descriptor table pointer: one AP at a time
\* uses them, and each finds them as the first one did.
THEOREM TrampolineAloneAlways == Spec => []TrampolineAlone
  <1>1. Init => IInv
    BY InitIInv DEF Init
  <1>2. IInv /\ [Next]_vars => IInv'
    BY StepIInv
  <1> QED
    BY <1>1, <1>2, IInvTrampolineAlone, PTL DEF Spec

-----------------------------------------------------------------------------
(* The counters of start-up and the barrier *)

\* Up to lapic_enable.
Early == NotStarted \cup Trampoline \cup {"kernel", "stack", "flag", "percpu"}

\* The CPUs that have counted themselves as ready, and those at the barrier.
Counted == {c \in Cpu : IF c = BSP THEN g.bsp # "init" ELSE cpu[c].at \in {"online"} \cup Queued}
AtBarrier == {c \in Cpu : cpu[c].at \in {"barrier", "run"}}

BarrierInv ==
  /\ g.smp_nr_cpus_ready = Cardinality(Counted)
  /\ g.schedulers_waiting = Cardinality(AtBarrier)
  /\ g.bsp = "init" => \A c \in Cpu \ {BSP} : cpu[c].at = "off"
  /\ g.bsp = "done" <=> cpu[BSP].at # "calibrated"
  /\ cpu[BSP].at # "calibrated" => Counted = Cpu
  /\ (\E c \in Cpu : cpu[c].at = "run") => AtBarrier = Cpu

\* The entries of the percpu table, and the types that are left.
TableInv ==
  /\ g.percpu_table \in [CpuIndex -> Cpu \cup {None, Unset}]
  /\ \A i \in CpuIndex : cpu[Lapic(i)].at \notin Early => g.percpu_table[i] = Lapic(i)
  /\ g.pit_lock \in Cpu \cup {None}
  /\ g.trampoline \in BOOLEAN /\ g.tmp_gdt_ptr \in {"tmp_gdt", "gdt64"}

\* The id of a CPU is its index.
LEMMA CpuId == \A i \in CpuIndex : smp_cpu_id_full(Lapic(i)) = i
  BY LapicInj DEF smp_cpu_id_full

\* There are at most as many CPUs as entries of lapic_list.
LEMMA CpuFinite ==
  /\ IsFiniteSet(Cpu) /\ Cardinality(Cpu) \in Nat /\ Cardinality(Cpu) <= lapic_list_size
  /\ \A S \in SUBSET Cpu : IsFiniteSet(S) /\ Cardinality(S) \in Nat /\ Cardinality(S) <= Cardinality(Cpu)
  <1>1. IsFiniteSet(CpuIndex) /\ Cardinality(CpuIndex) = lapic_list_size
    BY LapicList, FS_Interval DEF CpuIndex
  <1>2. IsFiniteSet(Cpu) /\ Cardinality(Cpu) <= lapic_list_size
    <2> DEFINE f == [i \in CpuIndex |-> Lapic(i)]
    <2>1. Cpu = {f[i] : i \in CpuIndex}
      BY DEF Cpu
    <2>2. f \in Surjection(CpuIndex, Cpu)
      BY <2>1 DEF Surjection, Cpu
    <2> QED
      BY <1>1, <2>2, FS_Surjection
  <1> QED
    BY <1>2, FS_Subset, FS_CardinalityType

\* What BarrierInv and TableInv depend on, of the CPUs.
Kept(d) ==
  \/ cpu'[d].at = cpu[d].at
  \/ d # BSP /\ cpu[d].at \in Early /\ cpu'[d].at \in Early /\ g.bsp # "init"

\* A step that moves CPUs about before lapic_enable only.
LEMMA KeptBarrier ==
  ASSUME BarrierInv, \A d \in Cpu : Kept(d),
         g'.smp_nr_cpus_ready = g.smp_nr_cpus_ready,
         g'.schedulers_waiting = g.schedulers_waiting,
         g'.bsp = g.bsp \/ (g'.bsp \notin {"init", "done"} /\ g.bsp \notin {"init", "done"})
  PROVE  BarrierInv'
  <1>1. \A d \in Cpu : /\ cpu'[d].at \in {"online"} \cup Queued <=> cpu[d].at \in {"online"} \cup Queued
                       /\ cpu'[d].at \in {"barrier", "run"} <=> cpu[d].at \in {"barrier", "run"}
                       /\ cpu'[d].at = "run" <=> cpu[d].at = "run"
                       /\ g.bsp = "init" => cpu'[d].at = cpu[d].at
                       /\ d = BSP => cpu'[d].at = cpu[d].at
    BY DEF Kept, Early, NotStarted, Trampoline, Queued
  <1>2. Counted' = Counted
    BY <1>1 DEF Counted
  <1>3. AtBarrier' = AtBarrier
    BY <1>1 DEF AtBarrier
  <1>4. BSP \in Cpu
    BY ZeroIn, LapicIn
  <1> QED
    BY <1>1, <1>2, <1>3, <1>4 DEF BarrierInv

\* Such a step keeps the entries of those behind lapic_enable.
LEMMA KeptTable ==
  ASSUME TableInv, \A d \in Cpu : Kept(d) \/ (cpu'[d].at \in Early),
         g'.percpu_table = g.percpu_table,
         g'.pit_lock \in Cpu \cup {None},
         g'.trampoline \in BOOLEAN, g'.tmp_gdt_ptr \in {"tmp_gdt", "gdt64"}
  PROVE  TableInv'
  <1>1. \A i \in CpuIndex : cpu'[Lapic(i)].at \in Early \/ cpu'[Lapic(i)].at = cpu[Lapic(i)].at
    BY LapicIn DEF Kept
  <1> QED
    BY <1>1 DEF TableInv

\* The steps of the BSP up to its wait for the APs.
LEMMA BspBarrier ==
  ASSUME IInv, BarrierInv, TableInv, BspNext, ~smp_init, ~smp_init_wait
  PROVE  BarrierInv' /\ TableInv'
  <1> DEFINE k == g.index
  <1>1. Types /\ LoopInv /\ lapic_list_size \in Nat /\ DOMAIN g = Fields
    BY ZeroIn DEF IInv, Types
  <1>2. g.bsp \in {"boot"} \cup Mid => k \in CpuIndex /\ k # 0 /\ Lapic(k) \in Cpu /\ Lapic(k) # BSP
    BY <1>1, LapicIn, LapicInj, ZeroIn DEF Types, LoopInv, CpuIndex
  <1>3. g.trampoline \in BOOLEAN /\ g.tmp_gdt_ptr \in {"tmp_gdt", "gdt64"}
    BY DEF TableInv
  <1>4. /\ g'.smp_nr_cpus_ready = g.smp_nr_cpus_ready
        /\ g'.schedulers_waiting = g.schedulers_waiting
        /\ g'.percpu_table = g.percpu_table
        /\ g'.trampoline \in BOOLEAN /\ g'.tmp_gdt_ptr \in {"tmp_gdt", "gdt64"}
        /\ g'.pit_lock \in Cpu \cup {None}
        /\ g'.bsp \notin {"init", "done"} /\ g.bsp \notin {"init", "done"}
    <2>1. BSP \in Cpu /\ g.pit_lock \in Cpu \cup {None}
      BY ZeroIn, LapicIn DEF TableInv
    <2>2. CASE smp_boot_ap
      BY <1>1, <1>3, <2>1, <2>2 DEF smp_boot_ap, Fields, LoopTo
    <2>3. CASE pit_sleep_10
      BY Zenon, <1>1, <1>3, <2>1, <2>3 DEF pit_sleep_10, pit_sleep, Fields, LoopTo
    <2>4. CASE pit_sleep_5
      BY ZenonT(30), <1>1, <1>3, <2>1, <2>4 DEF pit_sleep_5, pit_sleep, Fields, LoopTo
    <2>5. CASE pit_sleep_watch_flag
      BY Zenon, <1>1, <1>3, <2>1, <2>5 DEF pit_sleep_watch_flag, pit_sleep, Fields, LoopTo
    <2>6. CASE first_sipi \/ second_sipi
      BY <1>1, <1>3, <2>1, <2>6 DEF first_sipi, second_sipi, lapic_send_sipi, Fields, LoopTo
    <2>7. CASE ap_started
      BY ZenonT(30), <1>1, <1>3, <2>1, <2>7 DEF ap_started, Fields, LoopTo
    <2>8. CASE failed_to_boot
      BY ZenonT(30), <1>1, <1>3, <2>1, <2>8 DEF failed_to_boot, Fields, LoopTo
    <2>9. CASE unmap_trampoline \/ free_unused_stack
      BY ZenonT(30), <1>1, <1>3, <2>1, <2>9 DEF unmap_trampoline, free_unused_stack, Fields, LoopTo
    <2> QED
      BY <2>2, <2>3, <2>4, <2>5, <2>6, <2>7, <2>8, <2>9 DEF BspNext
  <1>7. \A d \in Cpu : Kept(d)
    <2>1. CASE smp_boot_ap
      <3>1. cpu[Lapic(k)].at = "off" /\ g.bsp = "boot"
        BY <1>1, <1>2, <2>1 DEF smp_boot_ap, LoopInv
      <3> QED
        BY <1>1, <1>2, <2>1, <3>1 DEF smp_boot_ap, Kept, Early, NotStarted, Types
    <2>2. CASE UNCHANGED cpu
      BY <2>2 DEF Kept
    <2>3. CASE first_sipi \/ second_sipi
      BY <1>1, <1>2, <2>3 DEF first_sipi, second_sipi, lapic_send_sipi, Mid, Kept, Early, NotStarted, Types
    <2> QED
      BY <2>1, <2>2, <2>3 DEF BspNext, pit_sleep_10, pit_sleep_5, pit_sleep_watch_flag, pit_sleep,
         ap_started, failed_to_boot, unmap_trampoline, free_unused_stack
  <1> QED
    BY <1>4, <1>7, KeptBarrier, KeptTable

\* smp_init counts the BSP.
LEMMA SmpInitBarrier ==
  ASSUME IInv, BarrierInv, TableInv, smp_init
  PROVE  BarrierInv' /\ TableInv'
  <1>1. DOMAIN g = Fields /\ BSP \in Cpu
    BY ZeroIn, LapicIn DEF IInv, Types
  <1>2. /\ g.bsp = "init" /\ g'.bsp \notin {"init", "done"} /\ cpu' = cpu
        /\ g'.smp_nr_cpus_ready = g.smp_nr_cpus_ready + 1
        /\ g'.schedulers_waiting = g.schedulers_waiting
        /\ g'.percpu_table = g.percpu_table /\ g'.pit_lock = g.pit_lock
        /\ g'.trampoline = TRUE /\ g'.tmp_gdt_ptr = g.tmp_gdt_ptr
    BY <1>1 DEF smp_init, Fields, LoopTo
  <1>3. TableInv'
    BY Zenon, <1>2 DEF TableInv
  <1>4. Counted' = Counted \cup {BSP} /\ BSP \notin Counted /\ AtBarrier' = AtBarrier
    BY <1>1, <1>2 DEF Counted, AtBarrier
  <1>5. Cardinality(Counted') = Cardinality(Counted) + 1
    <2>1. IsFiniteSet(Counted)
      BY CpuFinite DEF Counted
    <2> QED
      BY <1>4, <2>1, FS_AddElement
  <1>6. cpu[BSP].at = "calibrated"
    BY <1>2 DEF BarrierInv
  <1> QED
    BY <1>2, <1>3, <1>4, <1>5, <1>6 DEF BarrierInv

\* The BSP goes on when as many CPUs are ready as there are.
LEMMA SmpInitWaitBarrier ==
  ASSUME IInv, BarrierInv, TableInv, smp_init_wait
  PROVE  BarrierInv' /\ TableInv'
  <1>1. DOMAIN g = Fields /\ BSP \in Cpu /\ BSP = Lapic(0) /\ 0 \in CpuIndex
    BY ZeroIn, LapicIn DEF IInv, Types
  <1>2. /\ g.bsp = "wait" /\ g'.bsp = "done" /\ g.smp_nr_cpus_ready >= lapic_list_size
        /\ g'.smp_nr_cpus_ready = g.smp_nr_cpus_ready
        /\ g'.schedulers_waiting = g.schedulers_waiting
        /\ g'.percpu_table = g.percpu_table /\ g'.pit_lock = g.pit_lock
        /\ g'.trampoline = g.trampoline /\ g'.tmp_gdt_ptr = g.tmp_gdt_ptr
    BY <1>1 DEF smp_init_wait, Fields
  <1>3. cpu[BSP].at = "calibrated" /\ cpu'[BSP].at = "online" /\ \A d \in Cpu \ {BSP} : cpu'[d] = cpu[d]
    BY <1>1, <1>2 DEF smp_init_wait, BarrierInv, IInv, Types
  <1>4. Counted' = Counted /\ AtBarrier' = AtBarrier
    BY <1>2, <1>3 DEF Counted, AtBarrier
  <1>5. Counted = Cpu
    <2>1. Counted \in SUBSET Cpu
      BY DEF Counted
    <2>2. Cardinality(Counted) = Cardinality(Cpu)
      BY <1>2, <2>1, CpuFinite, ZeroIn DEF BarrierInv
    <2> QED
      BY <2>1, <2>2, CpuFinite, FS_Subset
  <1>6. ~\E c \in Cpu : cpu[c].at = "run"
    BY <1>1, <1>3 DEF BarrierInv, AtBarrier
  <1>7. BarrierInv'
    BY ZenonT(30), <1>2, <1>3, <1>4, <1>5, <1>6 DEF BarrierInv
  <1>8. TableInv'
    <2>1. \A i \in CpuIndex : cpu'[Lapic(i)].at \notin Early => cpu[Lapic(i)].at \notin Early
      BY <1>1, <1>3, LapicIn DEF Early, NotStarted, Trampoline
    <2> QED
      BY <1>2, <2>1 DEF TableInv
  <1> QED
    BY <1>7, <1>8

\* What a step of an AP writes to the fields the counters are about.
LEMMA ApFields ==
  ASSUME IInv, NEW c \in Cpu, ApNext(c)
  PROVE  /\ \A d \in Cpu \ {c} : cpu'[d] = cpu[d]
         /\ g'.bsp = g.bsp /\ g'.trampoline = g.trampoline
         /\ smp_ap_kmain(c) \/ g'.smp_nr_cpus_ready = g.smp_nr_cpus_ready
         /\ wait_for_schedulers(c) \/ g'.schedulers_waiting = g.schedulers_waiting
         /\ percpu_init_ap(c) \/ lapic_enable(c) \/ g'.percpu_table = g.percpu_table
         /\ g'.pit_lock \in {g.pit_lock, None, c}
         /\ g'.tmp_gdt_ptr \in {g.tmp_gdt_ptr, "tmp_gdt", "gdt64"}
  <1>1. Types /\ DOMAIN g = Fields
    BY DEF IInv, Types
  <1>2. ApSame /\ OthersSame(c)
    BY <1>1, ApEffect
  <1>3. /\ smp_ap_kmain(c) \/ g'.smp_nr_cpus_ready = g.smp_nr_cpus_ready
        /\ wait_for_schedulers(c) \/ g'.schedulers_waiting = g.schedulers_waiting
        /\ percpu_init_ap(c) \/ lapic_enable(c) \/ g'.percpu_table = g.percpu_table
    BY ZenonT(30), <1>1 DEF ApNext, smp_trampoline_16, smp_trampoline_64, fix_rip, load_stack,
       set_started_flag, percpu_init_ap, lapic_enable, lapic_timer_prepare, smp_ap_kmain,
       sched_run, wait_for_schedulers, Fields
  <1>4. /\ g'.pit_lock \in {g.pit_lock, None, c}
        /\ g'.tmp_gdt_ptr \in {g.tmp_gdt_ptr, "tmp_gdt", "gdt64"}
    BY Zenon, <1>1 DEF ApNext, smp_trampoline_16, smp_trampoline_64, fix_rip, load_stack,
       set_started_flag, percpu_init_ap, lapic_enable, lapic_timer_prepare, smp_ap_kmain,
       sched_run, wait_for_schedulers, Fields
  <1> QED
    BY ZenonT(30), <1>2, <1>3, <1>4 DEF ApSame, PlaceSame, OthersSame

\* Where a CPU goes in a step that is not about the counters.
LEMMA ApMoves ==
  ASSUME IInv, NEW c \in Cpu, ApNext(c)
  PROVE  \/ cpu[c].at \in Early \ {"off"} /\ cpu'[c].at \in Early
         \/ cpu[c].at = "percpu" /\ cpu'[c].at = "lapic"
         \/ cpu[c].at = "lapic" /\ cpu'[c].at = "calibrated"
         \/ cpu[c].at = "calibrated" /\ cpu'[c].at = "online" /\ smp_ap_kmain(c)
         \/ cpu[c].at = "online" /\ cpu'[c].at = "queued"
         \/ cpu[c].at = "queued" /\ cpu'[c].at = "barrier" /\ wait_for_schedulers(c)
         \/ cpu[c].at = "barrier" /\ cpu'[c].at = "run" /\ wait_for_schedulers(c)
  <1>1. cpu \in [Cpu -> [at : Stages, rsp : Stack \cup {NULL}]]
    BY DEF IInv, Types
  <1>2. CASE smp_trampoline_16(c) \/ smp_trampoline_64(c) \/ fix_rip(c) \/ load_stack(c)
             \/ set_started_flag(c) \/ percpu_init_ap(c)
    BY <1>1, <1>2 DEF smp_trampoline_16, smp_trampoline_64, fix_rip, load_stack,
       set_started_flag, percpu_init_ap, Advance, Early, NotStarted, Trampoline
  <1>3. CASE lapic_enable(c) \/ lapic_timer_prepare(c) \/ smp_ap_kmain(c) \/ sched_run(c)
    BY <1>1, <1>3 DEF lapic_enable, lapic_timer_prepare, smp_ap_kmain, sched_run, Advance
  <1>4. CASE wait_for_schedulers(c)
    BY <1>1, <1>4 DEF wait_for_schedulers, Advance
  <1> QED
    BY ZenonT(30), <1>2, <1>3, <1>4 DEF ApNext

\* The steps of an AP keep the percpu table.
LEMMA ApTable ==
  ASSUME IInv, TableInv, NEW c \in Cpu, ApNext(c)
  PROVE  TableInv'
  <1>1. PICK k \in CpuIndex : c = Lapic(k)
    BY ZenonT(30) DEF Cpu
  <1>2. DOMAIN g = Fields /\ smp_cpu_id_full(c) = k
    BY <1>1, CpuId DEF IInv, Types
  <1>3. /\ g'.pit_lock \in Cpu \cup {None}
        /\ g'.trampoline \in BOOLEAN /\ g'.tmp_gdt_ptr \in {"tmp_gdt", "gdt64"}
    BY ApFields DEF TableInv
  <1>4. \A i \in CpuIndex \ {k} : cpu'[Lapic(i)] = cpu[Lapic(i)]
    BY <1>1, ApFields, LapicIn, LapicInj
  <1>5. CASE percpu_init_ap(c)
    <2>1. g'.percpu_table = [g.percpu_table EXCEPT ![k] = Unset] /\ cpu'[c].at \in Early
      BY <1>2, <1>5 DEF percpu_init_ap, Advance, Fields, Early, IInv, Types
    <2>2. g'.percpu_table \in [CpuIndex -> Cpu \cup {None, Unset}]
      BY <2>1 DEF TableInv
    <2> QED
      BY <1>1, <1>3, <1>4, <2>1, <2>2 DEF TableInv
  <1>6. CASE lapic_enable(c)
    <2>1. g'.percpu_table = [g.percpu_table EXCEPT ![k] = c]
      BY <1>2, <1>6 DEF lapic_enable, Fields
    <2>2. g'.percpu_table \in [CpuIndex -> Cpu \cup {None, Unset}]
      BY <2>1 DEF TableInv
    <2> QED
      BY <1>1, <1>3, <1>4, <2>1, <2>2 DEF TableInv
  <1>7. CASE ~percpu_init_ap(c) /\ ~lapic_enable(c)
    <2>1. g'.percpu_table = g.percpu_table
      BY ZenonT(30), <1>7, ApFields
    <2>2. cpu'[c].at \in Early \/ cpu[c].at \notin Early
      BY <1>7, ApMoves DEF Early, NotStarted, Trampoline, ApNext, lapic_timer_prepare, smp_ap_kmain,
         smp_trampoline_16, smp_trampoline_64, fix_rip, load_stack, set_started_flag, sched_run,
         wait_for_schedulers, Advance
    <2> QED
      BY ZenonT(30), <1>1, <1>3, <1>4, <2>1, <2>2 DEF TableInv
  <1> QED
    BY <1>5, <1>6, <1>7

\* The steps of an AP keep the counters.
LEMMA ApBarrier ==
  ASSUME IInv, BarrierInv, NEW c \in Cpu, ApNext(c)
  PROVE  BarrierInv'
  <1>1. DOMAIN g = Fields /\ BSP \in Cpu
    BY ZeroIn, LapicIn DEF IInv, Types
  <1>2. cpu[BSP].at \in {"calibrated", "online"} \cup Queued
    BY SMTT(30) DEF IInv, LoopInv
  <1>3. cpu[c].at # "off" /\ (c # BSP => g.bsp # "init")
    <2>1. cpu[c].at # "off"
      BY ApMoves DEF Early
    <2> QED
      BY <2>1 DEF BarrierInv
  <1>4. \A d \in Cpu \ {c} : cpu'[d] = cpu[d]
    BY ApFields
  <1>5. g'.bsp = g.bsp
    BY ApFields
  <1>6. CASE \/ cpu[c].at \in Early \ {"off"} /\ cpu'[c].at \in Early
             \/ cpu[c].at = "percpu" /\ cpu'[c].at = "lapic"
             \/ cpu[c].at = "lapic" /\ cpu'[c].at = "calibrated"
    <2>1. c # BSP
      BY <1>2, <1>6 DEF Early, NotStarted, Trampoline, Queued
    <2>2. cpu[c].at \notin {"calibrated", "online", "queued", "barrier", "run"}
          /\ cpu'[c].at \notin {"online", "queued", "barrier", "run"}
      BY <1>6 DEF Early, NotStarted, Trampoline
    <2>3. Counted' = Counted /\ AtBarrier' = AtBarrier
      BY <1>4, <1>5, <2>1, <2>2 DEF Counted, AtBarrier, Queued
    <2>4. g'.smp_nr_cpus_ready = g.smp_nr_cpus_ready /\ g'.schedulers_waiting = g.schedulers_waiting
      BY <2>2, ApFields DEF smp_ap_kmain, wait_for_schedulers, Advance
    <2> QED
      BY <1>1, <1>3, <1>4, <1>5, <2>1, <2>2, <2>3, <2>4 DEF BarrierInv
  <1>7. CASE cpu[c].at = "calibrated" /\ cpu'[c].at = "online" /\ smp_ap_kmain(c)
    <2>1. c # BSP /\ g'.smp_nr_cpus_ready = g.smp_nr_cpus_ready + 1
          /\ g'.schedulers_waiting = g.schedulers_waiting
      BY <1>1, <1>7 DEF smp_ap_kmain, Fields
    <2>2. Counted' = Counted \cup {c} /\ c \notin Counted /\ AtBarrier' = AtBarrier
      BY <1>4, <1>5, <1>7, <2>1 DEF Counted, AtBarrier, Queued
    <2>3. Cardinality(Counted') = Cardinality(Counted) + 1
      <3>1. IsFiniteSet(Counted)
        BY CpuFinite DEF Counted
      <3> QED
        BY ZenonT(30), <2>2, <3>1, FS_AddElement
    <2>4. cpu[BSP].at = "calibrated" /\ cpu'[BSP].at = "calibrated"
      BY <1>1, <1>4, <2>1, <2>2 DEF BarrierInv
    <2>5. ~\E d \in Cpu : cpu'[d].at = "run"
      BY <1>1, <1>4, <1>7, <2>4 DEF BarrierInv, AtBarrier
    <2> QED
      BY <1>3, <1>5, <2>1, <2>2, <2>3, <2>4, <2>5 DEF BarrierInv
  <1>8. CASE cpu[c].at = "online" /\ cpu'[c].at = "queued"
    <2>1. Counted' = Counted /\ AtBarrier' = AtBarrier
      BY <1>4, <1>5, <1>8 DEF Counted, AtBarrier, Queued
    <2>2. g'.smp_nr_cpus_ready = g.smp_nr_cpus_ready /\ g'.schedulers_waiting = g.schedulers_waiting
      BY <1>8, ApFields DEF smp_ap_kmain, wait_for_schedulers, Advance
    <2> QED
      BY <1>1, <1>3, <1>4, <1>5, <1>8, <2>1, <2>2 DEF BarrierInv
  <1>9. CASE cpu[c].at = "queued" /\ cpu'[c].at = "barrier" /\ wait_for_schedulers(c)
    <2>1. g'.smp_nr_cpus_ready = g.smp_nr_cpus_ready /\ g'.schedulers_waiting = g.schedulers_waiting + 1
      BY <1>1, <1>9 DEF wait_for_schedulers, Advance, Fields
    <2>2. Counted' = Counted /\ AtBarrier' = AtBarrier \cup {c} /\ c \notin AtBarrier
      BY <1>4, <1>5, <1>9 DEF Counted, AtBarrier, Queued
    <2>3. Cardinality(AtBarrier') = Cardinality(AtBarrier) + 1
      <3>1. IsFiniteSet(AtBarrier)
        BY CpuFinite DEF AtBarrier
      <3> QED
        BY Zenon, <2>2, <3>1, FS_AddElement
    <2>4. ~\E d \in Cpu : cpu'[d].at = "run"
      BY <1>4, <1>9, <2>2 DEF BarrierInv
    <2> QED
      BY <1>1, <1>3, <1>4, <1>5, <1>9, <2>1, <2>2, <2>3, <2>4 DEF BarrierInv
  <1>10. CASE cpu[c].at = "barrier" /\ cpu'[c].at = "run" /\ wait_for_schedulers(c)
    <2>1. g' = g /\ g.schedulers_waiting >= g.smp_nr_cpus_ready
      BY <1>10 DEF wait_for_schedulers, Advance
    <2>2. Counted' = Counted /\ AtBarrier' = AtBarrier
      BY <1>4, <1>5, <1>10 DEF Counted, AtBarrier, Queued
    <2>3. AtBarrier \in SUBSET Counted /\ Counted \in SUBSET Cpu /\ BSP \in Counted
      <3>1. CASE cpu[BSP].at # "calibrated"
        BY <1>1, <3>1 DEF BarrierInv, AtBarrier
      <3>2. CASE cpu[BSP].at = "calibrated"
        BY <1>1, <1>3, <1>10, <3>2 DEF AtBarrier, Counted, Queued
      <3> QED
        BY <3>1, <3>2
    <2>4. AtBarrier = Counted
      <3>1. /\ IsFiniteSet(Counted) /\ Cardinality(Counted) \in Nat
            /\ Cardinality(AtBarrier) <= Cardinality(Counted) /\ Cardinality(AtBarrier) \in Nat
        BY <2>3, CpuFinite, FS_Subset
      <3>2. Cardinality(AtBarrier) = Cardinality(Counted)
        BY <2>1, <3>1 DEF BarrierInv
      <3> QED
        BY <2>3, <3>1, <3>2, FS_Subset
    <2>5. AtBarrier = Cpu
      BY <2>3, <2>4 DEF AtBarrier, BarrierInv
    <2> QED
      BY <1>1, <1>3, <1>4, <1>10, <2>1, <2>2, <2>5 DEF BarrierInv
  <1> QED
    BY <1>6, <1>7, <1>8, <1>9, <1>10, ApMoves

\* g is a record: an assignment to a field keeps the other fields.
Record == g = [x \in Fields |-> g[x]]

\* Every step of start-up assigns to fields.
LEMMA StepRecord == ASSUME Record, BootNext PROVE Record'
  <1>1. CASE BspNext
    BY Zenon, <1>1 DEF Record, Fields, BspNext, smp_init, smp_boot_ap, pit_sleep_10, first_sipi, pit_sleep_5,
       second_sipi, pit_sleep_watch_flag, ap_started, failed_to_boot, unmap_trampoline,
       free_unused_stack, smp_init_wait, pit_sleep, lapic_send_sipi
  <1>2. ASSUME NEW c \in Cpu, ApNext(c) PROVE Record'
    BY ZenonT(30), <1>2 DEF Record, Fields, ApNext, smp_trampoline_16, smp_trampoline_64, fix_rip, load_stack,
       set_started_flag, percpu_init_ap, lapic_enable, lapic_timer_prepare, smp_ap_kmain,
       sched_run, wait_for_schedulers
  <1> QED
    BY <1>1, <1>2 DEF BootNext

\* What a CPU behind the barrier relies on, inductively.
BootInv == IInv /\ BarrierInv /\ TableInv /\ Record

\* The counters are 0 and only the BSP has an entry when kmain calls smp_init.
LEMMA InitBootInv == BootInit => BootInv
  <1> SUFFICES ASSUME BootInit PROVE BootInv
    OBVIOUS
  <1>1. /\ g.bsp = "init" /\ g.smp_nr_cpus_ready = 0 /\ g.schedulers_waiting = 0
        /\ g.pit_lock = None /\ g.trampoline = FALSE /\ g.tmp_gdt_ptr = "tmp_gdt"
        /\ g.percpu_table = [i \in CpuIndex |-> IF i = 0 THEN BSP ELSE None]
    BY DEF BootInit
  <1>2. \A c \in Cpu : cpu[c].at = IF c = BSP THEN "calibrated" ELSE "off"
    BY DEF BootInit
  <1>3. BSP \in Cpu /\ BSP = Lapic(0)
    BY ZeroIn, LapicIn
  <1>4. Counted = {} /\ AtBarrier = {}
    BY <1>1, <1>2 DEF Counted, AtBarrier, Queued
  <1>5. BarrierInv
    BY <1>1, <1>2, <1>3, <1>4, FS_EmptySet DEF BarrierInv
  <1>6. TableInv
    <2>1. \A i \in CpuIndex : Lapic(i) \in Cpu /\ (Lapic(i) = BSP => i = 0)
      BY <1>3, ZeroIn, LapicIn, LapicInj
    <2> QED
      BY Zenon, <1>1, <1>2, <1>3, <2>1 DEF TableInv, Early, NotStarted
  <1>7. Record
    BY Zenon DEF BootInit, Record, Fields
  <1> QED
    BY <1>5, <1>6, <1>7, InitIInv DEF BootInv

\* Every step preserves it.
LEMMA StepBootInv == ASSUME BootInv, [Next]_vars PROVE BootInv'
  <1>1. IInv' /\ IInv /\ BarrierInv /\ TableInv /\ Record
    BY StepIInv DEF BootInv
  <1>2. CASE BspNext
    BY <1>1, <1>2, BspBarrier, SmpInitBarrier, SmpInitWaitBarrier, StepRecord DEF BootInv, BootNext
  <1>3. ASSUME NEW c \in Cpu, ApNext(c) PROVE BootInv'
    BY <1>1, <1>3, ApBarrier, ApTable, StepRecord DEF BootInv, BootNext
  <1>4. CASE UNCHANGED bootVars
    BY Zenon, <1>1, <1>4 DEF bootVars, BootInv, BarrierInv, TableInv, Counted, AtBarrier, Record
  <1> QED
    BY <1>2, <1>3, <1>4 DEF Next, BootNext, vars

\* With a CPU behind the barrier, all CPUs are at it: each has its entry and its queue.
LEMMA BootInvCpus == BootInv => CpusInitialised
  <1> SUFFICES ASSUME BootInv, NEW c \in Cpu, cpu[c].at = "run",
                      NEW i \in 0..(g.smp_nr_cpus_ready - 1)
               PROVE  g.percpu_table[i] = Lapic(i) /\ cpu[Lapic(i)].at \in Queued
    BY DEF CpusInitialised
  <1>1. BarrierInv /\ TableInv /\ AtBarrier = Cpu
    BY DEF BootInv, BarrierInv
  <1>2. g.smp_nr_cpus_ready \in Nat /\ g.smp_nr_cpus_ready <= lapic_list_size
    <2>1. Counted \in SUBSET Cpu
      BY DEF Counted
    <2> QED
      BY <1>1, <2>1, CpuFinite, ZeroIn DEF BarrierInv
  <1>3. i \in CpuIndex
    BY <1>2, ZeroIn DEF CpuIndex
  <1>4. cpu[Lapic(i)].at \in {"barrier", "run"}
    BY <1>1, <1>3, LapicIn DEF AtBarrier
  <1> QED
    BY <1>1, <1>3, <1>4 DEF TableInv, Early, NotStarted, Trampoline, Queued

\* Whatever the number of CPUs and in whatever order they become ready: a CPU behind
\* the barrier finds a percpu entry and a run queue under every number it may use.
THEOREM CpusInitialisedAlways == Spec => []CpusInitialised
  <1>1. Init => BootInv
    BY InitBootInv DEF Init
  <1>2. BootInv /\ [Next]_vars => BootInv'
    BY StepBootInv
  <1> QED
    BY <1>1, <1>2, BootInvCpus, PTL DEF Spec

\* The shared memory of start-up keeps its types.
LEMMA BootInvTypes == BootInv => BootTypeOK
  <1> SUFFICES ASSUME BootInv PROVE BootTypeOK
    OBVIOUS
  <1>1. Types /\ TableInv /\ Record
    BY DEF BootInv, IInv, Types
  <1>2. g.smp_nr_cpus_ready \in 0..lapic_list_size /\ g.schedulers_waiting \in 0..lapic_list_size
    <2>1. Counted \in SUBSET Cpu /\ AtBarrier \in SUBSET Cpu
      BY ZenonT(30) DEF Counted, AtBarrier
    <2> QED
      BY <2>1, CpuFinite, ZeroIn DEF BootInv, BarrierInv
  <1>3. g \in Globals
    BY <1>1, <1>2 DEF Types, TableInv, Record, Fields, Globals, Mid, After
  <1> QED
    BY <1>1, <1>3 DEF BootTypeOK, Types
=============================================================================
