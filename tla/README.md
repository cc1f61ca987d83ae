# ByteOS in TLA+

TLA+ specifications of the ByteOS kernel, the TLC configurations that check
them on small instances, and TLAPS proofs about the locks, the scheduler, the
start-up, the kernel heap, copy on write and the address spaces for every number
of CPUs, tasks, processes and pages.
Paths are relative to the repository.

## The system

ByteOS is a small SMP kernel for x86-64. What it consists of, the state each
part keeps, and what makes it hard:

| part | code | state | operations | what is hard |
| --- | --- | --- | --- | --- |
| spin locks, reader-writer lock | `kernel/smp/spin.asm`, `include/sync.h` | one word per spin lock; a count and two spin locks per rwlock; `preempt_count` per CPU | lock, unlock; read and write lock and unlock | two spin locks inside one lock; a lock taken on one CPU and released on another |
| scheduler | `kernel/proc/sched.c`, `runq.c`, `switch_to.asm` | a run queue per CPU (red-black tree, count, lock), `current_task`, task states and vruntimes | `schedule`, `runq_add`, `runq_next`, `runq_balance_pull`, `switch_to` | CPUs that pull tasks from each other; a task visible in a queue before its context is saved; two locks at a time |
| tasks | `kernel/proc/task.c`, `fork.asm` | task structs, tids | fork, wakeup, exit, execve | a task that exits is the running one |
| timer, interrupts | `kernel/cpu/isr.c`, `isr_stubs.asm`, `idt.c`, `kernel/drivers/apic/lapic.c` | `reschedule`, slices, interrupt depth, vectors in service | tick, dispatch, acknowledge, preempt | nesting, preemption of kernel code |
| SMP start-up | `kernel/smp/smp.c`, `trampoline.asm`, `kernel/cpu/percpu.c` | ready count, stack of the next AP, trampoline page | boot an AP, barrier | time-outs, lost IPIs, late APs |
| physical memory | `kernel/mm/pmm.c` | zones with free lists threaded through `page_data` | zone set-up, allocate, free | stale links, merging by looking at links |
| kernel heap | `kernel/mm/slob.c` | a free list | `kmalloc`, `kfree` | splitting and exact fits |
| address spaces | `kernel/mm/vmm.c`, `mmu.c`, `cow.c`, `tlb.c` | page tables, page reference counts, the CPUs that use a table | map, clone, write fault, reap, shootdown | reference counts without a lock; a CPU with a stale translation |
| boot memory map | `kernel/mm/mmap.c` | sorted region lists | insert, delete, allocate low | merging regions on both sides |
| inode cache, VFS | `kernel/fs/` | hash table of counted inodes | get, put, walk, read | failures halfway |
| containers | `libk/ds/rbtree.c`, `include/ds/` | trees, lists, hash tables | insert, erase, iterate | rebalancing |
| console | `libk/kprintf.c`, `kernel/drivers/vga_tmode/` | console lock, screen, parser state | print, panic | printing in interrupts, messages that mix |
| devices | `kernel/drivers/` | device registers | parse tables | I/O |

The timer tick calls into the scheduler, the scheduler runs under the spin
locks, `task_fork` allocates from the heap and the physical memory manager and
clones an address space, and page faults allocate and free pages. Everything
prints through one console lock, interrupt handlers and panics included. The
scheduler starts on a CPU when the SMP start-up has brought it to the barrier.

## Modules

| module | models | |
| --- | --- | --- |
| `RwSpinLock` | spin locks and the reader-writer lock | state machine, properties, inductive invariant |
| `RwSpinLockProofs` | | TLAPS proofs about `RwSpinLock` |
| `Sched` | scheduler, run queues, fork and wakeup, tick, start barrier | state machine, properties, inductive invariant |
| `SchedProofs` | | TLAPS proofs about `Sched` |
| `PMM` | the buddy allocator | state machine, properties |
| `Allocator` | what the buddy allocator promises | abstract specification |
| `Slob` | the kernel heap | state machine, properties |
| `SlobProofs` | | inductive invariant of `Slob` and TLAPS proofs |
| `BootMem` | from the boot loader's memory map to the zones | state machine, properties |
| `Cow` | copy on write: fork, write faults, exit | state machine, properties |
| `PrivateMemory` | what fork promises | abstract specification |
| `CowInvariant` | | inductive invariant of `Cow`; stores, faults and the start of exit preserve it |
| `CowProofs` | | fork and the rest of exit, the properties of `Cow`, the refinement |
| `RbTree` | the red-black tree, on pointers | state machine, properties |
| `OrderedQueue` | what `Sched` takes a run queue's tree for | abstract specification |
| `Vectors` | gates, stubs and the table of handlers | operators |
| `Vga` | escape sequence parser and text screen | operators |
| `Interrupts` | nested interrupts, preemption, console, panic; uses `Vectors` and `Vga` | state machine, properties |
| `SmpBoot` | start-up of the CPUs | state machine, properties |
| `SmpBootProofs` | | TLAPS proofs about `SmpBoot`, as a part of `Tlb` |
| `Tlb` | address spaces and TLBs on the CPUs that `SmpBoot` has started | composition with `SmpBoot`, properties |
| `TlbInvariant` | | inductive invariant of `Tlb`; switches, execve and faults preserve it |
| `TlbProofs` | | the end of a fault and fork, the properties of `Tlb` |
| `MCRwSpinLock`, `MCSched`, `MCPMM`, `MCBootMem`, `MCRbTree`, `MCInterrupts`, `MCTlb` | | instances for TLC |

Operators named *mutant* in a comment are deliberately wrong variants of the
definition that follows them. Each is used to show that a property would notice
such a bug; no specification uses them.

### RwSpinLock

State: the two lock words, `readers`, `preempt_count` of each CPU, and a program
counter per CPU. A step is one access to shared memory: the `xchg` that
succeeds, the atomic increment of `readers`, the store that releases. Failing
iterations of the spin loop change nothing. `preempt_count` is a 32-bit word in
the code; `PreemptMod` is its modulus, so that the wrap below zero is modelled.
A CPU enters the lock whenever it likes, and `Work` is everything it does once
it has entered.

### Sched

State: per task its state, vruntime, slices and `TASK_RUNNING`; per CPU its run
queue, `num_threads`, lock, current task, the local variables of `schedule` and
a program counter; and the two counters of the start-up. The tree of a run queue
is its in-order sequence, because the code inserts by key and takes the leftmost
node. `schedule` is split where another CPU can come in: after `runq_add`, after
each `runq_next`, between the two locks of the balancer, before and after the
flags are swapped, before `switch_to`. A critical section under a single lock is
one step.

`schedule` makes the current task visible to other CPUs before its stack pointer
is saved. When another CPU switches to such a task (`switch_to_stale`), two CPUs
are on one stack: the model stops there, in `lost`, and the properties that
follow a task say nothing of it afterwards.

Left out: exit, preemption inside `schedule` (`Interrupts`) and the shape of the
tree (`RbTree`).

### PMM and Allocator

State: the heads of the free lists, the `next`, `prev` and `order` fields of
every `struct page`, the blocks that callers hold, and the operation in
progress. `zone_list_lock` is held from the start to the end of an operation; a
step is an iteration of a loop or a level of the recursion. Pages that leave a
list keep the fields the code leaves in them, which matters because
`is_page_free` decides by looking at the links. So does what a `struct page` holds at
first: `reserve_page_data` clears as many as the zone has pages, counted from the first
page of the region, and the others hold a `Leftover`. `Allocator` knows free pages,
held blocks and the order a caller waits for; `Implements` is the refinement.

### Slob

State: the free list as the code threads it through block headers (`head`,
`next`, `units` per unit of memory), the blocks callers hold with the size they
asked for, and the call in progress. `slob_lock` is held from start to end; a
step is an iteration of `slob_alloc`'s loop. Sizes are rounded up to units as
the code does, header included; a request that does not fit into a page panics, as in
the code. An exact match at the head of the list is handed out and stays in
the list (`slob.c:64`): the model stops there, and the other properties hold up to
that point.

### BootMem

State: the two region lists, `highest_mapped`, the page tables and mapped pages,
the frames given out, the loop variables of the function that runs, and the
zones. Boot runs on one CPU; what is interleaved is a loop and the allocations
inside its body, which change the list the loop walks. Between `vmm_map_all` and
`pmm_init`, `acpi_init` and `apic_init` map tables and registers (`map_firmware`), any of
`Firmware` in any order, and may need page tables for them. `mmap_insert_region` is a
function of a list, as the code's loop computes it, with the branch that merges
and goes on. Addresses are counted in grains of a quarter of a page, and unsigned
differences wrap. Which tables are missing for a page follows from the span of a
table at each level. The spans are small, so that tables are needed often. The
order of blocks within a zone is `PMM`'s.

### Cow and PrivateMemory

State: the page table entries of each process, the reference count, lock and
contents of each frame, the frames of the allocator, and where each process is in
`task_fork`, the page fault handler or `task_exit`. Processes have one thread, so
`pgtab_lock` and the entries are private and every access to what processes share
is a step of its own. Slots are the writable pages; the pages of the kernel's image
that `task_execve` maps and the page tables themselves are left out.
`PrivateMemory` gives every process memory of its own; `Implements` says that
sharing pages cannot be told from it.

`cow_handle_write` drops its reference before it copies, and `cow_handle_free`
does not take the page lock, so exit can free the page that is being copied. The
model stops in that state (`FreedWhileCopied`); the properties hold up to it.

### RbTree and OrderedQueue

State: the fields of every node (`left`, `right`, `parent`, `black`), `root`,
`most_left`, `num_threads` and the operation under way. Mirrored halves of the code
are one definition with a side as a parameter. An iteration of a loop of `rb_insert`
or `erase_rebalance` is a step, so `LoopsClimb` can say that each one moves up and
`SiblingExists` that the pointers it follows are there. `OrderedQueue` inserts a node
behind the equal keys and removes any; `Implements` says that the tree's in-order
sequence does just that, which is how `Sched` treats it.

### Interrupts, Vectors and Vga

State: per CPU the running task, its run queue, the interrupt flag, `int_depth`,
`reschedule`, `preempt_count` and the vectors in service; per task the stack of the
functions it is in; the console lock and the screen. A step is a step of the topmost
function of the running task, or an interrupt that enters. `Vectors` computes from
`idt.c`, `isr_stubs.asm` and `exceptions_init` which handler a vector reaches, by way
of the error code's low byte. `Vga` is the parser and the screen, character by
character, with the banner in row 0. `kprintf` is one step per character, so that
interrupts, other CPUs and panics come in between.

Preemption can enter `schedule` while the same CPU is in it. The task is then linked
into the tree twice, or the CPU spins on the lock it holds: the CPU is "wrecked" and
not followed further.

### SmpBoot and Tlb

`SmpBoot`: the globals of `smp.c` and `percpu.c` as one record, and how far each CPU
is. The boot processor goes through `smp_init` and `smp_boot_ap` up to each sleep and
IPI; an AP through the trampoline, `percpu_init_ap`, `lapic_enable`, `smp_ap_kmain` and
the barrier. Time is left out: a sleep ends at any moment, so an AP may be slower than
the time-outs, and a start-up IPI may be lost. An AP that starts after it was given up
is in `Late`; it takes the stack of the next AP, a freed one or none, and the
properties are about start-ups without such an AP.

`Tlb` extends it: when the CPUs are in the scheduler they switch between tasks that
exec, fork processes and threads and fault. State: the task and the page table of each
CPU, the step of `mmu_switch` it is at, what its TLB holds of the user page, and the
`mmu_info` of each address space with its entry, users, lock and CPU set. The hardware
fills a TLB from the loaded table whenever it likes. Address spaces have one page;
`Cow` looks at sharing in detail. Of the CPU sets only init's is kept, because no
other is read. `mmu_alloc` and `mmu_init` in `task_execve` are one step; its branch for
a task that has an address space already (`task.c:115`) is reached by no caller and left
out. The shootdown is there in DEBUG builds only (`vmm.c:207`), which is what the model
is of. `shootdown_lock` and `cpu_lock` are held while it spins, also by a task that is
preempted there: the CPU it was on then waits for `cpu_lock` in `mmu_switch`.

## Runs

| run | shows | size |
| --- | --- | --- |
| `rwlock` | exclusion, the inductive invariant, balanced preempt counts, progress | 3 CPUs |
| `sched` | each runnable task in one place, queues sorted, queues exist before use, the balancer gets its second lock | 3 CPUs, 2 tasks |
| `sched_saved` (violated) | a task is switched to before its context is saved | 2 CPUs |
| `pmm` | pages partitioned, lists sound and their blocks in place, refinement, operations end | 3 zones, 6 pages |
| `slob` | pages tiled by blocks, each free or held; requests satisfied; the loop ends after one new page | 2 pages of 5 units |
| `boot` | regions sorted and apart; frames given once and usable; frames and pages mapped unless their region was stepped over; zones in place and complete; boot ends | 195 maps of 16 pages |
| `cow` | reference counts, writable pages mapped once, no frame lost or freed early, private memory, page locks released | 3 processes, 1 page each |
| `rbtree` | red-black after every operation, cached first node, no null sibling, loops climb, refinement of the ordered queue | 10 nodes, equal keys |
| `interrupts` | interrupt depth, acknowledgement, console held with interrupts off only, screen shows whole messages, a panic's message stays | 2 CPUs, 3 tasks, a tick, a key, an NMI, IPIs |
| `interrupts_nested` (violated) | a tick inside `schedule` enters it again | the same |
| `smp` | stacks and trampoline used by one AP, CPUs set up when the barrier opens, start-up ends; user code sees its own page table, no stale entry with one thread, panics only with threads | 3 of 4 CPUs, 3 tasks on 2 of them |
| `smp_cpuset` (violated) | the CPU set of an address space is not the CPUs that use it | the same |

The type invariant of a module is a conjunct of the run's main invariant, except in
`RwSpinLock` (a part of `IInv`) and `Sched`, where it is proved; so are `ThreadsCounted`
and `NextRunnable` of `Sched`.

Bounds. Three CPUs are two overlapping readers, first and last in both orders,
and a writer; the circle of waiting CPUs that `sched` excludes needs three
as well. Two tasks and the idle tasks give an idle CPU and pulls while all CPUs are in
`schedule`; queues of any length are covered by the proofs. `MaxV` bounds how often a task enters
`schedule`; it is the only reason why a behaviour of `Sched` ends, so deadlock is
not checked there. A zone of four pages has blocks of all three orders, splits across
two orders and merges; the zones of one page around it start behind their struct zone, at
a page whose buddy is not theirs and whose own `struct page` was not cleared. The zones
are such that every buddy the code looks at has been cleared: regions that start at the
boundary of a larger block, or right behind one, and do not end within one. `PMM` ends only
in the panic of an allocation that may not fail. Heap pages of five units make a
split, an exact fit, a rest of one unit and a request for a whole page possible.
The maps of `boot` have low memory, the kernel's region, holes, adjacent entries
and entries of less than a page at various places, on both sides of
`KERNEL_PHYS_MAP_END`, and regions that the page tables use up with others behind them,
so that `vmm_map_all` steps over one. `SteppedOver` is the condition of `AllMapped` and
`GivenMapped`: no page of the stretch of memory is mapped, and another stretch has no
page left in the list. The two pages of `Firmware` need a page table each. In 52 of the maps
memory always runs out, in 47 more it does with some of these pages, and boot panics as
the code does. `MapAssumption` and `PageAssumption` say what is assumed of them: entries
ascend and do not overlap, usable memory ends at a page boundary, and the page the
kernel ends in has room for a `struct zone`. Three processes are enough for a page
that is shared by three, with a fault, a fork and an exit at once; slots do not
interact, so one is enough, and with as many frames as entries an allocation
never fails. Ten nodes are the fewest with which a removal climbs two levels (case 2
of `erase_rebalance` twice): with nine it never does. The screen of `interrupts` has
three columns and three rows, so that lines wrap and the screen scrolls within a
message; the bounds on ticks, keys and NMIs end its behaviours, and so does a panic.
In `smp` the table has an entry more than `lapic_list`; two CPUs get tasks (`Worker`),
enough for a task to migrate and a thread to fault on the other CPU; a start-up with an
AP given up and a shootdown that is not answered stop the system, hence no deadlock
check.

Fairness. `RwSpinLock` assumes that a CPU that has entered the lock's code
keeps executing it, `Sched` that kernel code does and that every CPU boots, `PMM`
that the holder of `zone_list_lock` does, `Slob` the same of `slob_lock`, and
`BootMem` of the only CPU that runs, `Cow` of a process that is in the kernel, and
`SmpBoot` of each CPU in its start-up code, with sleeps that end. `RbTree` and
`Interrupts` have no liveness property: `LoopsClimb` bounds the loops of the tree.
Nothing is assumed of the order in
which a spin lock is granted: `Progress` says that the lock does not wedge, not that a
given CPU gets it. `BalanceEnds` says that each CPU that waits for its second run queue
lock gets it; as `MaxV` bounds how often others come first, this excludes a circle of
waiting CPUs and does not show that a lock is fair.

## Disagreements between the code and what it says

Each has a run that TLC ends with a counterexample.

* `schedule` queues the current task (`sched.c:23`) before `switch_to` has saved
  its stack pointer, and another CPU may switch to it (`sched_saved`).
* A tick inside `schedule` enters `schedule` again, although it starts with "Disable
  preemption": nothing reads `preempt_count` (`isr.c:70`, `interrupts_nested`).
* `mmu_switch` takes the CPU out of the set of the address space it loads and enters
  it into the set of the one it leaves (`mmu.c:53`, `smp_cpuset`). A task preempted
  during execve and continued elsewhere then waits in `tlb_shootdown` for the CPU it
  has left, for ever: no handler of the IPI is registered.

Eight more are stated as properties that TLC refutes when they are added to the
configuration of the module; the comment at the property names the lines:
`OrderInRange` (`PMM`, with `Zones <- FourBlocks`, `MAX_ORDER = 2`, `NPage = 8` and
`Leftover <- Zeroes`): `__pmm_free_order` does not stop at the last list. `MergedInZone`
(`PMM`, with `Zones <- UnalignedEnd`): it looks at buddies behind the end of a zone,
whose `struct page` nobody has cleared. `AllocsMapped` (`BootMem`): "Mmap low allocs are
guaranteed to be mapped" (`vmm.c:59`), but `vmm_map_all` steps over a region when the one
before it is used up for page tables (`vmm.c:40`), and its frames are given out once
`highest_mapped` is above it. `PageDataReady` (`BootMem`): the last `struct page` of a
zone whose region starts at a page boundary is not cleared (`pmm.c:43`). `HeldNotListed` (`Slob`):
`slob_alloc` leaves an exact match at the head of the list in the list.
`ZonesExclusive` (`BootMem`): `pmm_init` makes zones of a copy of the region list that
does not know of the frames it takes for `page_data`. `NothingLost` (`BootMem`):
`mmap_alloc_low` drops the part of a region above `highest_mapped`, which is 16 MiB when
the first page table is taken. And `PreemptsNonIrq` (`Interrupts`): an interrupt that
has just been entered is not yet counted in `int_depth`, so a task may be switched out
of it, against the comment at `isr.c:69`.

Noticed while modelling, without a run: `num_slices` is never reset
(`lapic.c:127`), so after its first quantum a task is preempted at every tick;
a page can be freed while a write fault copies it (`cow.c:71`, see above);
`isr_global_handler` takes the number of an exception from the low byte of its
error code (`isr.c:52`), and `exceptions_init` has its two handlers exchanged
(`exceptions.c:115`), which together happen to bring page faults to the right
one; `task_wakeup` makes the task runnable
before `runq_add` tests for it (`task.c:89`, `runq.c:77`), so a fresh vruntime is
never set; `is_page_free` does not recognise the head of a list (`pmm.c:208`), so
some free buddies stay unmerged; the last reader of a lock decrements the preempt
count of its own CPU for a lock another CPU took (`sync.h:49`);
`mmap_insert_region` goes on after it has merged a region below another
(`mmap.c:36`) and inserts it a second time, which happens to the list of reserved
regions only.
In the start-up: a late AP uses the stack of the next one (`smp.c:57`); `smp_init` waits
for ever when an AP was given up (`smp.c:102`); the flag "set by the AP when
initialisation is complete" (`smp.c:42`) is set before `percpu_init_ap`;
`percpu_init_ap` leaves `int_depth` and `reschedule` uninitialised; `pit_sleep_ms` drops
the rest of a sleep above 54 ms, which no caller asks for; `get_max_redirs` is one short
(`ioapic.c:40`). In the address spaces: threads that share one panic through entries
that another's fault made stale, and fork does not flush the other threads' CPUs
(`exceptions.c:65`); `mmu_reap` flushes no other CPU (`mmu.c:132`); a task preempted
between `mmu_alloc` and `mmu_init` would be resumed with a null page table
(`task.c:114`); `cpuset_is_pinned` is always true; the handlers of `ipi.c` are
registered nowhere. On the console: a panic takes the lock before it disables
interrupts (`libk.h:45`), so an interrupt that prints in between hangs its CPU; an
unknown format panics inside the lock (`kprintf.c:133`); an NMI that panics during
`kprintf` waits for its own CPU; the mask for background colours keeps a bit of the old
one (`cansid.c`). Exit of the running task removes from the tree a node that is not in
it, which empties the tree (`task.c:97`). In the file system: the count of a null inode
is incremented when `read_inode` fails (`inode_cache.c:68`), `root_hdr` is never set,
the superblock's root is a blank inode, a lookup never returns what it found, and
`ustar` steps over a file's contents but not over its header.

## Proofs

TLC checks an instance; the theorems below hold for every value of the constants that
satisfies the `ASSUME`s. Each module states its inductive invariant, shows that it holds
initially and that every action preserves it, and draws the properties of the runs
from it.

`RwSpinLockProofs`, for every finite set of CPUs: `TypeCorrect`, `Invariance`
(`Spec => []IInv`), `Exclusion` (`Spec => []RWExclusion`) and `PreemptBalanced`
(`Spec => []PreemptBalancedOverall`). Exclusion alone is not inductive: a lock word does
not say who holds it. `IInv` adds that the holder of `rd_lock` is alone (`RdExclusion`),
that `readers` is the number of CPUs between their increment and decrement
(`ReadersCounted`), that `wr_lock` is 1 exactly when a writer, or some reader or the last
one to leave, uses it (`WrWord`), and that the CPU that takes or releases `wr_lock` for
the readers is the only counted one, or leaves none (`FirstAndLast`). For the preemption
counts each place in the code owes a number of units (`Owed`), and the readers together
owe one more while they have `wr_lock` (`Group`): the first reader takes it and the last
gives it back, perhaps on another CPU, so only the sum of all counts balances
(`Balanced`), modulo the width of a counter. The sum is the cardinality of a set of pairs
(`Total`), which the library's facts on finite sets can handle.

`SchedProofs`, for every number of CPUs, every set of tasks and every bound:
`Step` (`IInv` is inductive), `Invariance`, and from it `TypeCorrect`,
`OnePlaceAlways`, `NoneLostAlways`, `ThreadsCountedAlways`, `QueueSortedAlways`
and `NextRunnableAlways`. Besides the properties `IInv` says that no task exists
before the first, that CPUs before the barrier have none (`Startup`), that only
runnable tasks are queued or held (`PlacedRunnable`), that a child before its
wakeup is known to one CPU (`Children`), and that the balancer looks at another
CPU's queue (`PullsFromOther`). The proof rests on lemmas about sequences (what
`tree_insert` and `Tail` do to elements, order and length), on two lemmas that
lift them to all run queues, and has one lemma per group of actions. That
vruntime may be incremented by `schedule` without breaking the order is
`OtherVruntime`: the task is in no queue at that moment, by `OnePlace`.
`QueuesExistAlways` has an invariant of its own (`Barrier`): the two counters of the
start-up are the numbers of CPUs that have come up and that have arrived, CPU 0 arrives
when all have come up, and a CPU is through when all have arrived.

`SlobProofs`, for all sizes of pages and headers, numbers of pages and requests:
`TiledAlways` and `LoopsOnceAlways`. The free list is described by the sequence of its
blocks, which `next` visits from `head` in this order and without repetition (`List`);
the scan of `slob_alloc` is somewhere along it (`Scan`). The blocks of the list and
those that are held lie each within a page, do not overlap and leave no gap (`Tiles`),
and none is both (`Once`). Each operation takes a block out of the sequence, cuts one,
or puts one in front. `Listed` follows the pointers by recursion; `WalkList` shows that
this meets the sequence and then ends. Up to the state in which an exact match at the head
is in the list and held, that is all of `Tiled`; in that state what `Tiled` says of the
list's end and of the requests still holds.

`CowInvariant` and `CowProofs`, for all processes, slots, frames and contents:
`CountedAlways`, `FramesAccountedAlways` and the refinement `CowImplements`. The count
of a page does not tell who maps it: a process that has dropped its reference maps the
page until it has copied or freed it. `Alone` says for each of these moments who else
may map the page: nobody when a process may write to it without a fault or a fault is
about to make it writable, and only faults that are copying it when exit frees it. `Refs` is the count,
`Frames` that the allocator has what nobody maps, and `Forks` and `Faults` what a parent
and a faulting process know. For the refinement each action is shown to change what the
processes see (`View`) as an action of `PrivateMemory` does or not at all; the store of a
process changes its own view only because of `WriterAlone`. The temporal part,
`Spec => Implements`, follows from the initial states and the steps; `PrivateMemory`
states no fairness.

`SmpBootProofs`, for every number of CPUs, every table and every set of stacks:
`StackOwnAlways`, `TrampolineAloneAlways` and `CpusInitialisedAlways`, about the
specification that `smp` checks. The invariant follows the loop of `smp_init`. CPUs
beyond `index` are off (`LoopInv`). As long as no AP is late, those before it have passed
the started flag or never started (`ApInv`), so whatever is between its start-up IPI and
the flag is the CPU at `index` (`StartingIsCurrent`); `smp_ap_stack` is that CPU's stack
and no other's, and is not free until the loop is over (`StackInv`). The steps of an AP
are first reduced to what they change (`ApEffect`), the steps of the boot processor are
grouped by their place in the loop. Lost IPIs need no case of their own; an AP that is
given up leaves its stack to the next one because, not being late, it never took it.
The second part counts the CPUs that are ready and those at the barrier: the boot
processor leaves `smp_init` when all are ready, so the barrier opens with all at it.
`ParseMadt` and `LapicList` show that the list made from the table has an entry and
different CPUs, by the least beginning of the table of which that would not be true.

`TlbInvariant` and `TlbProofs`, for every number of CPUs and tasks:
`UserSeesItsTableAlways` and `PanicOnlySharedAlways`. `SpaceInv` says that a task is
current on one CPU at most, which outside of execve and a context switch has its address
space loaded (`CurInv`); that `users` is the number of tasks of an address space
(`UsersInv`) and a reference count the number of page tables that hold the frame and ask
for a copy (`PagesInv`); and that an entry of the TLB can differ from the table of an
address space with one user only between the change of the table and the flush that
follows on the same CPU, or on a CPU that is about to load `cr3` (`TlbInv`). The one
user of an address space is on one CPU at most, and every way to another one loads
`cr3`. Nothing is assumed of the CPU sets, which are wrong (`smp_cpuset`).

The assumptions are the named `ASSUME`s: finitely many CPUs and a modulus above one
(`RwSpinLock`); a CPU, and tasks that are not CPU ids (`Sched`); a page that is a multiple
of the unit and longer than two, requests of at least a byte (`Slob`); finitely many
processes and slots, a frame for each entry, and a value `"none"` that is neither a
process nor a frame (`Cow`); a table whose first entry is a local APIC, with different
ids, and enough stacks (`SmpBoot`); a task, and workers that are CPUs (`Tlb`).

Only model-checked:

* Liveness (`Progress`, `BalanceEnds`, `OperationsEnd`, `AllocEnds`, `BootEnds`,
  `LockReleased`): fairness and `ENABLED` are beyond the prover. The action property
  `LoopsClimb` belongs to `RbTree`, below.
* `PMM` and its refinement: that `is_page_free` is right about stale links depends on the
  history of the lists of all orders, and in zones with several largest blocks
  `OrderInRange` fails, so an invariant holds for restricted zones only.
* `RbTree` and its refinement: order, balance and in-order sequence are defined by
  recursion over the tree, and an induction over trees cannot be stated for the provers.
* `BootMem`: insertion is a recursion over the region lists with differences that wrap.
* `Interrupts`: the screen is computed with bit operations, which exclude proofs in the
  modules that use them.

## Not modelled

* Inode cache, VFS and initial ramdisk: the kernel mounts the ramdisk once, which gets
  one inode into an empty cache; nothing is looked up, read or put, and the archive's
  address is never set. A model would have to invent callers.
* `task_exit` as far as the run queue is concerned: no task of the kernel exits, and
  what the code would do is noted above.
* Device set-up and table parsers (PS/2 controller, I/O APIC redirections, ACPI search
  and checksums, SMBIOS, serial port): register and table accesses whose other side is
  hardware.
* Boot code on one CPU and the C library: straight lines, or pure functions without a
  state.
* The contents of page tables after boot, and areas: `Cow` and `Tlb` take an address
  space for a function from slots to entries.
* Exceptions other than the page fault: nothing in the kernel raises them on purpose.
