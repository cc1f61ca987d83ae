----------------------------- MODULE Interrupts -----------------------------
(***************************************************************************)
(* What runs on a CPU between two instructions of a task: interrupts that  *)
(* nest (isr.c, lapic.c, keyboard.c, exceptions.c), preemption on the way  *)
(* out of them (sched.c), and the console that tasks, handlers and panics  *)
(* share (kprintf.c, libk.h, abort.c).  Every task has a stack of the      *)
(* functions it is in; a step is a step of the topmost one.                *)
(*                                                                         *)
(* Tasks stay on their CPU (the balancer is in module Sched) and runq_next *)
(* may return any queued task: which one has the least vruntime is Sched's *)
(* matter.  A CPU whose run queue code is entered again before it has      *)
(* finished is "wrecked": the task is linked a second time into the tree   *)
(* it is in, or the CPU spins on a lock it holds, and its further steps    *)
(* are not followed.                                                       *)
(***************************************************************************)
EXTENDS Vga, Vectors, FiniteSets, SequencesExt

CONSTANTS
  CPU, BSP,       \* the CPUs; the one the I/O APIC delivers to
  Task, home,     \* the tasks and the CPU of each
  NULL,
  MAX_SLICES,
  VERBOSE,        \* the build option under which the keyboard handler prints
  message,        \* what a task, the keyboard handler ("kbd") and a panic print
  expected,       \* the same, as characters in their style
  work,           \* what each task does, in any order: a set of
                  \* "kprintf", "fault", "panic", "yield"
  MaxTicks, MaxKeys, MaxNmi   \* bounds: ticks and NMIs of each CPU, keys

ASSUME InterruptsAssumption ==
  /\ BSP \in CPU
  /\ home \in [Task -> CPU]
  /\ MAX_SLICES \in Nat \ {0}

VARIABLES
  cpu,            \* the per-CPU data, the flags and the local APIC of each CPU
  stack,          \* the functions each task is in, the topmost last
  todo,           \* the rest of work
  num_slices,     \* of each task
  kprintf_lock,   \* the task that holds it, or NULL
  vga,            \* the screen
  log,            \* what was printed, in the order of the lock (not in the code)
  raised          \* the ticks, keys and NMIs so far
vars == <<cpu, stack, todo, num_slices, kprintf_lock, vga, log, raised>>

Frame(fn, pc, flags, arg) == [fn |-> fn, pc |-> pc, flags |-> flags, arg |-> arg]

TypeOK ==
  /\ \A c \in CPU :
       /\ cpu[c].current \in Task
       /\ cpu[c].queue \subseteq Task
       /\ cpu[c].irq_on \in BOOLEAN /\ cpu[c].reschedule \in BOOLEAN
       /\ cpu[c].int_depth \in 0..MaxTicks[c] + MaxKeys + 1
       /\ cpu[c].preempt_count \in Nat
       /\ cpu[c].in_service \subseteq Vector
       /\ cpu[c].state \in {"up", "halted", "wrecked"}
  /\ \A t \in Task : stack[t] # <<>> /\ stack[t][1].fn = "task"
  /\ num_slices \in [Task -> Nat]
  /\ kprintf_lock \in Task \cup {NULL}
  /\ 0 <= vga.x_pos /\ vga.x_pos < VGAWIDTH
  /\ 1 <= vga.y_pos /\ vga.y_pos < VGAHEIGHT

Init ==
  /\ \E first \in {f \in [CPU -> Task] : \A c \in CPU : home[f[c]] = c} :
       cpu = [c \in CPU |-> [current |-> first[c], irq_on |-> TRUE, int_depth |-> 0,
                             reschedule |-> FALSE, preempt_count |-> 0, in_service |-> {},
                             ipi |-> {}, state |-> "up", runq_lock |-> FALSE,
                             queue |-> {t \in Task \ {first[c]} : home[t] = c}]]
  /\ stack = [t \in Task |-> <<Frame("task", "run", TRUE, NULL)>>]
  /\ todo = work
  /\ num_slices = [t \in Task |-> 0]
  /\ kprintf_lock = NULL
  /\ vga = vga_tmode_init
  /\ log = <<>>
  /\ raised = [ticks |-> [c \in CPU |-> 0], keys |-> 0, nmi |-> [c \in CPU |-> 0]]

OnlyCpuAndStack == UNCHANGED <<todo, num_slices, kprintf_lock, vga, log, raised>>

-----------------------------------------------------------------------------
(* The stack of the running task. *)

Cur(c) == cpu[c].current
Top(c) == Last(stack[Cur(c)])
In(c, fn, pc) == cpu[c].state = "up" /\ Top(c).fn = fn /\ Top(c).pc = pc

Go(c, pc) == stack' = [stack EXCEPT ![Cur(c)][Len(stack[Cur(c)])].pc = pc]
Enter(c, frame) == stack' = [stack EXCEPT ![Cur(c)] = Append(@, frame)]
\* Calls a function that returns to pc.
Call(c, pc, frame) ==
  stack' = [stack EXCEPT ![Cur(c)] = Append(Front(@) \o <<[Top(c) EXCEPT !.pc = pc]>>, frame)]
Return(c) == stack' = [stack EXCEPT ![Cur(c)] = Front(@)]

\* The running task does w, one of the things it still has to do.
Work(c, w) ==
  /\ In(c, "task", "run")
  /\ w \in todo[Cur(c)]
  /\ todo' = [todo EXCEPT ![Cur(c)] = @ \ {w}]

-----------------------------------------------------------------------------
(* The console. *)

\* The digits of a number, most significant first.
atoi_print(num) ==
  LET digits[n \in Nat] ==
        IF n = 0 THEN <<>>
        ELSE Append(digits[n \div 10],
                    <<"0", "1", "2", "3", "4", "5", "6", "7", "8", "9">>[(n % 10) + 1])
  IN IF num = 0 THEN <<"0">> ELSE digits[num]

\* kprintf up to the lock: the flags are saved and interrupts are off.
kprintf(text, irq_on) == Frame("kprintf", "lock", irq_on, text)

\* Mutant: spin_lock without the irqsave.
task_kprintf_sti(c) ==
  /\ Work(c, "kprintf")
  /\ Enter(c, kprintf(message[Cur(c)], cpu[c].irq_on))
  /\ cpu' = [cpu EXCEPT ![c].preempt_count = @ + 1]
  /\ UNCHANGED <<num_slices, kprintf_lock, vga, log, raised>>

task_kprintf(c) ==
  /\ Work(c, "kprintf")
  /\ Enter(c, kprintf(message[Cur(c)], cpu[c].irq_on))
  /\ cpu' = [cpu EXCEPT ![c].irq_on = FALSE, ![c].preempt_count = @ + 1]
  /\ UNCHANGED <<num_slices, kprintf_lock, vga, log, raised>>

\* Whose text the topmost function prints.
Writer(c) ==
  CASE Top(c).fn = "panic" -> "panic"
    [] Top(c).arg = message["kbd"] -> "kbd"
    [] OTHER -> Cur(c)

\* spin_lock(&kprintf_lock) of kprintf and of panic; only panic takes it with
\* interrupts on.
console_lock(c) ==
  /\ In(c, "kprintf", "lock") \/ In(c, "panic", "lock")
  /\ kprintf_lock = NULL
  /\ kprintf_lock' = Cur(c)
  /\ log' = Append(log, Writer(c))
  /\ Go(c, IF Top(c).fn = "panic" THEN "cli" ELSE "print")
  /\ UNCHANGED <<cpu, todo, num_slices, vga, raised>>

\* One character of the formatted text; kprintf_nolock, which a panic calls while
\* it holds the lock, writes in the same way.
kprintf_write_char(c) ==
  /\ In(c, "kprintf", "print") \/ In(c, "panic", "print")
  /\ Top(c).arg # <<>>
  /\ vga' = vga_tmode_putchar(vga, Head(Top(c).arg))
  /\ stack' = [stack EXCEPT ![Cur(c)][Len(stack[Cur(c)])].arg = Tail(@)]
  /\ UNCHANGED <<cpu, todo, num_slices, kprintf_lock, log, raised>>

\* The end of kprintf.
kprintf_unlock(c) ==
  /\ In(c, "kprintf", "print")
  /\ Top(c).arg = <<>>
  /\ kprintf_lock' = NULL
  /\ cpu' = [cpu EXCEPT ![c].preempt_count = @ - 1, ![c].irq_on = Top(c).flags]
  /\ Return(c)
  /\ UNCHANGED <<todo, num_slices, vga, log, raised>>

\* panic: the lock, then interrupts off, then the message with the CPU's number.
panic(c) == Frame("panic", "lock", TRUE, message["panic"] \o atoi_print(c))

task_panic(c) ==
  /\ Work(c, "panic")
  /\ Enter(c, panic(c))
  /\ cpu' = [cpu EXCEPT ![c].preempt_count = @ + 1]
  /\ UNCHANGED <<num_slices, kprintf_lock, vga, log, raised>>

panic_nolock(c) ==
  /\ In(c, "panic", "cli")
  /\ cpu' = [cpu EXCEPT ![c].irq_on = FALSE]
  /\ Go(c, "print")
  /\ OnlyCpuAndStack

\* Mutant: the console is given back before the CPU halts.
abort_lock_released == NULL

\* A panic never gives the console back.
abort_lock == kprintf_lock

\* abort: the other CPUs are sent an IPI and this one halts.
abort(c) ==
  /\ In(c, "panic", "print")
  /\ Top(c).arg = <<>>
  /\ cpu' = [d \in CPU |-> IF d = c THEN [cpu[c] EXCEPT !.state = "halted"]
                           ELSE [cpu[d] EXCEPT !.ipi = @ \cup {IRQ_IPI_ABORT}]]
  /\ kprintf_lock' = abort_lock
  /\ UNCHANGED <<stack, todo, num_slices, vga, log, raised>>

-----------------------------------------------------------------------------
(* Entry into and dispatch of interrupts. *)

\* The CPU enters the stub of vector v.
Deliver(c, v, error) ==
  Enter(c, Frame("isr", "entry", cpu[c].irq_on,
                 [vec |-> v, no |-> int_no(info(v, error)), error |-> info(v, error).low]))

\* The local APIC delivers v unless one of its priority class or a higher one is
\* in service.
interrupt(c, v) ==
  /\ cpu[c].state = "up"
  /\ cpu[c].irq_on
  /\ isr_stub(v) # "nop"
  /\ \A s \in cpu[c].in_service : v \div 16 > s \div 16
  /\ Deliver(c, v, 0)
  /\ cpu' = [cpu EXCEPT ![c].irq_on = ~idt_init(v).cli,
                        ![c].in_service = @ \cup {v}, ![c].ipi = @ \ {v}]
  /\ UNCHANGED <<todo, num_slices, kprintf_lock, vga, log>>

timer_irq(c) ==
  /\ raised.ticks[c] < MaxTicks[c]
  /\ raised' = [raised EXCEPT !.ticks[c] = @ + 1]
  /\ interrupt(c, IRQ_LINT_TIMER)

keyboard_irq(c) ==
  /\ c = BSP /\ raised.keys < MaxKeys
  /\ raised' = [raised EXCEPT !.keys = @ + 1]
  /\ interrupt(c, ps2kbd_vec)

ipi_irq(c) ==
  /\ \E v \in cpu[c].ipi : interrupt(c, v)
  /\ UNCHANGED raised

\* A non-maskable interrupt; it never returns, so there is no second one.
nmi(c) ==
  /\ raised.nmi[c] < MaxNmi[c] /\ cpu[c].state = "up"
  /\ raised' = [raised EXCEPT !.nmi[c] = @ + 1]
  /\ Deliver(c, 2, 0)
  /\ cpu' = [cpu EXCEPT ![c].irq_on = FALSE]
  /\ UNCHANGED <<todo, num_slices, kprintf_lock, vga, log>>

\* A write to a page that is present and read-only, in user or in kernel mode.
page_fault(c) ==
  /\ Work(c, "fault")
  /\ \E error \in {3, 7} : Deliver(c, INT_PAGE_FAULT, error)
  /\ cpu' = [cpu EXCEPT ![c].irq_on = FALSE]
  /\ UNCHANGED <<num_slices, kprintf_lock, vga, log, raised>>

isr_info(c) == isr_table(Top(c).arg.no)

\* Mutant: only interrupts with a handler are acknowledged.
lapic_eoi_handled(c) ==
  IF isr_info(c).handler = "NULL" THEN cpu[c].in_service
  ELSE cpu[c].in_service \ {Top(c).arg.no}

\* What stays in service: the local APIC retires the highest vector.
lapic_eoi(c) ==
  LET isr == cpu[c].in_service
  IN IF Top(c).arg.no \in isr THEN isr \ {CHOOSE v \in isr : \A w \in isr : w <= v} ELSE isr

\* isr_global_handler up to the handler.
isr_entry(c) ==
  /\ In(c, "isr", "entry")
  /\ cpu' = IF isr_info(c).type = "ISR_IRQ"
            THEN [cpu EXCEPT ![c].int_depth = @ + 1, ![c].in_service = lapic_eoi(c)]
            ELSE cpu
  /\ Go(c, "handler")
  /\ OnlyCpuAndStack

Handler(c, h) == In(c, "isr", "handler") /\ isr_info(c).handler = h

no_handler(c) ==
  /\ Handler(c, "NULL")
  /\ Go(c, "exit")
  /\ OnlyCpuAndStack /\ UNCHANGED cpu

lapic_timer_callback(c) ==
  /\ Handler(c, "lapic_timer_callback")
  /\ IF cpu[c].reschedule THEN UNCHANGED <<cpu, num_slices>>
     ELSE /\ num_slices' = [num_slices EXCEPT ![Cur(c)] = @ + 1]
          /\ cpu' = [cpu EXCEPT ![c].reschedule = num_slices'[Cur(c)] >= MAX_SLICES]
  /\ Go(c, "exit")
  /\ UNCHANGED <<todo, kprintf_lock, vga, log, raised>>

ps2kbd_irq_handler(c) ==
  /\ Handler(c, "ps2kbd_irq_handler")
  /\ IF VERBOSE
     THEN /\ Call(c, "exit", kprintf(message["kbd"], cpu[c].irq_on))
          /\ cpu' = [cpu EXCEPT ![c].irq_on = FALSE, ![c].preempt_count = @ + 1]
     ELSE Go(c, "exit") /\ UNCHANGED cpu
  /\ OnlyCpuAndStack

\* The address is not the kernel's, for an NMI it is that of an earlier fault:
\* interrupts come back on if they were on, a write that cow_handle_write resolves
\* ends the handler and everything else panics.  No vector raised here has
\* exception_handler in its entry of the table.
page_fault_handler(c) ==
  /\ Handler(c, "page_fault_handler")
  /\ \/ /\ Top(c).arg.error \in {3, 7}
        /\ cpu' = [cpu EXCEPT ![c].irq_on = Top(c).flags]
        /\ Go(c, "exit")
     \/ /\ cpu' = [cpu EXCEPT ![c].irq_on = Top(c).flags, ![c].preempt_count = @ + 1]
        /\ Call(c, "exit", panic(c))
  /\ OnlyCpuAndStack

\* Mutant: the depth is not looked at.
may_preempt_always(depth) == TRUE

may_preempt(depth) == depth = 0

\* isr_global_handler after the handler: exceptions keep their local depth of 0.
isr_exit(c) ==
  LET irq   == isr_info(c).type = "ISR_IRQ"
      depth == IF irq THEN cpu[c].int_depth - 1 ELSE 0
  IN /\ In(c, "isr", "exit")
     /\ cpu' = IF irq THEN [cpu EXCEPT ![c].int_depth = depth] ELSE cpu
     /\ Go(c, IF may_preempt(depth) THEN "resched" ELSE "iret")
     /\ OnlyCpuAndStack

sched_yield_preempt(c) ==
  /\ In(c, "isr", "resched")
  /\ cpu[c].reschedule
  /\ Call(c, "iret", Frame("schedule", "begin", TRUE, NULL))
  /\ OnlyCpuAndStack /\ UNCHANGED cpu

iret(c) ==
  /\ In(c, "isr", "iret") \/ (In(c, "isr", "resched") /\ ~cpu[c].reschedule)
  /\ cpu' = [cpu EXCEPT ![c].irq_on = Top(c).flags]
  /\ Return(c)
  /\ OnlyCpuAndStack

-----------------------------------------------------------------------------
(* schedule, interruptible at every step. *)

sched_yield(c) ==
  /\ Work(c, "yield")
  /\ Enter(c, Frame("schedule", "begin", TRUE, NULL))
  /\ UNCHANGED <<cpu, num_slices, kprintf_lock, vga, log, raised>>

schedule_begin(c) ==
  /\ In(c, "schedule", "begin")
  /\ cpu' = [cpu EXCEPT ![c].preempt_count = @ + 1, ![c].reschedule = FALSE]
  /\ Go(c, "add")
  /\ OnlyCpuAndStack

\* The lock of the run queue, for runq_add and then for runq_next.
runq_lock(c) ==
  /\ In(c, "schedule", "add") \/ In(c, "schedule", "pick")
  /\ IF cpu[c].runq_lock THEN cpu' = [cpu EXCEPT ![c].state = "wrecked"] /\ UNCHANGED stack
     ELSE /\ cpu' = [cpu EXCEPT ![c].runq_lock = TRUE, ![c].preempt_count = @ + 1]
          /\ Go(c, IF Top(c).pc = "add" THEN "insert" ELSE "next")
  /\ OnlyCpuAndStack

\* The end of a section under the lock.
Unlocked(p, queue) ==
  [p EXCEPT !.queue = queue, !.runq_lock = FALSE, !.preempt_count = @ - 1]

runq_add(c) ==
  /\ In(c, "schedule", "insert")
  /\ IF Cur(c) \in cpu[c].queue
     THEN cpu' = [cpu EXCEPT ![c].state = "wrecked"] /\ UNCHANGED stack
     ELSE /\ cpu' = [cpu EXCEPT ![c] = Unlocked(@, @.queue \cup {Cur(c)})]
          /\ Go(c, "pick")
  /\ OnlyCpuAndStack

runq_next(c) ==
  /\ In(c, "schedule", "next")
  /\ \E n \in cpu[c].queue :
       /\ cpu' = [cpu EXCEPT ![c] = Unlocked(@, @.queue \ {n})]
       /\ stack' = [stack EXCEPT ![Cur(c)][Len(stack[Cur(c)])] =
                      [@ EXCEPT !.pc = "switch", !.arg = n]]
  /\ OnlyCpuAndStack

\* The task that is switched out returns from schedule when it runs again.
switch_to(c) ==
  /\ In(c, "schedule", "switch")
  /\ cpu' = [cpu EXCEPT ![c].current = Top(c).arg, ![c].preempt_count = @ - 1]
  /\ Return(c)
  /\ OnlyCpuAndStack

-----------------------------------------------------------------------------
Next == \E c \in CPU :
  \/ task_kprintf(c) \/ task_panic(c) \/ page_fault(c) \/ sched_yield(c)
  \/ timer_irq(c) \/ keyboard_irq(c) \/ ipi_irq(c) \/ nmi(c)
  \/ console_lock(c) \/ kprintf_write_char(c) \/ kprintf_unlock(c)
  \/ panic_nolock(c) \/ abort(c)
  \/ isr_entry(c) \/ no_handler(c) \/ lapic_timer_callback(c) \/ ps2kbd_irq_handler(c)
  \/ page_fault_handler(c) \/ isr_exit(c) \/ sched_yield_preempt(c) \/ iret(c)
  \/ schedule_begin(c) \/ runq_lock(c) \/ runq_add(c) \/ runq_next(c) \/ switch_to(c)

Spec == Init /\ [][Next]_vars

-----------------------------------------------------------------------------
(* Properties. *)

\* The interrupts a task is in that count for int_depth.
IrqsOf(t) ==
  {i \in DOMAIN stack[t] : /\ stack[t][i].fn = "isr" /\ stack[t][i].pc \in {"handler", "exit"}
                           /\ isr_table(stack[t][i].arg.no).type = "ISR_IRQ"}

\* int_depth counts the interrupts its CPU is in, however they nest, and no task is
\* switched out in the middle of one: the handlers of other devices would wait for
\* it (isr_global_handler preempts only at depth 0).
IrqBalanced ==
  /\ TypeOK
  /\ \A c \in CPU, t \in Task :
       home[t] = c => Cardinality(IrqsOf(t)) = IF t = Cur(c) THEN cpu[c].int_depth ELSE 0

\* A vector stays in service only until isr_global_handler has begun: no handler runs
\* while the local APIC of its CPU holds back later interrupts, also when there is no
\* handler for the vector (lapic_eoi).  The task may have been switched out by then.
Acknowledged ==
  \A c \in CPU : \A v \in cpu[c].in_service :
    \E t \in Task : home[t] = c /\
      \E i \in DOMAIN stack[t] :
        LET f == stack[t][i] IN f.fn = "isr" /\ f.pc = "entry" /\ f.arg.vec = v

\* A task that holds the console for kprintf runs with interrupts off: neither a
\* handler of its CPU nor the next task there can wait for a console that is not
\* given back (spin_lock_irqsave in kprintf).
HolderRuns ==
  kprintf_lock # NULL =>
    LET t == kprintf_lock IN
    (\E i \in DOMAIN stack[t] : stack[t][i].fn = "kprintf" /\ stack[t][i].pc = "print") =>
      Cur(home[t]) = t /\ ~cpu[home[t]].irq_on

\* The lines a text fills, the last one open.
Lines(cells) ==
  FoldLeft(LAMBDA ls, x : IF x.c = "\n" THEN Append(ls, <<>>)
                          ELSE LET l == Front(ls) \o <<Append(Last(ls), x)>>
                               IN IF Len(Last(l)) = VGAWIDTH THEN Append(l, <<>>) ELSE l,
           << <<>> >>, cells)

\* A message as it should look; a panic ends with the number of its CPU.
Shown(m) ==
  IF m # "panic" THEN expected[m]
  ELSE LET n == atoi_print(home[kprintf_lock])
       IN expected[m] \o [i \in DOMAIN n |-> Cell(n[i], Last(expected[m]).style)]

\* Whenever no message is half written the screen shows the banner and below it the
\* last lines of the messages in the order they took the lock, each character in the
\* style its message asked for: messages of CPUs, handlers and panics never mix
\* (kprintf, panic, cansid_process, vga_tmode_newline).
ScreenShows ==
  kprintf_lock = NULL \/ cpu[home[kprintf_lock]].state = "halted" =>
    LET all  == Lines(FoldLeft(LAMBDA text, m : text \o Shown(m), <<>>, log))
        rows == SubSeq(all, IF Len(all) < VGAHEIGHT THEN 1 ELSE Len(all) - VGAHEIGHT + 2, Len(all))
    IN /\ \A y \in 1..VGAHEIGHT - 1, x \in 0..VGAWIDTH - 1 :
            vga.buf[y][x] = IF y <= Len(rows) /\ x < Len(rows[y]) THEN rows[y][x + 1] ELSE Blank
       /\ vga.buf[0] = vga_tmode_init.buf[0]
       /\ vga.x_pos = Len(Last(rows)) /\ vga.y_pos = Len(rows)

\* Once a panic has halted its CPU nothing more is printed, although the other CPUs
\* run on: the message stays on the screen (panic keeps kprintf_lock for good).
PanicStays == [][(\E c \in CPU : cpu[c].state = "halted") => vga' = vga]_vars

\* A task that is switched out is not in an interrupt, not even one that has just
\* been entered: "Only preempt if we are about to return to a non-IRQ".
\* The code violates it: int_depth does not yet count an interrupt just entered.
PreemptsNonIrq ==
  \A t \in Task : t # Cur(home[t]) =>
    ~\E i \in DOMAIN stack[t] : /\ stack[t][i].fn = "isr" /\ stack[t][i].pc = "entry"
                              /\ isr_table(stack[t][i].arg.no).type = "ISR_IRQ"

\* schedule is not entered again before it has switched tasks: it starts with
\* preempt_inc, "Disable preemption", and switch_to ends with the preempt_dec.
SchedOnce ==
  \A t \in Task : \A i, j \in DOMAIN stack[t] :
    i < j /\ stack[t][i].fn = "schedule" /\ stack[t][j].fn = "schedule" => stack[t][i].pc = "begin"
=============================================================================
