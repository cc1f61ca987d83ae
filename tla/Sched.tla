------------------------------- MODULE Sched --------------------------------
(***************************************************************************)
(* The scheduler: kernel/proc/sched.c, the per-CPU run queues of           *)
(* kernel/proc/runq.c, fork and wakeup from kernel/proc/task.c, the switch *)
(* of kernel/proc/switch_to.asm, the timer tick of                         *)
(* kernel/drivers/apic/lapic.c and the start barrier of the CPUs.          *)
(*                                                                         *)
(* A run queue's red-black tree is its in-order sequence of tasks: the     *)
(* code never looks at its shape, only at the leftmost node.  A critical   *)
(* section under one rq->lock is one step, taken when the lock word is 0;  *)
(* runq_balance_pull, which holds two locks, takes them one at a time.     *)
(* CPU ids are 0..NCPU-1, and the id of a CPU also stands for its idle     *)
(* task (and, before the first switch, for the dummy task, which shares    *)
(* TID_IDLE with it).  An interrupt finds a CPU in the code of a task,     *)
(* not inside schedule (preemption inside schedule is not modelled here),  *)
(* and no task exits.                                                      *)
(***************************************************************************)
EXTENDS Integers, Sequences, FiniteSets, Functions

CONSTANTS
  NCPU,       \* smp_nr_cpus(), once every CPU is up
  Task,       \* the tasks that may be forked, idle tasks excepted
  InitTask,   \* the task sched_run_bsp forks for init_kernel
  MAX_SLICES, \* ticks after which a task is preempted
  MaxV        \* bound: a task with this vruntime does not enter schedule

CPU == 0..(NCPU - 1)

ASSUME NCPUAssumption == NCPU \in Nat \ {0}
ASSUME TaskAssumption == InitTask \in Task /\ Task \cap CPU = {}
ASSUME BoundAssumption == MAX_SLICES \in Nat \ {0} /\ MaxV \in Nat

Entity == Task \cup CPU

VARIABLES
  state,       \* task_state of each task, "free" before task_fork allocates it
  vruntime,    \* sched.vruntime of each task
  num_slices,  \* sched.num_slices, saturated at MAX_SLICES: only >= is tested
  running,     \* the tasks whose flags have TASK_RUNNING
  queue,       \* run_queue->tree of each CPU, in order
  num_threads, \* run_queue->num_threads
  lock,        \* run_queue->lock
  has_rq,      \* the CPUs whose percpu run_queue is set
  current,     \* percpu current_task
  next,        \* local: the task schedule picked, or the child in syscall_fork
  other,       \* local: loop variable i of runq_balance_pull, else 0
  pc,          \* where each CPU is
  nr_ready,    \* smp_nr_cpus_ready
  waiting      \* schedulers_waiting

boot == <<has_rq, nr_ready, waiting>>
vars == <<state, vruntime, num_slices, running, queue, num_threads, lock,
          current, next, other, pc, boot>>

PCs == {"off", "online", "barrier", "run", "wake", "add", "next",
        "lock1", "lock2", "again", "swap", "switch", "lost"}

TypeOK ==
  /\ state \in [Task -> {"free", "NOT_STARTED", "RUNNABLE"}]
  /\ vruntime \in [Task -> Nat]
  /\ num_slices \in [Entity -> 0..MAX_SLICES]
  /\ running \in SUBSET Entity
  /\ queue \in [CPU -> Seq(Task)]
  /\ num_threads \in [CPU -> Int]
  /\ lock \in [CPU -> {0, 1}]
  /\ has_rq \in SUBSET CPU
  /\ current \in [CPU -> Entity]
  /\ next \in [CPU -> Entity]
  /\ other \in [CPU -> CPU]
  /\ pc \in [CPU -> PCs]
  /\ nr_ready \in Nat
  /\ waiting \in Nat

\* CPU 0 is in smp_init and the other CPUs are not up yet.
Init ==
  /\ state = [t \in Task |-> "free"]
  /\ vruntime = [t \in Task |-> 0]
  /\ num_slices = [e \in Entity |-> 0]
  /\ running = {}
  /\ queue = [c \in CPU |-> <<>>]
  /\ num_threads = [c \in CPU |-> 0]
  /\ lock = [c \in CPU |-> 0]
  /\ has_rq = {}
  /\ current = [c \in CPU |-> c]
  /\ next = [c \in CPU |-> c]
  /\ other = [c \in CPU |-> 0]
  /\ pc = [c \in CPU |-> IF c = 0 THEN "online" ELSE "off"]
  /\ nr_ready = 1
  /\ waiting = 0

Goto(c, to) == pc' = [pc EXCEPT ![c] = to]

-----------------------------------------------------------------------------
(* The run queue, as a sequence.  vr is the vruntime of every task. *)

InsertAfter(q, k, t) == SubSeq(q, 1, k) \o <<t>> \o SubSeq(q, k + 1, Len(q))

\* Mutant: the comparison of the descent is reversed.
tree_insert_reversed(q, t, vr) ==
  InsertAfter(q, Cardinality({i \in DOMAIN q : vr[q[i]] > vr[t]}), t)

\* The descent of tree_insert goes right on equal keys: t ends up behind every
\* task that has at most its vruntime.
tree_insert(q, t, vr) ==
  InsertAfter(q, Cardinality({i \in DOMAIN q : vr[q[i]] <= vr[t]}), t)

min_vruntime(q) == IF q = <<>> THEN 0 ELSE vruntime[Head(q)]

\* runq_add of t on the queue of c, with the states st and the vruntimes vr
\* that its caller has set.
runq_add(c, t, st, vr) ==
  LET key == IF st[t] # "RUNNABLE"
             THEN [vr EXCEPT ![t] = min_vruntime(queue[c])] ELSE vr
  IN /\ lock[c] = 0
     /\ vruntime' = key
     /\ queue' = [queue EXCEPT ![c] = tree_insert(@, t, key)]
     /\ num_threads' = [num_threads EXCEPT ![c] = @ + 1]

\* runq_next: the leftmost task leaves the tree, or else the idle task is it.
runq_next(c) ==
  /\ lock[c] = 0
  /\ IF queue[c] = <<>>
     THEN /\ next' = [next EXCEPT ![c] = c]
          /\ UNCHANGED <<queue, num_threads>>
     ELSE /\ next' = [next EXCEPT ![c] = Head(queue[c])]
          /\ queue' = [queue EXCEPT ![c] = Tail(@)]
          /\ num_threads' = [num_threads EXCEPT ![c] = @ - 1]

-----------------------------------------------------------------------------
(* Bringing the CPUs into the scheduler. *)

\* smp_ap_kmain: the AP counts itself as ready.
smp_ap_kmain(c) ==
  /\ pc[c] = "off"
  /\ nr_ready' = nr_ready + 1
  /\ Goto(c, "online")
  /\ UNCHANGED <<state, vruntime, num_slices, running, queue, num_threads,
                 lock, current, next, other, has_rq, waiting>>

\* sched_run_ap up to its arrival at wait_for_schedulers.
sched_run_ap(c) ==
  /\ c # 0
  /\ pc[c] = "online"
  /\ has_rq' = has_rq \cup {c}
  /\ waiting' = waiting + 1
  /\ Goto(c, "barrier")
  /\ UNCHANGED <<state, vruntime, num_slices, running, queue, num_threads,
                 lock, current, next, other, nr_ready>>

\* smp_init's wait for every AP, then sched_run_bsp up to its arrival: nobody
\* touches the queue of CPU 0 before the barrier opens.
sched_run_bsp ==
  /\ pc[0] = "online"
  /\ nr_ready = NCPU
  /\ state' = [state EXCEPT ![InitTask] = "RUNNABLE"]
  /\ runq_add(0, InitTask, state', vruntime)
  /\ has_rq' = has_rq \cup {0}
  /\ waiting' = waiting + 1
  /\ Goto(0, "barrier")
  /\ UNCHANGED <<num_slices, running, lock, current, next, other, nr_ready>>

\* Mutant: the barrier lets a CPU through one arrival early.
wait_for_schedulers_early(c) ==
  /\ pc[c] = "barrier"
  /\ waiting + 1 >= nr_ready
  /\ Goto(c, "add")
  /\ UNCHANGED <<state, vruntime, num_slices, running, queue, num_threads,
                 lock, current, next, other, boot>>

\* The end of wait_for_schedulers; sched_yield follows.
wait_for_schedulers(c) ==
  /\ pc[c] = "barrier"
  /\ waiting >= nr_ready
  /\ Goto(c, "add")
  /\ UNCHANGED <<state, vruntime, num_slices, running, queue, num_threads,
                 lock, current, next, other, boot>>

-----------------------------------------------------------------------------
(* What a task does, and what an interrupt does to it. *)

\* Bound: only a task that may still run more enters schedule.
MayRunOn(c) == current[c] \in Task => vruntime[current[c]] < MaxV

\* syscall_sched_yield.
sched_yield(c) ==
  /\ pc[c] = "run" /\ current[c] \in Task /\ MayRunOn(c)
  /\ Goto(c, "add")
  /\ UNCHANGED <<state, vruntime, num_slices, running, queue, num_threads,
                 lock, current, next, other, boot>>

\* The timer interrupt: lapic_timer_callback, then the end of
\* isr_global_handler, which preempts when reschedule is set.  reschedule is
\* set by this handler only and cleared by the schedule it leads to, so it is
\* false whenever the handler starts.
lapic_timer_callback(c) ==
  /\ pc[c] = "run" /\ MayRunOn(c)
  /\ num_slices' = [num_slices EXCEPT
                      ![current[c]] = IF @ = MAX_SLICES THEN @ ELSE @ + 1]
  /\ IF num_slices'[current[c]] >= MAX_SLICES
     THEN Goto(c, "add") ELSE UNCHANGED pc
  /\ UNCHANGED <<state, vruntime, running, queue, num_threads, lock, current,
                 next, other, boot>>

\* syscall_fork up to the child's task_wakeup: task_fork copies the flags of
\* the parent, TASK_RUNNING with them.
task_fork(c, t) ==
  /\ pc[c] = "run" /\ current[c] \in Task /\ MayRunOn(c)
  /\ state[t] = "free"
  /\ state' = [state EXCEPT ![t] = "NOT_STARTED"]
  /\ running' = IF current[c] \in running THEN running \cup {t} ELSE running
  /\ next' = [next EXCEPT ![c] = t]
  /\ Goto(c, "wake")
  /\ UNCHANGED <<vruntime, num_slices, queue, num_threads, lock, current,
                 other, boot>>

\* task_wakeup of the child, which nobody else knows; sched_yield follows.
task_wakeup(c) ==
  /\ pc[c] = "wake"
  /\ state' = [state EXCEPT ![next[c]] = "RUNNABLE"]
  /\ runq_add(c, next[c], state', vruntime)
  /\ Goto(c, "add")
  /\ UNCHANGED <<num_slices, running, lock, current, next, other, boot>>

-----------------------------------------------------------------------------
(* schedule *)

\* Mutant: current does not go back to the tree.
schedule_add_none(c) ==
  /\ pc[c] = "add"
  /\ vruntime' = IF current[c] \in CPU THEN vruntime
                 ELSE [vruntime EXCEPT ![current[c]] = @ + 1]
  /\ Goto(c, "next")
  /\ UNCHANGED <<state, num_slices, running, queue, num_threads, lock, current,
                 next, other, boot>>

\* Its first part: statistics, and current goes back to the tree.
schedule_add(c) ==
  /\ pc[c] = "add"
  /\ IF current[c] \in CPU
     THEN UNCHANGED <<vruntime, queue, num_threads>>
     ELSE runq_add(c, current[c], state,
                   [vruntime EXCEPT ![current[c]] = @ + 1])
  /\ Goto(c, "next")
  /\ UNCHANGED <<state, num_slices, running, lock, current, next, other, boot>>

\* The first index of the loop of runq_balance_pull and the one after i, the
\* CPU itself skipped.
First(c) == IF c = 0 THEN 1 ELSE 0
After(c, i) == IF i + 1 = c THEN i + 2 ELSE i + 1

InLoop(i) == i < NCPU

\* The first runq_next; about to go idle, the CPU starts the balancer.
schedule_next(c) ==
  /\ pc[c] = "next"
  /\ runq_next(c)
  /\ IF next'[c] \in CPU /\ InLoop(First(c))
     THEN Goto(c, "lock1") /\ other' = [other EXCEPT ![c] = First(c)]
     ELSE Goto(c, IF next'[c] \in CPU THEN "again" ELSE "swap") /\ UNCHANGED other
  /\ UNCHANGED <<state, vruntime, num_slices, running, lock, current, boot>>

\* The second runq_next.
schedule_again(c) ==
  /\ pc[c] = "again"
  /\ runq_next(c)
  /\ Goto(c, "swap")
  /\ UNCHANGED <<state, vruntime, num_slices, running, lock, current, other,
                 boot>>

\* runq_balance_pull takes the lock of the lowest id first.
lock_order(c) == IF c < other[c] THEN <<c, other[c]>> ELSE <<other[c], c>>

runq_balance_lock(c) ==
  /\ pc[c] = "lock1"
  /\ lock[lock_order(c)[1]] = 0
  /\ lock' = [lock EXCEPT ![lock_order(c)[1]] = 1]
  /\ Goto(c, "lock2")
  /\ UNCHANGED <<state, vruntime, num_slices, running, queue, num_threads,
                 current, next, other, boot>>

\* Mutant: the pulled task stays in the tree it is pulled from.
pull_copy(c, o) ==
  /\ queue' = [queue EXCEPT ![c] = tree_insert(@, Head(queue[o]), vruntime)]
  /\ num_threads' = [num_threads EXCEPT ![c] = @ + 1]

\* Under both locks, the first task of the tree of o moves to the tree of c.
pull(c, o) ==
  /\ queue' = [queue EXCEPT ![o] = Tail(@),
                            ![c] = tree_insert(@, Head(queue[o]), vruntime)]
  /\ num_threads' = [num_threads EXCEPT ![o] = @ - 1, ![c] = @ + 1]

\* Mutant: the locks are released only when a task was pulled.
balance_unlock_pulled(c) ==
  lock' = IF num_threads[other[c]] > 0
          THEN [lock EXCEPT ![lock_order(c)[1]] = 0]
          ELSE [lock EXCEPT ![lock_order(c)[2]] = 1]

\* The second lock is taken and released within the step.
balance_unlock(c) == lock' = [lock EXCEPT ![lock_order(c)[1]] = 0]

\* With the second lock as well, the CPU pulls a task from the other queue if
\* there is one and leaves the loop, or goes on with the next queue.
runq_balance_pull(c) ==
  LET o == other[c]
      i == After(c, o)
  IN /\ pc[c] = "lock2"
     /\ lock[lock_order(c)[2]] = 0
     /\ balance_unlock(c)
     /\ IF num_threads[o] > 0
        THEN pull(c, o) ELSE UNCHANGED <<queue, num_threads>>
     /\ IF num_threads[o] = 0 /\ InLoop(i)
        THEN Goto(c, "lock1") /\ other' = [other EXCEPT ![c] = i]
        ELSE Goto(c, "again") /\ other' = [other EXCEPT ![c] = 0]
     /\ UNCHANGED <<state, vruntime, num_slices, running, current, next, boot>>

\* The flags of the two tasks are swapped.
schedule_swap(c) ==
  /\ pc[c] = "swap"
  /\ running' = (running \ {current[c]}) \cup {next[c]}
  /\ Goto(c, "switch")
  /\ UNCHANGED <<state, vruntime, num_slices, queue, num_threads, lock,
                 current, next, other, boot>>

\* The stack pointer of a task is in its task struct while no CPU has the task
\* as current: switch_to stores it before it changes current.
ContextSaved(c) == \A d \in CPU \ {c} : current[d] # next[c]

switch_to(c) ==
  /\ pc[c] = "switch"
  /\ ContextSaved(c)
  /\ current' = [current EXCEPT ![c] = next[c]]
  /\ Goto(c, "run")
  /\ UNCHANGED <<state, vruntime, num_slices, running, queue, num_threads,
                 lock, next, other, boot>>

\* switch_to a task that another CPU has not switched away from: rsp is loaded
\* from a stale word and two CPUs share a stack.  What follows is not the
\* program's code any more, so nothing does.
switch_to_stale(c) ==
  /\ pc[c] = "switch"
  /\ ~ContextSaved(c)
  /\ pc' = [d \in CPU |-> "lost"]
  /\ UNCHANGED <<state, vruntime, num_slices, running, queue, num_threads,
                 lock, current, next, other, boot>>

-----------------------------------------------------------------------------

Boot(c) ==
  \/ smp_ap_kmain(c)
  \/ sched_run_ap(c)
  \/ wait_for_schedulers(c)

TaskStep(c) ==
  \/ sched_yield(c)
  \/ lapic_timer_callback(c)
  \/ \E t \in Task : task_fork(c, t)

\* Kernel code that a CPU is in the middle of.
KernelStep(c) ==
  \/ task_wakeup(c)
  \/ schedule_add(c)
  \/ schedule_next(c)
  \/ runq_balance_lock(c)
  \/ runq_balance_pull(c)
  \/ schedule_again(c)
  \/ schedule_swap(c)
  \/ switch_to(c)
  \/ switch_to_stale(c)

Next == sched_run_bsp \/ \E c \in CPU : Boot(c) \/ TaskStep(c) \/ KernelStep(c)

Spec == Init /\ [][Next]_vars

\* A CPU in kernel code keeps executing it, and every CPU boots.
FairSpec ==
  /\ Spec
  /\ WF_vars(sched_run_bsp)
  /\ \A c \in CPU : WF_vars(Boot(c)) /\ WF_vars(KernelStep(c))

-----------------------------------------------------------------------------
(***************************************************************************)
(* Properties.                                                             *)
(***************************************************************************)

Queued(c) == Range(queue[c])

\* The task a CPU answers for: its current task until schedule puts it back
\* into a tree, then nobody, then the task taken out of a tree.
Holds(c, t) ==
  \/ pc[c] \in {"run", "wake", "add"} /\ current[c] = t
  \/ pc[c] \in {"swap", "switch"} /\ next[c] = t

\* A runnable task is in exactly one place: once in one run queue, or in the
\* hands of one CPU.  None is lost between the add, the pop and the pull of
\* schedule and runq_balance_pull, and none is handed out twice.
OnePlace ==
  /\ \A c \in CPU : \A i, j \in DOMAIN queue[c] : queue[c][i] = queue[c][j] => i = j
  /\ \A c, d \in CPU : c # d => Queued(c) \cap Queued(d) = {}
  /\ \A c, d \in CPU, t \in Task : Holds(c, t) =>
       /\ t \notin Queued(d)
       /\ Holds(d, t) => d = c

NoneLost ==
  (\A c \in CPU : pc[c] # "lost") =>
     \A t \in Task : state[t] = "RUNNABLE" =>
                       \E c \in CPU : t \in Queued(c) \/ Holds(c, t)

\* num_threads, which decides whether the balancer dereferences the leftmost
\* node of another CPU's tree, is the number of nodes of the tree.
ThreadsCounted == \A c \in CPU : num_threads[c] = Len(queue[c])

\* Every tree stays ordered by vruntime, so that the leftmost node is a task
\* that has run least, although vruntimes change and tasks change trees.
QueueSorted ==
  \A c \in CPU : \A i, j \in DOMAIN queue[c] :
    i < j => vruntime[queue[c][i]] <= vruntime[queue[c][j]]

\* kassert_dbg in schedule: the task switched to is runnable.
NextRunnable ==
  \A c \in CPU : pc[c] \in {"swap", "switch"} /\ next[c] \in Task =>
                   state[next[c]] = "RUNNABLE"

\* What the inductive invariant needs besides: no task exists before CPU 0 has
\* made the first, a CPU on its way to the barrier has no task, only runnable
\* tasks are queued or held, a child that is not woken yet is known to its
\* parent's CPU alone, and the balancer looks at another CPU's queue.
Startup ==
  /\ pc[0] # "off"
  /\ pc[0] = "online" => \A t \in Task : state[t] = "free"
  /\ \A c \in CPU : pc[c] \in {"off", "online", "barrier"} => current[c] \in CPU

PlacedRunnable ==
  \A c \in CPU, t \in Task :
    t \in Queued(c) \/ Holds(c, t) => state[t] = "RUNNABLE"

Children ==
  \A c \in CPU : pc[c] = "wake" =>
    /\ next[c] \in Task /\ state[next[c]] = "NOT_STARTED"
    /\ \A d \in CPU : pc[d] = "wake" /\ next[d] = next[c] => d = c

PullsFromOther == \A c \in CPU : pc[c] \in {"lock1", "lock2"} => other[c] # c

IInv ==
  /\ TypeOK /\ OnePlace /\ NoneLost /\ ThreadsCounted /\ QueueSorted
  /\ Startup /\ PlacedRunnable /\ Children /\ PullsFromOther

\* No CPU reaches into another CPU's run queue before it exists: the barrier
\* of wait_for_schedulers separates runq_init from runq_balance_pull.
QueuesExist == \A c \in CPU : pc[c] \in {"lock1", "lock2"} => has_rq = CPU

\* A CPU that waits for its second lock gets it (or the system is lost): the
\* CPU that holds the lock waits for a higher one at most, and lets go of it.
BalanceEnds == \A c \in CPU : pc[c] = "lock2" ~> pc[c] # "lock2"

\* switch_to.asm: "Save current rsp", then "Load next rsp".  A task is switched
\* to only after the CPU it was running on has saved its context.
SavedBeforeLoaded == \A c \in CPU : pc[c] = "switch" => ContextSaved(c)
=============================================================================
