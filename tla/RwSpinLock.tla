----------------------------- MODULE RwSpinLock -----------------------------
(***************************************************************************)
(* The spin locks of kernel/smp/spin.asm and the reader-writer lock of     *)
(* include/sync.h that is built from two of them (mmu_info.pgtab_lock is   *)
(* the one instance), used by a set of CPUs.                               *)
(*                                                                         *)
(* A spinlock_t is one word, 0 or 1: nothing in it says who holds it, so   *)
(* who is inside is read off the program counters only.  The failing       *)
(* iterations of the retry loop change nothing and are stuttering steps;   *)
(* an acquisition is the atomic xchg that reads 0.                         *)
(***************************************************************************)
EXTENDS Integers, FiniteSets

CONSTANTS
  CPU,         \* the CPUs that use the lock
  PreemptMod   \* preempt_count is kept modulo this (2^32: inc/dec dword)

ASSUME CPUAssumption == IsFiniteSet(CPU)
ASSUME ModAssumption == PreemptMod \in Nat /\ PreemptMod > 1

VARIABLES
  lock,          \* lock["rd"], lock["wr"]: the two spinlock_t words
  readers,       \* rwspinlock_t.readers
  preempt_count, \* percpu.preempt_count
  pc             \* where each CPU is in the lock's code

vars == <<lock, readers, preempt_count, pc>>

(***************************************************************************)
(* Program points.  "r_" is read_spin_lock, "u_" read_spin_unlock, "w_"    *)
(* write_spin_lock; a name says what the CPU does next.                    *)
(***************************************************************************)
PCs == {"out", "r_rd", "r_inc", "r_wr", "r_pre", "r_leave",
        "reading", "u_rd", "u_dec", "u_wr", "u_pre", "u_leave", "w_wr", "writing"}

TypeOK ==
  /\ lock \in [{"rd", "wr"} -> {0, 1}]
  /\ readers \in Int
  /\ preempt_count \in [CPU -> 0..(PreemptMod - 1)]
  /\ pc \in [CPU -> PCs]

Init ==
  /\ lock = [l \in {"rd", "wr"} |-> 0]
  /\ readers = 0
  /\ preempt_count = [c \in CPU |-> 0]
  /\ pc = [c \in CPU |-> "out"]

-----------------------------------------------------------------------------

Goto(c, to) == pc' = [pc EXCEPT ![c] = to]

preempt_inc(c) ==
  preempt_count' = [preempt_count EXCEPT
                      ![c] = IF @ = PreemptMod - 1 THEN 0 ELSE @ + 1]

preempt_dec(c) ==
  preempt_count' = [preempt_count EXCEPT
                      ![c] = IF @ = 0 THEN PreemptMod - 1 ELSE @ - 1]

\* Entering spin_lock: preemption is "disabled" before the first xchg.
spin_lock_enter(c, from, to) ==
  /\ pc[c] = from
  /\ preempt_inc(c)
  /\ Goto(c, to)
  /\ UNCHANGED <<lock, readers>>

\* The xchg that finds the word 0.
spin_lock_xchg(c, l, from, to) ==
  /\ pc[c] = from
  /\ lock[l] = 0
  /\ lock' = [lock EXCEPT ![l] = 1]
  /\ Goto(c, to)
  /\ UNCHANGED <<readers, preempt_count>>

\* spin_unlock: the plain store of 0, then preempt_dec.
spin_unlock(c, l, from, to) ==
  /\ pc[c] = from
  /\ lock' = [lock EXCEPT ![l] = 0]
  /\ preempt_dec(c)
  /\ Goto(c, to)
  /\ UNCHANGED readers

-----------------------------------------------------------------------------
(* read_spin_lock *)

ReadLockEnter(c) == spin_lock_enter(c, "out", "r_rd")

ReadLockRd(c) == spin_lock_xchg(c, "rd", "r_rd", "r_inc")

\* Mutant: the test is on the value before the increment (a fetch-and-add).
ReadLockIncFetch(c) ==
  /\ pc[c] = "r_inc"
  /\ readers' = readers + 1
  /\ IF readers = 1
     THEN preempt_inc(c) /\ Goto(c, "r_wr")
     ELSE Goto(c, "r_pre") /\ UNCHANGED preempt_count
  /\ UNCHANGED lock

\* atomic_inc_read64; the first reader goes on to spin_lock(&wr_lock), whose
\* preempt_inc is taken here.
ReadLockInc(c) ==
  /\ pc[c] = "r_inc"
  /\ readers' = readers + 1
  /\ IF readers' = 1
     THEN preempt_inc(c) /\ Goto(c, "r_wr")
     ELSE Goto(c, "r_pre") /\ UNCHANGED preempt_count
  /\ UNCHANGED lock

ReadLockWr(c) == spin_lock_xchg(c, "wr", "r_wr", "r_pre")

ReadLockPreempt(c) ==
  /\ pc[c] = "r_pre"
  /\ preempt_inc(c)
  /\ Goto(c, "r_leave")
  /\ UNCHANGED <<lock, readers>>

ReadLockLeave(c) == spin_unlock(c, "rd", "r_leave", "reading")

(* read_spin_unlock *)

ReadUnlockEnter(c) == spin_lock_enter(c, "reading", "u_rd")

ReadUnlockRd(c) == spin_lock_xchg(c, "rd", "u_rd", "u_dec")

\* Mutant: the test is on the value before the decrement.
ReadUnlockDecFetch(c) ==
  /\ pc[c] = "u_dec"
  /\ readers' = readers - 1
  /\ Goto(c, IF readers = 0 THEN "u_wr" ELSE "u_pre")
  /\ UNCHANGED <<lock, preempt_count>>

\* atomic_dec_read64; whoever finds 0 releases wr_lock, whichever CPU took it.
ReadUnlockDec(c) ==
  /\ pc[c] = "u_dec"
  /\ readers' = readers - 1
  /\ Goto(c, IF readers' = 0 THEN "u_wr" ELSE "u_pre")
  /\ UNCHANGED <<lock, preempt_count>>

ReadUnlockWr(c) == spin_unlock(c, "wr", "u_wr", "u_pre")

\* Mutant: read_spin_unlock forgets the preempt_dec of its own.
ReadUnlockNoPreempt(c) ==
  /\ pc[c] = "u_pre"
  /\ Goto(c, "u_leave")
  /\ UNCHANGED <<lock, readers, preempt_count>>

ReadUnlockPreempt(c) ==
  /\ pc[c] = "u_pre"
  /\ preempt_dec(c)
  /\ Goto(c, "u_leave")
  /\ UNCHANGED <<lock, readers>>

ReadUnlockLeave(c) == spin_unlock(c, "rd", "u_leave", "out")

(* write_spin_lock and write_spin_unlock *)

WriteLockEnter(c) == spin_lock_enter(c, "out", "w_wr")

WriteLockWr(c) == spin_lock_xchg(c, "wr", "w_wr", "writing")

WriteUnlock(c) == spin_unlock(c, "wr", "writing", "out")

-----------------------------------------------------------------------------

\* A CPU decides to use the lock; nothing obliges it to.
Begin(c) == ReadLockEnter(c) \/ WriteLockEnter(c)

\* The steps of a CPU that has begun: it is executing kernel code, so it
\* keeps executing.
Work(c) ==
  \/ ReadLockRd(c) \/ ReadLockInc(c) \/ ReadLockWr(c) \/ ReadLockPreempt(c)
  \/ ReadLockLeave(c)
  \/ ReadUnlockEnter(c) \/ ReadUnlockRd(c) \/ ReadUnlockDec(c)
  \/ ReadUnlockWr(c) \/ ReadUnlockPreempt(c) \/ ReadUnlockLeave(c)
  \/ WriteLockWr(c) \/ WriteUnlock(c)

Next == \E c \in CPU : Begin(c) \/ Work(c)

Spec == Init /\ [][Next]_vars

FairSpec == Spec /\ \A c \in CPU : WF_vars(Work(c))

-----------------------------------------------------------------------------
(***************************************************************************)
(* Who is where.                                                           *)
(***************************************************************************)
HoldsRd(c) == pc[c] \in {"r_inc", "r_wr", "r_pre", "r_leave",
                         "u_dec", "u_wr", "u_pre", "u_leave"}
IsReader(c) == pc[c] \in {"r_pre", "r_leave", "reading", "u_rd", "u_dec"}
IsWriter(c) == pc[c] = "writing"
Inside(c) == pc[c] \in {"reading", "writing"}

\* The CPUs counted in readers, and the CPUs on whose behalf wr_lock is held.
Counted == {c \in CPU : pc[c] = "r_wr" \/ IsReader(c)}
WrUsers == {c \in CPU : IsWriter(c) \/ IsReader(c) \/ pc[c] = "u_wr"}

\* A writer of the page tables is alone: no second writer, and no reader from
\* the moment its read_spin_lock is past wr_lock to the moment its
\* read_spin_unlock decrements readers (include/sync.h, pgtab_lock).
RWExclusion ==
  \A c, d \in CPU : c # d /\ IsWriter(c) => ~IsWriter(d) /\ ~IsReader(d)

\* rd_lock serialises the readers' bookkeeping: at most one CPU is between
\* spin_lock(&rd_lock) and spin_unlock(&rd_lock), and then the word is 1.
RdExclusion ==
  \A c \in CPU :
    HoldsRd(c) => lock["rd"] = 1 /\ \A d \in CPU : HoldsRd(d) => d = c

\* The inductive invariant behind RWExclusion.
ReadersCounted == readers = Cardinality(Counted)

WrWord ==
  /\ lock["wr"] = 1 <=> WrUsers # {}
  /\ \A c, d \in CPU : IsWriter(c) /\ d \in WrUsers => d = c

FirstAndLast ==
  \A c \in CPU :
    /\ pc[c] = "r_wr" => Counted = {c}
    /\ pc[c] = "u_wr" => Counted = {}

IInv == TypeOK /\ RdExclusion /\ ReadersCounted /\ WrWord /\ FirstAndLast

\* The sum of f over the CPUs, for values up to n: one pair for each unit.
Total(f, n) == Cardinality({p \in CPU \X (1..n) : p[2] <= f[p[1]]})

\* preempt_count goes up and down with the locks over all CPUs together:
\* whenever nobody is inside or on the way, the counts add up to 0 modulo the
\* width of the counter (the preempt_inc/preempt_dec of spin.asm and sync.h).
PreemptBalancedOverall ==
  (\A c \in CPU : pc[c] = "out") =>
     Total(preempt_count, PreemptMod - 1) % PreemptMod = 0

\* The lock never wedges: as long as CPUs keep asking for it, one of them
\* keeps getting in (no deadlock between rd_lock and wr_lock, no wr_lock left
\* taken by readers that are gone).
Progress == (\E c \in CPU : pc[c] # "out") ~> (\E c \in CPU : Inside(c)) \/ (\A c \in CPU : pc[c] = "out")
=============================================================================
