---------------------------- MODULE OrderedQueue ----------------------------
(***************************************************************************)
(* What a run queue owes the scheduler: a sequence of tasks ordered by     *)
(* vruntime, first come first served among equals.  Sched works with this  *)
(* sequence; RbTree shows that the red-black tree of the code keeps it.    *)
(***************************************************************************)
EXTENDS Integers, Sequences, FiniteSets

CONSTANTS Node, vruntime
VARIABLE queue

Queued(q) == {q[i] : i \in DOMAIN q}

Inserted(q, t) ==
  LET k == Cardinality({i \in DOMAIN q : vruntime[q[i]] <= vruntime[t]})
  IN SubSeq(q, 1, k) \o <<t>> \o SubSeq(q, k + 1, Len(q))

Next ==
  \E q \in {queue}, r \in {queue'}, t \in Node :
    \/ t \notin Queued(q) /\ r = Inserted(q, t)
    \/ t \in Queued(q) /\ r = SelectSeq(q, LAMBDA u : u # t)

Spec == queue = <<>> /\ [][Next]_queue
=============================================================================
