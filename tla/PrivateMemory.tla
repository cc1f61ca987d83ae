--------------------------- MODULE PrivateMemory ----------------------------
(***************************************************************************)
(* What fork promises: every process has memory of its own, which at first *)
(* is a copy of its parent's and which only the process itself changes.    *)
(***************************************************************************)
CONSTANTS Proc, Slot, Val, first

VARIABLE memory  \* for each process its memory, or <<>> when there is no process

vars == memory

Alive(p) == memory[p] # <<>>

Init == \E v \in Val : memory = [p \in Proc |-> IF p = first THEN [s \in Slot |-> v] ELSE <<>>]

Store(p, s, v) == Alive(p) /\ memory' = [memory EXCEPT ![p][s] = v]
Fork(p, c) == Alive(p) /\ ~Alive(c) /\ memory' = [memory EXCEPT ![c] = memory[p]]
Exit(p) == Alive(p) /\ memory' = [memory EXCEPT ![p] = <<>>]

Next == \E p \in Proc : \/ \E s \in Slot, v \in Val : Store(p, s, v)
                        \/ \E c \in Proc : Fork(p, c)
                        \/ Exit(p)

Spec == Init /\ [][Next]_vars
=============================================================================
