------------------------------- MODULE RbTree -------------------------------
(***************************************************************************)
(* The red-black tree of libk/ds/rbtree.c and include/ds/rbtree.h, at the  *)
(* level of its pointers, as the run queue uses it (tree_insert and        *)
(* tree_remove of kernel/proc/runq.c).                                     *)
(*                                                                         *)
(* A tree is a record: root, most_left, and for each node the fields left, *)
(* right, parent and black (parent and colour share the word parent_color  *)
(* in the code).  The halves of the code that mirror each other are one    *)
(* definition with a side as its parameter.  One iteration of the loop of  *)
(* rb_insert, and one of erase_rebalance, is one step; the queue's lock is *)
(* held from the first step of an operation to its last, so operations do  *)
(* not overlap.  The key of a node does not change while it is in a tree;  *)
(* to insert a task again with another key is to insert another node.      *)
(***************************************************************************)
EXTENDS Integers, Sequences, FiniteSets

CONSTANTS
  Node,      \* the sched_entity.node of every task
  vruntime,  \* the key of each node
  NULL

ASSUME RbAssumption == NULL \notin Node /\ vruntime \in [Node -> Nat]

Pointer == Node \cup {NULL}

VARIABLES
  tree,        \* struct rbtree and the nodes
  num_threads, \* rq->num_threads
  op           \* the operation under way and its local variables

vars == <<tree, num_threads, op>>

Idle == [pc |-> "idle", node |-> NULL, x |-> NULL, xp |-> NULL,
         is_left |-> FALSE, most_left |-> FALSE]

TypeOK ==
  /\ tree \in [root : Pointer, most_left : Pointer, parent : [Node -> Pointer],
               left : [Node -> Pointer], right : [Node -> Pointer],
               black : [Node -> BOOLEAN]]
  /\ num_threads \in 0..Cardinality(Node)
  /\ op \in [pc : {"idle", "insert", "rebalance", "clear"}, node : Pointer,
             x : Pointer, xp : Pointer, is_left : BOOLEAN, most_left : BOOLEAN]

Init ==
  /\ tree = [root |-> NULL, most_left |-> NULL,
             parent |-> [n \in Node |-> NULL], left |-> [n \in Node |-> NULL],
             right |-> [n \in Node |-> NULL], black |-> [n \in Node |-> FALSE]]
  /\ num_threads = 0
  /\ op = Idle

-----------------------------------------------------------------------------
(* Pointers.  h is a tree in the middle of an operation. *)

Other(side) == IF side = "left" THEN "right" ELSE "left"

rb_is_black(h, n) == IF n = NULL THEN TRUE ELSE h.black[n]

SetBlack(h, n, b) == IF n = NULL THEN h ELSE [h EXCEPT !.black[n] = b]

SetParent(h, n, p) == IF n = NULL THEN h ELSE [h EXCEPT !.parent[n] = p]

\* Where p points at old (the root pointer when there is no p), it now points at new.
Relink(h, p, old, new) ==
  IF p = NULL THEN [h EXCEPT !.root = new]
  ELSE IF h.left[p] = old THEN [h EXCEPT !.left[p] = new]
  ELSE [h EXCEPT !.right[p] = new]

\* The last node on the way from n along one side.
Furthest(h, n, side) ==
  LET walk[m \in Node] == IF h[side][m] = NULL THEN m ELSE walk[h[side][m]]
  IN walk[n]

rb_next(h, n) ==
  LET up[m \in Node] == LET p == h.parent[m] IN
                        IF p # NULL /\ m = h.right[p] THEN up[p] ELSE p
  IN IF h.right[n] # NULL THEN Furthest(h, h.right[n], "left") ELSE up[n]

\* rotate_left and rotate_right: x goes down to the given side.
Rotate(h, x, side) ==
  LET o  == Other(side)
      y  == h[o][x]
      h1 == SetParent([h EXCEPT ![o][x] = h[side][y]], h[side][y], x)
      h2 == Relink(SetParent(h1, y, h.parent[x]), h.parent[x], x, y)
  IN SetParent([h2 EXCEPT ![side][y] = x], x, y)

\* The in-order sequence of the nodes, and the nodes in the tree.
InOrder(h) ==
  LET walk[n \in Pointer] == IF n = NULL THEN <<>>
                             ELSE walk[h.left[n]] \o <<n>> \o walk[h.right[n]]
  IN walk[h.root]

Linked(h) == LET s == InOrder(h) IN {s[i] : i \in DOMAIN s}

-----------------------------------------------------------------------------
(* Insertion. *)

rb_link_node(h, n, p, side) ==
  LET g == [h EXCEPT !.parent[n] = p, !.black[n] = FALSE,
                     !.left[n] = NULL, !.right[n] = NULL]
  IN IF p = NULL THEN [g EXCEPT !.root = n] ELSE [g EXCEPT ![side][p] = n]

\* Mutant: equal keys go to the left.
goes_left_equal(t, n) == vruntime[t] <= vruntime[n]

\* The comparison of the descent.
goes_left(t, n) == vruntime[t] < vruntime[n]

\* tree_insert: the descent to the place of t, then the call of rb_insert.
tree_insert(t) ==
  LET side(n) == IF goes_left(t, n) THEN "left" ELSE "right"
      last[n \in Node] == IF tree[side(n)][n] = NULL THEN n
                          ELSE last[tree[side(n)][n]]
      p == IF tree.root = NULL THEN NULL ELSE last[tree.root]
      first == tree.most_left
  IN /\ op.pc = "idle"
     /\ t \notin Linked(tree)
     /\ tree' = rb_link_node(tree, t, p, IF p = NULL THEN "left" ELSE side(p))
     /\ op' = [Idle EXCEPT !.pc = "insert", !.node = t, !.x = t,
                 !.most_left = first = NULL \/ vruntime[t] < vruntime[first]]
     /\ UNCHANGED num_threads

\* Case 4: an inner grandchild is first rotated outwards; then the grandparent
\* goes down and its colour is exchanged with the parent's.
insert_case4(h, n) ==
  LET gp    == h.parent[h.parent[n]]
      inner == CASE h.left[gp] # NULL /\ n = h.right[h.left[gp]] -> "left"
                 [] h.right[gp] # NULL /\ n = h.left[h.right[gp]] -> "right"
                 [] OTHER -> "none"
      h1 == IF inner = "none" THEN h ELSE Rotate(h, h.parent[n], inner)
      m  == IF inner = "none" THEN n ELSE h1[inner][n]
      p  == h1.parent[m]
      g  == h1.parent[p]
      side == IF m = h1.left[p] THEN "right" ELSE "left"
  IN SetBlack(SetBlack(Rotate(h1, g, side), p, TRUE), g, FALSE)

\* The end of rb_insert and of tree_insert: the cached first node, the count.
Insert_end(h) ==
  /\ tree' = IF op.most_left /\ h.left[op.node] = NULL
             THEN [h EXCEPT !.most_left = op.node] ELSE h
  /\ op' = Idle
  /\ num_threads' = num_threads + 1

\* The other child of the grandparent.
rb_uncle(h, n) ==
  LET p == h.parent[n]
      g == IF p = NULL THEN NULL ELSE h.parent[p]
  IN IF g = NULL THEN NULL ELSE IF p = h.left[g] THEN h.right[g] ELSE h.left[g]

insert_case1(h, n) == [SetBlack(h, n, TRUE) EXCEPT !.root = n]

\* Case 3: parent and uncle turn black, the grandparent red.
insert_case3(h, n) ==
  LET p == h.parent[n]
  IN SetBlack(SetBlack(SetBlack(h, p, TRUE), rb_uncle(h, n), TRUE), h.parent[p], FALSE)

\* One iteration of the loop of rb_insert.
rb_insert ==
  LET n == op.x
      p == tree.parent[n]
  IN /\ op.pc = "insert"
     /\ IF p = NULL THEN Insert_end(insert_case1(tree, n))
        ELSE IF rb_is_black(tree, p) THEN Insert_end(tree)
        ELSE IF rb_is_black(tree, rb_uncle(tree, n)) THEN Insert_end(insert_case4(tree, n))
        ELSE /\ tree' = insert_case3(tree, n)
             /\ op' = [op EXCEPT !.x = tree.parent[p]]
             /\ UNCHANGED num_threads

-----------------------------------------------------------------------------
(* Removal. *)

\* y takes the place and the colour of x.
rb_swap(h, x, y) ==
  LET h1 == Relink(SetParent(h, y, h.parent[x]), h.parent[x], x, y)
      h2 == SetParent([h1 EXCEPT !.right[y] = h.right[x]], h.right[x], y)
      h3 == SetParent([h2 EXCEPT !.left[y] = h.left[x]], h.left[x], y)
  IN [h3 EXCEPT !.left[x] = NULL, !.right[x] = NULL, !.parent[x] = NULL,
                !.black[y] = h.black[x]]

\* The cached first node when n leaves.
first_without(h, n) == IF n = h.most_left THEN rb_next(h, n) ELSE h.most_left

\* rb_erase up to the rebalancing: y is the node that is spliced out, n itself
\* or its predecessor, which then takes the place of n; x is its only child.
rb_erase(n) ==
  LET h1 == [tree EXCEPT !.most_left = first_without(tree, n)]
      y  == IF tree.left[n] # NULL /\ tree.right[n] # NULL
            THEN Furthest(tree, tree.left[n], "right") ELSE n
      x  == IF tree.left[y] # NULL THEN tree.left[y] ELSE tree.right[y]
      yp == tree.parent[y]
      h2 == Relink(SetParent(h1, x, yp), yp, y, x)
  IN /\ tree' = IF y = n THEN h2 ELSE rb_swap(h2, n, y)
     /\ op' = [Idle EXCEPT !.pc = IF tree.black[y] THEN "rebalance" ELSE "clear",
                 !.node = n, !.x = x, !.xp = IF yp = n THEN y ELSE yp,
                 !.is_left = yp # NULL /\ y = tree.left[yp]]

tree_remove(t) ==
  /\ op.pc = "idle"
  /\ t \in Linked(tree)
  /\ rb_erase(t)
  /\ UNCHANGED num_threads

\* The condition of the loop of erase_rebalance.
Unbalanced == op.x # tree.root /\ rb_is_black(tree, op.x)

\* Mutant: after case 2 the loop stays where it is.
erase_case2_stays(h, w) ==
  /\ tree' = SetBlack(h, w, FALSE)
  /\ UNCHANGED op

\* Mutant: the loop goes on with the side it had.
erase_case2_side(h, w) ==
  /\ tree' = SetBlack(h, w, FALSE)
  /\ op' = [op EXCEPT !.x = op.xp, !.xp = h.parent[op.xp]]

\* Case 2: the sibling w turns red and the loop goes on at the parent.
erase_case2(h, w) ==
  LET x == op.xp  xp == h.parent[x] IN
  /\ tree' = SetBlack(h, w, FALSE)
  /\ op' = [op EXCEPT !.x = x, !.xp = xp, !.is_left = xp # NULL /\ x = h.left[xp]]

\* Mutant: case 4 leaves the far nephew red.
erase_case4_red(h, w, near, far) ==
  LET xp == op.xp
      h2 == SetBlack([h EXCEPT !.black[w] = h.black[xp]], xp, TRUE)
      h3 == IF h[far][w] = NULL THEN h2 ELSE Rotate(h2, xp, near)
  IN /\ tree' = h3
     /\ op' = [op EXCEPT !.x = h3.root]

\* Case 4: the far nephew is red; a rotation at xp ends the loop.
erase_case4(h, w, near, far) ==
  LET xp == op.xp
      h2 == SetBlack([h EXCEPT !.black[w] = h.black[xp]], xp, TRUE)
      h3 == IF h[far][w] = NULL THEN h2
            ELSE Rotate(SetBlack(h2, h[far][w], TRUE), xp, near)
  IN /\ tree' = h3
     /\ op' = [op EXCEPT !.x = h3.root]

\* One iteration of erase_rebalance: case 1, then case 2, or 3 and 4.
erase_rebalance ==
  LET near == IF op.is_left THEN "left" ELSE "right"
      far  == Other(near)
      s    == tree[far][op.xp]
      h    == IF rb_is_black(tree, s) THEN tree
              ELSE Rotate(SetBlack(SetBlack(tree, s, TRUE), op.xp, FALSE), op.xp, near)
      w    == h[far][op.xp]
      Nephew(side) == IF w = NULL THEN NULL ELSE h[side][w]
      h3   == Rotate(SetBlack(SetBlack(h, w, FALSE), h[near][w], TRUE), w, far)
  IN /\ op.pc = "rebalance"
     /\ Unbalanced
     /\ IF rb_is_black(h, Nephew("left")) /\ rb_is_black(h, Nephew("right"))
        THEN erase_case2(h, w)
        ELSE IF rb_is_black(h, Nephew(far))
        THEN erase_case4(h3, h3[far][op.xp], near, far)
        ELSE erase_case4(h, w, near, far)
     /\ UNCHANGED num_threads

\* The end of erase_rebalance, rb_erase and tree_remove.  The colour of a node
\* outside the tree is dead, rb_link_node overwrites it; here it is red again.
Erase_end ==
  /\ op.pc = "clear" \/ (op.pc = "rebalance" /\ ~Unbalanced)
  /\ LET h == IF op.pc = "rebalance" THEN SetBlack(tree, op.x, TRUE) ELSE tree
     IN tree' = [h EXCEPT !.left[op.node] = NULL, !.right[op.node] = NULL,
                          !.parent[op.node] = NULL, !.black[op.node] = FALSE]
  /\ op' = Idle
  /\ num_threads' = num_threads - 1

Next ==
  \/ \E t \in Node : tree_insert(t) \/ tree_remove(t)
  \/ rb_insert
  \/ erase_rebalance
  \/ Erase_end

Spec == Init /\ [][Next]_vars

-----------------------------------------------------------------------------
(* Properties. *)

\* The black nodes on every way from the root to a leaf, 0 when two ways differ or
\* a red node has a red child.
BlackHeight(h) ==
  LET height[n \in Pointer] ==
        IF n = NULL THEN 1
        ELSE LET l == height[h.left[n]]
                 r == height[h.right[n]]
             IN IF h.black[n] THEN IF l = r /\ l # 0 THEN l + 1 ELSE 0
                ELSE IF /\ l = r
                        /\ rb_is_black(h, h.left[n])
                        /\ rb_is_black(h, h.right[n])
                THEN l ELSE 0
  IN height[h.root]

\* Between operations the tree is a red-black tree: a black root, no red node with
\* a red child, as many black nodes on every path, and the parent pointers are the
\* inverse of the child pointers (rb_insert, rb_erase and both rebalancings).  Then
\* most_left is the node an in-order walk meets first, so that runq_next takes the
\* task with the least vruntime, and num_threads is the number of nodes
\* (rb_insert's last lines, the first of rb_erase, tree_insert, tree_remove).
RedBlack ==
  /\ TypeOK
  /\ op.pc = "idle" =>
       /\ rb_is_black(tree, tree.root)
       /\ BlackHeight(tree) > 0
       /\ \A n \in Linked(tree), side \in {"left", "right"} :
            tree[side][n] # NULL => tree.parent[tree[side][n]] = n
       /\ tree.most_left = IF tree.root = NULL THEN NULL ELSE InOrder(tree)[1]
       /\ num_threads = Len(InOrder(tree))

\* While the loop of erase_rebalance runs, the node x is a child of xp on the side
\* is_left says, and its sibling exists: no iteration follows a null pointer.
SiblingExists ==
  op.pc = "rebalance" /\ Unbalanced =>
    /\ op.xp # NULL
    /\ op.x = (IF op.is_left THEN tree.left[op.xp] ELSE tree.right[op.xp])
    /\ (IF op.is_left THEN tree.right[op.xp] ELSE tree.left[op.xp]) # NULL

\* Every step of the pointer code is a step of the ordered queue or none: linking a
\* node inserts it behind its equals, splicing it out removes it and nothing else,
\* and no rotation reorders the tasks.
Queue == INSTANCE OrderedQueue WITH queue <- InOrder(tree)
Implements == Queue!Spec

\* Both loops end: an iteration of rb_insert or erase_rebalance that another one
\* follows has moved x nearer to the root.
Depth(h, n) ==
  LET depth[m \in Pointer] == IF m = NULL THEN 0 ELSE 1 + depth[h.parent[m]]
  IN IF n = NULL THEN Cardinality(Node) + 1 ELSE depth[n]

LoopsClimb ==
  [][op.pc \in {"insert", "rebalance"} /\ op'.pc = op.pc /\ (op'.pc = "rebalance" => Unbalanced')
       => Depth(tree', op'.x) < Depth(tree, op.x)]_vars
=============================================================================
