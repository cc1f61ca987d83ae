---------------------------- MODULE SchedProofs -----------------------------
(***************************************************************************)
(* Every runnable task is in exactly one place, for any number of CPUs and *)
(* tasks.  The run queues are sequences, so the proof starts from what the *)
(* two operations on them, tree_insert and the removal of the first task,  *)
(* do to their length, their elements, their order and their repetitions.  *)
(* The last part is about the barrier of the start-up: the two counters    *)
(* count the CPUs that have come up and that have arrived.                 *)
(***************************************************************************)
EXTENDS Sched, FiniteSetTheorems, TLAPS

\* The elements of a concatenation.
LEMMA Concat ==
  ASSUME NEW S, NEW p \in Seq(S), NEW q \in Seq(S)
  PROVE  /\ p \o q \in Seq(S) /\ Len(p \o q) = Len(p) + Len(q)
         /\ \A i \in 1..(Len(p) + Len(q)) :
              (p \o q)[i] = IF i <= Len(p) THEN p[i] ELSE q[i - Len(p)]
OBVIOUS

\* The elements of a part of a sequence.
LEMMA SubSeqElements ==
  ASSUME NEW S, NEW s, NEW m \in Int, NEW n \in Int, \A i \in m..n : s[i] \in S
  PROVE  /\ SubSeq(s, m, n) \in Seq(S)
         /\ Len(SubSeq(s, m, n)) = IF m <= n THEN n - m + 1 ELSE 0
         /\ \A i \in 1..(n - m + 1) : SubSeq(s, m, n)[i] = s[m + i - 1]
OBVIOUS

\* The elements behind the first.
LEMMA TailElements ==
  ASSUME NEW S, NEW s \in Seq(S), s # <<>>
  PROVE  /\ Head(s) \in S /\ Tail(s) \in Seq(S) /\ Len(Tail(s)) = Len(s) - 1
         /\ \A i \in 1..Len(Tail(s)) : Tail(s)[i] = s[i + 1]
OBVIOUS

Injective(q) == \A i, j \in DOMAIN q : q[i] = q[j] => i = j

Sorted(q, vr) == \A i, j \in DOMAIN q : i < j => vr[q[i]] <= vr[q[j]]

-----------------------------------------------------------------------------

\* The size of the interval a queue of n tasks is indexed by.
LEMMA Interval ==
  ASSUME NEW n \in Nat
  PROVE  IsFiniteSet(1..n) /\ Cardinality(1..n) = n
BY FS_Interval

\* The position at which tree_insert puts a task is a position of the queue,
\* and in a sorted queue it separates the tasks with at most its vruntime from
\* the others (the descent of tree_insert in runq.c).
LEMMA InsertPosition ==
  ASSUME NEW q \in Seq(Task), NEW t \in Task, NEW vr \in [Task -> Nat],
         NEW S, S = {i \in DOMAIN q : vr[q[i]] <= vr[t]}
  PROVE  /\ Cardinality(S) \in 0..Len(q)
         /\ Sorted(q, vr) => S = 1..Cardinality(S)
<1> DEFINE k == Cardinality(S)
<1>1. DOMAIN q = 1..Len(q) /\ Len(q) \in Nat
  OBVIOUS
<1>2. IsFiniteSet(1..Len(q)) /\ Cardinality(1..Len(q)) = Len(q)
  BY <1>1, Interval
<1>3. S \in SUBSET (1..Len(q))
  BY <1>1
<1>4. IsFiniteSet(S) /\ k \in Nat /\ k <= Len(q)
  <2>1. IsFiniteSet(S) /\ Cardinality(S) <= Cardinality(1..Len(q))
    BY <1>2, <1>3, FS_Subset
  <2> QED BY <1>2, <2>1, FS_CardinalityType
<1>5. ASSUME Sorted(q, vr) PROVE S = 1..k
  <2>1. \A i, j \in 1..Len(q) : j \in S /\ i <= j => i \in S
    BY <1>1, <1>5 DEF Sorted
  <2>2. ASSUME NEW j \in S PROVE j <= k
    <3>1. j \in 1..Len(q) /\ 1..j \in SUBSET S
      BY <1>1, <1>3, <2>1
    <3>2. Cardinality(1..j) <= k
      BY <1>4, <3>1, FS_Subset
    <3>3. Cardinality(1..j) = j
      BY <3>1, Interval
    <3> QED BY <3>2, <3>3
  <2>3. S \in SUBSET (1..k)
    BY <1>3, <1>4, <2>2
  <2>4. IsFiniteSet(1..k) /\ Cardinality(1..k) = k
    BY <1>4, Interval
  <2> QED BY ZenonT(30), <2>3, <2>4, FS_Subset
<1> QED BY <1>1, <1>4, <1>5

\* What a sequence with one element more looks like.
LEMMA InsertAfterElements ==
  ASSUME NEW q \in Seq(Task), NEW t \in Task, NEW k \in 0..Len(q)
  PROVE  /\ InsertAfter(q, k, t) \in Seq(Task)
         /\ Len(InsertAfter(q, k, t)) = Len(q) + 1
         /\ \A i \in 1..(Len(q) + 1) :
              InsertAfter(q, k, t)[i] =
                IF i <= k THEN q[i] ELSE IF i = k + 1 THEN t ELSE q[i - 1]
<1>r. PICK r : r = InsertAfter(q, k, t)
  OBVIOUS
<1> DEFINE a == SubSeq(q, 1, k)
           m == <<t>>
           b == SubSeq(q, k + 1, Len(q))
<1>0. Len(q) \in Nat /\ k \in Nat /\ k <= Len(q) /\ (k + 1) - 1 = k
  OBVIOUS
<1>1. a \in Seq(Task) /\ Len(a) = k /\ \A i \in 1..k : a[i] = q[i]
  <2>1. CASE k = 0
    BY <2>1, SubSeqElements
  <2>2. CASE k > 0
    BY <1>0, <2>2, SubSeqElements
  <2> QED BY <1>0, <2>1, <2>2
<1>2. b \in Seq(Task) /\ Len(b) = Len(q) - k /\ \A i \in 1..(Len(q) - k) : b[i] = q[i + k]
  <2>1. \A i \in (k + 1)..Len(q) : q[i] \in Task
    BY <1>0
  <2>2. /\ b \in Seq(Task)
        /\ Len(b) = IF k + 1 <= Len(q) THEN Len(q) - (k + 1) + 1 ELSE 0
        /\ \A i \in 1..(Len(q) - (k + 1) + 1) : b[i] = q[(k + 1) + i - 1]
    BY <1>0, <2>1, SubSeqElements
  <2> HIDE DEF b
  <2>3. Len(b) = Len(q) - k
    BY <1>0, <2>2
  <2>4. ASSUME NEW i \in 1..(Len(q) - k) PROVE b[i] = q[i + k]
    <3>1. i \in 1..(Len(q) - (k + 1) + 1) /\ (k + 1) + i - 1 = i + k
      BY <1>0
    <3> QED BY <2>2, <3>1
  <2> QED BY <2>2, <2>3, <2>4
<1>3. m \in Seq(Task) /\ Len(m) = 1 /\ m[1] = t
  OBVIOUS
<1>4. r = (a \o m) \o b
  BY <1>0, <1>r, Zenon DEF InsertAfter
<1> HIDE DEF a, m, b
<1> DEFINE am == a \o m
<1>5. /\ am \in Seq(Task) /\ Len(am) = k + 1
      /\ \A i \in 1..(k + 1) : am[i] = IF i <= k THEN q[i] ELSE t
  <2>1. /\ am \in Seq(Task) /\ Len(am) = Len(a) + Len(m)
        /\ \A i \in 1..(Len(a) + Len(m)) :
             am[i] = IF i <= Len(a) THEN a[i] ELSE m[i - Len(a)]
    BY ZenonT(30), <1>1, <1>3, Concat
  <2> HIDE DEF am
  <2>2. Len(am) = k + 1
    BY <1>0, <1>1, <1>3, <2>1
  <2>3. ASSUME NEW i \in 1..(k + 1) PROVE am[i] = IF i <= k THEN q[i] ELSE t
    <3>1. am[i] = IF i <= k THEN a[i] ELSE m[i - k]
      BY <1>0, <1>1, <1>3, <2>1
    <3>2. CASE i <= k
      BY <1>0, <1>1, <3>1, <3>2
    <3>3. CASE i = k + 1
      <4>1. i - k = 1 /\ ~(i <= k)
        BY <1>0, <3>3
      <4> QED BY <1>3, <3>1, <4>1
    <3> QED BY <1>0, <3>2, <3>3
  <2> QED BY <2>1, <2>2, <2>3
<1>6. r = am \o b
  BY <1>4
<1> HIDE DEF am
<1>7. r \in Seq(Task) /\ Len(r) = Len(q) + 1
  <2>1. r \in Seq(Task) /\ Len(r) = Len(am) + Len(b)
    BY ZenonT(30), <1>2, <1>5, <1>6, Concat
  <2> QED BY <1>0, <1>2, <1>5, <2>1
<1>8. ASSUME NEW i \in 1..(Len(q) + 1)
      PROVE  r[i] = IF i <= k THEN q[i] ELSE IF i = k + 1 THEN t ELSE q[i - 1]
  <2>1. i \in 1..(Len(am) + Len(b))
    BY <1>0, <1>2, <1>5
  <2>2. r[i] = IF i <= Len(am) THEN am[i] ELSE b[i - Len(am)]
    BY ZenonT(30), <1>2, <1>5, <1>6, <2>1, Concat
  <2>3. CASE i <= k + 1
    BY <1>0, <1>5, <2>2, <2>3
  <2>4. CASE i > k + 1
    <3>1. i - (k + 1) \in 1..(Len(q) - k) /\ (i - (k + 1)) + k = i - 1
      BY <1>0, <2>4
    <3>2. r[i] = b[i - (k + 1)]
      BY <1>0, <1>5, <2>2, <2>4
    <3>3. b[i - (k + 1)] = q[i - 1]
      BY <1>2, <3>1
    <3> QED BY <1>0, <2>4, <3>2, <3>3
  <2> QED BY <1>0, <2>3, <2>4
<1> QED BY <1>r, <1>7, <1>8

\* tree_insert adds the task once and keeps the queue sorted.
LEMMA TreeInsert ==
  ASSUME NEW q \in Seq(Task), NEW t \in Task, NEW vr \in [Task -> Nat],
         Injective(q), t \notin Range(q), Sorted(q, vr)
  PROVE  /\ tree_insert(q, t, vr) \in Seq(Task)
         /\ Len(tree_insert(q, t, vr)) = Len(q) + 1
         /\ Range(tree_insert(q, t, vr)) = Range(q) \cup {t}
         /\ Injective(tree_insert(q, t, vr))
         /\ Sorted(tree_insert(q, t, vr), vr)
<1>0. PICK r : r = tree_insert(q, t, vr)
  OBVIOUS
<1>1. PICK S : S = {i \in DOMAIN q : vr[q[i]] <= vr[t]}
  BY ZenonT(30)
<1>2. PICK k : k = Cardinality(S)
  OBVIOUS
<1>3. k \in 0..Len(q) /\ S = 1..k
  BY ZenonT(30), <1>1, <1>2, InsertPosition
<1>4. r = InsertAfter(q, k, t)
  BY <1>0, <1>1, <1>2 DEF tree_insert
<1>5. PICK n \in Nat : n = Len(q)
  OBVIOUS
<1>6. DOMAIN q = 1..n /\ k \in 0..n /\ \A i \in 1..n : q[i] \in Task
  BY <1>3, <1>5
<1>7. /\ r \in Seq(Task) /\ Len(r) = Len(q) + 1
      /\ \A i \in 1..(Len(q) + 1) :
           r[i] = IF i <= k THEN q[i] ELSE IF i = k + 1 THEN t ELSE q[i - 1]
  <2>1. k \in 0..Len(q)
    BY <1>3
  <2>2. /\ InsertAfter(q, k, t) \in Seq(Task)
        /\ Len(InsertAfter(q, k, t)) = Len(q) + 1
        /\ \A i \in 1..(Len(q) + 1) :
             InsertAfter(q, k, t)[i] =
               IF i <= k THEN q[i] ELSE IF i = k + 1 THEN t ELSE q[i - 1]
    BY <2>1, InsertAfterElements, Zenon
  <2>3. r \in Seq(Task) /\ Len(r) = Len(q) + 1
    BY <1>4, <2>2, Zenon
  <2>4. ASSUME NEW i \in 1..(Len(q) + 1)
        PROVE  r[i] = IF i <= k THEN q[i] ELSE IF i = k + 1 THEN t ELSE q[i - 1]
    <3>1. r[i] = InsertAfter(q, k, t)[i]
      BY <1>4, Zenon
    <3>2. InsertAfter(q, k, t)[i] =
            IF i <= k THEN q[i] ELSE IF i = k + 1 THEN t ELSE q[i - 1]
      BY <2>2, Zenon
    <3> QED BY <3>1, <3>2, Zenon
  <2> QED BY <2>3, <2>4, Zenon
<1>8. DOMAIN r = 1..(n + 1)
  BY <1>5, <1>7
<1>9. \A i \in 1..(n + 1) :
        r[i] = IF i <= k THEN q[i] ELSE IF i = k + 1 THEN t ELSE q[i - 1]
  BY <1>5, <1>7
<1>10. r[k + 1] = t
  BY <1>6, <1>9
<1> DEFINE from(i) == IF i <= k THEN i ELSE i - 1
<1>a. \A i \in 1..(n + 1) : i # k + 1 => from(i) \in 1..n /\ r[i] = q[from(i)]
  BY <1>6, <1>9
<1>b. \A i, j \in 1..(n + 1) :
        i # k + 1 /\ j # k + 1 /\ i < j => from(i) < from(j)
  BY <1>6
<1>c. \A i \in 1..(n + 1) : (i < k + 1 => from(i) <= k) /\ (i > k + 1 => ~(from(i) <= k))
  BY <1>6
<1>d. ASSUME NEW i \in 1..n
      PROVE  r[IF i <= k THEN i ELSE i + 1] = q[i]
  <2>1. CASE i <= k
    <3>1. i \in 1..(n + 1)
      BY <1>6
    <3> QED BY <1>9, <2>1, <3>1
  <2>2. CASE ~(i <= k)
    <3>1. i + 1 \in 1..(n + 1) /\ ~(i + 1 <= k) /\ i + 1 # k + 1 /\ (i + 1) - 1 = i
      BY <1>6, <2>2
    <3> QED BY <1>9, <2>2, <3>1
  <2> QED BY <2>1, <2>2
<1> HIDE DEF from
<1>11. Range(r) = Range(q) \cup {t}
  <2>1. ASSUME NEW i \in 1..(n + 1) PROVE r[i] \in Range(q) \cup {t}
    BY ZenonT(30), <1>6, <1>10, <1>a DEF Range
  <2>2. t \in Range(r)
    BY <1>6, <1>8, <1>10 DEF Range
  <2>3. ASSUME NEW i \in 1..n PROVE q[i] \in Range(r)
    <3>1. (IF i <= k THEN i ELSE i + 1) \in 1..(n + 1)
      BY <1>6
    <3> QED BY ZenonT(30), <1>8, <1>d, <3>1 DEF Range
  <2>4. \A x \in Range(r) : x \in Range(q) \cup {t}
    BY <1>8, <2>1 DEF Range
  <2>5. \A x \in Range(q) : x \in Range(r)
    BY <1>6, <2>3 DEF Range
  <2> QED BY <2>2, <2>4, <2>5
<1>12. Injective(r)
  <2>1. \A i \in 1..n : q[i] # t
    BY <1>6 DEF Range
  <2>2. \A i, j \in 1..n : q[i] = q[j] => i = j
    BY <1>6 DEF Injective
  <2>3. ASSUME NEW i \in 1..(n + 1), NEW j \in 1..(n + 1), i < j PROVE r[i] # r[j]
    <3>1. CASE i = k + 1
      <4>1. from(j) \in 1..n /\ r[j] = q[from(j)]
        BY <1>6, <1>a, <2>3, <3>1
      <4> QED BY <1>10, <2>1, <3>1, <4>1
    <3>2. CASE j = k + 1
      <4>1. from(i) \in 1..n /\ r[i] = q[from(i)]
        BY <1>6, <1>a, <2>3, <3>2
      <4> QED BY <1>10, <2>1, <3>2, <4>1
    <3>3. CASE i # k + 1 /\ j # k + 1
      <4>1. /\ from(i) \in 1..n /\ r[i] = q[from(i)]
            /\ from(j) \in 1..n /\ r[j] = q[from(j)]
        BY <1>a, <3>3
      <4>2. from(i) < from(j)
        BY <1>b, <2>3, <3>3
      <4>3. from(i) # from(j)
        BY <4>1, <4>2
      <4> QED BY <2>2, <4>1, <4>3
    <3> QED BY <3>1, <3>2, <3>3
  <2>4. ASSUME NEW i \in 1..(n + 1), NEW j \in 1..(n + 1), r[i] = r[j] PROVE i = j
    <3>1. ~(i < j) /\ ~(j < i)
      BY <2>3, <2>4
    <3> QED BY <3>1
  <2> QED BY <1>8, <2>4 DEF Injective
<1>13. Sorted(r, vr)
  <2>1. \A i \in 1..n : (i <= k) <=> vr[q[i]] <= vr[t]
    BY <1>1, <1>3, <1>6
  <2>2. \A i, j \in 1..n : i < j => vr[q[i]] <= vr[q[j]]
    BY ZenonT(30), <1>6 DEF Sorted
  <2>3. \A i \in 1..n : vr[q[i]] \in Nat
    BY <1>6
  <2>4. ASSUME NEW i \in 1..(n + 1), NEW j \in 1..(n + 1), i < j
        PROVE  vr[r[i]] <= vr[r[j]]
    <3>1. CASE i = k + 1
      BY <1>6, <1>10, <1>a, <1>c, <2>1, <2>3, <2>4, <3>1
    <3>2. CASE j = k + 1
      BY ZenonT(30), <1>6, <1>10, <1>a, <1>c, <2>1, <2>3, <2>4, <3>2
    <3>3. CASE i # k + 1 /\ j # k + 1
      BY ZenonT(30), <1>a, <1>b, <2>2, <2>4, <3>3
    <3> QED BY <3>1, <3>2, <3>3
  <2> QED BY <1>8, <2>4 DEF Sorted
<1> QED BY <1>0, <1>7, <1>11, <1>12, <1>13, Zenon

\* The removal of the first task.
LEMMA TailOf ==
  ASSUME NEW q \in Seq(Task), q # <<>>, NEW vr \in [Task -> Nat]
  PROVE  /\ Head(q) \in Task /\ Head(q) \in Range(q)
         /\ Tail(q) \in Seq(Task)
         /\ Len(Tail(q)) = Len(q) - 1
         /\ Range(q) = Range(Tail(q)) \cup {Head(q)}
         /\ Injective(q) => Injective(Tail(q)) /\ Head(q) \notin Range(Tail(q))
         /\ Sorted(q, vr) => Sorted(Tail(q), vr)
<1>1. PICK r : r = Tail(q)
  BY ZenonT(30)
<1>2. PICK n \in Nat : n = Len(q)
  OBVIOUS
<1>3. /\ DOMAIN q = 1..n /\ n > 0 /\ Head(q) = q[1]
      /\ \A i \in 1..n : q[i] \in Task
  BY <1>2
<1>4. /\ r \in Seq(Task) /\ Len(r) = n - 1
      /\ \A i \in 1..(n - 1) : r[i] = q[i + 1]
  BY <1>1, <1>2, <1>3, TailElements
<1>5. DOMAIN r = 1..(n - 1)
  BY <1>4
<1>6. Range(q) = Range(r) \cup {q[1]}
  <2>1. ASSUME NEW i \in 1..(n - 1) PROVE r[i] \in Range(q)
    <3>1. i + 1 \in 1..n /\ r[i] = q[i + 1]
      BY <1>4
    <3> QED BY <1>3, <3>1 DEF Range
  <2>2. ASSUME NEW j \in 1..n, j # 1 PROVE q[j] \in Range(r)
    <3>1. j - 1 \in 1..(n - 1) /\ (j - 1) + 1 = j
      BY <2>2
    <3>2. r[j - 1] = q[j]
      BY <1>4, <3>1
    <3> QED BY ZenonT(30), <1>5, <3>1, <3>2 DEF Range
  <2>3. \A x \in Range(r) : x \in Range(q)
    BY <1>5, <2>1 DEF Range
  <2>4. \A x \in Range(q) : x = q[1] \/ x \in Range(r)
    BY <1>3, <2>2 DEF Range
  <2>5. q[1] \in Range(q)
    BY <1>3 DEF Range
  <2> QED BY <2>3, <2>4, <2>5
<1>7. ASSUME Injective(q) PROVE Injective(r) /\ q[1] \notin Range(r)
  <2>1. \A i, j \in 1..n : q[i] = q[j] => i = j
    BY <1>3, <1>7 DEF Injective
  <2>2. \A i, j \in 1..(n - 1) : r[i] = r[j] => i = j
    BY <1>4, <2>1
  <2>3. \A i \in 1..(n - 1) : r[i] # q[1]
    BY <1>3, <1>4, <2>1
  <2>4. q[1] \notin Range(r)
    BY <1>5, <2>3 DEF Range
  <2> QED BY <1>5, <2>2, <2>4 DEF Injective
<1>8. ASSUME Sorted(q, vr) PROVE Sorted(r, vr)
  <2>1. \A i, j \in 1..n : i < j => vr[q[i]] <= vr[q[j]]
    BY <1>3, <1>8 DEF Sorted
  <2>2. ASSUME NEW i \in 1..(n - 1), NEW j \in 1..(n - 1), i < j
        PROVE  vr[r[i]] <= vr[r[j]]
    <3>1. i + 1 \in 1..n /\ j + 1 \in 1..n /\ i + 1 < j + 1
      BY <2>2
    <3>2. r[i] = q[i + 1] /\ r[j] = q[j + 1]
      BY <1>4
    <3> QED BY <2>1, <3>1, <3>2
  <2> QED BY <1>5, <2>2 DEF Sorted
<1> QED BY <1>1, <1>2, <1>3, <1>4, <1>6, <1>7, <1>8

-----------------------------------------------------------------------------
(* The queues of all CPUs together. *)

QueuesOK(Q, vr) ==
  /\ \A c \in CPU : Q[c] \in Seq(Task) /\ Injective(Q[c]) /\ Sorted(Q[c], vr)
  /\ \A c, d \in CPU : c # d => Range(Q[c]) \cap Range(Q[d]) = {}

Absent(Q, t) == \A c \in CPU : t \notin Range(Q[c])

\* The order of the queues does not depend on the vruntime of a task that is
\* in none of them: schedule may increment that of current.
LEMMA OtherVruntime ==
  ASSUME NEW Q, NEW vr \in [Task -> Nat], QueuesOK(Q, vr),
         NEW t \in Task, Absent(Q, t),
         NEW w \in [Task -> Nat], \A u \in Task : u # t => w[u] = vr[u]
  PROVE  QueuesOK(Q, w)
<1>1. ASSUME NEW c \in CPU PROVE Sorted(Q[c], w)
  <2>1. \A i \in DOMAIN Q[c] : Q[c][i] \in Task /\ Q[c][i] # t
    BY DEF Absent, Range, QueuesOK
  <2>2. \A i \in DOMAIN Q[c] : w[Q[c][i]] = vr[Q[c][i]]
    BY <2>1
  <2>3. Sorted(Q[c], vr)
    BY DEF QueuesOK
  <2> QED BY <2>2, <2>3 DEF Sorted
<1> QED BY ZenonT(30), <1>1 DEF QueuesOK

\* runq_add on one of them.
LEMMA QueuesInsert ==
  ASSUME NEW Q, NEW R, NEW vr \in [Task -> Nat], NEW c \in CPU, NEW t \in Task,
         QueuesOK(Q, vr), Absent(Q, t),
         R[c] = tree_insert(Q[c], t, vr), \A d \in CPU : d # c => R[d] = Q[d]
  PROVE  QueuesOK(R, vr)
<1>1. Q[c] \in Seq(Task) /\ Injective(Q[c]) /\ Sorted(Q[c], vr) /\ t \notin Range(Q[c])
  BY DEF QueuesOK, Absent
<1>3. /\ R[c] \in Seq(Task)
      /\ Len(R[c]) = Len(Q[c]) + 1
      /\ Range(R[c]) = Range(Q[c]) \cup {t}
      /\ Injective(R[c]) /\ Sorted(R[c], vr)
  <2>1. /\ tree_insert(Q[c], t, vr) \in Seq(Task)
        /\ Len(tree_insert(Q[c], t, vr)) = Len(Q[c]) + 1
        /\ Range(tree_insert(Q[c], t, vr)) = Range(Q[c]) \cup {t}
        /\ Injective(tree_insert(Q[c], t, vr))
        /\ Sorted(tree_insert(Q[c], t, vr), vr)
    BY <1>1, TreeInsert, Zenon
  <2> QED BY <2>1, Zenon
<1>5. ASSUME NEW a \in CPU, NEW b \in CPU, a # b, NEW x
      PROVE  ~(x \in Range(R[a]) /\ x \in Range(R[b]))
  <2>1. \A d \in CPU : d # c => Range(R[d]) = Range(Q[d]) /\ t \notin Range(Q[d])
    BY DEF Absent
  <2>2. ~(x \in Range(Q[a]) /\ x \in Range(Q[b]))
    BY ZenonT(30), <1>5 DEF QueuesOK
  <2>3. CASE a = c
    BY <1>3, <1>5, <2>1, <2>2, <2>3, Zenon
  <2>4. CASE b = c
    BY <1>3, <1>5, <2>1, <2>2, <2>4, Zenon
  <2>5. CASE a # c /\ b # c
    BY <1>5, <2>1, <2>2, <2>5, Zenon
  <2> QED BY <2>3, <2>4, <2>5
<1>6. \A d \in CPU : R[d] \in Seq(Task) /\ Injective(R[d]) /\ Sorted(R[d], vr)
  BY <1>3 DEF QueuesOK
<1> QED BY ZenonT(30), <1>3, <1>5, <1>6 DEF QueuesOK

\* The pop of the first task of one of them.
LEMMA QueuesRemove ==
  ASSUME NEW Q, NEW R, NEW vr \in [Task -> Nat], NEW c \in CPU,
         QueuesOK(Q, vr), Q[c] # <<>>,
         R[c] = Tail(Q[c]), \A d \in CPU : d # c => R[d] = Q[d]
  PROVE  QueuesOK(R, vr) /\ Absent(R, Head(Q[c]))
<1>1. Q[c] \in Seq(Task) /\ Injective(Q[c]) /\ Sorted(Q[c], vr)
  BY DEF QueuesOK
<1>3. /\ R[c] \in Seq(Task)
      /\ Len(R[c]) = Len(Q[c]) - 1
      /\ Head(Q[c]) \in Task
      /\ Range(Q[c]) = Range(R[c]) \cup {Head(Q[c])}
      /\ Injective(R[c]) /\ Sorted(R[c], vr)
      /\ Head(Q[c]) \notin Range(R[c])
  <2>1. /\ Tail(Q[c]) \in Seq(Task)
        /\ Len(Tail(Q[c])) = Len(Q[c]) - 1
        /\ Head(Q[c]) \in Task
        /\ Range(Q[c]) = Range(Tail(Q[c])) \cup {Head(Q[c])}
        /\ Injective(Tail(Q[c])) /\ Sorted(Tail(Q[c]), vr)
        /\ Head(Q[c]) \notin Range(Tail(Q[c]))
    BY <1>1, TailOf, Zenon
  <2> QED BY <2>1, Zenon
<1>5. \A a, b \in CPU : a # b => Range(R[a]) \cap Range(R[b]) = {}
  BY ZenonT(30), <1>3 DEF QueuesOK
<1>6. \A d \in CPU : R[d] \in Seq(Task) /\ Injective(R[d]) /\ Sorted(R[d], vr)
  BY ZenonT(30), <1>3 DEF QueuesOK
<1>7. Absent(R, Head(Q[c]))
  BY ZenonT(30), <1>3 DEF Absent, QueuesOK
<1> QED BY ZenonT(30), <1>3, <1>5, <1>6, <1>7 DEF QueuesOK

\* The same said of the state.
LEMMA InvQueues ==
  ASSUME IInv
  PROVE  QueuesOK(queue, vruntime)
BY DEF IInv, TypeOK, OnePlace, QueueSorted, QueuesOK, Injective, Sorted, Queued

\* And back: what is said of the queues gives these conjuncts of the invariant.
LEMMA QueuesInv ==
  ASSUME QueuesOK(queue, vruntime)',
         (\A c, d \in CPU, t \in Task : Holds(c, t) =>
            /\ t \notin Queued(d)
            /\ Holds(d, t) => d = c)'
  PROVE  OnePlace' /\ QueueSorted'
BY ZenonT(30) DEF OnePlace, QueueSorted, QueuesOK, Injective, Sorted, Queued

-----------------------------------------------------------------------------
(* The invariant, action by action. *)

\* What an action keeps that moves no task.
LEMMA NothingMoves ==
  ASSUME IInv, UNCHANGED <<queue, num_threads, vruntime>>,
         \A c \in CPU, t \in Task : Holds(c, t)' <=> Holds(c, t)
  PROVE  OnePlace' /\ ThreadsCounted' /\ QueueSorted'
BY ZenonT(30) DEF IInv, OnePlace, ThreadsCounted, QueueSorted, Queued

\* A task that a CPU holds is in no queue and with no other CPU.
LEMMA HeldOnce ==
  ASSUME IInv
  PROVE  \A e, d \in CPU, u \in Task : Holds(e, u) =>
           /\ u \notin Queued(d)
           /\ Holds(d, u) => d = e
BY Zenon DEF IInv, OnePlace

\* A CPU is not a task.
LEMMA CpuNotTask == \A c \in CPU : c \notin Task
BY TaskAssumption

\* There is a bootstrap processor.
LEMMA ZeroIsCpu == 0 \in CPU
BY NCPUAssumption DEF CPU

\* Before the CPUs come up (sched_init) nothing is queued.
LEMMA InitInv == Init => IInv
<1> SUFFICES ASSUME Init PROVE IInv
  OBVIOUS
<1> USE DEF Init
<1>1. TypeOK
  BY NCPUAssumption, TaskAssumption, BoundAssumption DEF TypeOK, Entity, PCs, CPU
<1>2. \A c \in CPU : Queued(c) = {} /\ DOMAIN queue[c] = {} /\ Len(queue[c]) = 0
  BY DEF Queued, Range
<1>3. \A c \in CPU, t \in Task : ~Holds(c, t)
  BY DEF Holds
<1>4. OnePlace /\ NoneLost /\ ThreadsCounted /\ QueueSorted
  BY <1>2, <1>3 DEF OnePlace, NoneLost, ThreadsCounted, QueueSorted
<1>6. Startup /\ PlacedRunnable /\ Children /\ PullsFromOther
  BY <1>2, <1>3, ZeroIsCpu DEF Startup, PlacedRunnable, Children, PullsFromOther
<1> QED BY <1>1, <1>4, <1>6 DEF IInv

\* The CPUs come up and meet at the barrier: no CPU has a task yet.
LEMMA BootStep ==
  ASSUME IInv, NEW c \in CPU, smp_ap_kmain(c) \/ sched_run_ap(c) \/ wait_for_schedulers(c)
  PROVE  IInv'
<1> USE DEF smp_ap_kmain, sched_run_ap, wait_for_schedulers, boot, Goto
<1>1. TypeOK'
  <2>1. CASE smp_ap_kmain(c)
    BY <2>1 DEF IInv, TypeOK, PCs
  <2>2. CASE sched_run_ap(c)
    BY <2>2 DEF IInv, TypeOK, PCs
  <2>3. CASE wait_for_schedulers(c)
    BY <2>3 DEF IInv, TypeOK, PCs
  <2> QED BY <2>1, <2>2, <2>3
<1>2. current[c] \in CPU /\ pc[c] \in {"off", "online", "barrier"} /\ pc \in [CPU -> PCs]
  BY DEF IInv, Startup, TypeOK
<1>3. /\ UNCHANGED <<state, queue, num_threads, vruntime, current, next, other>>
      /\ pc'[c] \in {"online", "barrier", "add"}
      /\ \A d \in CPU : d # c => pc'[d] = pc[d]
      /\ pc[c] = "online" => c # 0
      /\ pc[c] = "off" => pc'[c] = "online"
      /\ pc[c] # "off" => pc'[c] # "online"
  BY <1>2
<1> HIDE DEF smp_ap_kmain, sched_run_ap, wait_for_schedulers, boot, Goto
<1>4. \A d \in CPU, t \in Task : Holds(d, t)' <=> Holds(d, t)
  BY <1>2, <1>3, CpuNotTask DEF Holds
<1>5. OnePlace' /\ ThreadsCounted' /\ QueueSorted'
  BY <1>3, <1>4, NothingMoves
<1>6. NoneLost'
  BY <1>2, <1>3, <1>4 DEF IInv, NoneLost, Queued
<1>7. Startup'
  BY <1>2, <1>3, ZeroIsCpu DEF IInv, Startup
<1>8. PlacedRunnable'
  BY <1>3, <1>4 DEF IInv, PlacedRunnable, Queued
<1>9. Children' /\ PullsFromOther'
  BY <1>2, <1>3 DEF IInv, Children, PullsFromOther
<1> QED BY <1>1, <1>5, <1>6, <1>7, <1>8, <1>9 DEF IInv
\* sched_yield and the timer tick: the CPU keeps the task it runs.
LEMMA RunStep ==
  ASSUME IInv, NEW c \in CPU, sched_yield(c) \/ lapic_timer_callback(c)
  PROVE  IInv'
<1> USE DEF sched_yield, lapic_timer_callback, boot, Goto
<1>1. TypeOK'
  <2>1. CASE sched_yield(c)
    BY <2>1 DEF IInv, TypeOK, PCs
  <2>2. CASE lapic_timer_callback(c)
    <3>1. num_slices' \in [Entity -> 0..MAX_SLICES]
      BY <2>2, BoundAssumption DEF IInv, TypeOK
    <3> QED BY ZenonT(30), <2>2, <3>1 DEF IInv, TypeOK, PCs
  <2> QED BY <2>1, <2>2
<1>2. /\ pc \in [CPU -> PCs] /\ pc[c] = "run"
      /\ UNCHANGED <<state, queue, num_threads, vruntime, current, next, other>>
      /\ pc'[c] \in {"run", "add"}
      /\ \A d \in CPU : d # c => pc'[d] = pc[d]
  BY DEF IInv, TypeOK
<1> HIDE DEF sched_yield, lapic_timer_callback, boot, Goto
<1>3. \A d \in CPU, t \in Task : Holds(d, t)' <=> Holds(d, t)
  BY <1>2 DEF Holds
<1>4. OnePlace' /\ ThreadsCounted' /\ QueueSorted'
  BY ZenonT(30), <1>2, <1>3, NothingMoves
<1>5. NoneLost'
  BY <1>2, <1>3 DEF IInv, NoneLost, Queued
<1>6. Startup'
  BY ZenonT(30), <1>2, ZeroIsCpu DEF IInv, Startup
<1>7. PlacedRunnable'
  BY <1>2, <1>3 DEF IInv, PlacedRunnable, Queued
<1>8. Children' /\ PullsFromOther'
  <2>1. Children'
    BY <1>2 DEF IInv, Children
  <2>2. PullsFromOther'
    BY <1>2, ZenonT(30) DEF IInv, PullsFromOther
  <2> QED BY <2>1, <2>2, Zenon
<1> QED BY <1>1, <1>4, <1>5, <1>6, <1>7, <1>8 DEF IInv

\* task_fork: the child is nobody's yet.
LEMMA ForkStep ==
  ASSUME IInv, NEW c \in CPU, NEW t \in Task, task_fork(c, t)
  PROVE  IInv'
<1> USE DEF task_fork, boot, Goto
<1>1. TypeOK'
  <2>1. running' \in SUBSET Entity /\ next' \in [CPU -> Entity]
    BY DEF IInv, TypeOK, Entity
  <2> QED BY <2>1 DEF IInv, TypeOK, PCs
<1>2. /\ pc \in [CPU -> PCs] /\ pc[c] = "run" /\ current[c] \in Task
      /\ state \in [Task -> {"free", "NOT_STARTED", "RUNNABLE"}]
      /\ state[t] = "free" /\ state' = [state EXCEPT ![t] = "NOT_STARTED"]
      /\ UNCHANGED <<queue, num_threads, vruntime, current, other>>
      /\ pc'[c] = "wake" /\ next'[c] = t
      /\ \A d \in CPU : d # c => pc'[d] = pc[d] /\ next'[d] = next[d]
  BY DEF IInv, TypeOK
<1> HIDE DEF task_fork, boot, Goto
<1>3. \A d \in CPU, u \in Task : Holds(d, u)' <=> Holds(d, u)
  BY <1>2 DEF Holds
<1>4. OnePlace' /\ ThreadsCounted' /\ QueueSorted'
  BY <1>2, <1>3, NothingMoves
<1>5. NoneLost'
  BY <1>2, <1>3 DEF IInv, NoneLost, Queued
<1>6. Startup'
  <2>1. state[current[c]] = "RUNNABLE"
    BY <1>2 DEF IInv, PlacedRunnable, Holds
  <2>2. pc[0] # "online"
    BY <1>2, <2>1 DEF IInv, Startup
  <2> QED BY <1>2, <2>2, ZeroIsCpu DEF IInv, Startup
<1>7. PlacedRunnable'
  BY <1>2, <1>3 DEF IInv, PlacedRunnable, Queued
<1>8. Children' /\ PullsFromOther'
  <2>1. Children'
    BY <1>2 DEF IInv, Children
  <2>2. PullsFromOther'
    BY <1>2, ZenonT(30) DEF IInv, PullsFromOther
  <2> QED BY <2>1, <2>2, ZenonT(30)
<1> QED BY <1>1, <1>4, <1>5, <1>6, <1>7, <1>8 DEF IInv

\* The end of schedule: the flags, and the switch.
LEMMA SwitchStep ==
  ASSUME IInv, NEW c \in CPU, schedule_swap(c) \/ switch_to(c)
  PROVE  IInv'
<1> USE DEF schedule_swap, switch_to, boot, Goto
<1>1. TypeOK'
  <2>1. CASE schedule_swap(c)
    BY <2>1 DEF IInv, TypeOK, PCs, Entity
  <2>2. CASE switch_to(c)
    BY <2>2 DEF IInv, TypeOK, PCs
  <2> QED BY <2>1, <2>2
<1>2. /\ pc \in [CPU -> PCs] /\ pc[c] \in {"swap", "switch"}
      /\ UNCHANGED <<state, queue, num_threads, vruntime, next, other>>
      /\ \/ pc'[c] = "switch" /\ current'[c] = current[c]
         \/ pc'[c] = "run" /\ current'[c] = next[c]
      /\ \A d \in CPU : d # c => pc'[d] = pc[d] /\ current'[d] = current[d]
  BY DEF IInv, TypeOK
<1> HIDE DEF schedule_swap, switch_to, boot, Goto
<1>3. \A d \in CPU, t \in Task : Holds(d, t)' <=> Holds(d, t)
  BY ZenonT(30), <1>2 DEF Holds
<1>4. OnePlace' /\ ThreadsCounted' /\ QueueSorted'
  BY ZenonT(30), <1>2, <1>3, NothingMoves
<1>5. NoneLost'
  BY <1>2, <1>3 DEF IInv, NoneLost, Queued
<1>6. Startup'
  BY ZenonT(30), <1>2, ZeroIsCpu DEF IInv, Startup
<1>7. PlacedRunnable'
  BY <1>2, <1>3 DEF IInv, PlacedRunnable, Queued
<1>8. Children' /\ PullsFromOther'
  <2>1. Children'
    BY <1>2 DEF IInv, Children
  <2>2. PullsFromOther'
    BY <1>2, ZenonT(30) DEF IInv, PullsFromOther
  <2> QED BY <2>1, <2>2, Zenon
<1> QED BY <1>1, <1>4, <1>5, <1>6, <1>7, <1>8 DEF IInv

\* A switch to a task that another CPU still has ends the execution.
LEMMA StaleStep ==
  ASSUME IInv, NEW c \in CPU, switch_to_stale(c)
  PROVE  IInv'
<1> USE DEF switch_to_stale, boot
<1>1. TypeOK'
  BY ZenonT(30) DEF IInv, TypeOK, PCs
<1>2. \A d \in CPU, t \in Task : ~Holds(d, t)'
  BY DEF Holds
<1>3. OnePlace' /\ ThreadsCounted' /\ QueueSorted'
  BY ZenonT(30), <1>2 DEF IInv, OnePlace, ThreadsCounted, QueueSorted, Queued
<1>4. NoneLost'
  BY DEF NoneLost
<1>5. Startup' /\ Children' /\ PullsFromOther'
  BY ZeroIsCpu DEF Startup, Children, PullsFromOther
<1>6. PlacedRunnable'
  BY <1>2 DEF IInv, PlacedRunnable, Queued
<1> QED BY <1>1, <1>3, <1>4, <1>5, <1>6 DEF IInv
\* runq_add of a task that is in no queue, and that nobody holds afterwards.
LEMMA Added ==
  ASSUME IInv, NEW c \in CPU, NEW t \in Task, Absent(queue, t),
         vruntime' \in [Task -> Nat], \A u \in Task : u # t => vruntime'[u] = vruntime[u],
         queue'[c] = tree_insert(queue[c], t, vruntime'),
         \A d \in CPU : d # c => queue'[d] = queue[d],
         num_threads'[c] = num_threads[c] + 1,
         \A d \in CPU : d # c => num_threads'[d] = num_threads[d],
         \A d \in CPU, u \in Task : Holds(d, u)' <=> Holds(d, u) /\ u # t
  PROVE  /\ OnePlace' /\ ThreadsCounted' /\ QueueSorted'
         /\ \A d \in CPU : queue'[d] \in Seq(Task)
         /\ \A d \in CPU : Queued(d)' = IF d = c THEN Queued(d) \cup {t} ELSE Queued(d)
<1>1. vruntime \in [Task -> Nat]
  BY DEF IInv, TypeOK
<1>2. PICK v \in [Task -> Nat] : v = vruntime'
  OBVIOUS
<1>3. PICK R : R = queue'
  OBVIOUS
<1>4. QueuesOK(queue, v)
  BY <1>1, <1>2, InvQueues, OtherVruntime
<1>5. /\ QueuesOK(R, v)
      /\ Len(R[c]) = Len(queue[c]) + 1
      /\ Range(R[c]) = Range(queue[c]) \cup {t}
  <2>1. R[c] = tree_insert(queue[c], t, v) /\ \A d \in CPU : d # c => R[d] = queue[d]
    BY <1>2, <1>3
  <2>2. QueuesOK(R, v)
    BY <1>4, <2>1, QueuesInsert
  <2>3. queue[c] \in Seq(Task) /\ Injective(queue[c]) /\ Sorted(queue[c], v) /\ t \notin Range(queue[c])
    BY <1>4 DEF QueuesOK, Absent
  <2>4. /\ Len(tree_insert(queue[c], t, v)) = Len(queue[c]) + 1
        /\ Range(tree_insert(queue[c], t, v)) = Range(queue[c]) \cup {t}
    BY <2>3, TreeInsert, Zenon
  <2> QED BY <2>1, <2>2, <2>4, ZenonT(30)
<1>6. ThreadsCounted'
  <2>1. \A d \in CPU : num_threads[d] = Len(queue[d])
    BY DEF IInv, ThreadsCounted
  <2>2. \A d \in CPU : num_threads'[d] = Len(queue'[d])
    BY <1>3, <1>5, <2>1, ZenonT(30)
  <2> QED BY <2>2 DEF ThreadsCounted
<1>7. \A d \in CPU : Queued(d)' = IF d = c THEN Queued(d) \cup {t} ELSE Queued(d)
  <2>1. Queued(c)' = Queued(c) \cup {t}
    BY <1>3, <1>5, Zenon DEF Queued
  <2>2. \A d \in CPU : d # c => Queued(d)' = Queued(d)
    BY Zenon DEF Queued
  <2> QED BY <2>1, <2>2
<1>8. (\A e, d \in CPU, u \in Task : Holds(e, u) =>
         /\ u \notin Queued(d)
         /\ Holds(d, u) => d = e)'
  BY <1>7, HeldOnce
<1>9. QueuesOK(queue, vruntime)'
  BY ZenonT(30), <1>2, <1>3, <1>5 DEF QueuesOK
<1>10. OnePlace' /\ QueueSorted'
  BY <1>8, <1>9, QueuesInv
<1> QED BY ZenonT(30), <1>6, <1>7, <1>9, <1>10 DEF QueuesOK

\* runq_add with the state RUNNABLE, which every caller has set.
LEMMA RunqAdd ==
  ASSUME NEW c \in CPU, NEW t \in Task, NEW st, NEW vr, st[t] = "RUNNABLE",
         runq_add(c, t, st, vr)
  PROVE  /\ vruntime' = vr
         /\ queue' = [queue EXCEPT ![c] = tree_insert(queue[c], t, vr)]
         /\ num_threads' = [num_threads EXCEPT ![c] = @ + 1]
BY DEF runq_add

\* The same, element by element.
LEMMA RunqAddElements ==
  ASSUME TypeOK, NEW c \in CPU, NEW t \in Task, NEW st, NEW vr \in [Task -> Nat],
         st[t] = "RUNNABLE", \A u \in Task : u # t => vr[u] = vruntime[u],
         runq_add(c, t, st, vr)
  PROVE  /\ vruntime' \in [Task -> Nat]
         /\ \A u \in Task : u # t => vruntime'[u] = vruntime[u]
         /\ queue'[c] = tree_insert(queue[c], t, vruntime')
         /\ \A d \in CPU : d # c => queue'[d] = queue[d]
         /\ num_threads'[c] = num_threads[c] + 1
         /\ \A d \in CPU : d # c => num_threads'[d] = num_threads[d]
         /\ num_threads' \in [CPU -> Int]
         /\ (\A d \in CPU : queue'[d] \in Seq(Task)) => queue' \in [CPU -> Seq(Task)]
<1>1. /\ vruntime' = vr
      /\ queue' = [queue EXCEPT ![c] = tree_insert(queue[c], t, vr)]
      /\ num_threads' = [num_threads EXCEPT ![c] = @ + 1]
  BY RunqAdd
<1>2. queue \in [CPU -> Seq(Task)] /\ num_threads \in [CPU -> Int]
  BY DEF TypeOK
<1>3. queue'[c] = tree_insert(queue[c], t, vruntime')
  <2>1. queue'[c] = tree_insert(queue[c], t, vr)
    BY <1>1, <1>2
  <2> QED BY <1>1, <2>1
<1>4. \A d \in CPU : d # c => queue'[d] = queue[d]
  BY <1>1, <1>2
<1>5. (\A d \in CPU : queue'[d] \in Seq(Task)) => queue' \in [CPU -> Seq(Task)]
  BY <1>1, <1>2
<1> QED BY <1>1, <1>2, <1>3, <1>4, <1>5

\* The task that schedule puts back is the one its CPU holds.
LEMMA ScheduleAddStep ==
  ASSUME IInv, NEW c \in CPU, schedule_add(c)
  PROVE  IInv'
<1>1. /\ pc \in [CPU -> PCs] /\ pc[c] = "add" /\ pc'[c] = "next"
      /\ \A d \in CPU : d # c => pc'[d] = pc[d]
      /\ UNCHANGED <<state, num_slices, running, lock, current, next, other,
                     has_rq, nr_ready, waiting>>
      /\ pc' \in [CPU -> PCs]
  BY ZenonT(30) DEF schedule_add, boot, Goto, IInv, TypeOK, PCs
<1>2. current[c] \in Task \/ current[c] \in CPU
  BY DEF IInv, TypeOK, Entity
<1>3. CASE current[c] \in CPU
  <2>1. UNCHANGED <<vruntime, queue, num_threads>>
    BY <1>3 DEF schedule_add
  <2>2. \A d \in CPU, u \in Task : Holds(d, u)' <=> Holds(d, u)
    BY <1>1, <1>3, CpuNotTask DEF Holds
  <2>3. OnePlace' /\ ThreadsCounted' /\ QueueSorted'
    BY <2>1, <2>2, NothingMoves
  <2>4. NoneLost'
    BY <1>1, <2>1, <2>2 DEF IInv, NoneLost, Queued
  <2>5. PlacedRunnable'
    BY ZenonT(30), <1>1, <2>1, <2>2 DEF IInv, PlacedRunnable, Queued
  <2>6. Startup' /\ Children' /\ PullsFromOther'
    <3>1. Startup'
      BY <1>1, ZeroIsCpu, ZenonT(30) DEF IInv, Startup
    <3>2. Children'
      BY <1>1, ZenonT(30) DEF IInv, Children
    <3>3. PullsFromOther'
      BY <1>1, ZenonT(30) DEF IInv, PullsFromOther
    <3> QED BY <3>1, <3>2, <3>3, Zenon
  <2>7. TypeOK'
    BY <1>1, <2>1 DEF IInv, TypeOK
  <2> QED BY <2>3, <2>4, <2>5, <2>6, <2>7 DEF IInv
<1>4. CASE current[c] \in Task
  <2>1. PICK t \in Task : t = current[c]
    BY <1>4
  <2>2. Holds(c, t) /\ state[t] = "RUNNABLE" /\ Absent(queue, t)
        /\ \A d \in CPU : d # c => ~Holds(d, t)
    BY <1>1, <2>1 DEF Holds, IInv, PlacedRunnable, OnePlace, Absent, Queued
  <2>3. vruntime[t] + 1 \in Nat
    BY DEF IInv, TypeOK
  <2>4. runq_add(c, t, state, [vruntime EXCEPT ![t] = @ + 1])
    BY ZenonT(30), <1>4, <2>1, CpuNotTask DEF schedule_add
  <2>5. /\ vruntime' \in [Task -> Nat]
        /\ \A u \in Task : u # t => vruntime'[u] = vruntime[u]
        /\ queue'[c] = tree_insert(queue[c], t, vruntime')
        /\ \A d \in CPU : d # c => queue'[d] = queue[d]
        /\ num_threads'[c] = num_threads[c] + 1
        /\ \A d \in CPU : d # c => num_threads'[d] = num_threads[d]
        /\ num_threads' \in [CPU -> Int]
        /\ (\A d \in CPU : queue'[d] \in Seq(Task)) => queue' \in [CPU -> Seq(Task)]
    <3>1. PICK vr : vr = [vruntime EXCEPT ![t] = @ + 1]
      BY ZenonT(30)
    <3>2. TypeOK /\ vr \in [Task -> Nat] /\ \A u \in Task : u # t => vr[u] = vruntime[u]
      BY <2>3, <3>1 DEF IInv, TypeOK
    <3>3. runq_add(c, t, state, vr)
      BY <2>4, <3>1
    <3> QED BY <2>2, <3>2, <3>3, RunqAddElements
  <2>6. \A d \in CPU, u \in Task : Holds(d, u)' <=> Holds(d, u) /\ u # t
    BY ZenonT(30), <1>1, <2>1, <2>2 DEF Holds
  <2>7. /\ OnePlace' /\ ThreadsCounted' /\ QueueSorted'
        /\ \A d \in CPU : queue'[d] \in Seq(Task)
        /\ \A d \in CPU : Queued(d)' = IF d = c THEN Queued(d) \cup {t} ELSE Queued(d)
    BY <2>2, <2>5, <2>6, Added
  <2>8. NoneLost'
    <3>1. (\A d \in CPU : pc[d] # "lost")' => \A d \in CPU : pc[d] # "lost"
      BY ZenonT(30), <1>1
    <3> QED BY <1>1, <2>6, <2>7, <3>1 DEF IInv, NoneLost
  <2>9. PlacedRunnable'
    BY ZenonT(30), <1>1, <2>2, <2>6, <2>7 DEF IInv, PlacedRunnable
  <2>10. Startup' /\ Children' /\ PullsFromOther'
    <3>1. Startup'
      BY <1>1, ZeroIsCpu, ZenonT(30) DEF IInv, Startup
    <3>2. Children'
      BY <1>1, ZenonT(30) DEF IInv, Children
    <3>3. PullsFromOther'
      BY <1>1, ZenonT(30) DEF IInv, PullsFromOther
    <3> QED BY <3>1, <3>2, <3>3, Zenon
  <2>11. TypeOK'
    BY ZenonT(30), <1>1, <2>5, <2>7 DEF IInv, TypeOK
  <2> QED BY <2>7, <2>8, <2>9, <2>10, <2>11 DEF IInv
<1> QED BY <1>2, <1>3, <1>4
\* task_wakeup of a child and the wakeup of the first task add a task that had
\* no place before.
LEMMA NewTask ==
  ASSUME IInv, NEW c \in CPU, NEW t \in Task, state[t] # "RUNNABLE",
         state' = [state EXCEPT ![t] = "RUNNABLE"],
         runq_add(c, t, state', vruntime),
         pc' \in [CPU -> PCs], pc'[c] # "lost", \A d \in CPU : d # c => pc'[d] = pc[d],
         (pc[c] = "wake" /\ pc'[c] = "add") \/ (pc[c] = "online" /\ pc'[c] = "barrier"),
         UNCHANGED <<current, next>>
  PROVE  /\ OnePlace' /\ NoneLost' /\ ThreadsCounted' /\ QueueSorted' /\ PlacedRunnable'
         /\ queue' \in [CPU -> Seq(Task)] /\ num_threads' \in [CPU -> Int]
         /\ vruntime' \in [Task -> Nat]
         /\ state' \in [Task -> {"free", "NOT_STARTED", "RUNNABLE"}]
<1>1. /\ state \in [Task -> {"free", "NOT_STARTED", "RUNNABLE"}]
      /\ vruntime \in [Task -> Nat] /\ TypeOK
  BY DEF IInv, TypeOK
<1>2. state'[t] = "RUNNABLE" /\ \A u \in Task : u # t => state'[u] = state[u]
  BY ZenonT(30), <1>1
<1>3. Absent(queue, t) /\ \A d \in CPU : ~Holds(d, t)
  BY ZenonT(30) DEF IInv, PlacedRunnable, Absent, Queued
<1>4. /\ vruntime' \in [Task -> Nat]
      /\ \A u \in Task : u # t => vruntime'[u] = vruntime[u]
      /\ queue'[c] = tree_insert(queue[c], t, vruntime')
      /\ \A d \in CPU : d # c => queue'[d] = queue[d]
      /\ num_threads'[c] = num_threads[c] + 1
      /\ \A d \in CPU : d # c => num_threads'[d] = num_threads[d]
      /\ num_threads' \in [CPU -> Int]
      /\ (\A d \in CPU : queue'[d] \in Seq(Task)) => queue' \in [CPU -> Seq(Task)]
  BY ZenonT(30), <1>1, <1>2, RunqAddElements
<1>5. \A d \in CPU, u \in Task : Holds(d, u)' <=> Holds(d, u)
  <2>1. pc[c] = "online" => current[c] \notin Task
    BY CpuNotTask DEF IInv, Startup
  <2> QED BY <2>1 DEF Holds
<1>6. \A d \in CPU, u \in Task : Holds(d, u)' <=> Holds(d, u) /\ u # t
  BY ZenonT(30), <1>3, <1>5
<1>7. /\ OnePlace' /\ ThreadsCounted' /\ QueueSorted'
      /\ \A d \in CPU : queue'[d] \in Seq(Task)
      /\ \A d \in CPU : Queued(d)' = IF d = c THEN Queued(d) \cup {t} ELSE Queued(d)
  BY ZenonT(30), <1>3, <1>4, <1>6, Added
<1>8. PlacedRunnable'
  BY ZenonT(30), <1>2, <1>5, <1>7 DEF IInv, PlacedRunnable
<1>9. NoneLost'
  BY <1>2, <1>5, <1>7 DEF IInv, NoneLost
<1> QED BY ZenonT(30), <1>1, <1>4, <1>7, <1>8, <1>9

\* task_wakeup queues the child of task_fork.
LEMMA WakeupStep ==
  ASSUME IInv, NEW c \in CPU, task_wakeup(c)
  PROVE  IInv'
<1>1. /\ pc \in [CPU -> PCs] /\ pc[c] = "wake"
      /\ pc' \in [CPU -> PCs] /\ pc'[c] = "add" /\ \A d \in CPU : d # c => pc'[d] = pc[d]
      /\ UNCHANGED <<num_slices, running, lock, current, next, other, has_rq,
                     nr_ready, waiting>>
  BY ZenonT(30) DEF task_wakeup, boot, Goto, IInv, TypeOK, PCs
<1>2. PICK t \in Task : t = next[c] /\ state[t] = "NOT_STARTED"
  BY ZenonT(30), <1>1 DEF IInv, Children
<1>3. state' = [state EXCEPT ![t] = "RUNNABLE"] /\ runq_add(c, t, state', vruntime)
  BY <1>2 DEF task_wakeup
<1>4. /\ OnePlace' /\ NoneLost' /\ ThreadsCounted' /\ QueueSorted' /\ PlacedRunnable'
      /\ queue' \in [CPU -> Seq(Task)] /\ num_threads' \in [CPU -> Int]
      /\ vruntime' \in [Task -> Nat]
      /\ state' \in [Task -> {"free", "NOT_STARTED", "RUNNABLE"}]
  <2>1. /\ state[t] # "RUNNABLE" /\ pc'[c] # "lost"
        /\ (pc[c] = "wake" /\ pc'[c] = "add") \/ (pc[c] = "online" /\ pc'[c] = "barrier")
        /\ UNCHANGED <<current, next>>
    BY ZenonT(30), <1>1, <1>2
  <2> QED BY <1>1, <1>3, <2>1, NewTask, ZenonT(30)
<1>5. TypeOK'
  BY ZenonT(30), <1>1, <1>4 DEF IInv, TypeOK
<1>6. Startup'
  <2>1. pc[0] # "online"
    BY ZenonT(30), <1>2 DEF IInv, Startup
  <2> QED BY ZenonT(30), <1>1, <2>1, ZeroIsCpu DEF IInv, Startup
<1>7. Children' /\ PullsFromOther'
  <2>1. \A u \in Task : u # t => state'[u] = state[u]
    BY <1>3 DEF IInv, TypeOK
  <2>2. \A d \in CPU : pc'[d] = "wake" => pc[d] = "wake" /\ next[d] # t
    BY <1>1, <1>2 DEF IInv, Children
  <2> QED BY <1>1, <2>1, <2>2 DEF IInv, Children, PullsFromOther
<1> QED BY <1>4, <1>5, <1>6, <1>7 DEF IInv

\* sched_run_bsp queues the init task.
LEMMA BspStep ==
  ASSUME IInv, sched_run_bsp
  PROVE  IInv'
<1>1. /\ pc \in [CPU -> PCs] /\ pc[0] = "online"
      /\ pc' \in [CPU -> PCs] /\ pc'[0] = "barrier" /\ \A d \in CPU : d # 0 => pc'[d] = pc[d]
      /\ UNCHANGED <<num_slices, running, lock, current, next, other, nr_ready>>
      /\ has_rq' \in SUBSET CPU /\ waiting' \in Nat
  BY ZeroIsCpu DEF sched_run_bsp, Goto, IInv, TypeOK, PCs
<1>2. InitTask \in Task /\ \A t \in Task : state[t] = "free"
  BY <1>1, TaskAssumption DEF IInv, Startup
<1>3. state' = [state EXCEPT ![InitTask] = "RUNNABLE"] /\ runq_add(0, InitTask, state', vruntime)
  BY DEF sched_run_bsp
<1>4. /\ OnePlace' /\ NoneLost' /\ ThreadsCounted' /\ QueueSorted' /\ PlacedRunnable'
      /\ queue' \in [CPU -> Seq(Task)] /\ num_threads' \in [CPU -> Int]
      /\ vruntime' \in [Task -> Nat]
      /\ state' \in [Task -> {"free", "NOT_STARTED", "RUNNABLE"}]
  BY ZenonT(30), <1>1, <1>2, <1>3, ZeroIsCpu, NewTask
<1>5. TypeOK'
  BY <1>1, <1>4 DEF IInv, TypeOK
<1>6. Startup'
  BY <1>1, ZeroIsCpu DEF IInv, Startup
<1>7. Children' /\ PullsFromOther'
  BY <1>1, <1>2, ZeroIsCpu DEF IInv, Children, PullsFromOther
<1> QED BY <1>4, <1>5, <1>6, <1>7 DEF IInv

\* runq_next when there is a task: it goes from the queue to the CPU.
LEMMA Popped ==
  ASSUME IInv, NEW c \in CPU, queue[c] # <<>>, pc[c] \in {"next", "again"},
         queue' = [queue EXCEPT ![c] = Tail(@)],
         num_threads' = [num_threads EXCEPT ![c] = @ - 1],
         next' = [next EXCEPT ![c] = Head(queue[c])],
         pc'[c] = "swap", \A d \in CPU : d # c => pc'[d] = pc[d],
         UNCHANGED <<vruntime, state, current>>
  PROVE  /\ OnePlace' /\ NoneLost' /\ ThreadsCounted' /\ QueueSorted' /\ PlacedRunnable'
         /\ queue' \in [CPU -> Seq(Task)] /\ num_threads' \in [CPU -> Int]
         /\ next' \in [CPU -> Entity]
<1> DEFINE t == Head(queue[c])
<1>1. /\ queue \in [CPU -> Seq(Task)] /\ num_threads \in [CPU -> Int]
      /\ vruntime \in [Task -> Nat] /\ next \in [CPU -> Entity]
  BY DEF IInv, TypeOK
<1>2. /\ queue'[c] = Tail(queue[c]) /\ \A d \in CPU : d # c => queue'[d] = queue[d]
      /\ num_threads'[c] = num_threads[c] - 1
      /\ \A d \in CPU : d # c => num_threads'[d] = num_threads[d]
      /\ next'[c] = t /\ \A d \in CPU : d # c => next'[d] = next[d]
  BY <1>1
<1>3. QueuesOK(queue, vruntime)
  BY ZenonT(30), InvQueues
<1>4. /\ queue[c] \in Seq(Task) /\ Injective(queue[c]) /\ Sorted(queue[c], vruntime)
  BY <1>3 DEF QueuesOK
<1>5. /\ t \in Task /\ t \in Range(queue[c])
      /\ Tail(queue[c]) \in Seq(Task)
      /\ Len(Tail(queue[c])) = Len(queue[c]) - 1
      /\ Range(queue[c]) = Range(Tail(queue[c])) \cup {t}
  BY <1>1, <1>4, TailOf, Zenon
<1>6. PICK R : R = queue'
  BY ZenonT(30)
<1>7. QueuesOK(R, vruntime) /\ Absent(R, t)
  <2>1. R[c] = Tail(queue[c]) /\ \A d \in CPU : d # c => R[d] = queue[d]
    BY <1>2, <1>6
  <2> QED BY ZenonT(30), <1>1, <1>3, <2>1, QueuesRemove
<1> HIDE DEF t
<1>8. ThreadsCounted'
  BY ZenonT(30), <1>2, <1>5 DEF IInv, ThreadsCounted
<1>9. /\ Queued(c) = Queued(c)' \cup {t}
      /\ \A d \in CPU : d # c => Queued(d)' = Queued(d)
      /\ \A d \in CPU : t \notin Queued(d)'
  <2>1. Queued(c) = Queued(c)' \cup {t}
    BY <1>2, <1>5, Zenon DEF Queued
  <2>2. \A d \in CPU : d # c => Queued(d)' = Queued(d)
    BY <1>2, Zenon DEF Queued
  <2>3. \A d \in CPU : t \notin Queued(d)'
    BY <1>6, <1>7, Zenon DEF Queued, Absent
  <2> QED BY <2>1, <2>2, <2>3
<1>10. \A d \in CPU, u \in Task : Holds(d, u)' <=> Holds(d, u) \/ (d = c /\ u = t)
  BY ZenonT(30), <1>2 DEF Holds
<1>11. \A d \in CPU : ~Holds(d, t)
  BY ZenonT(30), <1>5 DEF IInv, OnePlace, Queued
<1>12. (\A e, d \in CPU, u \in Task : Holds(e, u) =>
          /\ u \notin Queued(d)
          /\ Holds(d, u) => d = e)'
  BY <1>9, <1>10, <1>11, HeldOnce
<1>13. QueuesOK(queue, vruntime)'
  BY ZenonT(30), <1>6, <1>7 DEF QueuesOK
<1>14. OnePlace' /\ QueueSorted'
  BY <1>12, <1>13, QueuesInv
<1>15. PlacedRunnable'
  <2>1. state[t] = "RUNNABLE"
    BY <1>5 DEF IInv, PlacedRunnable, Queued
  <2> QED BY <1>9, <1>10, <2>1 DEF IInv, PlacedRunnable
<1>16. NoneLost'
  <2>1. (\A d \in CPU : pc[d] # "lost")' => \A d \in CPU : pc[d] # "lost"
    OBVIOUS
  <2>2. SUFFICES ASSUME \A d \in CPU : pc[d] # "lost", NEW u \in Task, state[u] = "RUNNABLE"
                 PROVE  \E d \in CPU : u \in Queued(d)' \/ Holds(d, u)'
    BY <2>1 DEF NoneLost
  <2>3. PICK d \in CPU : u \in Queued(d) \/ Holds(d, u)
    BY <2>2 DEF IInv, NoneLost
  <2>4. CASE Holds(d, u)
    BY ZenonT(30), <1>10, <2>4
  <2>5. CASE u \in Queued(d) /\ d # c
    BY <1>9, <2>5
  <2>6. CASE u \in Queued(c) /\ u # t
    BY <1>9, <2>6
  <2>7. CASE u = t
    BY <1>10, <2>7
  <2> QED BY <2>3, <2>4, <2>5, <2>6, <2>7
<1>17. queue' \in [CPU -> Seq(Task)] /\ num_threads' \in [CPU -> Int]
  BY <1>1, <1>5
<1>18. next' \in [CPU -> Entity]
  BY <1>1, <1>5 DEF t, Entity
<1> QED BY ZenonT(30), <1>8, <1>14, <1>15, <1>16, <1>17, <1>18

\* Both calls of runq_next in schedule.
LEMMA ScheduleNextStep ==
  ASSUME IInv, NEW c \in CPU, schedule_next(c) \/ schedule_again(c)
  PROVE  IInv'
<1>1. /\ pc \in [CPU -> PCs] /\ pc[c] \in {"next", "again"}
      /\ \A d \in CPU : d # c => pc'[d] = pc[d] /\ other'[d] = other[d]
      /\ UNCHANGED <<state, vruntime, num_slices, running, lock, current,
                     has_rq, nr_ready, waiting>>
      /\ runq_next(c)
  BY ZenonT(30) DEF schedule_next, schedule_again, boot, Goto, IInv, TypeOK
<1>2. /\ pc' \in [CPU -> PCs] /\ pc'[c] \in {"lock1", "again", "swap"}
      /\ pc'[c] = "again" \/ pc'[c] = "lock1" => next'[c] \in CPU
      /\ next'[c] \in Task /\ next'[c] \notin CPU => pc'[c] = "swap"
  BY ZenonT(30) DEF schedule_next, schedule_again, boot, Goto, IInv, TypeOK, PCs
<1>3. /\ other' \in [CPU -> CPU]
      /\ pc'[c] = "lock1" => other'[c] # c
  <2>1. InLoop(First(c)) => First(c) \in CPU /\ First(c) # c
    BY NCPUAssumption DEF InLoop, First, CPU
  <2> QED BY ZenonT(30), <2>1 DEF schedule_next, schedule_again, Goto, IInv, TypeOK
<1>4. CASE queue[c] = <<>>
  <2>1. UNCHANGED <<queue, num_threads>> /\ next' = [next EXCEPT ![c] = c]
    BY ZenonT(30), <1>1, <1>4 DEF runq_next
  <2>2. next' \in [CPU -> Entity] /\ next'[c] = c /\ \A d \in CPU : d # c => next'[d] = next[d]
    BY ZenonT(30), <2>1 DEF IInv, TypeOK, Entity
  <2>3. \A d \in CPU, t \in Task : Holds(d, t)' <=> Holds(d, t)
    BY ZenonT(30), <1>1, <1>2, <2>2, CpuNotTask DEF Holds
  <2>4. OnePlace' /\ ThreadsCounted' /\ QueueSorted'
    BY ZenonT(30), <1>1, <2>1, <2>3, NothingMoves
  <2>5. NoneLost'
    BY ZenonT(30), <1>1, <2>1, <2>3 DEF IInv, NoneLost, Queued
  <2>6. PlacedRunnable'
    BY ZenonT(30), <1>1, <2>1, <2>3 DEF IInv, PlacedRunnable, Queued
  <2>7. TypeOK'
    BY ZenonT(30), <1>1, <1>2, <1>3, <2>1, <2>2 DEF IInv, TypeOK
  <2>8. Startup' /\ Children' /\ PullsFromOther'
    BY <1>1, <1>2, <1>3, <2>2, ZeroIsCpu DEF IInv, Startup, Children, PullsFromOther
  <2> QED BY <2>4, <2>5, <2>6, <2>7, <2>8 DEF IInv
<1>5. CASE queue[c] # <<>>
  <2>1. /\ queue' = [queue EXCEPT ![c] = Tail(@)]
        /\ num_threads' = [num_threads EXCEPT ![c] = @ - 1]
        /\ next' = [next EXCEPT ![c] = Head(queue[c])]
    BY <1>1, <1>5 DEF runq_next
  <2>2. Head(queue[c]) \in Task /\ next'[c] = Head(queue[c])
        /\ \A d \in CPU : d # c => next'[d] = next[d]
    BY <1>5, <2>1 DEF IInv, TypeOK
  <2>3. pc'[c] = "swap"
    BY ZenonT(30), <1>2, <2>2, CpuNotTask
  <2>4. /\ OnePlace' /\ NoneLost' /\ ThreadsCounted' /\ QueueSorted' /\ PlacedRunnable'
        /\ queue' \in [CPU -> Seq(Task)] /\ num_threads' \in [CPU -> Int]
        /\ next' \in [CPU -> Entity]
    BY ZenonT(30), <1>1, <1>5, <2>1, <2>3, Popped
  <2>5. TypeOK'
    BY ZenonT(30), <1>1, <1>2, <1>3, <2>4 DEF IInv, TypeOK
  <2>6. Startup' /\ Children' /\ PullsFromOther'
    BY <1>1, <1>2, <1>3, <2>2, ZeroIsCpu DEF IInv, Startup, Children, PullsFromOther
  <2> QED BY <2>4, <2>5, <2>6 DEF IInv
<1> QED BY ZenonT(30), <1>4, <1>5

\* The locks runq_balance_pull takes are those of two CPUs.
LEMMA LockOrderCpu ==
  ASSUME TypeOK, NEW c \in CPU
  PROVE  lock_order(c)[1] \in CPU /\ lock_order(c)[2] \in CPU /\ other[c] \in CPU
BY DEF TypeOK, lock_order

\* Taking the first or the second lock of runq_balance_pull moves no task.
LEMMA BalanceLockStep ==
  ASSUME IInv, NEW c \in CPU, runq_balance_lock(c)
  PROVE  IInv'
<1>1. /\ pc \in [CPU -> PCs] /\ pc[c] = "lock1"
      /\ pc' \in [CPU -> PCs] /\ pc'[c] = "lock2" /\ \A d \in CPU : d # c => pc'[d] = pc[d]
      /\ UNCHANGED <<state, vruntime, num_slices, running, queue, num_threads,
                     current, next, other, has_rq, nr_ready, waiting>>
      /\ lock' \in [CPU -> {0, 1}]
  BY ZenonT(30), LockOrderCpu DEF runq_balance_lock, boot, Goto, IInv, TypeOK, PCs
<1>2. \A d \in CPU, t \in Task : Holds(d, t)' <=> Holds(d, t)
  BY <1>1 DEF Holds
<1>3. OnePlace' /\ ThreadsCounted' /\ QueueSorted'
  BY <1>1, <1>2, NothingMoves
<1>4. NoneLost' /\ PlacedRunnable'
  BY ZenonT(30), <1>1, <1>2 DEF IInv, NoneLost, PlacedRunnable, Queued
<1>5. TypeOK'
  BY <1>1 DEF IInv, TypeOK
<1>6. Startup' /\ Children' /\ PullsFromOther'
  <2>1. Startup'
    BY <1>1, ZeroIsCpu, ZenonT(30) DEF IInv, Startup
  <2>2. Children'
    BY <1>1, ZenonT(30) DEF IInv, Children
  <2>3. PullsFromOther'
    BY <1>1, ZenonT(30) DEF IInv, PullsFromOther
  <2> QED BY <2>1, <2>2, <2>3, Zenon
<1> QED BY ZenonT(30), <1>3, <1>4, <1>5, <1>6 DEF IInv

\* pull: the first task of one queue goes to another queue.
LEMMA Pulled ==
  ASSUME IInv, NEW c \in CPU, NEW o \in CPU, o # c, num_threads[o] > 0, pull(c, o),
         UNCHANGED <<vruntime, state>>,
         \A d \in CPU, t \in Task : Holds(d, t)' <=> Holds(d, t),
         \A d \in CPU : pc'[d] = "lost" <=> pc[d] = "lost"
  PROVE  /\ OnePlace' /\ NoneLost' /\ ThreadsCounted' /\ QueueSorted' /\ PlacedRunnable'
         /\ queue' \in [CPU -> Seq(Task)] /\ num_threads' \in [CPU -> Int]
<1> DEFINE t == Head(queue[o])
           R == [queue EXCEPT ![o] = Tail(queue[o])]
<1>1. /\ queue \in [CPU -> Seq(Task)] /\ num_threads \in [CPU -> Int]
      /\ vruntime \in [Task -> Nat] /\ \A d \in CPU : num_threads[d] = Len(queue[d])
  BY DEF IInv, TypeOK, ThreadsCounted
<1>2. queue[o] # <<>>
  BY <1>1
<1>3. /\ queue'[o] = Tail(queue[o]) /\ queue'[c] = tree_insert(queue[c], t, vruntime)
      /\ \A d \in CPU : d # c /\ d # o => queue'[d] = queue[d]
      /\ num_threads'[o] = num_threads[o] - 1 /\ num_threads'[c] = num_threads[c] + 1
      /\ \A d \in CPU : d # c /\ d # o => num_threads'[d] = num_threads[d]
      /\ num_threads' \in [CPU -> Int]
  BY <1>1 DEF pull
<1>4. QueuesOK(queue, vruntime)
  BY InvQueues
<1>5. R[o] = Tail(queue[o]) /\ \A d \in CPU : d # o => R[d] = queue[d]
  BY ZenonT(30), <1>1
<1> HIDE DEF R
<1>6. QueuesOK(R, vruntime) /\ Absent(R, t)
  BY ZenonT(30), <1>1, <1>2, <1>4, <1>5, QueuesRemove
<1>7. /\ t \in Task /\ t \in Range(queue[o])
      /\ Len(Tail(queue[o])) = Len(queue[o]) - 1
      /\ Range(queue[o]) = Range(Tail(queue[o])) \cup {t}
  <2>1. queue[o] \in Seq(Task)
    BY <1>1
  <2> QED BY <1>1, <1>2, <2>1, TailOf, Zenon
<1> HIDE DEF t
<1>8. /\ Len(queue'[c]) = Len(queue[c]) + 1
      /\ Range(queue'[c]) = Range(queue[c]) \cup {t}
  <2>1. R[c] = queue[c]
    BY ZenonT(30), <1>5
  <2>2. /\ queue[c] \in Seq(Task) /\ Injective(queue[c])
        /\ Sorted(queue[c], vruntime) /\ t \notin Range(queue[c])
    BY <1>6, <2>1 DEF QueuesOK, Absent
  <2>3. /\ Len(tree_insert(queue[c], t, vruntime)) = Len(queue[c]) + 1
        /\ Range(tree_insert(queue[c], t, vruntime)) = Range(queue[c]) \cup {t}
    BY <1>1, <1>7, <2>2, TreeInsert, ZenonT(30)
  <2> QED BY <1>3, <2>3, Zenon
<1>9. QueuesOK(queue, vruntime)'
  <2>1. PICK Q : Q = queue'
    OBVIOUS
  <2>2. Q[c] = tree_insert(R[c], t, vruntime) /\ \A d \in CPU : d # c => Q[d] = R[d]
    BY ZenonT(30), <1>3, <1>5, <2>1
  <2>3. QueuesOK(Q, vruntime)
    BY ZenonT(30), <1>1, <1>6, <1>7, <2>2, QueuesInsert
  <2> QED BY ZenonT(30), <2>1, <2>3 DEF QueuesOK
<1>10. ThreadsCounted'
  <2>1. \A d \in CPU : num_threads'[d] = Len(queue'[d])
    BY <1>1, <1>3, <1>7, <1>8, ZenonT(30)
  <2> QED BY ZenonT(30), <2>1 DEF ThreadsCounted
<1>11. /\ Queued(c)' = Queued(c) \cup {t}
       /\ Queued(o) = Queued(o)' \cup {t}
       /\ \A d \in CPU : d # c /\ d # o => Queued(d)' = Queued(d)
  <2>1. Queued(c)' = Queued(c) \cup {t}
    BY <1>8, Zenon DEF Queued
  <2>2. Queued(o) = Queued(o)' \cup {t}
    BY <1>3, <1>7, Zenon DEF Queued
  <2>3. \A d \in CPU : d # c /\ d # o => Queued(d)' = Queued(d)
    BY <1>3, ZenonT(30) DEF Queued
  <2> QED BY ZenonT(30), <2>1, <2>2, <2>3
<1>12. state[t] = "RUNNABLE" /\ \A d \in CPU : ~Holds(d, t)
  BY ZenonT(30), <1>7 DEF IInv, PlacedRunnable, OnePlace, Queued
<1>13. \A d \in CPU, u \in Task : u \in Queued(d)' => u = t \/ u \in Queued(d)
  <2> SUFFICES ASSUME NEW d \in CPU, NEW u \in Task, u \in Queued(d)'
               PROVE  u = t \/ u \in Queued(d)
    BY Zenon
  <2>1. CASE d = c
    BY <1>11, <2>1, ZenonT(30)
  <2>2. CASE d = o
    BY <1>11, <2>2, ZenonT(30)
  <2>3. CASE d # c /\ d # o
    BY <1>11, <2>3, ZenonT(30)
  <2> QED BY <2>1, <2>2, <2>3, Zenon
<1>14. (\A e, d \in CPU, u \in Task : Holds(e, u) =>
          /\ u \notin Queued(d)
          /\ Holds(d, u) => d = e)'
  <2> SUFFICES ASSUME NEW e \in CPU, NEW d \in CPU, NEW u \in Task, Holds(e, u)'
               PROVE  u \notin Queued(d)' /\ (Holds(d, u)' => d = e)
    BY Zenon
  <2>1. Holds(e, u) /\ u # t
    BY <1>12, Zenon
  <2>2. u \notin Queued(d) /\ (Holds(d, u) => d = e)
    BY <2>1, HeldOnce, Zenon
  <2> QED BY <1>13, <2>1, <2>2, Zenon
<1>15. OnePlace' /\ QueueSorted'
  BY ZenonT(30), <1>9, <1>14, QueuesInv
<1>16. PlacedRunnable'
  BY ZenonT(30), <1>12, <1>13 DEF IInv, PlacedRunnable
<1>17. NoneLost'
  <2>1. SUFFICES ASSUME \A d \in CPU : pc[d] # "lost", NEW u \in Task, state[u] = "RUNNABLE"
                 PROVE  \E d \in CPU : u \in Queued(d)' \/ Holds(d, u)'
    BY DEF NoneLost
  <2>2. PICK d \in CPU : u \in Queued(d) \/ Holds(d, u)
    BY <2>1 DEF IInv, NoneLost
  <2>3. CASE Holds(d, u)
    BY ZenonT(30), <2>3
  <2>4. CASE u \in Queued(d) /\ u # t
    BY ZenonT(30), <1>11, <2>4
  <2>5. CASE u = t
    BY ZenonT(30), <1>11, <2>5
  <2> QED BY ZenonT(30), <2>2, <2>3, <2>4, <2>5
<1>18. queue' \in [CPU -> Seq(Task)]
  <2>1. \A d \in CPU : queue'[d] \in Seq(Task)
    BY <1>9 DEF QueuesOK
  <2> QED BY ZenonT(30), <1>1, <2>1 DEF pull
<1> QED BY ZenonT(30), <1>3, <1>10, <1>15, <1>16, <1>17, <1>18

\* The body of runq_balance_pull, with a task to pull or without.
LEMMA BalancePullStep ==
  ASSUME IInv, NEW c \in CPU, runq_balance_pull(c)
  PROVE  IInv'
<1>1. PICK o \in CPU : o = other[c]
  BY LockOrderCpu DEF IInv
<1>2. /\ pc \in [CPU -> PCs] /\ pc[c] = "lock2" /\ o # c
      /\ pc' \in [CPU -> PCs] /\ pc'[c] \in {"lock1", "again"}
      /\ \A d \in CPU : d # c => pc'[d] = pc[d] /\ other'[d] = other[d]
      /\ UNCHANGED <<state, vruntime, num_slices, running, current, next,
                     has_rq, nr_ready, waiting>>
  BY ZenonT(30), <1>1 DEF runq_balance_pull, boot, Goto, IInv, TypeOK, PCs, PullsFromOther
<1>3. lock' \in [CPU -> {0, 1}]
  BY ZenonT(30), LockOrderCpu DEF runq_balance_pull, balance_unlock, IInv, TypeOK
<1>4. other' \in [CPU -> CPU] /\ (pc'[c] = "lock1" => other'[c] # c)
  <2>1. InLoop(After(c, o)) => After(c, o) \in CPU /\ After(c, o) # c
    BY NCPUAssumption DEF InLoop, After, CPU
  <2> QED BY ZenonT(30), <1>1, <2>1, ZeroIsCpu DEF runq_balance_pull, Goto, IInv, TypeOK
<1>5. \A d \in CPU, t \in Task : Holds(d, t)' <=> Holds(d, t)
  BY <1>2 DEF Holds
<1>6. /\ OnePlace' /\ NoneLost' /\ ThreadsCounted' /\ QueueSorted' /\ PlacedRunnable'
      /\ queue' \in [CPU -> Seq(Task)] /\ num_threads' \in [CPU -> Int]
  <2>1. CASE num_threads[o] > 0
    <3>1. pull(c, o)
      BY <1>1, <2>1 DEF runq_balance_pull
    <3>2. \A d \in CPU : pc'[d] = "lost" <=> pc[d] = "lost"
      BY <1>2
    <3> QED BY <1>2, <1>5, <2>1, <3>1, <3>2, Pulled
  <2>2. CASE ~(num_threads[o] > 0)
    <3>1. UNCHANGED <<queue, num_threads>>
      BY ZenonT(30), <1>1, <2>2 DEF runq_balance_pull
    <3>2. OnePlace' /\ ThreadsCounted' /\ QueueSorted'
      BY ZenonT(30), <1>2, <1>5, <3>1, NothingMoves
    <3>3. NoneLost' /\ PlacedRunnable'
      BY ZenonT(30), <1>2, <1>5, <3>1 DEF IInv, NoneLost, PlacedRunnable, Queued
    <3> QED BY ZenonT(30), <3>1, <3>2, <3>3 DEF IInv, TypeOK
  <2> QED BY <2>1, <2>2
<1>7. TypeOK'
  BY ZenonT(30), <1>2, <1>3, <1>4, <1>6 DEF IInv, TypeOK
<1>8. Startup' /\ Children' /\ PullsFromOther'
  <2>1. Startup'
    BY ZenonT(30), <1>2, ZeroIsCpu DEF IInv, Startup
  <2>2. Children'
    BY <1>2 DEF IInv, Children
  <2>3. PullsFromOther'
    BY <1>2, <1>4 DEF IInv, PullsFromOther
  <2> QED BY <2>1, <2>2, <2>3
<1> QED BY <1>6, <1>7, <1>8 DEF IInv

-----------------------------------------------------------------------------

\* A step that changes no variable keeps the invariant.
LEMMA Stutter ==
  ASSUME IInv, UNCHANGED vars
  PROVE  IInv'
<1>1. UNCHANGED <<state, vruntime, num_slices, running, queue, num_threads, lock,
                  current, next, other, pc, has_rq, nr_ready, waiting>>
  BY DEF vars, boot
<1>2. \A d \in CPU, t \in Task : Holds(d, t)' <=> Holds(d, t)
  BY <1>1 DEF Holds
<1>3. OnePlace' /\ ThreadsCounted' /\ QueueSorted'
  BY ZenonT(30), <1>1, <1>2, NothingMoves
<1>4. NoneLost' /\ PlacedRunnable'
  BY ZenonT(30), <1>1, <1>2 DEF IInv, NoneLost, PlacedRunnable, Queued
<1>5. TypeOK' /\ Startup' /\ Children' /\ PullsFromOther'
  BY <1>1 DEF IInv, TypeOK, Startup, Children, PullsFromOther
<1> QED BY <1>3, <1>4, <1>5 DEF IInv

\* Every step of every CPU preserves the inductive invariant: the boot steps,
\* the ways into schedule, and each part of schedule, runq_balance_pull and
\* switch_to.
THEOREM Step == IInv /\ [Next]_vars => IInv'
<1> SUFFICES ASSUME IInv, [Next]_vars
             PROVE  IInv'
  OBVIOUS
<1>1. CASE UNCHANGED vars
  BY <1>1, Stutter
<1>2. CASE sched_run_bsp
  BY <1>2, BspStep
<1>3. ASSUME NEW c \in CPU, Boot(c)
      PROVE  IInv'
  BY <1>3, BootStep DEF Boot
<1>4. ASSUME NEW c \in CPU, TaskStep(c)
      PROVE  IInv'
  BY <1>4, RunStep, ForkStep DEF TaskStep
<1>5. ASSUME NEW c \in CPU, KernelStep(c)
      PROVE  IInv'
  <2>1. CASE task_wakeup(c)
    BY <2>1, WakeupStep
  <2>2. CASE schedule_add(c)
    BY <2>2, ScheduleAddStep
  <2>3. CASE schedule_next(c) \/ schedule_again(c)
    BY <2>3, ScheduleNextStep
  <2>4. CASE runq_balance_lock(c)
    BY <2>4, BalanceLockStep
  <2>5. CASE runq_balance_pull(c)
    BY <2>5, BalancePullStep
  <2>6. CASE schedule_swap(c) \/ switch_to(c)
    BY <2>6, SwitchStep
  <2>7. CASE switch_to_stale(c)
    BY <2>7, StaleStep
  <2> QED BY <1>5, <2>1, <2>2, <2>3, <2>4, <2>5, <2>6, <2>7 DEF KernelStep
<1> QED BY <1>1, <1>2, <1>3, <1>4, <1>5 DEF Next

\* The invariant holds whatever the CPUs do in schedule, runq_balance_pull and
\* switch_to, for any number of CPUs and tasks.
THEOREM Invariance == Spec => []IInv
BY InitInv, Step, PTL DEF Spec

\* The variables keep their types: runq_balance_pull indexes an existing CPU.
THEOREM TypeCorrect == Spec => []TypeOK
<1>1. IInv => TypeOK
  BY DEF IInv
<1> QED BY <1>1, Invariance, PTL

\* For any number of CPUs and tasks, a task is in one run queue or in the hands
\* of one CPU: schedule and runq_balance_pull never hand it out twice.
THEOREM OnePlaceAlways == Spec => []OnePlace
<1>1. IInv => OnePlace
  BY DEF IInv
<1> QED BY <1>1, Invariance, PTL

\* Nor do they lose one, as long as no CPU has switched to a stale stack.
THEOREM NoneLostAlways == Spec => []NoneLost
<1>1. IInv => NoneLost
  BY DEF IInv
<1> QED BY <1>1, Invariance, PTL

\* num_threads, which runq_balance_pull reads to find a task to pull, is the
\* size of the tree.
THEOREM ThreadsCountedAlways == Spec => []ThreadsCounted
<1>1. IInv => ThreadsCounted
  BY DEF IInv
<1> QED BY <1>1, Invariance, PTL

\* Every run queue stays ordered by vruntime, so first_task is the least.
THEOREM QueueSortedAlways == Spec => []QueueSorted
<1>1. IInv => QueueSorted
  BY DEF IInv
<1> QED BY <1>1, Invariance, PTL

\* schedule switches to runnable tasks only.
THEOREM NextRunnableAlways == Spec => []NextRunnable
<1>1. IInv => NextRunnable
  BY DEF IInv, PlacedRunnable, Holds, NextRunnable
<1> QED BY <1>1, Invariance, PTL

-----------------------------------------------------------------------------
(* The barrier of wait_for_schedulers. *)

\* The CPUs that have come up, and those that have arrived at the barrier.
Up == {c \in CPU : pc[c] # "off"}
Arrived == {c \in CPU : pc[c] \notin {"off", "online"}}

\* The two counters count these CPUs, CPU 0 arrives after every other has come
\* up, and a CPU is through the barrier after all have arrived.
Barrier ==
  \/ \A c \in CPU : pc[c] = "lost"
  \/ /\ \A c \in CPU : pc[c] # "lost"
     /\ has_rq = Arrived
     /\ waiting = Cardinality(Arrived)
     /\ nr_ready = Cardinality(Up)
     /\ pc[0] # "online" => Up = CPU
     /\ (\E c \in CPU : pc[c] \notin {"off", "online", "barrier"}) => Arrived = CPU

\* The CPUs are finitely many.
LEMMA CpusFinite ==
  /\ IsFiniteSet(CPU) /\ Cardinality(CPU) = NCPU
  /\ \A S \in SUBSET CPU : IsFiniteSet(S) /\ Cardinality(S) \in Nat
<1>1. IsFiniteSet(CPU) /\ Cardinality(CPU) = NCPU
  BY NCPUAssumption, FS_Interval DEF CPU
<1>2. ASSUME NEW S \in SUBSET CPU PROVE IsFiniteSet(S) /\ Cardinality(S) \in Nat
  BY <1>1, <1>2, FS_Subset, FS_CardinalityType
<1> QED BY <1>1, <1>2

\* A CPU in the scheduler that moves on in it does not change the barrier.
LEMMA BarrierPassed ==
  ASSUME TypeOK, Barrier, NEW c \in CPU, pc[c] \notin {"off", "online", "barrier"},
         NEW to, to \notin {"off", "online", "barrier", "lost"},
         pc' = [pc EXCEPT ![c] = to] \/ pc' = pc, UNCHANGED boot, pc[c] # "lost"
  PROVE  Barrier'
<1>1. /\ \A d \in CPU : pc'[d] = pc[d] \/ (d = c /\ pc'[d] = to)
      /\ UNCHANGED <<has_rq, nr_ready, waiting>>
  BY DEF TypeOK, boot
<1>2. Up' = Up /\ Arrived' = Arrived
  BY <1>1 DEF Up, Arrived
<1>3. \A d \in CPU : pc[d] # "lost"
  BY DEF Barrier
<1>4. (\A d \in CPU : pc'[d] # "lost") /\ Arrived = CPU
  BY <1>1, <1>3 DEF Barrier
<1> QED BY <1>1, <1>2, <1>3, <1>4, ZeroIsCpu DEF Barrier

\* Every step keeps the barrier as described.
LEMMA BarrierStep == TypeOK /\ Barrier /\ [Next]_vars => Barrier'
<1> SUFFICES ASSUME TypeOK, Barrier, [Next]_vars PROVE Barrier'
  OBVIOUS
<1>1. CASE UNCHANGED vars
  BY <1>1 DEF vars, boot, Barrier, Up, Arrived
<1>2. CASE sched_run_bsp
  <2>1. /\ pc[0] = "online" /\ nr_ready = NCPU /\ pc' = [pc EXCEPT ![0] = "barrier"]
        /\ has_rq' = has_rq \cup {0} /\ waiting' = waiting + 1 /\ nr_ready' = nr_ready
    BY <1>2 DEF sched_run_bsp, Goto
  <2>2. /\ \A c \in CPU : pc[c] # "lost"
        /\ has_rq = Arrived /\ waiting = Cardinality(Arrived) /\ nr_ready = Cardinality(Up)
        /\ (\E c \in CPU : pc[c] \notin {"off", "online", "barrier"}) => Arrived = CPU
    BY <2>1, ZeroIsCpu DEF Barrier
  <2>3. pc'[0] = "barrier" /\ \A d \in CPU : d # 0 => pc'[d] = pc[d]
    BY <2>1, ZeroIsCpu DEF TypeOK
  <2>4. Up' = Up /\ Arrived' = Arrived \cup {0} /\ 0 \notin Arrived
    BY <2>1, <2>3, ZeroIsCpu DEF Up, Arrived
  <2>5. waiting' = Cardinality(Arrived')
    <3>1. IsFiniteSet(Arrived)
      BY CpusFinite DEF Arrived
    <3> QED BY <2>1, <2>2, <2>4, <3>1, FS_AddElement
  <2>6. Up = CPU
    <3>1. Up \in SUBSET CPU /\ Cardinality(Up) = NCPU
      BY <2>1, <2>2 DEF Up
    <3> QED BY <3>1, CpusFinite, FS_Subset
  <2>7. ~\E c \in CPU : pc'[c] \notin {"off", "online", "barrier"}
    BY ZenonT(30), <2>1, <2>2, <2>3, <2>4, ZeroIsCpu DEF Arrived
  <2> QED BY ZenonT(30), <2>1, <2>2, <2>3, <2>4, <2>5, <2>6, <2>7, ZeroIsCpu DEF Barrier
<1>3. ASSUME NEW c \in CPU, smp_ap_kmain(c) PROVE Barrier'
  <2>1. /\ pc[c] = "off" /\ pc' = [pc EXCEPT ![c] = "online"]
        /\ nr_ready' = nr_ready + 1 /\ has_rq' = has_rq /\ waiting' = waiting
    BY <1>3 DEF smp_ap_kmain, Goto
  <2>2. /\ \A d \in CPU : pc[d] # "lost"
        /\ has_rq = Arrived /\ waiting = Cardinality(Arrived) /\ nr_ready = Cardinality(Up)
        /\ pc[0] # "online" => Up = CPU
        /\ (\E d \in CPU : pc[d] \notin {"off", "online", "barrier"}) => Arrived = CPU
    BY <2>1 DEF Barrier
  <2>3. pc'[c] = "online" /\ \A d \in CPU : d # c => pc'[d] = pc[d]
    BY <2>1 DEF TypeOK
  <2>4. Up' = Up \cup {c} /\ c \notin Up /\ Arrived' = Arrived
    BY ZenonT(30), <2>1, <2>3 DEF Up, Arrived
  <2>5. nr_ready' = Cardinality(Up')
    <3>1. IsFiniteSet(Up)
      BY CpusFinite DEF Up
    <3> QED BY ZenonT(30), <2>1, <2>2, <2>4, <3>1, FS_AddElement
  <2>6. pc'[0] = "online"
    BY ZenonT(30), <2>1, <2>2, <2>3, <2>4, ZeroIsCpu
  <2> QED BY <2>1, <2>2, <2>3, <2>4, <2>5, <2>6, ZeroIsCpu DEF Barrier
<1>4. ASSUME NEW c \in CPU, sched_run_ap(c) PROVE Barrier'
  <2>1. /\ c # 0 /\ pc[c] = "online" /\ pc' = [pc EXCEPT ![c] = "barrier"]
        /\ nr_ready' = nr_ready /\ has_rq' = has_rq \cup {c} /\ waiting' = waiting + 1
    BY <1>4 DEF sched_run_ap, Goto
  <2>2. /\ \A d \in CPU : pc[d] # "lost"
        /\ has_rq = Arrived /\ waiting = Cardinality(Arrived) /\ nr_ready = Cardinality(Up)
        /\ pc[0] # "online" => Up = CPU
        /\ (\E d \in CPU : pc[d] \notin {"off", "online", "barrier"}) => Arrived = CPU
    BY <2>1 DEF Barrier
  <2>3. pc'[c] = "barrier" /\ \A d \in CPU : d # c => pc'[d] = pc[d]
    BY <2>1 DEF TypeOK
  <2>4. Up' = Up /\ Arrived' = Arrived \cup {c} /\ c \notin Arrived
    BY <2>1, <2>3 DEF Up, Arrived
  <2>5. waiting' = Cardinality(Arrived')
    <3>1. IsFiniteSet(Arrived)
      BY CpusFinite DEF Arrived
    <3> QED BY ZenonT(30), <2>1, <2>2, <2>4, <3>1, FS_AddElement
  <2> QED BY <2>1, <2>2, <2>3, <2>4, <2>5, ZeroIsCpu DEF Barrier
<1>5. ASSUME NEW c \in CPU, wait_for_schedulers(c) PROVE Barrier'
  <2>1. /\ pc[c] = "barrier" /\ waiting >= nr_ready /\ pc' = [pc EXCEPT ![c] = "add"]
        /\ nr_ready' = nr_ready /\ has_rq' = has_rq /\ waiting' = waiting
    BY <1>5 DEF wait_for_schedulers, Goto, boot
  <2>2. /\ \A d \in CPU : pc[d] # "lost"
        /\ has_rq = Arrived /\ waiting = Cardinality(Arrived) /\ nr_ready = Cardinality(Up)
        /\ pc[0] # "online" => Up = CPU
    BY <2>1 DEF Barrier
  <2>3. pc'[c] = "add" /\ \A d \in CPU : d # c => pc'[d] = pc[d]
    BY <2>1 DEF TypeOK
  <2>4. Up' = Up /\ Arrived' = Arrived
    BY <2>1, <2>3 DEF Up, Arrived
  <2>5. Arrived = Up
    <3>1. Up \in SUBSET CPU /\ Arrived \in SUBSET Up
      BY DEF Up, Arrived
    <3>2. IsFiniteSet(Up) /\ Cardinality(Up) \in Nat /\ Cardinality(Arrived) \in Nat
      BY <3>1, CpusFinite
    <3>3. Cardinality(Arrived) <= Cardinality(Up)
      BY <3>1, <3>2, FS_Subset
    <3>4. Cardinality(Arrived) = Cardinality(Up)
      BY <2>1, <2>2, <3>2, <3>3
    <3> QED BY <3>1, <3>2, <3>4, FS_Subset
  <2>6. Up = CPU
    <3>1. CASE 0 \in Up
      BY <2>2, <2>5, <3>1 DEF Arrived
    <3>2. CASE 0 \notin Up
      BY <2>2, <3>2, ZeroIsCpu DEF Up
    <3> QED BY <3>1, <3>2
  <2> QED BY ZenonT(30), <2>1, <2>2, <2>3, <2>4, <2>5, <2>6 DEF Barrier
<1>6. ASSUME NEW c \in CPU, TaskStep(c) PROVE Barrier'
  <2>1. CASE sched_yield(c)
    BY ZenonT(30), <2>1, BarrierPassed DEF sched_yield, Goto
  <2>2. CASE lapic_timer_callback(c)
    BY <2>2, BarrierPassed DEF lapic_timer_callback, Goto
  <2>3. CASE \E t \in Task : task_fork(c, t)
    BY ZenonT(30), <2>3, BarrierPassed DEF task_fork, Goto
  <2> QED BY <1>6, <2>1, <2>2, <2>3 DEF TaskStep
<1>7. ASSUME NEW c \in CPU, KernelStep(c) PROVE Barrier'
  <2>1. CASE task_wakeup(c)
    BY ZenonT(30), <2>1, BarrierPassed DEF task_wakeup, Goto
  <2>2. CASE schedule_add(c)
    BY ZenonT(30), <2>2, BarrierPassed DEF schedule_add, Goto
  <2>3. CASE schedule_next(c)
    BY <2>3, BarrierPassed DEF schedule_next, Goto
  <2>4. CASE runq_balance_lock(c)
    BY ZenonT(30), <2>4, BarrierPassed DEF runq_balance_lock, Goto
  <2>5. CASE runq_balance_pull(c)
    BY <2>5, BarrierPassed DEF runq_balance_pull, Goto
  <2>6. CASE schedule_again(c)
    BY ZenonT(30), <2>6, BarrierPassed DEF schedule_again, Goto
  <2>7. CASE schedule_swap(c)
    BY ZenonT(30), <2>7, BarrierPassed DEF schedule_swap, Goto
  <2>8. CASE switch_to(c)
    BY ZenonT(30), <2>8, BarrierPassed DEF switch_to, Goto
  <2>9. CASE switch_to_stale(c)
    BY <2>9 DEF switch_to_stale, Barrier
  <2> QED BY <1>7, <2>1, <2>2, <2>3, <2>4, <2>5, <2>6, <2>7, <2>8, <2>9 DEF KernelStep
<1> QED BY <1>1, <1>2, <1>3, <1>4, <1>5, <1>6, <1>7 DEF Next, Boot

\* At first CPU 0 is up and nobody has arrived.
LEMMA BarrierInit == Init => Barrier
<1> SUFFICES ASSUME Init PROVE Barrier
  OBVIOUS
<1>1. /\ pc[0] = "online" /\ \A c \in CPU : pc[c] = IF c = 0 THEN "online" ELSE "off"
      /\ has_rq = {} /\ nr_ready = 1 /\ waiting = 0
  BY ZeroIsCpu DEF Init
<1>2. Up = {0} /\ Arrived = {}
  BY <1>1, ZeroIsCpu DEF Up, Arrived
<1> QED BY <1>1, <1>2, FS_EmptySet, FS_Singleton DEF Barrier

\* No CPU looks at the run queue of another before wait_for_schedulers has let
\* it through, when every CPU has made its own.
THEOREM QueuesExistAlways == Spec => []QueuesExist
<1>1. IInv /\ Barrier /\ [Next]_vars => Barrier'
  BY BarrierStep DEF IInv
<1>2. Barrier => QueuesExist
  BY DEF Barrier, QueuesExist
<1> QED BY <1>1, <1>2, BarrierInit, Invariance, PTL DEF Spec
=============================================================================
