--------------------------- MODULE HardDiskProofs ---------------------------
(***************************************************************************)
(* Proofs about the hard-disk driver, for any number of tasks, buffers and *)
(* request slots, with interrupts at every step: the request list, and the *)
(* queues of the tasks that sleep for a slot or for a buffer.              *)
(*                                                                         *)
(* In order: lemmas about what the insertion of add_request and the re-    *)
(* moval by the interrupt handler do to a sorted list, and about what      *)
(* sleep_on and wake_up do to the queues of sleepers; the inductive        *)
(* invariant, and that every step keeps it; the theorems that follow from  *)
(* it; and the invariant of the sleep queues, with the theorem that no     *)
(* task sleeps in vain.                                                    *)
(***************************************************************************)
EXTENDS HardDisk, TLAPS

(* What the proofs need to know of finite sets and of minima.  It is       *)
(* proved below, where the library that says so comes in.                  *)
Counting ==
    /\ IsFiniteSet({}) /\ Cardinality({}) = 0
    /\ \A A : IsFiniteSet(A) => Cardinality(A) \in Nat
    /\ \A A, x : IsFiniteSet(A) => IsFiniteSet(A \union {x}) /\ IsFiniteSet(A \ {x})
    /\ \A A, x : IsFiniteSet(A) /\ x \notin A => Cardinality(A \union {x}) = Cardinality(A) + 1
    /\ \A A : \A x \in A : IsFiniteSet(A) => Cardinality(A \ {x}) = Cardinality(A) - 1
    /\ \A A \in SUBSET Nat : A # {} => \E x \in A : \A y \in A : x <= y

Waves(q) ==
    \E k \in 0..Len(q) : \A i \in 2..Len(q) - 1 : i = k \/ q[i] < q[i+1]
OneEach(q) == \A i, j \in 1..Len(q) : q[i] = q[j] => i = j
-----------------------------------------------------------------------------
(* The loop of add_request stops somewhere, and there is a first place     *)
(* where it does.                                                          *)
LEMMA FirstStop ==
    ASSUME Counting, NEW q \in Seq(Buffers), NEW i \in 1..Len(q), NEW b \in Buffers
    PROVE  \E j \in Stops(q, i, b) : \A l \in Stops(q, i, b) : j <= l
<1>1. Len(q) \in Nat /\ i \in Nat /\ i <= Len(q)
  OBVIOUS
<1>2. Len(q) \in Stops(q, i, b)
  BY <1>1 DEF Stops
<1>3. Stops(q, i, b) \in SUBSET Nat
  BY <1>1 DEF Stops
<1>. QED BY <1>2, <1>3, ZenonT(60) DEF Counting

(* What the insertion makes of the list: the new request comes right       *)
(* behind the first stop, and everything else keeps its order.             *)
LEMMA Inserted ==
    ASSUME Counting, NEW q \in Seq(Buffers), NEW i \in 1..Len(q), NEW b \in Buffers
    PROVE  /\ Sorted(q, i, b) \in Seq(Buffers)
           /\ Len(Sorted(q, i, b)) = Len(q) + 1
           /\ \E j \in Stops(q, i, b) :
                /\ \A l \in Stops(q, i, b) : j <= l
                /\ \A k \in 1..Len(q) + 1 : Sorted(q, i, b)[k] =
                     IF k <= j THEN q[k] ELSE IF k = j + 1 THEN b ELSE q[k - 1]
<1>. DEFINE j == CHOOSE k \in Stops(q, i, b) : \A l \in Stops(q, i, b) : k <= l
            s == [k \in 1..Len(q) + 1 |->
                    IF k <= j THEN q[k] ELSE IF k = j + 1 THEN b ELSE q[k - 1]]
<1>1. j \in Stops(q, i, b) /\ \A l \in Stops(q, i, b) : j <= l
  BY FirstStop
<1>2. Sorted(q, i, b) = s
  BY DEF Sorted
<1>3. j \in 1..Len(q)
  BY <1>1 DEF Stops
<1>. HIDE DEF j
<1>4. s \in [1..Len(q) + 1 -> Buffers]
  <2>. SUFFICES ASSUME NEW k \in 1..Len(q) + 1 PROVE s[k] \in Buffers
    OBVIOUS
  <2>. QED BY <1>3
<1>5. s \in Seq(Buffers) /\ Len(s) = Len(q) + 1
  BY <1>4
<1>. QED BY <1>1, <1>2, <1>5

(* The insertion keeps the list free of repetitions.                       *)
LEMMA InsertedOnce ==
    ASSUME Counting, NEW q \in Seq(Buffers), NEW i \in 1..Len(q), NEW b \in Buffers,
           OneEach(q), \A k \in 1..Len(q) : q[k] # b
    PROVE  /\ OneEach(Sorted(q, i, b))
           /\ \E k \in 1..Len(q) + 1 : Sorted(q, i, b)[k] = b
           /\ \A k \in 1..Len(q) : \E l \in 1..Len(q) + 1 : Sorted(q, i, b)[l] = q[k]
           /\ \A l \in 1..Len(q) + 1 :
                Sorted(q, i, b)[l] = b \/ \E k \in 1..Len(q) : Sorted(q, i, b)[l] = q[k]
<1>. DEFINE s == Sorted(q, i, b)
<1>1. Len(s) = Len(q) + 1 /\ Len(q) \in Nat
  BY Inserted
<1>2. PICK j \in Stops(q, i, b) : \A k \in 1..Len(q) + 1 : s[k] =
        IF k <= j THEN q[k] ELSE IF k = j + 1 THEN b ELSE q[k - 1]
  BY Inserted
<1>3. j \in 1..Len(q)
  BY DEF Stops
<1>. HIDE DEF s
<1>4. OneEach(s)
  <2>. SUFFICES ASSUME NEW m \in 1..Len(q) + 1, NEW n \in 1..Len(q) + 1, s[m] = s[n]
                PROVE  m = n
    BY <1>1 DEF OneEach
  <2>1. \A k \in 1..Len(q) + 1 :
          \/ k <= j /\ k \in 1..Len(q) /\ s[k] = q[k]
          \/ k = j + 1 /\ s[k] = b
          \/ k > j + 1 /\ k - 1 \in 1..Len(q) /\ s[k] = q[k - 1]
    BY <1>1, <1>2, <1>3
  <2>2. CASE m = j + 1
    BY <2>1, <2>2, <1>1, <1>3, SMTT(30)
  <2>3. CASE n = j + 1
    <3>1. s[n] = b
      BY <2>3, <1>1, <1>2, <1>3
    <3>2. s[m] = b
      BY <3>1
    <3>. QED BY <3>2, <2>1, <2>3
  <2>4. CASE m # j + 1 /\ n # j + 1
    <3>. DEFINE p(k) == IF k <= j THEN k ELSE k - 1
    <3>1. p(m) \in 1..Len(q) /\ p(n) \in 1..Len(q) /\ q[p(m)] = q[p(n)]
      BY <2>1, <2>4, <1>1, <1>3
    <3>2. p(m) = p(n)
      <4>. HIDE DEF p
      <4>. QED BY <3>1 DEF OneEach
    <3>. QED BY <3>2, <2>4, <1>1, <1>3
  <2>. QED BY <2>2, <2>3, <2>4
<1>5. s[j + 1] = b /\ j + 1 \in 1..Len(q) + 1
  BY <1>1, <1>2, <1>3
<1>6. \A k \in 1..Len(q) : \E l \in 1..Len(q) + 1 : s[l] = q[k]
  <2>. TAKE k \in 1..Len(q)
  <2>1. CASE k <= j
    BY <2>1, <1>1, <1>2, <1>3
  <2>2. CASE ~(k <= j)
    <3>1. k + 1 \in 1..Len(q) + 1 /\ s[k + 1] = q[k]
      BY <2>2, <1>1, <1>2, <1>3
    <3>. QED BY <3>1
  <2>. QED BY <2>1, <2>2
<1>7. \A l \in 1..Len(q) + 1 : s[l] = b \/ \E k \in 1..Len(q) : s[l] = q[k]
  <2>. TAKE l \in 1..Len(q) + 1
  <2>1. CASE l <= j
    BY <2>1, <1>1, <1>2, <1>3
  <2>2. CASE l = j + 1
    BY <2>2, <1>5
  <2>3. CASE l > j + 1
    <3>1. l - 1 \in 1..Len(q) /\ s[l] = q[l - 1]
      BY <2>3, <1>1, <1>2, <1>3
    <3>. QED BY <3>1
  <2>. QED BY <2>1, <2>2, <2>3, <1>1, <1>3
<1>. QED BY <1>4, <1>5, <1>6, <1>7, Zenon DEF s
-----------------------------------------------------------------------------
(* The elevator.  Behind its first element the list descends at one place  *)
(* at most.  A request put between two others leaves it so by the test of  *)
(* the loop.  One put at the end, past a descent, is behind every element  *)
(* of the second sweep: were it not, the first of them that it precedes    *)
(* would have stopped the loop.                                            *)
LEMMA InsertedInOrder ==
    ASSUME Counting, NEW q \in Seq(Buffers), NEW i \in 1..Len(q), NEW b \in Buffers,
           i <= 2, \A k \in 1..Len(q) : q[k] # b, Waves(q), Buffers \subseteq Nat
    PROVE  Waves(Sorted(q, i, b))
<1>. DEFINE s == Sorted(q, i, b)
            n == Len(q)
<1>1. Len(s) = n + 1 /\ n \in Nat
  BY Inserted
<1>2. PICK j \in Stops(q, i, b) :
        /\ \A l \in Stops(q, i, b) : j <= l
        /\ \A k \in 1..n + 1 : s[k] =
             IF k <= j THEN q[k] ELSE IF k = j + 1 THEN b ELSE q[k - 1]
  BY Inserted
<1>3. j \in i..n /\ i \in Nat /\ j \in Nat /\ 1 <= j /\ j <= n
  BY DEF Stops
<1>4. PICK d \in 0..n : \A m \in 2..n - 1 : m = d \/ q[m] < q[m+1]
  BY DEF Waves
<1>5. \A m \in 1..n : q[m] \in Nat
  <2>1. \A m \in 1..n : q[m] \in Buffers
    OBVIOUS
  <2>. QED BY <2>1, Zenon
<1>6. b \in Nat
  OBVIOUS
<1>. SUFFICES Waves(s)
  OBVIOUS
<1>. HIDE DEF s
<1>w. ASSUME NEW e \in 0..n + 1, \A m \in 2..n : m = e \/ s[m] < s[m+1]
      PROVE  Waves(s)
  <2>1. Len(s) - 1 = n
    BY <1>1
  <2>. QED BY <1>w, <1>1, <2>1 DEF Waves
<1>7. CASE j < n
  <2>1. (q[j] < b \/ ~(q[j] < q[j+1])) /\ b < q[j+1]
    BY <1>7, <1>3 DEF Stops, IN_ORDER
  <2>2. \A m \in 2..n : (m < j => s[m] = q[m] /\ s[m+1] = q[m+1])
                     /\ (m = j => s[m] = q[m] /\ s[m+1] = b)
                     /\ (m = j + 1 => s[m] = b /\ s[m+1] = q[m])
                     /\ (m > j + 1 => s[m] = q[m-1] /\ s[m+1] = q[m])
    BY <1>1, <1>2, <1>3, <1>7, SMTT(30)
  <2>3. CASE q[j] < b
    <3>. DEFINE e == IF d < j THEN d ELSE d + 1
    <3>1. e \in 0..n + 1
      BY <1>4
    <3>2. ASSUME NEW m \in 2..n PROVE m = e \/ s[m] < s[m+1]
      <4>1. CASE m < j
        BY <4>1, <2>2, <1>4, <1>3
      <4>2. CASE m = j
        BY <4>2, <2>2, <2>3
      <4>3. CASE m = j + 1
        BY <4>3, <2>1, <2>2
      <4>4. CASE m > j + 1
        <5>1. m - 1 \in 2..n - 1 /\ (m - 1) + 1 = m
          BY <4>4, <1>3
        <5>2. m - 1 = d \/ q[m-1] < q[m]
          BY <5>1, <1>4
        <5>. QED BY <5>2, <4>4, <2>2, <1>3, <1>4
      <4>. QED BY <4>1, <4>2, <4>3, <4>4, <1>3
    <3>. QED BY <3>1, <3>2, <1>w
  <2>4. CASE ~(q[j] < b)
    <3>1. ~(q[j] < q[j+1])
      BY <2>1, <2>4
    <3>2. j = 1 \/ j = d
      BY <3>1, <1>4, <1>3, <1>7
    <3>. DEFINE e == IF j = 1 THEN d + 1 ELSE d
    <3>3. e \in 0..n + 1
      BY <1>4
    <3>4. ASSUME NEW m \in 2..n PROVE m = e \/ s[m] < s[m+1]
      <4>1. CASE m < j
        BY <4>1, <2>2, <1>4, <1>3, <3>2
      <4>2. CASE m = j
        BY <4>2, <3>2
      <4>3. CASE m = j + 1
        BY <4>3, <2>1, <2>2
      <4>4. CASE m > j + 1
        <5>1. m - 1 \in 2..n - 1 /\ (m - 1) + 1 = m
          BY <4>4, <1>3
        <5>2. m - 1 = d \/ q[m-1] < q[m]
          BY <5>1, <1>4
        <5>. QED BY <5>2, <4>4, <2>2, <3>2, <1>3, <1>4, SMTT(30)
      <4>. QED BY <4>1, <4>2, <4>3, <4>4, <1>3
    <3>. QED BY <3>3, <3>4, <1>w
  <2>. QED BY <2>3, <2>4
<1>8. CASE j = n
  <2>1. s[n+1] = b /\ \A m \in 1..n : s[m] = q[m]
    BY <1>1, <1>2, <1>3, <1>8
  <2>2. CASE \A m \in 2..n - 1 : q[m] < q[m+1]
    <3>1. \A m \in 2..n : m = n \/ s[m] < s[m+1]
      BY <2>1, <2>2, <1>1
    <3>2. n \in 0..n + 1
      BY <1>1
    <3>. QED BY <3>1, <3>2, <1>w
  <2>3. CASE \E m \in 2..n - 1 : ~(q[m] < q[m+1])
    <3>1. d \in 2..n - 1 /\ ~(q[d] < q[d+1])
      BY <2>3, <1>4
    <3>2. \A m \in i..n - 1 : m \notin Stops(q, i, b)
      BY <1>2, <1>3, <1>8
    <3>3. \A m \in i..n - 1 : ~((q[m] < b \/ ~(q[m] < q[m+1])) /\ b < q[m+1])
      BY <3>2, <1>1, <1>3, SMTT(30) DEF Stops, IN_ORDER
    <3>4. q[d+1] < b
      <4>1. ~(b < q[d+1]) /\ q[d+1] # b
        BY <3>1, <3>3, <1>1, <1>3
      <4>. QED BY <4>1, <3>1, <1>5, <1>6
    <3>5. q[n] < b
      <4>. SUFFICES ASSUME ~(q[n] < b) PROVE FALSE
        OBVIOUS
      <4>. DEFINE After == {m \in d + 1..n : ~(q[m] < b)}
      <4>1. n \in After /\ After \in SUBSET Nat
        BY <3>1, <1>1
      <4>2. PICK m \in After : \A l \in After : m <= l
        BY <4>1, Zenon DEF Counting
      <4>3. m \in Nat /\ d + 1 < m /\ m <= n /\ ~(q[m] < b) /\ q[m] # b
        BY <4>2, <3>1, <3>4, <1>1
      <4>4. m - 1 \in d + 1..n - 1 /\ m - 1 \notin After /\ (m - 1) + 1 = m
        BY <4>2, <4>3, <3>1, <1>1
      <4>5. q[m-1] < b
        BY <4>4, <1>1
      <4>6. b < q[m]
        BY <4>3, <1>5, <1>6
      <4>7. m - 1 \in i..n - 1
        BY <4>4, <3>1, <1>3
      <4>. QED BY <4>4, <4>5, <4>6, <4>7, <3>3
    <3>6. \A m \in 2..n : m = d \/ s[m] < s[m+1]
      BY <3>5, <2>1, <1>4, <1>1
    <3>7. d \in 0..n + 1
      BY <1>1
    <3>. QED BY <3>6, <3>7, <1>w
  <2>. QED BY <2>2, <2>3
<1>. QED BY <1>3, <1>7, <1>8

(* Taking the first request off the list keeps all of this.                *)
LEMMA Removed ==
    ASSUME NEW q \in Seq(Buffers), q # <<>>
    PROVE  /\ Tail(q) \in Seq(Buffers) /\ Len(Tail(q)) = Len(q) - 1
           /\ Len(q) \in Nat /\ Len(q) >= 1
           /\ \A k \in 1..Len(q) - 1 : Tail(q)[k] = q[k + 1]
           /\ OneEach(q) => OneEach(Tail(q))
           /\ Waves(q) => Waves(Tail(q))
<1>1. /\ Tail(q) \in Seq(Buffers) /\ Len(Tail(q)) = Len(q) - 1
      /\ Len(q) \in Nat /\ Len(q) >= 1
      /\ \A k \in 1..Len(q) - 1 : Tail(q)[k] = q[k + 1]
  OBVIOUS
<1>2. OneEach(q) => OneEach(Tail(q))
  BY <1>1 DEF OneEach
<1>3. ASSUME Waves(q) PROVE Waves(Tail(q))
  <2>1. PICK d \in 0..Len(q) : \A m \in 2..Len(q) - 1 : m = d \/ q[m] < q[m+1]
    BY <1>3 DEF Waves
  <2>. DEFINE e == IF d = 0 THEN 0 ELSE d - 1
  <2>2. e \in 0..Len(q) - 1
    BY <2>1, <1>1
  <2>3. ASSUME NEW m \in 2..Len(q) - 2 PROVE m = e \/ Tail(q)[m] < Tail(q)[m+1]
    <3>1. m + 1 \in 2..Len(q) - 1
      BY <1>1
    <3>2. m + 1 = d \/ q[m+1] < q[(m+1)+1]
      BY <2>1, <3>1
    <3>3. Tail(q)[m] = q[m+1] /\ Tail(q)[m+1] = q[(m+1)+1]
      BY <1>1
    <3>. QED BY <3>2, <3>3, <2>1
  <2>4. Len(Tail(q)) - 1 = Len(q) - 2
    BY <1>1
  <2>5. e \in 0..Len(Tail(q))
    BY <2>2, <1>1
  <2>. QED BY <2>3, <2>4, <2>5, Zenon DEF Waves
<1>. QED BY <1>1, <1>2, <1>3

-----------------------------------------------------------------------------
LEMMA NoTaskIsNone == NoTask \notin Tasks
BY HardDiskAssumption

(* The sleepers of wait_for_request (NoBuf) and of the buffers: Q is the    *)
(* queue a task sleeps on, H the heads, L the links on the stacks of        *)
(* sleep_on, A who is awake.  Every sleeper is a head or somebody's link,   *)
(* and the links lead down the stack, never around.                         *)
Nowhere == -2
Chans == Buffers \union {NoBuf}

(* The links go down: there is a depth that grows along them.  A task that *)
(* goes to sleep is put on top, at depth 0.                                *)
Ranked(L) ==
    \E r \in [Tasks -> Nat] : \A t \in Tasks : L[t] # NoTask => r[t] < r[L[t]]

(* The head of a queue sleeps on it.                                       *)
Heads(Q, H, A) ==
    \A c \in Chans : H[c] # NoTask => H[c] \in Tasks /\ ~A[H[c]] /\ Q[H[c]] = c

(* A link leads to a sleeper of the same queue that is not its head.       *)
Linked(Q, H, L, A) ==
    \A t \in Tasks : L[t] # NoTask =>
        L[t] \in Tasks /\ Q[t] \in Chans /\ ~A[L[t]] /\ Q[L[t]] = Q[t] /\ H[Q[t]] # L[t]

(* No task is the link of two.                                             *)
Apart(L) == \A t, u \in Tasks : L[t] # NoTask /\ L[t] = L[u] => t = u

(* Whoever sleeps will be woken by the end of a request or by another.     *)
Covered(Q, H, L, A) ==
    \A u \in Tasks : ~A[u] => Q[u] \in Chans /\ (H[Q[u]] = u \/ \E t \in Tasks : L[t] = u)

Shape(Q, H, L, A) ==
    /\ Heads(Q, H, A) /\ Linked(Q, H, L, A) /\ Apart(L) /\ Covered(Q, H, L, A) /\ Ranked(L)

(* The names of the queues.                                                *)
LEMMA ChanFacts == NoBuf \notin Buffers /\ Nowhere \notin Chans /\ NoBuf \in Chans /\ Buffers \subseteq Chans
BY HardDiskAssumption DEF NoBuf, Nowhere, Chans

(* wake_up of a queue with head x, and the end of sleep_on.                *)
Woken(A, x) == [u \in Tasks |-> A[u] \/ u = x]

(* A queue on which everybody sleeps has a head.                            *)
LEMMA HeadOfSleepers ==
    ASSUME Counting, NEW Q, NEW H, NEW L, NEW A, Shape(Q, H, L, A), NEW t \in Tasks, ~A[t],
           \A u \in Tasks : Q[u] = Q[t] => ~A[u]
    PROVE  Q[t] \in Chans /\ H[Q[t]] # NoTask
<1>0. Q[t] \in Chans
  BY Zenon DEF Shape, Covered
<1>1. PICK r \in [Tasks -> Nat] : \A u \in Tasks : L[u] # NoTask => r[u] < r[L[u]]
  BY DEF Shape, Ranked
<1>. DEFINE S == {r[u] : u \in {v \in Tasks : Q[v] = Q[t]}}
<1>2. S \in SUBSET Nat /\ S # {}
  OBVIOUS
<1>3. PICK m \in S : \A k \in S : m <= k
  <2>. HIDE DEF S
  <2>. QED BY <1>2, Zenon DEF Counting
<1>4. PICK u \in Tasks : Q[u] = Q[t] /\ m = r[u]
  BY <1>3, Zenon
<1>5. ~A[u] /\ u # NoTask
  BY <1>4, NoTaskIsNone, Zenon
<1>6. CASE H[Q[u]] = u
  BY <1>0, <1>4, <1>5, <1>6, Zenon
<1>7. ASSUME NEW v \in Tasks, L[v] = u PROVE FALSE
  <2>1. Q[v] = Q[t]
    BY <1>4, <1>5, <1>7, Zenon DEF Shape, Linked
  <2>2. r[v] < r[u] /\ r[v] \in S
    BY <1>1, <1>5, <1>7, <2>1, Zenon
  <2>3. m \in Nat /\ r[v] \in Nat /\ m <= r[v]
    BY <1>2, <1>3, <2>2
  <2>. QED BY <2>2, <2>3, <1>4, SMTT(30)
<1>. QED BY <1>5, <1>6, <1>7, Zenon DEF Shape, Covered

(* sleep_on: the task becomes the head and keeps the old one.               *)
LEMMA ShapeSleep ==
    ASSUME NEW Q, NEW H, NEW L, NEW A, Shape(Q, H, L, A),
           DOMAIN Q = Tasks, DOMAIN H = Chans, DOMAIN L = Tasks, DOMAIN A = Tasks,
           NEW t \in Tasks, A[t], Q[t] \notin Chans, NEW c \in Chans
    PROVE  Shape([Q EXCEPT ![t] = c], [H EXCEPT ![c] = t], [L EXCEPT ![t] = H[c]],
                 [A EXCEPT ![t] = FALSE])
<1>. DEFINE P == [Q EXCEPT ![t] = c]
            G == [H EXCEPT ![c] = t]
            K == [L EXCEPT ![t] = H[c]]
            B == [A EXCEPT ![t] = FALSE]
<1>1. /\ P[t] = c /\ G[c] = t /\ K[t] = H[c] /\ B[t] = FALSE
      /\ \A u \in Tasks \ {t} : P[u] = Q[u] /\ K[u] = L[u] /\ B[u] = A[u]
      /\ \A d \in Chans \ {c} : G[d] = H[d]
  BY Zenon
<1>2. /\ t # NoTask
      /\ \A d \in Chans : H[d] # NoTask => H[d] \in Tasks \ {t} /\ ~A[H[d]] /\ Q[H[d]] = d
      /\ \A u \in Tasks : L[u] # NoTask => L[u] \in Tasks \ {t} /\ u # t
  BY NoTaskIsNone, SMTT(30) DEF Shape, Heads, Linked
<1>. HIDE DEF P, G, K, B
<1>3. Heads(P, G, B)
  <2>. SUFFICES ASSUME NEW d \in Chans, G[d] # NoTask
                PROVE  G[d] \in Tasks /\ ~B[G[d]] /\ P[G[d]] = d
    BY Zenon DEF Heads
  <2>1. CASE d = c
    BY <1>1, <2>1, Zenon
  <2>2. CASE d # c
    BY <1>1, <1>2, <2>2, SMTT(30)
  <2>. QED BY <2>1, <2>2, Zenon
<1>4. Linked(P, G, K, B)
  <2>. SUFFICES ASSUME NEW u \in Tasks, K[u] # NoTask
                PROVE  /\ K[u] \in Tasks /\ P[u] \in Chans /\ ~B[K[u]]
                       /\ P[K[u]] = P[u] /\ G[P[u]] # K[u]
    BY Zenon DEF Linked
  <2>1. CASE u = t
    BY <1>1, <1>2, <2>1, SMTT(30)
  <2>2. CASE u # t
    <3>1. /\ K[u] = L[u] /\ P[u] = Q[u] /\ L[u] \in Tasks \ {t} /\ Q[u] \in Chans /\ ~A[L[u]]
          /\ Q[L[u]] = Q[u] /\ H[Q[u]] # L[u]
      BY <1>1, <1>2, <2>2, SMTT(30) DEF Shape, Linked
    <3>2. B[L[u]] = A[L[u]] /\ P[L[u]] = Q[L[u]] /\ G[Q[u]] # L[u]
      BY <1>1, <3>1, ZenonT(60)
    <3>. QED BY <3>1, <3>2, Zenon
  <2>. QED BY <2>1, <2>2, Zenon
<1>5. Apart(K)
  <2>. SUFFICES ASSUME NEW u \in Tasks, NEW v \in Tasks, K[u] # NoTask, K[u] = K[v], u # v
                PROVE  FALSE
    BY Zenon DEF Apart
  <2>1. ASSUME NEW w \in Tasks \ {t}, K[w] = H[c], H[c] # NoTask PROVE FALSE
    <3>1. L[w] = H[c] /\ L[w] # NoTask
      BY <1>1, <2>1, Zenon
    <3>2. Q[w] = c
      BY <1>2, <3>1, SMTT(30) DEF Shape, Linked
    <3>. QED BY <3>1, <3>2, Zenon DEF Shape, Linked
  <2>2. CASE u # t /\ v # t
    BY <1>1, <2>2, SMTT(30) DEF Shape, Apart
  <2>. QED BY <1>1, <2>1, <2>2, SMTT(30)
<1>6. Covered(P, G, K, B)
  <2>. SUFFICES ASSUME NEW u \in Tasks, ~B[u]
                PROVE  P[u] \in Chans /\ (G[P[u]] = u \/ \E v \in Tasks : K[v] = u)
    BY Zenon DEF Covered
  <2>1. CASE u = t
    BY <1>1, <2>1, Zenon
  <2>2. CASE u # t
    <3>1. ~A[u] /\ P[u] = Q[u] /\ Q[u] \in Chans /\ (H[Q[u]] = u \/ \E v \in Tasks : L[v] = u)
      BY <1>1, <2>2, Zenon DEF Shape, Covered
    <3>2. CASE H[Q[u]] = u
      BY <1>1, <3>1, <3>2, SMTT(30)
    <3>3. ASSUME NEW v \in Tasks, L[v] = u PROVE K[v] = u
      BY <1>1, <1>2, <3>3, NoTaskIsNone
    <3>. QED BY <3>1, <3>2, <3>3, Zenon
  <2>. QED BY <2>1, <2>2, Zenon
<1>7. Ranked(K)
  <2>1. PICK r \in [Tasks -> Nat] : \A u \in Tasks : L[u] # NoTask => r[u] < r[L[u]]
    BY Zenon DEF Shape, Ranked
  <2>. DEFINE s == [u \in Tasks |-> IF u = t THEN 0 ELSE r[u] + 1]
  <2>2. s \in [Tasks -> Nat]
    BY <2>1, SMTT(30)
  <2>3. ASSUME NEW u \in Tasks, K[u] # NoTask PROVE s[u] < s[K[u]]
    <3>1. CASE u = t
      <4>1. K[u] \in Tasks \ {t}
        BY <1>1, <1>2, <2>3, <3>1, Zenon
      <4>. QED BY <4>1, <2>1, <3>1, SMTT(30)
    <3>2. CASE u # t
      <4>1. K[u] = L[u] /\ K[u] \in Tasks \ {t} /\ r[u] < r[L[u]]
        BY <1>1, <1>2, <2>1, <2>3, <3>2, ZenonT(30)
      <4>. QED BY <4>1, <2>1, <3>2, SMTT(30)
    <3>. QED BY <3>1, <3>2, Zenon
  <2>. QED BY <2>2, <2>3, ZenonT(30) DEF Ranked
<1>8. Shape(P, G, K, B)
  BY <1>3, <1>4, <1>5, <1>6, <1>7, Zenon DEF Shape
<1>. QED BY <1>8 DEF P, G, K, B

(* The end of sleep_on: the task behind is woken, and this one is gone.     *)
LEMMA ShapeLeave ==
    ASSUME NEW Q, NEW H, NEW L, NEW A, Shape(Q, H, L, A),
           DOMAIN Q = Tasks, DOMAIN L = Tasks, A \in [Tasks -> BOOLEAN],
           NEW t \in Tasks, A[t]
    PROVE  Shape([Q EXCEPT ![t] = Nowhere], H, [L EXCEPT ![t] = NoTask],
                 Woken(A, L[t]))
<1>. DEFINE P == [Q EXCEPT ![t] = Nowhere]
            K == [L EXCEPT ![t] = NoTask]
            B == Woken(A, L[t])
<1>1. /\ K[t] = NoTask
      /\ \A u \in Tasks \ {t} : P[u] = Q[u] /\ K[u] = L[u]
      /\ \A u \in Tasks : B[u] <=> A[u] \/ u = L[t]
  BY Zenon DEF Woken
<1>. HIDE DEF P, K, B
<1>2. /\ \A d \in Chans : H[d] # NoTask => H[d] \in Tasks \ {t} /\ H[d] # L[t]
      /\ \A u \in Tasks : L[u] # NoTask => L[u] \in Tasks \ {t}
      /\ \A u \in Tasks \ {t} : L[u] # NoTask => L[u] # L[t]
  <2>1. ASSUME NEW d \in Chans, H[d] # NoTask, H[d] = L[t] PROVE FALSE
    BY <2>1, SMTT(30) DEF Shape, Heads, Linked
  <2>2. ASSUME NEW d \in Chans, H[d] # NoTask PROVE H[d] \in Tasks \ {t}
    BY <2>2, Zenon DEF Shape, Heads
  <2>3. ASSUME NEW u \in Tasks, L[u] # NoTask PROVE L[u] \in Tasks \ {t}
    BY <2>3, Zenon DEF Shape, Linked
  <2>4. ASSUME NEW u \in Tasks \ {t}, L[u] # NoTask PROVE L[u] # L[t]
    BY <2>4 DEF Shape, Apart
  <2>. QED BY <2>1, <2>2, <2>3, <2>4, Zenon
<1>3. Heads(P, H, B)
  BY <1>1, <1>2, Zenon DEF Shape, Heads
<1>4. Linked(P, H, K, B)
  <2>. SUFFICES ASSUME NEW u \in Tasks, K[u] # NoTask
                PROVE  /\ K[u] \in Tasks /\ P[u] \in Chans /\ ~B[K[u]]
                       /\ P[K[u]] = P[u] /\ H[P[u]] # K[u]
    BY Zenon DEF Linked
  <2>1. u # t /\ K[u] = L[u] /\ P[u] = Q[u]
    BY <1>1, Zenon
  <2>2. /\ L[u] \in Tasks \ {t} /\ L[u] # L[t] /\ Q[u] \in Chans /\ ~A[L[u]]
        /\ Q[L[u]] = Q[u] /\ H[Q[u]] # L[u]
    BY <1>2, <2>1, Zenon DEF Shape, Linked
  <2>. QED BY <1>1, <2>1, <2>2, Zenon
<1>5. Apart(K)
  <2>1. \A u \in Tasks : K[u] # NoTask => K[u] = L[u] /\ u # t
    BY <1>1, Zenon
  <2>. SUFFICES ASSUME NEW u \in Tasks, NEW v \in Tasks, K[u] # NoTask, K[u] = K[v]
                PROVE  u = v
    BY Zenon DEF Apart
  <2>2. L[u] # NoTask /\ L[u] = L[v]
    BY <2>1, Zenon
  <2>. QED BY <2>2, ZenonT(30) DEF Shape, Apart
<1>6. Covered(P, H, K, B)
  <2>. SUFFICES ASSUME NEW u \in Tasks, ~B[u]
                PROVE  P[u] \in Chans /\ (H[P[u]] = u \/ \E v \in Tasks : K[v] = u)
    BY Zenon DEF Covered
  <2>1. u # t /\ u # L[t] /\ P[u] = Q[u] /\ ~A[u]
    BY <1>1, Zenon
  <2>2. Q[u] \in Chans /\ (H[Q[u]] = u \/ \E v \in Tasks : L[v] = u)
    BY <2>1, Zenon DEF Shape, Covered
  <2>3. ASSUME NEW v \in Tasks, L[v] = u PROVE K[v] = u
    BY <1>1, <2>1, <2>3
  <2>. QED BY <2>1, <2>2, <2>3, Zenon
<1>7. Ranked(K)
  <2>1. \A u \in Tasks : K[u] # NoTask => L[u] # NoTask /\ K[u] = L[u]
    BY <1>1, Zenon
  <2>. QED BY <2>1, Zenon DEF Shape, Ranked
<1>8. Shape(P, H, K, B)
  BY <1>3, <1>4, <1>5, <1>6, <1>7, Zenon DEF Shape
<1>. QED BY <1>8 DEF P, K, B

(* wake_up: the head is woken and the queue left without one.               *)
LEMMA ShapeWakeUp ==
    ASSUME NEW Q, NEW H, NEW L, NEW A, Shape(Q, H, L, A),
           DOMAIN H = Chans, A \in [Tasks -> BOOLEAN], NEW c \in Chans
    PROVE  Shape(Q, [H EXCEPT ![c] = NoTask], L, Woken(A, H[c]))
<1>. DEFINE G == [H EXCEPT ![c] = NoTask]
            B == Woken(A, H[c])
<1>1. /\ G[c] = NoTask /\ \A d \in Chans \ {c} : G[d] = H[d]
      /\ \A u \in Tasks : B[u] <=> A[u] \/ u = H[c]
  BY Zenon DEF Woken
<1>. HIDE DEF G, B
<1>2. Heads(Q, G, B)
  <2>. SUFFICES ASSUME NEW d \in Chans, G[d] # NoTask
                PROVE  G[d] \in Tasks /\ ~B[G[d]] /\ Q[G[d]] = d
    BY Zenon DEF Heads
  <2>1. d # c /\ G[d] = H[d] /\ H[d] \in Tasks /\ ~A[H[d]] /\ Q[H[d]] = d
    BY <1>1, Zenon DEF Shape, Heads
  <2>2. H[d] # H[c]
    BY <2>1, Zenon DEF Shape, Heads
  <2>. QED BY <1>1, <2>1, <2>2, Zenon
<1>3. Linked(Q, G, L, B)
  <2>. SUFFICES ASSUME NEW u \in Tasks, L[u] # NoTask
                PROVE  /\ L[u] \in Tasks /\ Q[u] \in Chans /\ ~B[L[u]]
                       /\ Q[L[u]] = Q[u] /\ G[Q[u]] # L[u]
    BY Zenon DEF Linked
  <2>1. /\ L[u] \in Tasks /\ Q[u] \in Chans /\ ~A[L[u]]
        /\ Q[L[u]] = Q[u] /\ H[Q[u]] # L[u]
    BY DEF Shape, Linked
  <2>2. L[u] # H[c]
    BY <2>1, Zenon DEF Shape, Heads
  <2>. QED BY <1>1, <2>1, <2>2, Zenon
<1>4. Covered(Q, G, L, B)
  BY <1>1, ZenonT(60) DEF Shape, Covered
<1>5. Shape(Q, G, L, B)
  BY <1>2, <1>3, <1>4, Zenon DEF Shape
<1>. QED BY <1>5 DEF G, B
-----------------------------------------------------------------------------
InKernel == {"scan", "full", "sort", "link", "start", "wait", "again"}
Seeks(t) == at[t] \in {"scan", "full", "reqsleep"}
InAdd(t) == at[t] \in {"sort", "link", "start"}

(* The types, without the bounds that follow from the rest.                *)
TInv ==
    /\ current \in Tasks \union {NoTask}
    /\ at \in [Tasks -> Places]
    /\ buf \in [Tasks -> Buffers \union {NoBuf}]
    /\ awake \in [Tasks -> BOOLEAN]
    /\ link \in [Tasks -> Tasks \union {NoTask}]
    /\ b_lock \in [Buffers -> BOOLEAN]
    /\ b_wait \in [Buffers -> Tasks \union {NoTask}]
    /\ wait_for_request \in Tasks \union {NoTask}
    /\ request \subseteq Buffers
    /\ queue \in Seq(Buffers)
    /\ tmp \in Buffers \union {NoBuf}
    /\ nsector \in 1..2
    /\ sorting \in BOOLEAN /\ do_hd \in BOOLEAN /\ busy \in BOOLEAN
    /\ missed \subseteq {"link", "full", "again"}

(* The task in the kernel is the one that is at a place of the kernel, and *)
(* whoever is in a call has a buffer.                                      *)
RunInv ==
    \A t \in Tasks : /\ current = t <=> at[t] \in InKernel
                     /\ at[t] # "user" => buf[t] \in Buffers

(* sorting is up while a task is in add_request.                           *)
SortInv == sorting <=> \E t \in Tasks : InAdd(t)

(* A locked buffer has one owner: a slot or a task that seeks one.         *)
LockInv ==
    /\ \A t \in Tasks : Seeks(t) => b_lock[buf[t]] /\ buf[t] \notin request
    /\ \A t, u \in Tasks : Seeks(t) /\ Seeks(u) /\ buf[t] = buf[u] => t = u
    /\ \A b \in request : b_lock[b]
    /\ \A b \in Buffers :
         b_lock[b] => b \in request \/ \E t \in Tasks : Seeks(t) /\ buf[t] = b

SlotInv == IsFiniteSet(request) /\ Cardinality(request) <= NR_REQUEST

(* The list holds the slots, each once, but for the one being added.       *)
ListInv ==
    /\ OneEach(queue)
    /\ \A i \in 1..Len(queue) : queue[i] \in request
    /\ \A t \in Tasks : Adding(t) =>
         buf[t] \in request /\ \A i \in 1..Len(queue) : queue[i] # buf[t]
    /\ "link" \notin missed => \A b \in request :
         (\E i \in 1..Len(queue) : queue[i] = b) \/ \E t \in Tasks : Adding(t) /\ buf[t] = b

(* While tmp is held, at most one request can end: sorting keeps the next  *)
(* from being started.                                                     *)
LinkInv ==
    \A t \in Tasks : at[t] = "link" /\ "link" \notin missed =>
        queue # <<>> /\ (queue[1] = tmp \/ ~busy)

DevInv ==
    /\ busy <=> do_hd
    /\ busy => queue # <<>>
    /\ queue # <<>> /\ ~sorting => busy \/ nsector = 1

IInv ==
    /\ TInv /\ RunInv /\ SortInv /\ LockInv /\ SlotInv /\ ListInv /\ LinkInv
    /\ DevInv /\ Waves(queue)
-----------------------------------------------------------------------------
LEMMA Init_IInv ==
    ASSUME Counting, Init
    PROVE  IInv
<1>. USE HardDiskAssumption
<1>1. TInv
  <2>1. queue \in Seq(Buffers)
    BY DEF Init
  <2>2. sorting \in BOOLEAN /\ do_hd \in BOOLEAN /\ busy \in BOOLEAN
    BY Zenon DEF Init
  <2>3. /\ awake \in [Tasks -> BOOLEAN] /\ b_lock \in [Buffers -> BOOLEAN]
        /\ at \in [Tasks -> Places] /\ nsector \in 1..2
    BY DEF Init, Places
  <2>. QED BY <2>1, <2>2, <2>3 DEF Init, TInv
<1>2. RunInv /\ SortInv /\ LockInv /\ LinkInv /\ DevInv
  BY DEF Init, RunInv, SortInv, LockInv, LinkInv, DevInv, InKernel, Seeks, InAdd, NoTask
<1>3. SlotInv
  BY DEF Init, SlotInv, Counting
<1>4. Len(queue) = 0
  BY DEF Init
<1>5. ListInv
  BY <1>4 DEF Init, ListInv, OneEach, Adding
<1>6. Waves(queue)
  BY <1>4 DEF Waves
<1>. QED BY <1>1, <1>2, <1>3, <1>5, <1>6 DEF IInv

(* rw_hd: the buffer was free, so it is nobody's.                          *)
LEMMA CallStep ==
    ASSUME IInv, NEW t \in Tasks, NEW b \in Buffers, rw_hd(t, b)
    PROVE  IInv'
<1>. USE NoTaskIsNone DEF IInv
<1>1. CASE NR_HD = 0 \/ 2 * b + 2 > nr_sects
  <2>1. UNCHANGED vars
    BY <1>1 DEF rw_hd, vars, taskVars, diskVars, bufVars
  <2>. QED BY <2>1 DEF vars, taskVars, diskVars, bufVars, TInv, RunInv, SortInv,
             LockInv, SlotInv, ListInv, LinkInv, DevInv, Waves, OneEach, InAdd, Seeks, Adding
<1>2. CASE ~(NR_HD = 0 \/ 2 * b + 2 > nr_sects)
  <2>1. /\ Runs(t) /\ at[t] = "user" /\ ~b_lock[b]
        /\ b_lock' = [b_lock EXCEPT ![b] = TRUE]
        /\ buf' = [buf EXCEPT ![t] = b]
        /\ at' = [at EXCEPT ![t] = "scan"] /\ current' = t
        /\ UNCHANGED <<awake, link, tmp, b_wait, wait_for_request>>
        /\ UNCHANGED <<request, queue, nsector, sorting, do_hd, busy, missed>>
    BY <1>2 DEF rw_hd, lock_buffer, Go, diskVars
  <2>2. TInv'
    BY <2>1 DEF TInv, Places
  <2>3. RunInv'
    BY <2>1 DEF TInv, RunInv, InKernel, Runs, NoTask
  <2>4. SortInv'
    BY <2>1 DEF TInv, SortInv, InAdd
  <2>5. LockInv'
    BY <2>1 DEF TInv, LockInv, Seeks, RunInv
  <2>6. \A u \in Tasks : /\ Adding(u)' <=> Adding(u)
                         /\ at'[u] = "link" <=> at[u] = "link"
                         /\ Adding(u) => buf'[u] = buf[u]
    BY <2>1 DEF TInv, Adding
  <2>7. ListInv' /\ Waves(queue)'
    BY <2>1, <2>6 DEF ListInv, OneEach, Waves
  <2>8. SlotInv' /\ LinkInv' /\ DevInv'
    BY <2>1, <2>6 DEF SlotInv, LinkInv, DevInv
  <2>. QED BY <2>2, <2>3, <2>4, <2>5, <2>7, <2>8
<1>. QED BY <1>1, <1>2, Zenon

(* The scan of rw_abs_hd gives the task a slot only while one is free.     *)
LEMMA ScanStep ==
    ASSUME Counting, IInv, NEW t \in Tasks, Scan(t)
    PROVE  IInv'
<1>. USE NoTaskIsNone DEF IInv
<1>1. /\ Runs(t) /\ at[t] = "scan"
      /\ UNCHANGED <<buf, awake, link, tmp, b_lock, b_wait, wait_for_request,
                     queue, nsector, do_hd, busy, missed>>
  BY DEF Scan, bufVars
<1>b. buf[t] \in Buffers /\ buf[t] \notin request /\ b_lock[buf[t]] /\ Seeks(t)
  BY <1>1 DEF RunInv, LockInv, Seeks
<1>c. \A u \in Tasks \ {t} : at[u] \notin InKernel
  BY <1>1 DEF RunInv, Runs, InKernel, TInv, NoTask
<1>2. CASE Cardinality(request) < NR_REQUEST
  <2>1. /\ request' = request \union {buf[t]} /\ sorting' = TRUE
        /\ at' = [at EXCEPT ![t] = "sort"] /\ current' = t
    BY <1>2 DEF Scan, Go
  <2>2. TInv'
    BY <1>1, <1>b, <2>1 DEF TInv, Places
  <2>3. RunInv'
    BY <1>1, <1>c, <2>1 DEF TInv, RunInv, InKernel, Runs, NoTask
  <2>4. SortInv'
    BY <1>1, <2>1, Zenon DEF TInv, SortInv, InAdd
  <2>5. LockInv'
    BY <1>1, <1>b, <2>1 DEF TInv, LockInv, Seeks, RunInv
  <2>6. SlotInv'
    <3>1. Cardinality(request) \in Nat /\ NR_REQUEST \in Nat
      BY HardDiskAssumption DEF SlotInv, Counting
    <3>2. /\ IsFiniteSet(request \union {buf[t]})
          /\ Cardinality(request \union {buf[t]}) = Cardinality(request) + 1
      BY <1>b, Zenon DEF SlotInv, Counting
    <3>. QED BY <1>2, <2>1, <3>1, <3>2 DEF SlotInv
  <2>7. ListInv'
    <3>1. OneEach(queue)' /\ \A i \in 1..Len(queue) : queue[i] \in request'
      BY <1>1, <2>1, Zenon DEF ListInv, OneEach
    <3>2. \A u \in Tasks : Adding(u)' => u = t
      BY <1>1, <1>c, <2>1, Zenon DEF Adding, InKernel, TInv
    <3>3. \A i \in 1..Len(queue) : queue[i] # buf[t]
      BY <1>b DEF ListInv
    <3>4. Adding(t)'
      BY <2>1, Zenon DEF Adding, TInv
    <3>5. "link" \notin missed => \A b \in request :
            \E i \in 1..Len(queue) : queue[i] = b
      <4>1. \A u \in Tasks : ~Adding(u)
        BY <1>1, <1>c, Zenon DEF Adding, InKernel
      <4>. QED BY <4>1 DEF ListInv
    <3>. QED BY <1>1, <2>1, <3>1, <3>2, <3>3, <3>4, <3>5, Zenon DEF ListInv
  <2>8. LinkInv'
    BY <1>1, <1>c, <2>1, Zenon DEF LinkInv, InKernel, TInv
  <2>9. DevInv' /\ Waves(queue)'
    BY <1>1, <2>1 DEF DevInv, Waves
  <2>. QED BY <2>2, <2>3, <2>4, <2>5, <2>6, <2>7, <2>8, <2>9
<1>3. CASE ~(Cardinality(request) < NR_REQUEST)
  <2>1. /\ at' = [at EXCEPT ![t] = "full"] /\ current' = t
        /\ UNCHANGED <<request, sorting>>
    BY <1>3, Zenon DEF Scan, Go
  <2>2. TInv'
    BY <1>1, <2>1, Zenon DEF TInv, Places
  <2>3. RunInv'
    BY <1>1, <1>c, <2>1, Zenon DEF TInv, RunInv, InKernel, Runs, NoTask
  <2>4. SortInv'
    BY <1>1, <2>1, Zenon DEF TInv, SortInv, InAdd
  <2>5. LockInv'
    BY <1>1, <1>b, <2>1, SMTT(30) DEF TInv, LockInv, Seeks, RunInv
  <2>6. \A u \in Tasks : /\ Adding(u)' <=> Adding(u)
                         /\ at'[u] = "link" <=> at[u] = "link"
    BY <1>1, <2>1, Zenon DEF TInv, Adding
  <2>7. ListInv' /\ Waves(queue)'
    BY <1>1, <2>1, <2>6, SMTT(30) DEF ListInv, OneEach, Waves
  <2>8. SlotInv' /\ LinkInv' /\ DevInv'
    BY <1>1, <2>1, <2>6, Zenon DEF SlotInv, LinkInv, DevInv
  <2>. QED BY <2>2, <2>3, <2>4, <2>5, <2>7, <2>8, Zenon
<1>. QED BY <1>2, <1>3

(* The steps that only move a task, to or from a sleep, and leave the list *)
(* and the locks alone.                                                    *)
LEMMA PassiveStep ==
    ASSUME IInv, NEW t \in Tasks, NEW p \in Places, ~InAdd(t),
           at' = [at EXCEPT ![t] = p], p \notin {"sort", "link", "start"},
           Seeks(t) <=> p \in {"scan", "full", "reqsleep"},
           \A u \in Tasks : u # t \/ Seeks(t) => buf'[u] = buf[u],
           UNCHANGED <<b_lock, tmp, request, queue, nsector, sorting, do_hd, busy, missed>>,
           TInv', RunInv'
    PROVE  IInv'
<1>. USE DEF IInv
<1>1. \A u \in Tasks : at'[u] = IF u = t THEN p ELSE at[u]
  BY Zenon DEF TInv
<1>2. \A u \in Tasks : /\ InAdd(u)' <=> InAdd(u)
                       /\ Seeks(u)' <=> Seeks(u)
                       /\ Adding(u)' <=> Adding(u)
                       /\ at'[u] = "link" <=> at[u] = "link"
                       /\ Seeks(u) \/ Adding(u) => buf'[u] = buf[u]
  BY <1>1, Zenon DEF InAdd, Seeks, Adding
<1>3. SortInv'
  BY <1>2, Zenon DEF SortInv
<1>4. LockInv'
  <2>1. b_lock' = b_lock /\ request' = request
    BY Zenon
  <2>2. ASSUME NEW u \in Tasks, Seeks(u)' PROVE b_lock'[buf'[u]] /\ buf'[u] \notin request'
    <3>1. Seeks(u) /\ buf'[u] = buf[u]
      BY <1>2, <2>2, Zenon
    <3>2. b_lock[buf[u]] /\ buf[u] \notin request
      BY <3>1, Zenon DEF LockInv
    <3>. QED BY <2>1, <3>1, <3>2, Zenon
  <2>3. \A u, v \in Tasks : Seeks(u)' /\ Seeks(v)' /\ buf'[u] = buf'[v] => u = v
    BY <1>2, ZenonT(60) DEF LockInv
  <2>4. ASSUME NEW b \in request' PROVE b_lock'[b]
    <3>1. b \in request
      BY <2>1, <2>4, Zenon
    <3>2. b_lock[b]
      BY <3>1, Zenon DEF LockInv
    <3>. QED BY <2>1, <3>2, Zenon
  <2>5. ASSUME NEW b \in Buffers, b_lock'[b]
        PROVE  b \in request' \/ \E u \in Tasks : Seeks(u)' /\ buf'[u] = b
    <3>1. b_lock[b]
      BY <2>1, <2>5, Zenon
    <3>2. b \in request \/ \E u \in Tasks : Seeks(u) /\ buf[u] = b
      BY <3>1, Zenon DEF LockInv
    <3>3. ASSUME NEW u \in Tasks, Seeks(u), buf[u] = b PROVE Seeks(u)' /\ buf'[u] = b
      BY <1>2, <3>3, Zenon
    <3>. QED BY <2>1, <3>2, <3>3, Zenon
  <2>. QED BY <2>2, <2>3, <2>4, <2>5, Zenon DEF LockInv
<1>5. ListInv'
  <2>1. queue' = queue /\ request' = request /\ missed' = missed
    BY Zenon
  <2>2. ASSUME NEW u \in Tasks, Adding(u)'
        PROVE  buf'[u] \in request' /\ \A i \in 1..Len(queue') : queue'[i] # buf'[u]
    <3>1. Adding(u) /\ buf'[u] = buf[u]
      BY <1>2, <2>2, Zenon
    <3>2. buf[u] \in request /\ \A i \in 1..Len(queue) : queue[i] # buf[u]
      BY <3>1, Zenon DEF ListInv
    <3>. QED BY <2>1, <3>1, <3>2, Zenon
  <2>3. ASSUME "link" \notin missed', NEW b \in request'
        PROVE  (\E i \in 1..Len(queue') : queue'[i] = b) \/ \E u \in Tasks : Adding(u)' /\ buf'[u] = b
    <3>1. (\E i \in 1..Len(queue) : queue[i] = b) \/ \E u \in Tasks : Adding(u) /\ buf[u] = b
      BY <2>1, <2>3, Zenon DEF ListInv
    <3>2. ASSUME NEW u \in Tasks, Adding(u), buf[u] = b PROVE Adding(u)' /\ buf'[u] = b
      BY <1>2, <3>2, Zenon
    <3>. QED BY <2>1, <3>1, <3>2, Zenon
  <2>4. OneEach(queue)' /\ \A i \in 1..Len(queue') : queue'[i] \in request'
    BY <2>1, Zenon DEF ListInv, OneEach
  <2>. QED BY <2>2, <2>3, <2>4, Zenon DEF ListInv
<1>6. SlotInv' /\ LinkInv' /\ DevInv' /\ Waves(queue)'
  BY <1>2 DEF SlotInv, LinkInv, DevInv, Waves
<1>. QED BY <1>3, <1>4, <1>5, <1>6, Zenon

(* sleep_on and what follows it.                                           *)
LEMMA SleepForSlotStep ==
    ASSUME IInv, NEW t \in Tasks, SleepForSlot(t)
    PROVE  IInv'
<1>. USE NoTaskIsNone DEF IInv
<1>1. /\ Runs(t) /\ at[t] = "full" /\ at' = [at EXCEPT ![t] = "reqsleep"]
      /\ link' = [link EXCEPT ![t] = wait_for_request]
      /\ awake' = [awake EXCEPT ![t] = FALSE] /\ current' = NoTask
      /\ wait_for_request' = t
      /\ UNCHANGED <<buf, tmp, b_lock, b_wait>>
      /\ UNCHANGED <<request, queue, nsector, sorting, do_hd, busy, missed>>
  BY Zenon DEF SleepForSlot, SleepOn, diskVars
<1>2. TInv'
  BY <1>1, Zenon DEF TInv, Places
<1>3. RunInv'
  BY <1>1 DEF TInv, RunInv, InKernel, Runs, NoTask
<1>4. ~InAdd(t) /\ Seeks(t) /\ "reqsleep" \in Places
  BY <1>1 DEF InAdd, Seeks, Places
<1>. QED BY <1>1, <1>2, <1>3, <1>4, PassiveStep, ZenonT(30)

LEMMA SlotWakesStep ==
    ASSUME IInv, NEW t \in Tasks, SlotWakes(t)
    PROVE  IInv'
<1>. USE NoTaskIsNone DEF IInv
<1>1. /\ Runs(t) /\ at[t] = "reqsleep" /\ at' = [at EXCEPT ![t] = "scan"]
      /\ link' = [link EXCEPT ![t] = NoTask]
      /\ awake' = [u \in Tasks |-> awake[u] \/ u = link[t]] /\ current' = t
      /\ UNCHANGED <<buf, tmp, b_lock, b_wait, wait_for_request>>
      /\ UNCHANGED <<request, queue, nsector, sorting, do_hd, busy, missed>>
  BY Zenon DEF SlotWakes, WakeNext, Go, diskVars, bufVars
<1>2. TInv'
  BY <1>1, Zenon DEF TInv, Places
<1>3. RunInv'
  BY <1>1 DEF TInv, RunInv, InKernel, Runs, NoTask
<1>4. ~InAdd(t) /\ Seeks(t) /\ "scan" \in Places
  BY <1>1 DEF InAdd, Seeks, Places
<1>. QED BY <1>1, <1>2, <1>3, <1>4, PassiveStep, ZenonT(30)

LEMMA WaitStep ==
    ASSUME IInv, NEW t \in Tasks, NEW b \in Buffers, wait_on_buffer(t, b)
    PROVE  IInv'
<1>. USE NoTaskIsNone DEF IInv
<1>1. /\ Runs(t) /\ at[t] \in {"user", "wait"}
      /\ UNCHANGED <<tmp, b_lock, wait_for_request>>
      /\ UNCHANGED <<request, queue, nsector, sorting, do_hd, busy, missed>>
  BY Zenon DEF wait_on_buffer, diskVars
<1>p. ~InAdd(t) /\ ~Seeks(t) /\ {"bufsleep", "user"} \subseteq Places
  BY <1>1 DEF InAdd, Seeks, Places
<1>2. CASE b_lock[b]
  <2>1. /\ at' = [at EXCEPT ![t] = "bufsleep"]
        /\ link' = [link EXCEPT ![t] = b_wait[b]]
        /\ awake' = [awake EXCEPT ![t] = FALSE] /\ current' = NoTask
        /\ b_wait' = [b_wait EXCEPT ![b] = t]
        /\ buf' = [buf EXCEPT ![t] = b]
    BY <1>2, Zenon DEF wait_on_buffer, SleepOn
  <2>2. TInv'
    BY <1>1, <2>1, Zenon DEF TInv, Places
  <2>3. RunInv'
    BY <1>1, <2>1, Zenon DEF TInv, RunInv, InKernel, Runs, NoTask
  <2>4. \A u \in Tasks : u # t \/ Seeks(t) => buf'[u] = buf[u]
    BY <1>p, <2>1 DEF TInv
  <2>. QED BY <1>1, <1>p, <2>1, <2>2, <2>3, <2>4, PassiveStep, ZenonT(30)
<1>3. CASE ~b_lock[b]
  <2>1. /\ at' = [at EXCEPT ![t] = "user"]
        /\ buf' = [buf EXCEPT ![t] = NoBuf] /\ current' = NoTask
        /\ UNCHANGED <<awake, link, b_wait>>
    BY <1>3, Zenon DEF wait_on_buffer, Leave
  <2>2. TInv'
    BY <1>1, <2>1, Zenon DEF TInv, Places
  <2>3. RunInv'
    BY <1>1, <2>1 DEF TInv, RunInv, InKernel, Runs, NoTask
  <2>4. \A u \in Tasks : u # t \/ Seeks(t) => buf'[u] = buf[u]
    BY <1>p, <2>1, ZenonT(30) DEF TInv
  <2>. QED BY <1>1, <1>p, <2>1, <2>2, <2>3, <2>4, PassiveStep, ZenonT(30)
<1>. QED BY <1>2, <1>3, SMTT(30)

LEMMA BufferWakesStep ==
    ASSUME IInv, NEW t \in Tasks, BufferWakes(t)
    PROVE  IInv'
<1>. USE NoTaskIsNone DEF IInv
<1>1. /\ Runs(t) /\ at[t] = "bufsleep"
      /\ link' = [link EXCEPT ![t] = NoTask]
      /\ awake' = [u \in Tasks |-> awake[u] \/ u = link[t]]
      /\ UNCHANGED <<tmp, b_lock, b_wait, wait_for_request>>
      /\ UNCHANGED <<request, queue, nsector, sorting, do_hd, busy, missed>>
  BY ZenonT(60) DEF BufferWakes, WakeNext, diskVars, bufVars
<1>p. ~InAdd(t) /\ ~Seeks(t) /\ {"again", "user"} \subseteq Places
  BY <1>1 DEF InAdd, Seeks, Places
<1>2. CASE b_lock[buf[t]]
  <2>1. /\ at' = [at EXCEPT ![t] = "again"] /\ current' = t /\ UNCHANGED buf
    BY <1>2, Zenon DEF BufferWakes, Go
  <2>2. TInv'
    BY <1>1, <2>1, Zenon DEF TInv, Places
  <2>3. RunInv'
    BY <1>1, <2>1 DEF TInv, RunInv, InKernel, Runs, NoTask
  <2>. QED BY <1>1, <1>p, <2>1, <2>2, <2>3, PassiveStep, ZenonT(30)
<1>3. CASE ~b_lock[buf[t]]
  <2>1. /\ at' = [at EXCEPT ![t] = "user"]
        /\ buf' = [buf EXCEPT ![t] = NoBuf] /\ current' = NoTask
    BY <1>3, ZenonT(30) DEF BufferWakes, Leave
  <2>2. TInv'
    BY <1>1, <2>1, Zenon DEF TInv, Places
  <2>3. RunInv'
    BY <1>1, <2>1, Zenon DEF TInv, RunInv, InKernel, Runs, NoTask
  <2>4. \A u \in Tasks : u # t \/ Seeks(t) => buf'[u] = buf[u]
    BY <1>p, <2>1 DEF TInv
  <2>. QED BY <1>1, <1>p, <2>1, <2>2, <2>3, <2>4, PassiveStep, ZenonT(30)
<1>. QED BY <1>2, <1>3, Zenon

LEMMA SleepAgainStep ==
    ASSUME IInv, NEW t \in Tasks, SleepAgain(t)
    PROVE  IInv'
<1>. USE NoTaskIsNone DEF IInv
<1>1. /\ Runs(t) /\ at[t] = "again" /\ at' = [at EXCEPT ![t] = "bufsleep"]
      /\ link' = [link EXCEPT ![t] = b_wait[buf[t]]]
      /\ awake' = [awake EXCEPT ![t] = FALSE] /\ current' = NoTask
      /\ b_wait' = [b_wait EXCEPT ![buf[t]] = t]
      /\ UNCHANGED <<buf, tmp, b_lock, wait_for_request>>
      /\ UNCHANGED <<request, queue, nsector, sorting, do_hd, busy, missed>>
  BY Zenon DEF SleepAgain, SleepOn, diskVars
<1>2. buf[t] \in Buffers
  BY <1>1, Zenon DEF RunInv
<1>3. TInv'
  BY <1>1, <1>2, Zenon DEF TInv, Places
<1>4. RunInv'
  BY <1>1 DEF TInv, RunInv, InKernel, Runs, NoTask
<1>p. ~InAdd(t) /\ ~Seeks(t) /\ "bufsleep" \in Places
  BY <1>1, ZenonT(60) DEF InAdd, Seeks, Places
<1>. QED BY <1>1, <1>p, <1>3, <1>4, PassiveStep, ZenonT(30)
-----------------------------------------------------------------------------
(* Nobody else is in the kernel when t is.                                 *)
LEMMA Alone ==
    ASSUME IInv, NEW t \in Tasks, at[t] \in InKernel
    PROVE  current = t /\ \A u \in Tasks \ {t} : at[u] \notin InKernel
BY DEF IInv, RunInv

(* add_request on an empty list, and where it takes tmp from one that is   *)
(* not.                                                                    *)
LEMMA TakeFirstStep ==
    ASSUME IInv, NEW t \in Tasks, TakeFirst(t)
    PROVE  IInv'
<1>. USE NoTaskIsNone DEF IInv
<1>1. /\ at[t] = "sort"
      /\ UNCHANGED <<buf, awake, link, b_lock, b_wait, wait_for_request,
                     request, sorting, do_hd, busy, missed>>
  BY DEF TakeFirst, bufVars
<1>2. current = t /\ \A u \in Tasks \ {t} : at[u] \notin InKernel
  BY <1>1, Alone DEF InKernel
<1>3. buf[t] \in Buffers /\ Adding(t) /\ buf[t] \in request
  BY <1>1 DEF RunInv, ListInv, Adding
<1>4. CASE queue = <<>>
  <2>1. /\ queue' = <<buf[t]>> /\ nsector' = 2 /\ UNCHANGED tmp
        /\ at' = [at EXCEPT ![t] = "start"] /\ current' = t
    BY <1>4 DEF TakeFirst, Go
  <2>0. \A u \in Tasks : at'[u] = IF u = t THEN "start" ELSE at[u]
    BY <2>1, Zenon DEF TInv
  <2>2. Len(queue) = 0 /\ Len(queue') = 1 /\ queue'[1] = buf[t] /\ queue' # <<>>
    BY <1>4, <2>1
  <2>3. TInv'
    <3>1. queue' \in Seq(Buffers)
      BY <2>1, <1>3
    <3>. QED BY <1>1, <2>1, <3>1 DEF TInv, Places
  <2>4. RunInv'
    BY <1>1, <1>2, <2>1 DEF TInv, RunInv, InKernel
  <2>5. SortInv'
    <3>1. InAdd(t) /\ InAdd(t)'
      BY <1>1, <2>0, ZenonT(60) DEF InAdd
    <3>. QED BY <1>1, <3>1, Zenon DEF SortInv
  <2>6. LockInv'
    <3>1. \A u \in Tasks : Seeks(u)' <=> Seeks(u)
      BY <1>1, <2>0, ZenonT(30) DEF Seeks
    <3>. QED BY <3>1, <1>1 DEF LockInv
  <2>7. ListInv'
    <3>1. \A u \in Tasks : ~Adding(u)'
      BY <1>2, <2>0, Zenon DEF Adding, InKernel
    <3>2. "link" \notin missed => \A b \in request : b = buf[t]
      <4>1. \A u \in Tasks : Adding(u) => u = t
        BY <1>2 DEF Adding, InKernel
      <4>. QED BY <2>2, <4>1 DEF ListInv
    <3>3. 1..Len(queue') = {1}
      BY <2>2
    <3>. QED BY <1>1, <1>3, <2>2, <3>1, <3>2, <3>3, ZenonT(60) DEF ListInv, OneEach
  <2>8. LinkInv'
    <3>1. \A u \in Tasks : at'[u] # "link"
      BY <1>2, <2>0, ZenonT(60) DEF InKernel
    <3>. QED BY <3>1, Zenon DEF LinkInv
  <2>9. DevInv'
    <3>1. sorting
      BY <1>1 DEF SortInv, InAdd
    <3>. QED BY <1>1, <1>4, <2>2, <3>1 DEF DevInv
  <2>10. Waves(queue)'
    BY <2>2 DEF Waves
  <2>. QED BY <1>1, <2>3, <2>4, <2>5, <2>6, <2>7, <2>8, <2>9, <2>10 DEF SlotInv
<1>5. CASE queue # <<>>
  <2>1. /\ tmp' = queue[1] /\ UNCHANGED <<queue, nsector>>
        /\ at' = [at EXCEPT ![t] = "link"] /\ current' = t
    BY <1>5 DEF TakeFirst, Go
  <2>2. TInv'
    <3>1. queue[1] \in Buffers
      BY <1>5 DEF TInv
    <3>. QED BY <1>1, <2>1, <3>1 DEF TInv, Places
  <2>3. RunInv'
    BY <1>1, <1>2, <2>1 DEF TInv, RunInv, InKernel
  <2>4. SortInv'
    BY <1>1, <2>1 DEF TInv, SortInv, InAdd
  <2>5. LockInv'
    <3>1. \A u \in Tasks : Seeks(u)' <=> Seeks(u)
      BY <1>1, <2>1, Zenon DEF TInv, Seeks
    <3>. QED BY <3>1, <1>1 DEF LockInv
  <2>6. ListInv'
    <3>1. \A u \in Tasks : Adding(u)' <=> Adding(u)
      BY <1>1, <2>1 DEF TInv, Adding
    <3>. QED BY <1>1, <2>1, <3>1, Zenon DEF ListInv, OneEach
  <2>7. LinkInv'
    BY <1>5, <2>1 DEF LinkInv
  <2>8. SlotInv' /\ DevInv' /\ Waves(queue)'
    BY <1>1, <2>1 DEF SlotInv, DevInv, Waves
  <2>. QED BY <2>2, <2>3, <2>4, <2>5, <2>6, <2>7, <2>8, ZenonT(60)
<1>. QED BY <1>4, <1>5

(* The insertion: the list gains the request, or stays empty when the      *)
(* completion of its last one has been missed.                             *)
LEMMA LinkStep ==
    ASSUME Counting, IInv, NEW t \in Tasks, Link(t)
    PROVE  IInv'
<1>. USE NoTaskIsNone DEF IInv
<1>1. /\ at[t] = "link" /\ at' = [at EXCEPT ![t] = "start"] /\ current' = t
      /\ tmp' = NoBuf
      /\ UNCHANGED <<buf, awake, link, b_lock, b_wait, wait_for_request,
                     request, nsector, sorting, do_hd, busy, missed>>
  BY DEF Link, Go, bufVars
<1>2. current = t /\ \A u \in Tasks \ {t} : at[u] \notin InKernel
  BY <1>1, Alone, SMTT(30) DEF InKernel
<1>3. /\ buf[t] \in Buffers /\ Adding(t) /\ buf[t] \in request
      /\ \A i \in 1..Len(queue) : queue[i] # buf[t]
  BY <1>1 DEF RunInv, ListInv, Adding
<1>0. \A u \in Tasks : at'[u] = IF u = t THEN "start" ELSE at[u]
  BY <1>1, Zenon DEF TInv
<1>4. /\ \A u \in Tasks : ~Adding(u)'
      /\ \A u \in Tasks : Adding(u) => u = t
      /\ \A u \in Tasks : at'[u] # "link"
  BY <1>0, <1>2, Zenon DEF Adding, InKernel
<1>5. RunInv'
  BY <1>1, <1>2 DEF TInv, RunInv, InKernel
<1>6. SortInv'
  <2>1. InAdd(t) /\ InAdd(t)'
    BY <1>0, <1>1, ZenonT(60) DEF InAdd
  <2>. QED BY <1>1, <2>1, Zenon DEF SortInv
<1>7. LockInv'
  <2>1. ASSUME NEW u \in Tasks PROVE Seeks(u)' <=> Seeks(u)
    <3>1. CASE u = t
      <4>1. at[u] = "link" /\ at'[u] = "start"
        BY <1>0, <1>1, <3>1, Zenon
      <4>. QED BY ONLY <4>1 DEF Seeks
    <3>2. CASE u # t
      BY <1>0, <3>2, Zenon DEF Seeks
    <3>. QED BY <3>1, <3>2, Zenon
  <2>. QED BY <2>1, <1>1 DEF LockInv
<1>8. LinkInv' /\ SlotInv'
  BY <1>1, <1>4 DEF LinkInv, SlotInv
<1>9. sorting
  BY <1>1 DEF SortInv, InAdd
<1>10. CASE queue = <<>>
  <2>1. queue' = queue
    BY <1>10 DEF Link
  <2>2. TInv'
    BY <1>1, <2>1 DEF TInv, Places
  <2>3. "link" \in missed
    BY <1>1, <1>10, ZenonT(30) DEF LinkInv
  <2>4. ListInv'
    BY <1>1, <1>4, <2>1, <2>3, ZenonT(60) DEF ListInv, OneEach
  <2>5. DevInv' /\ Waves(queue)'
    BY <1>1, <2>1 DEF DevInv, Waves
  <2>. QED BY <1>5, <1>6, <1>7, <1>8, <2>2, <2>4, <2>5, Zenon
<1>11. CASE queue # <<>>
  <2>. DEFINE i == IF queue[1] = tmp /\ Len(queue) > 1 THEN 2 ELSE 1
              b == buf[t]
  <2>1. queue' = Sorted(queue, i, b)
    BY <1>11 DEF Link
  <2>2. queue \in Seq(Buffers) /\ i \in 1..Len(queue) /\ i <= 2 /\ b \in Buffers
    BY <1>3, <1>11 DEF TInv
  <2>3. OneEach(queue) /\ \A k \in 1..Len(queue) : queue[k] # b
    BY <1>3, Zenon DEF ListInv
  <2>. HIDE DEF i, b
  <2>4. queue' \in Seq(Buffers) /\ Len(queue') = Len(queue) + 1
    BY <2>1, <2>2, Inserted, Zenon
  <2>5. Waves(queue)'
    <3>. Buffers \subseteq Nat
      BY HardDiskAssumption
    <3>1. Waves(Sorted(queue, i, b))
      BY <2>2, <2>3, InsertedInOrder, Zenon
    <3>. QED BY <2>1, <3>1 DEF Waves
  <2>6. /\ OneEach(queue')
        /\ \E k \in 1..Len(queue') : queue'[k] = b
        /\ \A k \in 1..Len(queue) : \E l \in 1..Len(queue') : queue'[l] = queue[k]
        /\ \A l \in 1..Len(queue') :
             queue'[l] = b \/ \E k \in 1..Len(queue) : queue'[l] = queue[k]
    <3>1. Len(queue') = Len(queue) + 1
      BY <2>4
    <3>2. /\ OneEach(Sorted(queue, i, b))
          /\ \E k \in 1..Len(queue) + 1 : Sorted(queue, i, b)[k] = b
          /\ \A k \in 1..Len(queue) : \E l \in 1..Len(queue) + 1 :
               Sorted(queue, i, b)[l] = queue[k]
          /\ \A l \in 1..Len(queue) + 1 : Sorted(queue, i, b)[l] = b
               \/ \E k \in 1..Len(queue) : Sorted(queue, i, b)[l] = queue[k]
      BY <2>2, <2>3, InsertedOnce
    <3>. QED BY ONLY <2>1, <3>1, <3>2
  <2>7. TInv'
    BY <1>1, <2>4, Zenon DEF TInv, Places
  <2>8. ListInv'
    <3>1. \A l \in 1..Len(queue') : queue'[l] \in request
      BY <2>6, <1>3, ZenonT(60) DEF ListInv, b
    <3>2. "link" \notin missed => \A c \in request : \E l \in 1..Len(queue') : queue'[l] = c
      <4>. SUFFICES ASSUME "link" \notin missed, NEW c \in request
                    PROVE  \E l \in 1..Len(queue') : queue'[l] = c
        OBVIOUS
      <4>1. c = b \/ \E k \in 1..Len(queue) : queue[k] = c
        BY <1>4, ZenonT(60) DEF ListInv, b
      <4>. QED BY <4>1, <2>6, ZenonT(60)
    <3>3. OneEach(queue)'
      BY <2>6 DEF OneEach
    <3>. QED BY <1>1, <1>4, <3>1, <3>2, <3>3, Zenon DEF ListInv
  <2>9. DevInv'
    <3>1. queue' # <<>>
      BY <2>4, <2>2
    <3>. QED BY <1>1, <1>9, <3>1 DEF DevInv
  <2>. QED BY <1>5, <1>6, <1>7, <1>8, <2>5, <2>7, <2>8, <2>9, Zenon
<1>. QED BY <1>10, <1>11

(* The restart at the end of add_request.                                  *)
LEMMA StartStep ==
    ASSUME IInv, NEW t \in Tasks, Start(t)
    PROVE  IInv'
<1>. USE NoTaskIsNone DEF IInv
<1>1. /\ at[t] = "start" /\ at' = [at EXCEPT ![t] = "wait"] /\ current' = t
      /\ sorting' = FALSE
      /\ UNCHANGED <<buf, awake, link, tmp, b_lock, b_wait, wait_for_request,
                     request, queue, nsector, missed>>
  BY DEF Start, Go, bufVars
<1>2. current = t /\ \A u \in Tasks \ {t} : at[u] \notin InKernel
  BY <1>1, Alone DEF InKernel
<1>3. /\ do_hd' \in BOOLEAN /\ busy' \in BOOLEAN /\ (busy' <=> do_hd')
      /\ busy' <=> queue # <<>>
  <2>1. CASE do_hd
    BY <2>1 DEF Start, DevInv, TInv
  <2>2. CASE ~do_hd /\ queue = <<>>
    BY <2>2, Zenon DEF Start, do_request
  <2>3. CASE ~do_hd /\ queue # <<>>
    BY <2>3 DEF Start, do_request, hd_out, virtio_cmd
  <2>. QED BY <2>1, <2>2, <2>3, Zenon
<1>4. TInv'
  BY <1>1, <1>3, Zenon DEF TInv, Places
<1>5. RunInv'
  BY <1>1, <1>2, ZenonT(60) DEF TInv, RunInv, InKernel
<1>6. /\ \A u \in Tasks : ~InAdd(u)' /\ at'[u] # "link"
      /\ \A u \in Tasks : (Adding(u)' <=> Adding(u)) /\ (Seeks(u)' <=> Seeks(u))
  BY <1>1, <1>2 DEF TInv, InAdd, Adding, Seeks, InKernel
<1>7. SortInv' /\ LinkInv'
  BY <1>1, <1>6, Zenon DEF SortInv, LinkInv
<1>8. LockInv' /\ ListInv'
  BY <1>1, <1>6, Zenon DEF LockInv, ListInv, OneEach
<1>9. SlotInv' /\ DevInv' /\ Waves(queue)'
  BY <1>1, <1>3 DEF SlotInv, DevInv, Waves
<1>. QED BY <1>4, <1>5, <1>7, <1>8, <1>9
-----------------------------------------------------------------------------
(* The handler of a first sector.                                          *)
LEMMA FirstSectorStep ==
    ASSUME IInv, hd_interrupt, nsector = 2
    PROVE  IInv'
<1>. USE NoTaskIsNone DEF IInv
<1>1. /\ busy /\ nsector' = 1 /\ do_hd' = FALSE /\ busy' = FALSE
      /\ UNCHANGED <<b_lock, b_wait, wait_for_request, awake, request, queue, missed>>
      /\ UNCHANGED <<current, at, buf, link, tmp, sorting>>
  BY DEF hd_interrupt, FirstSector, bufVars
<1>2. TInv'
  <2>1. do_hd' \in BOOLEAN /\ busy' \in BOOLEAN
    BY <1>1, HardDiskAssumption
  <2>. QED BY <1>1, <2>1 DEF TInv
<1>3. \A t \in Tasks : UNCHANGED <<InAdd(t), Adding(t), Seeks(t)>>
  BY <1>1 DEF InAdd, Adding, Seeks
<1>4. RunInv' /\ SortInv'
  BY <1>1, <1>3, Zenon DEF RunInv, SortInv
<1>7. LockInv' /\ SlotInv'
  BY <1>1, <1>3, Zenon DEF LockInv, SlotInv
<1>5. ListInv' /\ Waves(queue)'
  BY <1>1, <1>3 DEF ListInv, OneEach, Waves
<1>6. LinkInv' /\ DevInv'
  BY <1>1 DEF LinkInv, DevInv
<1>. QED BY <1>2, <1>4, <1>5, <1>6, <1>7

(* The handler that ends a request, wherever it interrupts the kernel.     *)
LEMMA EndStep ==
    ASSUME Counting, IInv, hd_interrupt, nsector # 2
    PROVE  IInv'
<1>. USE NoTaskIsNone DEF IInv
<1>. DEFINE b == queue[1]
            q == Tail(queue)
<1>1. /\ busy /\ EndRequest(b)
      /\ UNCHANGED <<current, at, buf, link, tmp, sorting>>
  BY DEF hd_interrupt
<1>2. queue # <<>> /\ queue \in Seq(Buffers) /\ OneEach(queue) /\ Waves(queue)
  BY <1>1 DEF DevInv, TInv, ListInv
<1>3. /\ q \in Seq(Buffers) /\ Len(q) = Len(queue) - 1
      /\ Len(queue) \in Nat /\ Len(queue) >= 1
      /\ \A k \in 1..Len(queue) - 1 : q[k] = queue[k + 1]
      /\ OneEach(q) /\ Waves(q)
  BY <1>2, Removed
<1>4. b \in Buffers /\ b \in request /\ 1 \in 1..Len(queue)
  <2>1. 1 \in 1..Len(queue)
    BY ONLY <1>3
  <2>2. b \in Buffers
    BY ONLY <1>2, <2>1, SMTT(30)
  <2>. QED BY <2>1, <2>2, Zenon DEF ListInv
<1>5. /\ b_lock' = [b_lock EXCEPT ![b] = FALSE]
      /\ awake' = [u \in Tasks |-> awake[u] \/ u \in {wait_for_request, b_wait[b]}]
      /\ wait_for_request' = NoTask
      /\ b_wait' = [b_wait EXCEPT ![b] = NoTask]
      /\ request' = request \ {b} /\ queue' = q /\ nsector' = 2
  BY <1>1 DEF EndRequest, unlock_buffer
<1>6. /\ do_hd' \in BOOLEAN /\ busy' \in BOOLEAN /\ (busy' <=> do_hd')
      /\ busy' <=> ~sorting /\ q # <<>>
  <2>1. do_request(q, sorting)
    BY <1>1 DEF EndRequest
  <2>2. CASE sorting \/ q = <<>>
    BY <2>1, <2>2, Zenon DEF do_request
  <2>3. CASE ~(sorting \/ q = <<>>)
    BY <2>1, <2>3 DEF do_request, hd_out, virtio_cmd
  <2>. QED BY <2>2, <2>3, ZenonT(60)
<1>7. missed \subseteq missed' /\ missed' \subseteq {"link", "full", "again"}
  BY <1>1, Zenon DEF EndRequest, TInv
<1>8. \A k \in 1..Len(q) : k + 1 \in 1..Len(queue) /\ q[k] = queue[k + 1] /\ q[k] # b
  <2>. TAKE k \in 1..Len(q)
  <2>1. k + 1 \in 1..Len(queue) /\ q[k] = queue[k + 1] /\ k + 1 # 1
    <3>1. k \in 1..Len(queue) - 1 /\ k + 1 \in 1..Len(queue) /\ k + 1 # 1
      BY ONLY <1>3, k \in 1..Len(q), SMTT(30)
    <3>. QED BY <1>3, <3>1, Zenon
  <2>. QED BY <2>1, <1>2, <1>4 DEF OneEach
<1>. HIDE DEF b, q
<1>9. TInv'
  BY <1>1, <1>3, <1>4, <1>5, <1>6, <1>7, SMTT(30) DEF TInv
<1>10. \A t \in Tasks : UNCHANGED <<InAdd(t), Adding(t), Seeks(t)>>
  BY <1>1, Zenon DEF InAdd, Adding, Seeks
<1>11. RunInv' /\ SortInv'
  BY <1>1, <1>10, ZenonT(60) DEF RunInv, SortInv
<1>12. LockInv'
  <2>1. \A t \in Tasks : Seeks(t) => buf[t] # b /\ buf[t] \in Buffers
    BY <1>4, Zenon DEF LockInv, RunInv, Seeks
  <2>2. \A c \in Buffers : b_lock'[c] = IF c = b THEN FALSE ELSE b_lock[c]
    BY <1>5 DEF TInv
  <2>. QED BY <1>1, <1>4, <1>5, <1>10, <2>1, <2>2, SMTT(30) DEF LockInv, TInv
<1>13. SlotInv'
  <2>1. IsFiniteSet(request \ {b}) /\ Cardinality(request \ {b}) = Cardinality(request) - 1
    BY <1>4, Zenon DEF SlotInv, Counting
  <2>2. Cardinality(request) \in Nat /\ NR_REQUEST \in Nat
    BY HardDiskAssumption, SMTT(30) DEF SlotInv, Counting
  <2>. QED BY <1>5, <2>1, <2>2 DEF SlotInv
<1>14. ListInv'
  <2>1. OneEach(queue)' /\ \A k \in 1..Len(q) : q[k] \in request'
    <3>1. OneEach(queue)'
      BY <1>3, <1>5, Zenon DEF OneEach
    <3>2. \A k \in 1..Len(q) : q[k] \in request
      BY <1>8, Zenon DEF ListInv
    <3>. QED BY <1>5, <1>8, <3>1, <3>2, Zenon
  <2>2. ASSUME NEW t \in Tasks, Adding(t)
        PROVE  buf[t] \in request' /\ \A k \in 1..Len(q) : q[k] # buf[t]
    <3>1. buf[t] \in request /\ \A k \in 1..Len(queue) : queue[k] # buf[t]
      BY <2>2, Zenon DEF ListInv
    <3>. QED BY <1>4, <1>5, <1>8, <3>1, Zenon DEF b
  <2>3. ASSUME "link" \notin missed', NEW c \in request'
        PROVE  (\E k \in 1..Len(q) : q[k] = c) \/ \E t \in Tasks : Adding(t) /\ buf[t] = c
    <3>1. c \in request /\ c # b /\ "link" \notin missed
      BY <1>5, <1>7, <2>3, Zenon
    <3>2. CASE \E t \in Tasks : Adding(t) /\ buf[t] = c
      BY <3>2
    <3>3. CASE \E k \in 1..Len(queue) : queue[k] = c
      <4>1. PICK k \in 1..Len(queue) : queue[k] = c
        BY <3>3
      <4>2. k # 1
        BY <3>1, <4>1 DEF b
      <4>3. k - 1 \in 1..Len(q) /\ (k - 1) + 1 = k
        BY <4>2, <1>3
      <4>4. q[k - 1] = c
        BY <1>8, <4>1, <4>3
      <4>. QED BY <4>3, <4>4
    <3>. QED BY <3>1, <3>2, <3>3, Zenon DEF ListInv
  <2>4. "link" \notin missed' => \A c \in request' :
          (\E k \in 1..Len(q) : q[k] = c) \/ \E t \in Tasks : Adding(t) /\ buf[t] = c
    BY <2>3, Zenon
  <2>5. \A t \in Tasks : (Adding(t)' <=> Adding(t)) /\ buf'[t] = buf[t]
    BY <1>1, <1>10, Zenon
  <2>6. queue' = q
    BY <1>5
  <2>. QED BY <2>1, <2>2, <2>4, <2>5, <2>6, ZenonT(60) DEF ListInv
<1>15. LinkInv'
  <2>. SUFFICES ASSUME NEW t \in Tasks, at[t] = "link", "link" \notin missed'
                PROVE  q # <<>> /\ ~busy'
    BY <1>1, <1>5 DEF LinkInv
  <2>1. sorting /\ current = t /\ current # NoTask
    BY DEF SortInv, InAdd, RunInv, InKernel
  <2>2. queue[1] = tmp
    BY <1>1, <1>7 DEF LinkInv
  <2>3. queue # <<tmp>>
    <3>1. ~(at[current] = "link" /\ queue = <<tmp>>)
      BY <1>1, <2>1 DEF EndRequest
    <3>. QED BY <3>1, <2>1, Zenon
  <2>4. q # <<>>
    <3>. SUFFICES ASSUME q = <<>> PROVE FALSE
      OBVIOUS
    <3>1. Len(queue) = 1
      BY <1>3
    <3>2. queue = <<tmp>>
      BY <1>2, <2>2, <3>1, SMTT(30)
    <3>. QED BY <3>2, <2>3
  <2>. QED BY <1>6, <2>1, <2>4, ZenonT(60)
<1>16. DevInv'
  BY <1>1, <1>5, <1>6 DEF DevInv
<1>17. Waves(queue)'
  BY <1>3, <1>5, ZenonT(60) DEF Waves
<1>. QED BY <1>9, <1>11, <1>12, <1>13, <1>14, <1>15, <1>16, <1>17, Zenon
-----------------------------------------------------------------------------
LEMMA Next_IInv ==
    ASSUME Counting, IInv, [Next]_vars
    PROVE  IInv'
<1>1. CASE hd_interrupt
  BY <1>1, FirstSectorStep, EndStep
<1>2. ASSUME NEW t \in Tasks, Call(t) PROVE IInv'
  <2>1. PICK b \in Uses[t] : rw_hd(t, b) \/ wait_on_buffer(t, b)
    BY <1>2 DEF Call
  <2>2. b \in Buffers
    BY HardDiskAssumption, ZenonT(60)
  <2>. QED BY <2>1, <2>2, CallStep, WaitStep, ZenonT(60)
<1>3. ASSUME NEW t \in Tasks, KernelStep(t) PROVE IInv'
  <2>1. CASE Scan(t) \/ SleepForSlot(t) \/ SlotWakes(t)
    BY <2>1, ScanStep, SleepForSlotStep, SlotWakesStep
  <2>2. CASE TakeFirst(t) \/ Link(t) \/ Start(t)
    BY <2>2, TakeFirstStep, LinkStep, StartStep, Zenon
  <2>3. CASE at[t] = "wait" /\ wait_on_buffer(t, buf[t])
    <3>1. buf[t] \in Buffers
      BY <2>3 DEF IInv, RunInv
    <3>. QED BY <2>3, <3>1, WaitStep, Zenon
  <2>4. CASE BufferWakes(t) \/ SleepAgain(t)
    BY <2>4, BufferWakesStep, SleepAgainStep
  <2>. QED BY <1>3, <2>1, <2>2, <2>3, <2>4, Zenon DEF KernelStep
<1>4. CASE UNCHANGED vars
  <2>1. UNCHANGED <<current, at, buf, awake, link, tmp, request, queue, nsector,
                    sorting, do_hd, busy, missed, b_lock, b_wait, wait_for_request>>
    BY <1>4, SMTT(30) DEF vars, taskVars, diskVars, bufVars
  <2>2. \A t \in Tasks : UNCHANGED <<InAdd(t), Adding(t), Seeks(t)>>
    BY <2>1, SMTT(30) DEF InAdd, Adding, Seeks
  <2>3. TInv'
    BY <2>1 DEF IInv, TInv
  <2>4. RunInv' /\ SortInv'
    BY <2>1, <2>2, ZenonT(30) DEF IInv, RunInv, SortInv
  <2>5. LockInv' /\ SlotInv'
    BY <2>1, <2>2, Zenon DEF IInv, LockInv, SlotInv
  <2>6. ListInv' /\ Waves(queue)'
    <3>1. ListInv'
      BY <2>1, <2>2, ZenonT(60) DEF IInv, ListInv, OneEach
    <3>. QED BY <2>1, <3>1, Zenon DEF IInv, Waves
  <2>7. LinkInv' /\ DevInv'
    BY <2>1 DEF IInv, LinkInv, DevInv
  <2>. QED BY <2>3, <2>4, <2>5, <2>6, <2>7, Zenon DEF IInv
<1>. QED BY <1>1, <1>2, <1>3, <1>4 DEF Next

-----------------------------------------------------------------------------
-----------------------------------------------------------------------------
(* The queues as the variables give them.                                  *)
queueOf ==
    [t \in Tasks |-> IF at[t] = "reqsleep" THEN NoBuf
                     ELSE IF at[t] = "bufsleep" THEN buf[t] ELSE Nowhere]
heads == [c \in Chans |-> IF c = NoBuf THEN wait_for_request ELSE b_wait[c]]

(* What the heads wait for is still to come, and so for the tasks about to  *)
(* sleep, unless a completion has hit the window.                           *)
WaitInv ==
    /\ \A b \in Buffers : b_wait[b] # NoTask => b_lock[b] \/ "again" \in missed
    /\ \A t \in Tasks : at[t] = "again" => b_lock[buf[t]] \/ "again" \in missed
    /\ wait_for_request # NoTask => queue # <<>> \/ missed # {}
    /\ \A t \in Tasks : at[t] = "full" => queue # <<>> \/ missed # {}

SInv == Shape(queueOf, heads, link, awake) /\ WaitInv

(* The heads, read off the variables.                                      *)
LEMMA QueueTypes ==
    /\ DOMAIN queueOf = Tasks /\ DOMAIN heads = Chans
    /\ heads[NoBuf] = wait_for_request /\ \A b \in Buffers : heads[b] = b_wait[b]
BY ChanFacts DEF queueOf, heads, Chans

(* Nobody sleeps at the start.                                             *)
LEMMA Init_SInv ==
    ASSUME Init
    PROVE  SInv
<1>1. /\ \A t \in Tasks : awake[t] /\ link[t] = NoTask
      /\ \A c \in Chans : heads[c] = NoTask
  BY DEF Init, heads, Chans
<1>2. Ranked(link)
  <2>1. [t \in Tasks |-> 0] \in [Tasks -> Nat]
    OBVIOUS
  <2>. QED BY <1>1, <2>1, Zenon DEF Ranked
<1>3. Shape(queueOf, heads, link, awake)
  BY <1>1, <1>2, Zenon DEF Shape, Heads, Linked, Apart, Covered
<1>4. WaitInv
  BY DEF Init, WaitInv
<1>. QED BY <1>3, <1>4 DEF SInv

(* A step that neither sleeps nor wakes anybody.                            *)
LEMMA AwakeStep ==
    ASSUME TInv, SInv, NEW t \in Tasks, NEW p \in Places,
           at[t] \notin {"reqsleep", "bufsleep"}, p \notin {"reqsleep", "bufsleep"},
           at' = [at EXCEPT ![t] = p], \A u \in Tasks \ {t} : buf'[u] = buf[u],
           UNCHANGED <<awake, link, b_wait, wait_for_request>>
    PROVE  Shape(queueOf', heads', link', awake')
<1>1. queueOf' = queueOf
  <2>1. \A u \in Tasks : queueOf'[u] = queueOf[u]
    <3>. SUFFICES ASSUME NEW u \in Tasks PROVE queueOf'[u] = queueOf[u]
      BY Zenon
    <3>1. CASE u = t
      BY <3>1, Zenon DEF queueOf, TInv
    <3>2. CASE u # t
      BY <3>2, Zenon DEF queueOf, TInv
    <3>. QED BY <3>1, <3>2, Zenon
  <2>. QED BY <2>1, Zenon DEF queueOf
<1>2. heads' = heads
  BY Zenon DEF heads
<1>3. link' = link /\ awake' = awake /\ Shape(queueOf, heads, link, awake)
  BY DEF SInv
<1>. QED BY <1>1, <1>2, <1>3, Zenon

(* sleep_on, with c the queue.                                              *)
LEMMA SleepStep ==
    ASSUME TInv, SInv, NEW t \in Tasks, NEW c \in Chans, awake[t],
           at[t] \notin {"reqsleep", "bufsleep"},
           SleepOn(t, heads[c], IF c = NoBuf THEN "reqsleep" ELSE "bufsleep"),
           c # NoBuf => buf'[t] = c, \A u \in Tasks \ {t} : buf'[u] = buf[u],
           heads' = [heads EXCEPT ![c] = t]
    PROVE  Shape(queueOf', heads', link', awake')
<1>. DEFINE p == IF c = NoBuf THEN "reqsleep" ELSE "bufsleep"
<1>1. /\ at' = [at EXCEPT ![t] = p]
      /\ link' = [link EXCEPT ![t] = heads[c]] /\ awake' = [awake EXCEPT ![t] = FALSE]
  BY Zenon DEF SleepOn
<1>2. at \in [Tasks -> Places] /\ link \in [Tasks -> Tasks \union {NoTask}] /\ awake \in [Tasks -> BOOLEAN]
  BY Zenon DEF TInv
<1>3. queueOf[t] \notin Chans
  BY ChanFacts DEF queueOf
<1>4. queueOf' = [queueOf EXCEPT ![t] = c]
  <2>1. \A u \in Tasks : queueOf'[u] = [queueOf EXCEPT ![t] = c][u]
    <3>. SUFFICES ASSUME NEW u \in Tasks PROVE queueOf'[u] = [queueOf EXCEPT ![t] = c][u]
      BY Zenon
    <3>1. CASE u = t
      BY <1>1, <1>2, <3>1, ZenonT(60) DEF queueOf
    <3>2. CASE u # t
      BY <1>1, <1>2, <3>2 DEF queueOf
    <3>. QED BY <3>1, <3>2, Zenon
  <2>. QED BY <2>1, Zenon DEF queueOf
<1>5. Shape([queueOf EXCEPT ![t] = c], [heads EXCEPT ![c] = t], [link EXCEPT ![t] = heads[c]],
            [awake EXCEPT ![t] = FALSE])
  BY <1>2, <1>3, QueueTypes, ShapeSleep, Zenon DEF SInv
<1>. QED BY <1>1, <1>4, <1>5, Zenon

(* The end of sleep_on.                                                     *)
LEMMA WakesStep ==
    ASSUME TInv, SInv, NEW t \in Tasks, NEW p \in Places, awake[t], WakeNext(t),
           p \notin {"reqsleep", "bufsleep"},
           at' = [at EXCEPT ![t] = p], \A u \in Tasks \ {t} : buf'[u] = buf[u],
           UNCHANGED <<b_wait, wait_for_request>>
    PROVE  Shape(queueOf', heads', link', awake')
<1>1. at \in [Tasks -> Places] /\ link \in [Tasks -> Tasks \union {NoTask}] /\ awake \in [Tasks -> BOOLEAN]
  BY DEF TInv
<1>2. queueOf' = [queueOf EXCEPT ![t] = Nowhere]
  <2>1. \A u \in Tasks : queueOf'[u] = [queueOf EXCEPT ![t] = Nowhere][u]
    <3>. SUFFICES ASSUME NEW u \in Tasks PROVE queueOf'[u] = [queueOf EXCEPT ![t] = Nowhere][u]
      BY Zenon
    <3>1. CASE u = t
      BY <1>1, <3>1, Zenon DEF queueOf
    <3>2. CASE u # t
      BY <1>1, <3>2, Zenon DEF queueOf
    <3>. QED BY <3>1, <3>2, Zenon
  <2>. QED BY <2>1, Zenon DEF queueOf
<1>3. heads' = heads
  BY DEF heads
<1>4. Shape([queueOf EXCEPT ![t] = Nowhere], heads, [link EXCEPT ![t] = NoTask],
            Woken(awake, link[t]))
  BY <1>1, QueueTypes, ShapeLeave, Zenon DEF SInv
<1>5. link' = [link EXCEPT ![t] = NoTask] /\ awake' = Woken(awake, link[t])
  BY ZenonT(60) DEF WakeNext, Woken
<1>. QED BY <1>2, <1>3, <1>4, <1>5, Zenon

(* Any step of a task: the buffers stay locked and the list does not become *)
(* empty.                                                                   *)
Goes(t, p) ==
    /\ at' = [at EXCEPT ![t] = p]
    /\ \A u \in Tasks \ {t} : buf'[u] = buf[u]
    /\ p = "again" => buf'[t] \in Buffers /\ (b_lock[buf'[t]] \/ "again" \in missed)
    /\ p = "full" => queue # <<>> \/ missed # {}
    /\ missed' = missed
    /\ queue # <<>> => queue' # <<>>
    /\ \A b \in Buffers : b_lock[b] => b_lock'[b]
    /\ \A b \in Buffers :
         b_wait'[b] # NoTask => b_wait[b] # NoTask \/ b_lock[b] \/ "again" \in missed
    /\ wait_for_request' # NoTask => wait_for_request # NoTask \/ queue # <<>> \/ missed # {}

(* The types of the variables the sleepers are about.                      *)
LEMMA Here ==
    ASSUME IInv
    PROVE  /\ TInv /\ \A u \in Tasks : at[u] = "again" => buf[u] \in Buffers
           /\ buf \in [Tasks -> Buffers \union {NoBuf}] /\ at \in [Tasks -> Places]
           /\ b_lock \in [Buffers -> BOOLEAN] /\ b_wait \in [Buffers -> Tasks \union {NoTask}]
BY DEF IInv, TInv, RunInv

(* What the heads wait for stays to come through such a step.              *)
LEMMA WaitGoes ==
    ASSUME IInv, SInv, NEW t \in Tasks, NEW p, Goes(t, p)
    PROVE  WaitInv'
<1>0. WaitInv /\ \A u \in Tasks : at[u] = "again" => buf[u] \in Buffers
  BY Here, Zenon DEF SInv
<1>1. at \in [Tasks -> Places] /\ at'[t] = p /\ \A u \in Tasks \ {t} : at'[u] = at[u]
  BY Here, Zenon DEF Goes
<1>2. ASSUME NEW b \in Buffers, b_wait'[b] # NoTask PROVE b_lock'[b] \/ "again" \in missed'
  BY <1>0, <1>2, Zenon DEF Goes, WaitInv
<1>3. ASSUME NEW u \in Tasks, at'[u] = "again" PROVE b_lock'[buf'[u]] \/ "again" \in missed'
  <2>1. CASE u = t
    BY <1>1, <1>3, <2>1, Zenon DEF Goes
  <2>2. CASE u # t
    BY <1>0, <1>1, <1>3, <2>2, Zenon DEF Goes, WaitInv
  <2>. QED BY <2>1, <2>2, Zenon
<1>4. ASSUME NEW u \in Tasks, at'[u] = "full" PROVE queue' # <<>> \/ missed' # {}
  BY <1>0, <1>1, <1>4, Zenon DEF Goes, WaitInv
<1>5. wait_for_request' # NoTask => queue' # <<>> \/ missed' # {}
  BY <1>0, Zenon DEF Goes, WaitInv
<1>. QED BY <1>2, <1>3, <1>4, <1>5, Zenon DEF WaitInv

(* The steps that do not call sleep_on.                                     *)
LEMMA QuietStep ==
    ASSUME IInv, SInv, NEW t \in Tasks, NEW p \in Places,
           at[t] \notin {"reqsleep", "bufsleep"}, p \notin {"reqsleep", "bufsleep", "again"},
           at' = [at EXCEPT ![t] = p], \A u \in Tasks \ {t} : buf'[u] = buf[u],
           p = "full" => queue # <<>> \/ missed # {},
           UNCHANGED <<awake, link, b_wait, wait_for_request, missed>>,
           queue # <<>> => queue' # <<>>,
           \A b \in Buffers : b_lock[b] => b_lock'[b]
    PROVE  SInv'
<1>1. Shape(queueOf', heads', link', awake')
  BY Here, AwakeStep, ZenonT(60)
<1>2. WaitInv'
  <2>1. Goes(t, p)
    BY Zenon DEF Goes
  <2>. QED BY <2>1, WaitGoes, ZenonT(60)
<1>. QED BY <1>1, <1>2, Zenon DEF SInv

(* rw_hd locks a buffer.                                                   *)
LEMMA CallSleep ==
    ASSUME IInv, SInv, NEW t \in Tasks, NEW b \in Buffers, rw_hd(t, b)
    PROVE  SInv'
<1>1. CASE NR_HD = 0 \/ 2 * b + 2 > nr_sects
  <2>1. UNCHANGED <<at, buf, awake, link, b_lock, b_wait, wait_for_request, queue, missed>>
    BY <1>1 DEF rw_hd, taskVars, diskVars
  <2>. QED BY <2>1, Zenon DEF SInv, WaitInv, queueOf, heads
<1>2. CASE ~(NR_HD = 0 \/ 2 * b + 2 > nr_sects)
  <2>1. /\ at[t] = "user" /\ at' = [at EXCEPT ![t] = "scan"]
        /\ buf' = [buf EXCEPT ![t] = b] /\ b_lock' = [b_lock EXCEPT ![b] = TRUE]
        /\ UNCHANGED <<awake, link, b_wait, wait_for_request, missed, queue>>
    BY <1>2, Zenon DEF rw_hd, taskVars, diskVars, Go, lock_buffer
  <2>2. /\ \A u \in Tasks \ {t} : buf'[u] = buf[u]
        /\ \A c \in Buffers : b_lock[c] => b_lock'[c]
    BY <2>1, Here
  <2>3. "scan" \in Places
    BY DEF Places
  <2>. QED BY <2>1, <2>2, <2>3, QuietStep, Zenon
<1>. QED BY <1>1, <1>2, Zenon

(* The scan of rw_abs_hd: without a free slot there is a request in the    *)
(* list, or one was lost.                                                  *)
LEMMA ScanSleep ==
    ASSUME Counting, IInv, SInv, NEW t \in Tasks, Scan(t)
    PROVE  SInv'
<1>1. /\ at[t] = "scan" /\ UNCHANGED <<buf, b_lock, awake, link, b_wait, wait_for_request, missed, queue>>
  BY Zenon DEF Scan, bufVars
<1>2. CASE Cardinality(request) < NR_REQUEST
  <2>1. at' = [at EXCEPT ![t] = "sort"] /\ "sort" \in Places
    BY <1>2 DEF Scan, Go, Places
  <2>. QED BY <1>1, <2>1, QuietStep, Zenon
<1>3. CASE ~(Cardinality(request) < NR_REQUEST)
  <2>1. at' = [at EXCEPT ![t] = "full"] /\ "full" \in Places
    BY <1>3 DEF Scan, Go, Places
  <2>2. Cardinality(request) # 0
    BY <1>3, HardDiskAssumption
  <2>3. request # {}
    BY <2>2, Zenon DEF Counting
  <2>4. \A u \in Tasks : ~Adding(u)
    BY <1>1, Alone DEF InKernel, Adding
  <2>5. ASSUME missed = {} PROVE queue # <<>>
    <3>1. PICK i \in 1..Len(queue) : TRUE
      BY <2>3, <2>4, <2>5 DEF IInv, ListInv
    <3>. QED BY ONLY <3>1, SMTT(30)
  <2>. QED BY <1>1, <2>1, <2>5, QuietStep, Zenon
<1>. QED BY <1>2, <1>3, Zenon

(* add_request never empties the list.                                     *)
LEMMA ListSleep ==
    ASSUME IInv, SInv, NEW t \in Tasks, TakeFirst(t) \/ Link(t) \/ Start(t)
    PROVE  SInv'
<1>1. /\ at[t] \in {"sort", "link", "start"}
      /\ UNCHANGED <<buf, b_lock, awake, link, b_wait, wait_for_request, missed>>
  BY Zenon DEF TakeFirst, Link, Start, bufVars
<1>2. queue \in Seq(Buffers) /\ buf[t] \in Buffers
  BY <1>1 DEF IInv, TInv, RunInv
<1>3. ASSUME NEW q \in Seq(Buffers), NEW i \in 1..Len(q), NEW b \in Buffers
      PROVE  Sorted(q, i, b) # <<>>
  <2>1. DOMAIN Sorted(q, i, b) = 1..Len(q) + 1
    BY DEF Sorted
  <2>2. 1 \in DOMAIN Sorted(q, i, b)
    BY <2>1
  <2>. QED BY <2>2
<1>4. PICK p \in {"start", "link", "wait"} : at' = [at EXCEPT ![t] = p]
  BY Zenon DEF TakeFirst, Link, Start, Go
<1>5. p \in Places
  BY DEF Places
<1>6. queue # <<>> => queue' # <<>>
  <2>1. CASE TakeFirst(t) \/ Start(t)
    BY <2>1, ZenonT(30) DEF TakeFirst, Start
  <2>2. CASE Link(t) /\ queue # <<>>
    <3>1. 1 \in 1..Len(queue)
      BY <1>2, <2>2
    <3>2. queue[1] = tmp /\ Len(queue) > 1 => 2 \in 1..Len(queue)
      BY <1>2
    <3>. QED BY <1>2, <1>3, <2>2, <3>1, <3>2, Zenon DEF Link
  <2>. QED BY <2>1, <2>2
<1>. QED BY <1>1, <1>4, <1>5, <1>6, QuietStep, Zenon

(* The wait for a slot.                                                    *)
LEMMA SlotSleep ==
    ASSUME IInv, SInv, NEW t \in Tasks, SleepForSlot(t) \/ SlotWakes(t)
    PROVE  SInv'
<1>1. CASE SleepForSlot(t)
  <2>1. /\ at[t] = "full" /\ awake[t] /\ SleepOn(t, heads[NoBuf], "reqsleep")
        /\ wait_for_request' = t /\ UNCHANGED <<buf, b_lock, b_wait, queue, missed>>
    BY <1>1, QueueTypes, Zenon DEF SleepForSlot, Runs, diskVars
  <2>2. heads' = [heads EXCEPT ![NoBuf] = t]
    BY <2>1, ChanFacts, Zenon DEF heads
  <2>3. Shape(queueOf', heads', link', awake')
    BY <2>1, <2>2, Here, ChanFacts, SleepStep, ZenonT(30)
  <2>4. Goes(t, "reqsleep")
    BY <2>1, Zenon DEF Goes, SleepOn, SInv, WaitInv
  <2>. QED BY <2>3, <2>4, WaitGoes, Zenon DEF SInv
<1>2. CASE SlotWakes(t)
  <2>1. /\ awake[t] /\ WakeNext(t) /\ at' = [at EXCEPT ![t] = "scan"] /\ "scan" \in Places
        /\ UNCHANGED <<buf, b_lock, b_wait, wait_for_request, queue, missed>>
    BY <1>2 DEF SlotWakes, Runs, diskVars, bufVars, Go, Places
  <2>2. Shape(queueOf', heads', link', awake')
    BY <2>1, Here, WakesStep, ZenonT(60)
  <2>3. Goes(t, "scan")
    BY <2>1 DEF Goes
  <2>. QED BY <2>2, <2>3, WaitGoes, Zenon DEF SInv
<1>. QED BY <1>1, <1>2

(* sleep_on for a buffer that is locked, or was unlocked in the window.    *)
LEMMA SleepsOnBuffer ==
    ASSUME IInv, SInv, NEW t \in Tasks, NEW b \in Buffers, awake[t],
           at[t] \notin {"reqsleep", "bufsleep"},
           SleepOn(t, b_wait[b], "bufsleep"), b_wait' = [b_wait EXCEPT ![b] = t],
           buf'[t] = b, \A u \in Tasks \ {t} : buf'[u] = buf[u],
           b_lock[b] \/ "again" \in missed,
           UNCHANGED <<b_lock, wait_for_request, queue, missed>>
    PROVE  SInv'
<1>1. b # NoBuf /\ b \in Chans /\ heads[b] = b_wait[b]
  BY ChanFacts, QueueTypes
<1>2. heads' = [heads EXCEPT ![b] = t]
  <2>1. \A c \in Chans : heads'[c] = [heads EXCEPT ![b] = t][c]
    BY <1>1, Here, ChanFacts DEF heads, Chans
  <2>. QED BY <2>1, ZenonT(60) DEF heads
<1>3. Shape(queueOf', heads', link', awake')
  BY <1>1, <1>2, Here, SleepStep, ZenonT(60)
<1>4. Goes(t, "bufsleep")
  BY Here DEF Goes, SleepOn
<1>. QED BY <1>3, <1>4, WaitGoes, ZenonT(60) DEF SInv

(* wait_on_buffer behind cli().                                            *)
LEMMA BufferSleep ==
    ASSUME IInv, SInv, NEW t \in Tasks, NEW b \in Buffers, wait_on_buffer(t, b)
    PROVE  SInv'
<1>1. /\ awake[t] /\ at[t] \notin {"reqsleep", "bufsleep"}
      /\ UNCHANGED <<b_lock, wait_for_request, queue, missed>>
  BY Zenon DEF wait_on_buffer, Runs, diskVars
<1>2. CASE b_lock[b]
  <2>1. /\ SleepOn(t, b_wait[b], "bufsleep") /\ b_wait' = [b_wait EXCEPT ![b] = t]
        /\ buf' = [buf EXCEPT ![t] = b]
    BY <1>2, Zenon DEF wait_on_buffer
  <2>2. buf'[t] = b /\ \A u \in Tasks \ {t} : buf'[u] = buf[u]
    BY <2>1, Here
  <2>. QED BY <1>1, <1>2, <2>1, <2>2, SleepsOnBuffer, ZenonT(30)
<1>3. CASE ~b_lock[b]
  <2>1. /\ at' = [at EXCEPT ![t] = "user"] /\ buf' = [buf EXCEPT ![t] = NoBuf]
        /\ UNCHANGED <<awake, link, b_wait>> /\ "user" \in Places
    BY <1>3, Zenon DEF wait_on_buffer, Leave, Places
  <2>2. \A u \in Tasks \ {t} : buf'[u] = buf[u]
    BY <2>1, Here, Zenon
  <2>. QED BY <1>1, <2>1, <2>2, QuietStep, ZenonT(30)
<1>. QED BY <1>2, <1>3, Zenon

(* The tests of b_lock after a sleep, and the sleep they lead to.          *)
LEMMA AgainSleep ==
    ASSUME IInv, SInv, NEW t \in Tasks, BufferWakes(t) \/ SleepAgain(t)
    PROVE  SInv'
<1>1. CASE BufferWakes(t)
  <2>1. /\ awake[t] /\ WakeNext(t) /\ buf[t] \in Buffers
        /\ UNCHANGED <<b_lock, b_wait, wait_for_request, queue, missed>>
    BY <1>1, Zenon DEF BufferWakes, Runs, diskVars, bufVars, IInv, RunInv
  <2>2. CASE b_lock[buf[t]]
    <3>1. at' = [at EXCEPT ![t] = "again"] /\ buf' = buf /\ "again" \in Places
      BY <1>1, <2>2, Zenon DEF BufferWakes, Go, Places
    <3>2. Shape(queueOf', heads', link', awake')
      BY <2>1, <3>1, Here, WakesStep, Zenon
    <3>3. Goes(t, "again")
      BY <2>1, <2>2, <3>1, Zenon DEF Goes
    <3>. QED BY <3>2, <3>3, WaitGoes, ZenonT(30) DEF SInv
  <2>3. CASE ~b_lock[buf[t]]
    <3>1. at' = [at EXCEPT ![t] = "user"] /\ buf' = [buf EXCEPT ![t] = NoBuf] /\ "user" \in Places
      BY <1>1, <2>3, Zenon DEF BufferWakes, Leave, Places
    <3>2. \A u \in Tasks \ {t} : buf'[u] = buf[u]
      BY <3>1, Here
    <3>3. Shape(queueOf', heads', link', awake')
      BY <2>1, <3>1, <3>2, Here, WakesStep, Zenon
    <3>4. Goes(t, "user")
      BY <2>1, <3>1, <3>2, Zenon DEF Goes
    <3>. QED BY <3>3, <3>4, WaitGoes, Zenon DEF SInv
  <2>. QED BY <2>2, <2>3, Zenon
<1>2. CASE SleepAgain(t)
  <2>1. /\ awake[t] /\ at[t] = "again" /\ buf[t] \in Buffers
        /\ SleepOn(t, b_wait[buf[t]], "bufsleep") /\ b_wait' = [b_wait EXCEPT ![buf[t]] = t]
        /\ UNCHANGED <<buf, b_lock, wait_for_request, queue, missed>>
    BY <1>2, Here, ZenonT(60) DEF SleepAgain, Runs, diskVars
  <2>2. b_lock[buf[t]] \/ "again" \in missed
    BY <2>1 DEF SInv, WaitInv
  <2>. QED BY <2>1, <2>2, SleepsOnBuffer, Zenon
<1>. QED BY <1>1, <1>2

(* The end of a request wakes both heads.                                   *)
LEMMA EndSleep ==
    ASSUME IInv, SInv, NEW b \in Buffers, EndRequest(b), UNCHANGED <<current, at, buf, link>>
    PROVE  SInv'
<1>. DEFINE H1 == [heads EXCEPT ![NoBuf] = NoTask]
            A1 == Woken(awake, heads[NoBuf])
<1>1. /\ b_lock' = [b_lock EXCEPT ![b] = FALSE]
      /\ awake' = [u \in Tasks |-> awake[u] \/ u \in {wait_for_request, b_wait[b]}]
      /\ wait_for_request' = NoTask /\ b_wait' = [b_wait EXCEPT ![b] = NoTask]
  BY Zenon DEF EndRequest, unlock_buffer
<1>2. missed' = missed \union
         (IF current = NoTask THEN {} ELSE
            {w \in {"link", "full", "again"} :
                /\ at[current] = w
                /\ w = "link"  => queue = <<tmp>>
                /\ w = "again" => buf[current] = b})
  BY ZenonT(60) DEF EndRequest
<1>3. /\ awake \in [Tasks -> BOOLEAN] /\ b_lock \in [Buffers -> BOOLEAN]
      /\ b_wait \in [Buffers -> Tasks \union {NoTask}]
  BY DEF IInv, TInv
<1>4. Shape(queueOf', heads', link', awake')
  <2>1. Shape(queueOf, H1, link, A1)
    BY <1>3, ChanFacts, QueueTypes, ShapeWakeUp, Zenon DEF SInv
  <2>2. DOMAIN H1 = Chans /\ A1 \in [Tasks -> BOOLEAN] /\ b \in Chans /\ H1[b] = b_wait[b]
    <3>1. A1 \in [Tasks -> BOOLEAN]
      BY <1>3, Zenon DEF Woken
    <3>. QED BY <3>1, ChanFacts, QueueTypes
  <2>. HIDE DEF H1, A1
  <2>3. Shape(queueOf, [H1 EXCEPT ![b] = NoTask], link, Woken(A1, H1[b]))
    BY <2>1, <2>2, ShapeWakeUp, Zenon
  <2>4. awake' = Woken(A1, H1[b])
    <3>1. \A u \in Tasks : awake'[u] = Woken(A1, H1[b])[u]
      BY <1>1, <2>2, QueueTypes, Zenon DEF Woken, A1
    <3>. QED BY <1>1, <3>1, Zenon DEF Woken
  <2>5. heads' = [H1 EXCEPT ![b] = NoTask]
    <3>1. \A c \in Chans : heads'[c] = [H1 EXCEPT ![b] = NoTask][c]
      BY <1>1, <1>3, ChanFacts, Zenon DEF heads, H1, Chans
    <3>. QED BY <2>2, <3>1, Zenon DEF heads
  <2>6. queueOf' = queueOf
    BY DEF queueOf
  <2>. QED BY <2>3, <2>4, <2>5, <2>6, Zenon
<1>5. WaitInv'
  <2>0. WaitInv /\ missed \subseteq missed'
    BY <1>2, Zenon DEF SInv
  <2>1. ASSUME NEW c \in Buffers, b_wait'[c] # NoTask PROVE b_lock'[c] \/ "again" \in missed'
    BY <1>1, <1>3, <2>0, <2>1, Zenon DEF WaitInv
  <2>2. \A t \in Tasks : at[t] \in {"again", "full"} => current = t /\ current # NoTask
    BY NoTaskIsNone, Zenon DEF IInv, RunInv, InKernel
  <2>3. ASSUME NEW t \in Tasks, at'[t] = "again" PROVE b_lock'[buf'[t]] \/ "again" \in missed'
    <3>1. CASE buf[t] = b
      <4>1. current = t /\ current # NoTask /\ at[current] = "again" /\ buf[current] = b
        BY <2>2, <2>3, <3>1
      <4>2. "again" \in missed'
        BY <1>2, <4>1, Zenon
      <4>. QED BY <4>2, Zenon
    <3>2. CASE buf[t] # b
      <4>1. buf[t] \in Buffers /\ buf' = buf /\ at[t] = "again"
        BY <2>3, Here
      <4>. QED BY <1>1, <1>3, <2>0, <3>2, <4>1, Zenon DEF WaitInv
    <3>. QED BY <3>1, <3>2, Zenon
  <2>4. ASSUME NEW t \in Tasks, at'[t] = "full" PROVE missed' # {}
    <3>1. current = t /\ current # NoTask /\ at[current] = "full"
      BY <2>2, <2>4, ZenonT(60)
    <3>2. "full" \in missed'
      BY <1>2, <3>1
    <3>. QED BY <3>2
  <2>. QED BY <1>1, <2>1, <2>3, <2>4, Zenon DEF WaitInv
<1>. QED BY <1>4, <1>5, ZenonT(30) DEF SInv

(* hd_interrupt.                                                           *)
LEMMA InterruptSleep ==
    ASSUME IInv, SInv, hd_interrupt
    PROVE  SInv'
<1>1. CASE nsector = 2
  <2>1. UNCHANGED <<at, buf, awake, link, b_lock, b_wait, wait_for_request, queue, missed>>
    BY <1>1 DEF hd_interrupt, FirstSector, bufVars
  <2>. QED BY <2>1, Zenon DEF SInv, WaitInv, queueOf, heads
<1>2. CASE nsector # 2
  <2>1. queue \in Seq(Buffers) /\ queue # <<>>
    BY DEF IInv, TInv, DevInv, hd_interrupt
  <2>2. queue[1] \in Buffers
    BY <2>1
  <2>3. EndRequest(queue[1]) /\ UNCHANGED <<current, at, buf, link>>
    BY <1>2 DEF hd_interrupt
  <2>. QED BY <2>2, <2>3, EndSleep, Zenon
<1>. QED BY <1>1, <1>2, ZenonT(30)

(* Every step keeps the sleepers in order.                                 *)
LEMMA Next_SInv ==
    ASSUME Counting, IInv, SInv, [Next]_vars
    PROVE  SInv'
<1>1. ASSUME NEW t \in Tasks, Call(t) PROVE SInv'
  <2>1. PICK b \in Buffers : rw_hd(t, b) \/ wait_on_buffer(t, b)
    BY <1>1, HardDiskAssumption, Zenon DEF Call
  <2>. QED BY <2>1, CallSleep, BufferSleep, Zenon
<1>2. ASSUME NEW t \in Tasks, KernelStep(t) PROVE SInv'
  <2>1. CASE at[t] = "wait" /\ wait_on_buffer(t, buf[t])
    <3>1. buf[t] \in Buffers
      BY <2>1, ZenonT(30) DEF IInv, RunInv
    <3>. QED BY <2>1, <3>1, BufferSleep, Zenon
  <2>. QED BY <1>2, <2>1, ScanSleep, SlotSleep, ListSleep, AgainSleep, ZenonT(30) DEF KernelStep
<1>3. CASE UNCHANGED vars
  <2>1. UNCHANGED <<at, buf, awake, link, b_lock, b_wait, wait_for_request, queue, missed>>
    BY <1>3 DEF vars, taskVars, diskVars, bufVars
  <2>. QED BY <2>1, Zenon DEF SInv, WaitInv, queueOf, heads
<1>. QED BY <1>1, <1>2, <1>3, InterruptSleep, Zenon DEF Next
-----------------------------------------------------------------------------
INSTANCE FiniteSetTheorems

LEMMA CountingHolds == Counting
<1>1. IsFiniteSet({}) /\ Cardinality({}) = 0 /\ \A A : IsFiniteSet(A) => Cardinality(A) \in Nat
  BY FS_CardinalityType, FS_EmptySet, Zenon
<1>2. \A A, x : IsFiniteSet(A) => IsFiniteSet(A \union {x}) /\ IsFiniteSet(A \ {x})
  BY FS_AddElement, FS_RemoveElement, Zenon
<1>3. \A A, x : IsFiniteSet(A) /\ x \notin A => Cardinality(A \union {x}) = Cardinality(A) + 1
  BY FS_AddElement, Zenon
<1>4. \A A : \A x \in A : IsFiniteSet(A) => Cardinality(A \ {x}) = Cardinality(A) - 1
  BY FS_RemoveElement, Zenon
<1>5. ASSUME NEW A \in SUBSET Nat, A # {} PROVE \E x \in A : \A y \in A : x <= y
  <2>1. PICK m \in A : \A k \in A : ~(<<k, m>> \in OpToRel(<, Nat))
    BY <1>5, NatLessThanWellFounded, WFMin, Zenon
  <2>2. \A k \in A : ~(k < m)
    BY <2>1, Zenon DEF OpToRel
  <2>. QED BY <2>2
<1>. QED BY <1>1, <1>2, <1>3, <1>4, <1>5, ZenonT(60) DEF Counting

(* A list without repetitions is as long as the set it lists is large.     *)
LEMMA ListSize ==
    ASSUME NEW q \in Seq(Buffers), OneEach(q)
    PROVE  Cardinality(Range(q)) = Len(q)
<1>1. q \in [1..Len(q) -> Range(q)] /\ Len(q) \in Nat
  BY DEF Range
<1>2. q \in Bijection(1..Len(q), Range(q))
  BY <1>1 DEF Bijection, Injection, Surjection, IsInjective, OneEach, Range
<1>. QED BY <1>1, <1>2, FS_CountingElements DEF ExistsBijection

LEMMA AlwaysIInv == Spec => []IInv
<1>1. Init => IInv
  BY Init_IInv, CountingHolds, SMTT(30)
<1>2. IInv /\ [Next]_vars => IInv'
  BY Next_IInv, CountingHolds
<1>. QED BY <1>1, <1>2, PTL DEF Spec

(* Every variable keeps its type; no more slots are in use, and no longer  *)
(* is the list, than request[] has entries (rw_abs_hd, add_request).       *)
THEOREM TypeCorrect == Spec => []TypeOK
<1>1. IInv => TypeOK
  <2>. SUFFICES ASSUME IInv PROVE TypeOK
    OBVIOUS
  <2>1. Range(queue) \subseteq request
    <3>0. queue \in Seq(Buffers)
      BY Zenon DEF IInv, TInv
    <3>1. DOMAIN queue = 1..Len(queue)
      BY ONLY <3>0, SMTT(30)
    <3>2. \A i \in 1..Len(queue) : queue[i] \in request
      BY ZenonT(60) DEF IInv, ListInv
    <3>. QED BY ONLY <3>1, <3>2, Zenon DEF Range
  <2>2. Cardinality(Range(queue)) <= Cardinality(request)
    BY <2>1, FS_Subset, Zenon DEF IInv, SlotInv
  <2>3. Cardinality(Range(queue)) = Len(queue)
    BY ListSize, ZenonT(60) DEF IInv, TInv, ListInv
  <2>4. Cardinality(request) \in Nat /\ Len(queue) \in Nat /\ NR_REQUEST \in Nat
    BY FS_CardinalityType, HardDiskAssumption, SMTT(30) DEF IInv, SlotInv, TInv
  <2>5. Len(queue) <= NR_REQUEST /\ Cardinality(request) <= NR_REQUEST
    BY <2>2, <2>3, <2>4, SMTT(30) DEF IInv, SlotInv
  <2>6. {sorting, do_hd, busy} \subseteq BOOLEAN
    BY ZenonT(60) DEF IInv, TInv
  <2>. QED BY <2>5, <2>6, ZenonT(60) DEF TypeOK, IInv, TInv
<1>. QED BY <1>1, AlwaysIInv, PTL

(* However interrupts cut add_request, the list loses and repeats no       *)
(* request, as long as no completion empties it between `tmp=this_request' *)
(* and `tmp->next=req'.                                                    *)
THEOREM RequestsNeverLost == Spec => []NoLostRequest
<1>1. IInv => NoLostRequest
  <2>. SUFFICES ASSUME IInv, "link" \notin missed
                PROVE  /\ Cardinality(Range(queue)) = Len(queue)
                       /\ Range(queue) = request \ {buf[t] : t \in {u \in Tasks : Adding(u)}}
    BY Zenon DEF NoLostRequest
  <2>1. Cardinality(Range(queue)) = Len(queue)
    BY ListSize, ZenonT(60) DEF IInv, TInv, ListInv
  <2>2. DOMAIN queue = 1..Len(queue)
    BY SMTT(30) DEF IInv, TInv
  <2>3. /\ \A i \in 1..Len(queue) : queue[i] \in request
        /\ \A t \in Tasks : Adding(t) => \A i \in 1..Len(queue) : queue[i] # buf[t]
        /\ \A b \in request : (\E i \in 1..Len(queue) : queue[i] = b)
                             \/ \E t \in Tasks : Adding(t) /\ buf[t] = b
    BY Zenon DEF IInv, ListInv
  <2>4. Range(queue) = request \ {buf[t] : t \in {u \in Tasks : Adding(u)}}
    <3>. DEFINE A == {buf[t] : t \in {u \in Tasks : Adding(u)}}
    <3>1. ASSUME NEW x \in Range(queue) PROVE x \in request /\ x \notin A
      <4>1. PICK i \in 1..Len(queue) : x = queue[i]
        BY <2>2, SMTT(30) DEF Range
      <4>. QED BY <4>1, <2>3, ZenonT(60)
    <3>2. ASSUME NEW x \in request, x \notin A PROVE x \in Range(queue)
      <4>1. \A t \in Tasks : Adding(t) => x # buf[t]
        BY <3>2, ZenonT(60)
      <4>2. PICK i \in 1..Len(queue) : queue[i] = x
        BY <4>1, <2>3, SMTT(30)
      <4>. QED BY <4>2, <2>2, ZenonT(60) DEF Range
    <3>. HIDE DEF A
    <3>3. Range(queue) = request \ A
      BY <3>1, <3>2, ZenonT(60)
    <3>. QED BY <3>3, ZenonT(60) DEF A
  <2>. QED BY <2>1, <2>4, Zenon
<1>. QED BY <1>1, AlwaysIInv, PTL

(* A buffer is locked by one request or one task that seeks a slot, and by *)
(* no other (lock_buffer, unlock_buffer).                                  *)
THEOREM OneOwner == Spec => []LockedByOne
<1>1. IInv => LockedByOne
  <2>. SUFFICES ASSUME IInv, NEW b \in Buffers
                PROVE  (IF b_lock[b] THEN 1 ELSE 0) =
                         Cardinality({t \in Tasks : Seeks(t) /\ buf[t] = b})
                           + (IF b \in request THEN 1 ELSE 0)
    BY SMTT(30) DEF LockedByOne, Seeks
  <2>. DEFINE S == {t \in Tasks : Seeks(t) /\ buf[t] = b}
  <2>1. CASE S = {}
    <3>1. Cardinality(S) = 0
      BY <2>1, FS_EmptySet, ZenonT(60)
    <3>2. b_lock[b] <=> b \in request
      BY <2>1 DEF IInv, LockInv
    <3>. HIDE DEF S
    <3>3. (IF b_lock[b] THEN 1 ELSE 0) = Cardinality(S) + (IF b \in request THEN 1 ELSE 0)
      BY <3>1, <3>2, SMTT(30)
    <3>. QED BY <3>3 DEF S
  <2>2. CASE S # {}
    <3>1. PICK t \in Tasks : Seeks(t) /\ buf[t] = b
      BY <2>2, ZenonT(60)
    <3>2. S = {t}
      BY <3>1 DEF IInv, LockInv
    <3>3. Cardinality(S) = 1
      BY <3>2, FS_Singleton, ZenonT(60)
    <3>4. b_lock[b] /\ b \notin request
      BY <3>1, ZenonT(60) DEF IInv, LockInv
    <3>. HIDE DEF S
    <3>5. (IF b_lock[b] THEN 1 ELSE 0) = Cardinality(S) + (IF b \in request THEN 1 ELSE 0)
      BY <3>3, <3>4, SMTT(30)
    <3>. QED BY <3>5 DEF S
  <2>. QED BY <2>1, <2>2, ZenonT(60)
<1>. QED BY <1>1, AlwaysIInv, PTL

(* The list behind the request in service is at most two sweeps of the     *)
(* arm, whatever requests come and end (the loop of add_request).          *)
THEOREM TwoSweeps == Spec => []Elevator
<1>1. IInv => Elevator
  BY DEF IInv, Waves, Elevator, IN_ORDER
<1>. QED BY <1>1, AlwaysIInv, PTL

(* Interrupts die down in one place only: whenever a completion falls into *)
(* add_request or finds the list empty, the restart of add_request gets    *)
(* the device going again; only a half done request waits for the next one.*)
THEOREM NeverDiesDown == Spec => []KeepsGoing
<1>1. IInv => KeepsGoing
  <2>. SUFFICES ASSUME IInv PROVE KeepsGoing
    BY ZenonT(60)
  <2>1. sorting => \E t \in Tasks : current = t /\ (Adding(t) \/ at[t] = "start")
    BY DEF IInv, SortInv, RunInv, InAdd, InKernel, Adding
  <2>2. sorting => current # NoTask /\ (Adding(current) \/ at[current] = "start")
    BY <2>1, HardDiskAssumption, Zenon
  <2>. QED BY <2>2 DEF IInv, DevInv, KeepsGoing
<1>. QED BY <1>1, AlwaysIInv, PTL

(* Nobody sleeps in vain, for any number of tasks, buffers and slots: the  *)
(* wake_ups of read_intr, write_intr and of the tail of sleep_on reach     *)
(* every sleeper of a buffer that is unlocked and of a list that is empty, *)
(* unless a completion has hit one of the windows that `missed' names.     *)
THEOREM SleepersWake == Spec => []NoVainSleep
<1>1. Init => IInv /\ SInv
  BY Init_IInv, CountingHolds, Init_SInv
<1>2. IInv /\ SInv /\ [Next]_vars => (IInv /\ SInv)'
  BY Next_IInv, CountingHolds, Next_SInv, Zenon
<1>3. IInv /\ SInv => NoVainSleep
  <2>. SUFFICES ASSUME IInv, SInv, NEW t \in Tasks, ~awake[t],
                       \A u \in Tasks : at[u] = at[t] /\ (at[t] = "bufsleep" => buf[u] = buf[t])
                                         => ~awake[u]
                PROVE  IF at[t] = "bufsleep" THEN b_lock[buf[t]] \/ "again" \in missed
                       ELSE queue # <<>> \/ missed # {}
    BY Zenon DEF NoVainSleep
  <2>1. Shape(queueOf, heads, link, awake) /\ WaitInv
    BY Zenon DEF SInv
  <2>2. queueOf[t] \in Chans
    BY <2>1, ZenonT(60) DEF Shape, Covered
  <2>3. /\ at[t] \in {"reqsleep", "bufsleep"}
        /\ at[t] = "bufsleep" => buf[t] \in Buffers /\ queueOf[t] = buf[t]
        /\ at[t] = "reqsleep" => queueOf[t] = NoBuf
    BY <2>2, ChanFacts DEF queueOf, IInv, RunInv
  <2>4. ASSUME NEW u \in Tasks, queueOf[u] = queueOf[t] PROVE ~awake[u]
    <3>1. at[u] = at[t] /\ (at[t] = "bufsleep" => buf[u] = buf[t])
      <4>1. CASE at[u] = "bufsleep"
        <5>1. buf[u] \in Buffers /\ queueOf[u] = buf[u]
          BY <4>1 DEF queueOf, IInv, RunInv
        <5>. QED BY <2>3, <2>4, <4>1, <5>1, ChanFacts, ZenonT(60)
      <4>2. CASE at[u] = "reqsleep"
        <5>1. queueOf[u] = NoBuf
          BY <4>2 DEF queueOf
        <5>. QED BY <2>3, <2>4, <4>2, <5>1, ChanFacts, ZenonT(60)
      <4>3. CASE at[u] \notin {"bufsleep", "reqsleep"}
        <5>1. queueOf[u] = Nowhere
          BY <4>3, ZenonT(60) DEF queueOf
        <5>. QED BY <2>2, <2>4, <5>1, ChanFacts, ZenonT(60)
      <4>. QED BY <4>1, <4>2, <4>3, Zenon
    <3>. QED BY <3>1, Zenon
  <2>5. heads[queueOf[t]] # NoTask
    BY <2>1, <2>4, HeadOfSleepers, CountingHolds
  <2>. QED BY <2>1, <2>3, <2>5, QueueTypes, Zenon DEF WaitInv
<1>. QED BY <1>1, <1>2, <1>3, PTL DEF Spec
==============================================================================
