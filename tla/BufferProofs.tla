----------------------------- MODULE BufferProofs -----------------------------
(***************************************************************************)
(* Proofs about the buffer cache for any number of tasks, buffers, blocks  *)
(* and devices, in three parts.                                            *)
(*                                                                         *)
(* The first is about counts, hash queues and who has taken which buffer:  *)
(* a buffer that getblk has taken off both lists is its task's alone until *)
(* it is inserted again, through every sleep of sync_dev; by the time it   *)
(* gets its new block the loop of sync_dev has gone past it, so that it is *)
(* clean and no request for it is under way.  The second is about          *)
(* contents: which copy of a block is the newest, and that it is neither   *)
(* overlooked nor thrown away.  The third is about the free list: it stays *)
(* one ring of the buffers that are not taken.                             *)
(*                                                                         *)
(* The invariant speaks of constants, B for bh, H for hashed and M for me, *)
(* so that what a step does is stated without primes.                      *)
(***************************************************************************)
EXTENDS BufferCache, TLAPS

(* What the proofs need to know of finite sets and of minima.  It is       *)
(* proved below, where the library that says so comes in.                  *)
Injections ==
    \A A, B : \A f \in [A -> B] :
        IsFiniteSet(B) /\ (\A x, y \in A : f[x] = f[y] => x = y) => Cardinality(A) <= Cardinality(B)

Surjections ==
    \A A, B : \A f \in [A -> B] :
        IsFiniteSet(A) /\ (\A y \in B : \E x \in A : f[x] = y) => Cardinality(B) <= Cardinality(A)

Counting ==
    /\ Injections /\ Surjections
    /\ \A A : IsFiniteSet(A) => Cardinality(A) \in Nat /\ (Cardinality(A) = 0 <=> A = {})
    /\ \A A : \A B \in SUBSET A : IsFiniteSet(A) => IsFiniteSet(B)
    /\ \A A, x : IsFiniteSet(A) => IsFiniteSet(A \union {x}) /\ IsFiniteSet(A \ {x})
    /\ \A A, x : IsFiniteSet(A) /\ x \notin A => Cardinality(A \union {x}) = Cardinality(A) + 1
    /\ \A A, x : IsFiniteSet(A) =>
           Cardinality(A \ {x}) = IF x \in A THEN Cardinality(A) - 1 ELSE Cardinality(A)
    /\ \A A \in SUBSET Nat : A # {} => \E x \in A : \A y \in A : x <= y
    /\ \A n \in Nat : IsFiniteSet(1..n) /\ Cardinality(1..n) = n

Header == [key : Keys, count : Nat, uptodate : BOOLEAN, fresh : BOOLEAN,
         dirt : BOOLEAN, copy : BOOLEAN, io : {"idle", "READ", "WRITE", "TAKEN"}]

UsePCs  == {"hashed", "got", "reading", "use"}
SyncPCs == {"sync", "syncwait", "writing"}
ScanPCs == {"scan", "scanned"}
HashPCs == {"hash", "bufwait"}

Mind == [pc : {"out", "insert"} \union HashPCs \union ScanPCs \union SyncPCs \union UsePCs,
         tmp : Buffers \union {NULL}, want : Keys, i : 0..N,
         dev : {Dev[k] : k \in Blocks} \union {NULL}]

(* A task with locals r has taken r.tmp off the lists; what it refers to.   *)
Taken(r) == r.tmp # NULL /\ r.pc \in SyncPCs \union {"insert"}
Ref(r)   == IF r.pc \in UsePCs \/ Taken(r) THEN r.tmp ELSE NULL
Ptr(M)   == [t \in Tasks |-> Ref(M[t])]

Refs(f, b) == Cardinality({t \in Tasks : f[t] = b})

(* Which locals have a value where.                                        *)
Fits(r) ==
    /\ r.pc \in {"out"} \union HashPCs => r.tmp = NULL
    /\ r.pc \in {"insert"} \union ScanPCs \union UsePCs => r.tmp \in Buffers
    /\ r.pc \in HashPCs \union ScanPCs \union UsePCs \/ Taken(r) => r.want \in Blocks
    /\ r.pc \in SyncPCs => r.i \in 1..N /\ (r.tmp = NULL <=> r.dev = NULL)
    /\ r.pc \notin SyncPCs => r.dev = NULL

(* What a task can rely on.  A buffer it uses has its block.  A buffer it   *)
(* has taken is in no hash queue and is none of the pinned; sync_dev will   *)
(* not pass over it; and once sync_dev is past it, it is clean and idle.    *)
Good(B, H, r) ==
    /\ r.pc \in UsePCs => r.tmp \in H /\ B[r.tmp].key = r.want
    /\ Taken(r) =>
         /\ r.tmp \notin H /\ r.tmp > Len(Pinned)
         /\ r.pc \in SyncPCs => B[r.tmp].key \in Blocks /\ r.dev = Dev[B[r.tmp].key]
         /\ r.pc = "insert" \/ r.i > r.tmp =>
              B[r.tmp].io = "idle" /\ (~B[r.tmp].dirt \/ B[r.tmp].key \in Bad)
         /\ r.pc = "writing" /\ r.i = r.tmp /\ B[r.tmp].io = "idle" => ~B[r.tmp].dirt

Alone(M) ==
    \A t, u \in Tasks : t # u /\ Taken(M[t]) => Ref(M[u]) # M[t].tmp

Counts(B, M) ==
    \A b \in Buffers :
        B[b].count = Refs(Ptr(M), b) + IF b <= Len(Pinned) THEN 1 ELSE 0

Unique(B, H) == \A a, b \in H : B[a].key = B[b].key => a = b

Keyed(B) ==
    \A b \in Buffers :
        B[b].dirt \/ B[b].io # "idle" \/ b <= Len(Pinned) => B[b].key \in Blocks

Inv(B, H, M) ==
    /\ B \in [Buffers -> Header] /\ H \subseteq Buffers /\ M \in [Tasks -> Mind]
    /\ \A t \in Tasks : Fits(M[t]) /\ Good(B, H, M[t])
    /\ Alone(M) /\ Counts(B, M) /\ Unique(B, H) /\ Keyed(B)

LInv ==
    /\ free_list \in Buffers
    /\ next_free \in [Buffers -> Buffers] /\ prev_free \in [Buffers -> Buffers]
    /\ disk \in [Blocks -> BOOLEAN]
    /\ cur \in Tasks \union {NULL}
    /\ hit \subseteq {"unhashed", "rewritten"}

IInv == LInv /\ Inv(bh, hashed, me)
-----------------------------------------------------------------------------
LEMMA Constants ==
    /\ N \in Nat /\ 1 \in Buffers /\ N \in Buffers /\ Buffers \subseteq Nat
    /\ NULL \notin Buffers /\ NULL \notin Tasks /\ NULL \notin Blocks
    /\ Len(Pinned) \in Nat /\ Len(Pinned) < N
    /\ \A k \in Blocks : Dev[k] # NULL
BY BufferAssumption DEF Buffers

LEMMA RefsFinite ==
    ASSUME Counting, NEW f, NEW b
    PROVE  IsFiniteSet({t \in Tasks : f[t] = b})
<1>1. {t \in Tasks : f[t] = b} \in SUBSET Tasks
  OBVIOUS
<1>. QED BY <1>1, BufferAssumption DEF Counting

LEMMA RefsType ==
    ASSUME Counting, NEW f, NEW b
    PROVE  Refs(f, b) \in Nat
<1>1. IsFiniteSet({t \in Tasks : f[t] = b})
  BY RefsFinite, Zenon
<1>. QED BY <1>1 DEF Refs, Counting

(* What it does to the counts that one task's pointer changes.             *)
OnlyAt(t, f, g) == \A u \in Tasks \ {t} : g[u] = f[u]

LEMMA RefsMove ==
    ASSUME Counting, NEW f, NEW g, NEW t \in Tasks, NEW b, OnlyAt(t, f, g)
    PROVE  Refs(g, b) = Refs(f, b) - (IF f[t] = b THEN 1 ELSE 0) + (IF g[t] = b THEN 1 ELSE 0)
<1>. DEFINE S == {u \in Tasks : f[u] = b}
            R == {u \in Tasks : g[u] = b}
<1>1. IsFiniteSet(S) /\ Cardinality(S) \in Nat
  BY RefsFinite, RefsType, Zenon DEF Refs
<1>2. IsFiniteSet(S \ {t}) /\ Cardinality(S \ {t}) = IF f[t] = b THEN Cardinality(S) - 1 ELSE Cardinality(S)
  BY <1>1, Zenon DEF Counting
<1>3. R = IF g[t] = b THEN (S \ {t}) \union {t} ELSE S \ {t}
  BY DEF OnlyAt
<1>4. Cardinality((S \ {t}) \union {t}) = Cardinality(S \ {t}) + 1
  BY <1>2, ZenonT(60) DEF Counting
<1>5. Cardinality(S \ {t}) \in Nat
  BY <1>2 DEF Counting
<1>. HIDE DEF R, S
<1>6. Cardinality(R) = Cardinality(S) - (IF f[t] = b THEN 1 ELSE 0) + (IF g[t] = b THEN 1 ELSE 0)
  BY <1>1, <1>2, <1>3, <1>4, <1>5
<1>. QED BY <1>6 DEF R, S, Refs

LEMMA RefsNone ==
    ASSUME Counting, NEW f, NEW b
    PROVE  Refs(f, b) = 0 <=> \A t \in Tasks : f[t] # b
<1>. DEFINE S == {u \in Tasks : f[u] = b}
<1>1. IsFiniteSet(S)
  BY RefsFinite, Zenon
<1>2. Cardinality(S) = 0 <=> S = {}
  BY <1>1, ZenonT(60) DEF Counting
<1>. QED BY <1>2 DEF Refs

(* A task that somebody's brelse has woken from buffer_wait, or not.       *)
Same(r, s) == s = r \/ (r.pc = "bufwait" /\ s = [r EXCEPT !.pc = "hash"])

LEMMA SameMind ==
    ASSUME NEW r \in Mind, Fits(r), NEW s, Same(r, s)
    PROVE  /\ s \in Mind /\ Fits(s) /\ Ref(s) = Ref(r) /\ s.tmp = r.tmp
           /\ (Taken(s) <=> Taken(r))
           /\ \A B, H : Good(B, H, r) => Good(B, H, s)
<1>1. CASE s = r
  BY <1>1
<1>2. CASE r.pc = "bufwait" /\ s = [r EXCEPT !.pc = "hash"]
  <2>1. s \in Mind /\ s.pc = "hash" /\ s.tmp = r.tmp /\ s.want = r.want /\ s.dev = r.dev
    BY <1>2 DEF Mind, HashPCs
  <2>2. ~Taken(s) /\ ~Taken(r) /\ s.pc \notin UsePCs /\ r.pc \notin UsePCs
    BY <1>2, <2>1 DEF Taken, SyncPCs, UsePCs
  <2>3. Fits(s)
    BY <1>2, <2>1, <2>2 DEF Fits, HashPCs, ScanPCs, SyncPCs, UsePCs
  <2>. QED BY <2>1, <2>2, <2>3 DEF Ref, Good
<1>. QED BY <1>1, <1>2 DEF Same

(* Nothing gets another block, and no buffer is hashed that was not.       *)
LEMMA KeptKeyed ==
    ASSUME NEW B, NEW H, NEW M, Inv(B, H, M), NEW G \in SUBSET H, NEW C,
           \A c \in Buffers : C[c].key = B[c].key /\ C[c].io = B[c].io /\ C[c].dirt = B[c].dirt
    PROVE  Unique(C, G) /\ Keyed(C)
<1>1. Unique(B, H) /\ Keyed(B) /\ H \in SUBSET Buffers
  BY Zenon DEF Inv
<1>2. \A c \in G : c \in H /\ c \in Buffers
  BY <1>1, Zenon
<1>3. Unique(C, G)
  <2>. SUFFICES ASSUME NEW a \in G, NEW b \in G, C[a].key = C[b].key PROVE a = b
    BY Zenon DEF Unique
  <2>1. B[a].key = B[b].key
    BY <1>2, Zenon
  <2>. QED BY <1>1, <1>2, <2>1, Zenon DEF Unique
<1>4. Keyed(C)
  BY <1>1, Zenon DEF Keyed
<1>. QED BY <1>3, <1>4, Zenon

(* A step of task t, which may wake others: what is left to show.          *)
TaskMoves(B, M, C, G, L, t) ==
    /\ C \in [Buffers -> Header] /\ G \in SUBSET Buffers /\ L \in [Tasks -> Mind]
    /\ Fits(L[t]) /\ Good(C, G, L[t])
    /\ \A u \in Tasks \ {t} : /\ Same(M[u], L[u]) /\ Good(C, G, M[u])
                              /\ Taken(L[t]) => Ref(M[u]) # L[t].tmp
                              /\ Taken(M[u]) => Ref(L[t]) # M[u].tmp
    /\ \A b \in Buffers : C[b].count = B[b].count - (IF Ref(M[t]) = b THEN 1 ELSE 0)
                                                  + (IF Ref(L[t]) = b THEN 1 ELSE 0)
    /\ Unique(C, G) /\ Keyed(C)

LEMMA TaskStep ==
    ASSUME Counting, NEW B, NEW H, NEW M, Inv(B, H, M), NEW t \in Tasks,
           NEW C, NEW G, NEW L, TaskMoves(B, M, C, G, L, t)
    PROVE  Inv(C, G, L)
<1>. USE DEF TaskMoves
<1>1. \A u \in Tasks : M[u] \in Mind /\ Fits(M[u])
  BY DEF Inv
<1>2. ASSUME NEW u \in Tasks \ {t}
      PROVE  /\ Fits(L[u]) /\ Ref(L[u]) = Ref(M[u]) /\ L[u].tmp = M[u].tmp
             /\ (Taken(L[u]) <=> Taken(M[u]))
             /\ Good(C, G, L[u])
  BY <1>1, <1>2, SameMind
<1>4. \A u \in Tasks : Fits(L[u]) /\ Good(C, G, L[u])
  BY <1>2
<1>5. Alone(L)
  <2>. SUFFICES ASSUME NEW u \in Tasks, NEW v \in Tasks, u # v, Taken(L[u])
                PROVE  Ref(L[v]) # L[u].tmp
    BY DEF Alone
  <2>1. CASE u = t
    BY <2>1, <1>2
  <2>2. CASE u # t /\ v = t
    BY <2>2, <1>2
  <2>3. CASE u # t /\ v # t
    BY <2>3, <1>2 DEF Inv, Alone
  <2>. QED BY <2>1, <2>2, <2>3
<1>6. Counts(C, L)
  <2>. SUFFICES ASSUME NEW b \in Buffers
                PROVE  C[b].count = Refs(Ptr(L), b) + IF b <= Len(Pinned) THEN 1 ELSE 0
    BY DEF Counts
  <2>1. \A u \in Tasks \ {t} : Ptr(L)[u] = Ptr(M)[u]
    BY <1>2 DEF Ptr
  <2>2. Ptr(L)[t] = Ref(L[t]) /\ Ptr(M)[t] = Ref(M[t])
    BY DEF Ptr
  <2>3. Refs(Ptr(L), b) = Refs(Ptr(M), b) - (IF Ref(M[t]) = b THEN 1 ELSE 0)
                                          + (IF Ref(L[t]) = b THEN 1 ELSE 0)
    <3>1. OnlyAt(t, Ptr(M), Ptr(L))
      BY <2>1 DEF OnlyAt
    <3>2. Refs(Ptr(L), b) = Refs(Ptr(M), b) - (IF Ptr(M)[t] = b THEN 1 ELSE 0)
                                            + (IF Ptr(L)[t] = b THEN 1 ELSE 0)
      BY <3>1, RefsMove
    <3>. QED BY <2>2, <3>2
  <2>4. Refs(Ptr(M), b) \in Nat
    BY RefsType
  <2>5. B[b].count = Refs(Ptr(M), b) + IF b <= Len(Pinned) THEN 1 ELSE 0
    BY DEF Inv, Counts
  <2>. HIDE DEF Ptr
  <2>. QED BY <2>3, <2>4, <2>5
<1>. QED BY <1>4, <1>5, <1>6 DEF Inv

(* A step of task t that leaves the buffers and what t refers to.          *)
LEMMA QuietStep ==
    ASSUME Counting, NEW B, NEW H, NEW M, Inv(B, H, M), NEW t \in Tasks, NEW r \in Mind,
           Fits(r), Good(B, H, r), Ref(r) = Ref(M[t]), Taken(r) => Taken(M[t])
    PROVE  Inv(B, H, [M EXCEPT ![t] = r])
<1>. DEFINE L == [M EXCEPT ![t] = r]
<1>1. /\ L \in [Tasks -> Mind] /\ L[t] = r
      /\ \A u \in Tasks \ {t} : L[u] = M[u]
  BY DEF Inv
<1>2. B \in [Buffers -> Header] /\ H \in SUBSET Buffers /\ Unique(B, H) /\ Keyed(B)
  BY DEF Inv
<1>3. \A b \in Buffers : B[b].count \in Nat
  BY <1>2 DEF Header
<1>4. \A u \in Tasks \ {t} : Same(M[u], L[u]) /\ Good(B, H, M[u])
  BY <1>1 DEF Same, Inv
<1>5. \A u \in Tasks \ {t} : Taken(L[t]) => Ref(M[u]) # L[t].tmp
  <2>1. Taken(r) => Taken(M[t]) /\ r.tmp = M[t].tmp
    BY DEF Ref
  <2>. QED BY <1>1, <2>1 DEF Inv, Alone
<1>6. \A u \in Tasks \ {t} : Taken(M[u]) => Ref(L[t]) # M[u].tmp
  BY <1>1 DEF Inv, Alone
<1>7. \A b \in Buffers :
         B[b].count = B[b].count - (IF Ref(M[t]) = b THEN 1 ELSE 0)
                                 + (IF Ref(L[t]) = b THEN 1 ELSE 0)
  BY <1>1, <1>3, SMTT(30)
<1>. HIDE DEF L
<1>8. TaskMoves(B, M, B, H, L, t)
  BY <1>1, <1>2, <1>4, <1>5, <1>6, <1>7, Zenon DEF TaskMoves, Inv
<1>9. Inv(B, H, L)
  BY <1>8, TaskStep, Zenon
<1>. QED BY <1>9 DEF L

(* A step that changes neither blocks nor counts, as interrupts do.        *)
LEMMA HeaderStep ==
    ASSUME NEW B, NEW H, NEW M, Inv(B, H, M), NEW C \in [Buffers -> Header],
           \A b \in Buffers : C[b].key = B[b].key /\ C[b].count = B[b].count,
           \A u \in Tasks : Good(C, H, M[u]), Keyed(C)
    PROVE  Inv(C, H, M)
<1>1. Counts(C, M)
  BY DEF Inv, Counts
<1>2. Unique(C, H)
  BY DEF Inv, Unique
<1>. QED BY <1>1, <1>2 DEF Inv

(* buffer_init and mount_root establish the invariant.                      *)
LEMMA Init_IInv ==
    ASSUME Counting, Init
    PROVE  IInv
<1>. USE Constants
<1>1. LInv
  <2>1. free_list \in Buffers
    BY DEF Init, Buffers
  <2>2. next_free \in [Buffers -> Buffers] /\ prev_free \in [Buffers -> Buffers]
    BY DEF Init, Buffers
  <2>3. disk \in [Blocks -> BOOLEAN] /\ cur = NULL /\ hit = {}
    BY DEF Init
  <2>. QED BY <2>1, <2>2, <2>3 DEF LInv
<1>2. \A b \in 1..Len(Pinned) : Pinned[b] \in Blocks
  BY BufferAssumption
<1>3. bh \in [Buffers -> Header]
  <2>1. \A b \in Buffers : b <= Len(Pinned) => b \in 1..Len(Pinned)
    BY DEF Buffers
  <2>. QED BY <1>2, <2>1 DEF Init, Header, Keys
<1>4. hashed \subseteq Buffers /\ hashed = 1..Len(Pinned)
  BY DEF Init, Buffers
<1>5. /\ me = [t \in Tasks |-> Idle]
      /\ Idle \in Mind /\ Idle.pc = "out" /\ Idle.tmp = NULL /\ Idle.dev = NULL
  BY DEF Init, Idle, Mind, Keys
<1>6. ~Taken(Idle) /\ Fits(Idle) /\ Ref(Idle) = NULL /\ Good(bh, hashed, Idle)
  BY <1>5 DEF Taken, Fits, Ref, Good, HashPCs, ScanPCs, UsePCs, SyncPCs
<1>7. Alone(me)
  BY <1>5, <1>6 DEF Alone
<1>8. Counts(bh, me)
  <2>. SUFFICES ASSUME NEW b \in Buffers
                PROVE  bh[b].count = Refs(Ptr(me), b) + IF b <= Len(Pinned) THEN 1 ELSE 0
    BY DEF Counts
  <2>1. Refs(Ptr(me), b) = 0
    BY <1>5, <1>6, RefsNone, Zenon DEF Ptr
  <2>2. bh[b].count = IF b <= Len(Pinned) THEN 1 ELSE 0
    BY DEF Init
  <2>. QED BY <2>1, <2>2
<1>9. Unique(bh, hashed)
  <2>1. \A b \in hashed : bh[b].key = Pinned[b]
    <3>. SUFFICES ASSUME NEW b \in hashed PROVE bh[b].key = Pinned[b]
      OBVIOUS
    <3>1. b \in Buffers /\ b <= Len(Pinned)
      BY <1>4
    <3>. QED BY <3>1, Zenon DEF Init
  <2>. QED BY <1>4, <2>1, BufferAssumption, SMTT(30) DEF Unique
<1>10. Keyed(bh)
  <2>1. \A b \in Buffers : b <= Len(Pinned) => b \in 1..Len(Pinned)
    BY DEF Buffers
  <2>2. \A b \in Buffers : ~bh[b].dirt /\ bh[b].io = "idle" /\ (b <= Len(Pinned) => bh[b].key = Pinned[b])
    BY DEF Init
  <2>. QED BY <1>2, <2>1, <2>2 DEF Keyed
<1>11. me \in [Tasks -> Mind] /\ \A t \in Tasks : Fits(me[t]) /\ Good(bh, hashed, me[t])
  BY <1>5, <1>6
<1>. QED BY <1>1, <1>3, <1>4, <1>7, <1>8, <1>9, <1>10, <1>11, Zenon DEF IInv, Inv
-----------------------------------------------------------------------------
LEMMA Mine ==
    ASSUME IInv, NEW t \in Tasks
    PROVE  /\ me[t] \in Mind /\ Fits(me[t]) /\ Good(bh, hashed, me[t])
           /\ me \in [Tasks -> Mind] /\ me = [u \in Tasks |-> me[u]]
           /\ bh \in [Buffers -> Header] /\ hashed \in SUBSET Buffers
           /\ Inv(bh, hashed, me)
BY DEF IInv, Inv

(* The steps of a call that touch no buffer.                               *)
LEMMA BreadStep ==
    ASSUME Counting, IInv, NEW t \in Tasks, NEW k \in Blocks, bread(t, k)
    PROVE  IInv'
<1>. DEFINE r == [me[t] EXCEPT !.pc = "hash", !.want = k]
<1>1. me[t].pc = "out" /\ me[t] \in Mind /\ Fits(me[t]) /\ Inv(bh, hashed, me)
  BY Mine DEF bread
<1>2. me' = [me EXCEPT ![t] = r] /\ cur' = t /\ UNCHANGED <<bh, hashed, list, disk, hit>>
  BY Mine, Zenon DEF bread
<1>3. r \in Mind /\ r.pc = "hash" /\ r.want = k /\ r.tmp = me[t].tmp /\ r.dev = me[t].dev
  BY <1>1, Zenon DEF Mind, Keys, HashPCs
<1>. HIDE DEF r
<1>4. ~Taken(r) /\ Fits(r) /\ Ref(r) = Ref(me[t]) /\ Good(bh, hashed, r)
  BY <1>1, <1>3 DEF Taken, Fits, Ref, Good, HashPCs, ScanPCs, UsePCs, SyncPCs
<1>5. Inv(bh, hashed, [me EXCEPT ![t] = r])
  BY <1>1, <1>3, <1>4, QuietStep, Zenon
<1>. QED BY <1>2, <1>5 DEF IInv, LInv, list

LEMMA SyncCallStep ==
    ASSUME Counting, IInv, NEW t \in Tasks, sys_sync(t)
    PROVE  IInv'
<1>. DEFINE r == [me[t] EXCEPT !.pc = "sync", !.i = 1]
<1>1. me[t].pc = "out" /\ me[t] \in Mind /\ Fits(me[t]) /\ Inv(bh, hashed, me)
  BY Mine DEF sys_sync
<1>2. me' = [me EXCEPT ![t] = r] /\ cur' = t /\ UNCHANGED <<bh, hashed, list, disk, hit>>
  BY Mine, Zenon DEF sys_sync
<1>3. /\ r \in Mind /\ r.pc = "sync" /\ r.i = 1 /\ r.i \in 1..N
      /\ r.tmp = me[t].tmp /\ r.dev = me[t].dev
  <2>1. 1 \in 0..N /\ 1 \in 1..N
    BY Constants, SMTT(30)
  <2>. QED BY <1>1, <2>1, Zenon DEF Mind, SyncPCs
<1>. HIDE DEF r
<1>4. ~Taken(r) /\ Fits(r) /\ Ref(r) = Ref(me[t]) /\ Good(bh, hashed, r)
  BY <1>1, <1>3 DEF Taken, Fits, Ref, Good, HashPCs, ScanPCs, UsePCs, SyncPCs
<1>5. Inv(bh, hashed, [me EXCEPT ![t] = r])
  BY <1>1, <1>3, <1>4, QuietStep
<1>. QED BY <1>2, <1>5 DEF IInv, LInv, list

LEMMA AdvanceStep ==
    ASSUME Counting, IInv, NEW t \in Tasks, me[t].pc \in ScanPCs, Advance(t),
           UNCHANGED <<bh, hashed, list, disk, hit>>
    PROVE  IInv'
<1>. DEFINE n == next_free[me[t].tmp]
            r == [me[t] EXCEPT !.pc = "scan", !.tmp = n]
            s == [me[t] EXCEPT !.pc = "bufwait", !.tmp = NULL]
<1>1. me[t] \in Mind /\ Fits(me[t]) /\ Inv(bh, hashed, me) /\ n \in Buffers
  BY Mine DEF Fits, IInv, LInv
<1>2. (me' = [me EXCEPT ![t] = r] /\ cur' = t) \/ (me' = [me EXCEPT ![t] = s] /\ cur' = NULL)
  BY Mine, Zenon DEF Advance
<1>3. /\ r \in Mind /\ r.pc = "scan" /\ r.want = me[t].want /\ r.tmp = n /\ r.dev = me[t].dev
      /\ s \in Mind /\ s.pc = "bufwait" /\ s.want = me[t].want /\ s.tmp = NULL /\ s.dev = me[t].dev
  BY <1>1, Zenon DEF Mind, HashPCs, ScanPCs
<1>. HIDE DEF r, s, n
<1>4. /\ ~Taken(r) /\ Fits(r) /\ Ref(r) = Ref(me[t]) /\ Good(bh, hashed, r)
      /\ ~Taken(s) /\ Fits(s) /\ Ref(s) = Ref(me[t]) /\ Good(bh, hashed, s)
  BY <1>1, <1>3 DEF Taken, Fits, Ref, Good, HashPCs, ScanPCs, UsePCs, SyncPCs
<1>5. Inv(bh, hashed, [me EXCEPT ![t] = r]) /\ Inv(bh, hashed, [me EXCEPT ![t] = s])
  BY <1>1, <1>3, <1>4, QuietStep, Zenon
<1>. QED BY <1>2, <1>5, Zenon DEF IInv, LInv, list

LEMMA ScanStep ==
    ASSUME Counting, IInv, NEW t \in Tasks, Scan(t)
    PROVE  IInv'
<1>. DEFINE r == [me[t] EXCEPT !.pc = "scanned"]
<1>1. CASE bh[me[t].tmp].count = 0
  <2>1. me[t].pc = "scan" /\ me[t] \in Mind /\ Fits(me[t]) /\ Inv(bh, hashed, me)
    BY Mine DEF Scan
  <2>2. me' = [me EXCEPT ![t] = r] /\ cur' \in {t, NULL} /\ UNCHANGED <<bh, hashed, list, disk, hit>>
    BY <1>1, Mine DEF Scan, wait_on_buffer
  <2>3. r \in Mind /\ r.pc = "scanned" /\ r.want = me[t].want /\ r.tmp = me[t].tmp /\ r.dev = me[t].dev
    BY <2>1, Zenon DEF Mind, ScanPCs
  <2>. HIDE DEF r
  <2>4. ~Taken(r) /\ Fits(r) /\ Ref(r) = Ref(me[t]) /\ Good(bh, hashed, r)
    BY <2>1, <2>3 DEF Taken, Fits, Ref, Good, HashPCs, ScanPCs, UsePCs, SyncPCs
  <2>5. Inv(bh, hashed, [me EXCEPT ![t] = r])
    BY <2>1, <2>3, <2>4, QuietStep
  <2>. QED BY <2>2, <2>5 DEF IInv, LInv, list
<1>2. CASE bh[me[t].tmp].count # 0
  BY <1>2, AdvanceStep DEF Scan, ScanPCs
<1>. QED BY <1>1, <1>2
-----------------------------------------------------------------------------
(* The loop over all buffers goes on from one that, if the task has taken   *)
(* it, is clean and idle.                                                   *)
LEMMA TurnStep ==
    ASSUME Counting, IInv, NEW t \in Tasks, me[t].pc \in SyncPCs, Turn(t),
           UNCHANGED <<bh, hashed, list, disk, hit>>,
           Taken(me[t]) /\ me[t].i = me[t].tmp =>
               /\ bh[me[t].tmp].io = "idle"
               /\ ~bh[me[t].tmp].dirt \/ bh[me[t].tmp].key \in Bad
    PROVE  IInv'
<1>. DEFINE r == [me[t] EXCEPT !.pc = "sync", !.i = @ + 1]
            s == [me[t] EXCEPT !.pc = "insert", !.i = 0, !.dev = NULL]
<1>1. /\ me[t] \in Mind /\ Fits(me[t]) /\ Good(bh, hashed, me[t]) /\ Inv(bh, hashed, me)
      /\ me[t].i \in 1..N /\ (me[t].tmp = NULL <=> me[t].dev = NULL)
  BY Mine, Zenon DEF Fits
<1>2. me[t].tmp # NULL => me[t].tmp \in Buffers /\ Taken(me[t])
  BY <1>1 DEF Mind, Taken
<1>3. \/ me[t].i < N /\ me' = [me EXCEPT ![t] = r] /\ cur' = t
      \/ me[t].i = N /\ me[t].dev = NULL /\ me' = [me EXCEPT ![t] = Idle] /\ cur' = NULL
      \/ me[t].i = N /\ me[t].dev # NULL /\ me' = [me EXCEPT ![t] = s] /\ cur' = t
  BY Mine, Zenon DEF Turn
<1>4. Taken(me[t]) /\ me[t].i >= me[t].tmp =>
          bh[me[t].tmp].io = "idle" /\ (~bh[me[t].tmp].dirt \/ bh[me[t].tmp].key \in Bad)
  <2>1. Taken(me[t]) => me[t].tmp \in 1..N
    BY <1>2, Zenon DEF Taken, Buffers
  <2>2. CASE me[t].i = me[t].tmp
    BY <2>2, Zenon
  <2>3. CASE me[t].i # me[t].tmp
    <3>1. Taken(me[t]) /\ me[t].i >= me[t].tmp => me[t].i > me[t].tmp
      BY <1>1, <2>1, <2>3, SMTT(30)
    <3>. QED BY <1>1, <3>1, Zenon DEF Good
  <2>. QED BY <2>2, <2>3, Zenon
<1>5. CASE me[t].i < N /\ me' = [me EXCEPT ![t] = r] /\ cur' = t
  <2>1. me[t].i + 1 \in 0..N /\ me[t].i + 1 \in 1..N
    BY <1>1, <1>5, Constants
  <2>2. /\ r \in Mind /\ r.pc = "sync" /\ r.i = me[t].i + 1 /\ r.tmp = me[t].tmp
        /\ r.dev = me[t].dev /\ r.want = me[t].want
    BY <1>1, <2>1, Zenon DEF Mind, SyncPCs
  <2>. HIDE DEF r
  <2>3. Taken(r) <=> Taken(me[t])
    BY <1>1, <2>2, Zenon DEF Taken, SyncPCs
  <2>4. Fits(r) /\ Ref(r) = Ref(me[t])
    BY <1>1, <2>1, <2>2, <2>3, Zenon DEF Fits, Ref, HashPCs, ScanPCs, UsePCs, SyncPCs
  <2>5. Taken(r) /\ r.i > r.tmp => me[t].i >= me[t].tmp
    <3>1. Taken(r) => r.tmp \in 1..N
      BY <1>2, <2>2, <2>3, ZenonT(30) DEF Taken, Buffers
    <3>. QED BY <1>1, <2>2, <3>1, SMTT(30)
  <2>6. Good(bh, hashed, r)
    BY <1>1, <1>4, <2>2, <2>3, <2>5, Zenon DEF Good, UsePCs, SyncPCs
  <2>7. Inv(bh, hashed, [me EXCEPT ![t] = r])
    BY <1>1, <2>2, <2>3, <2>4, <2>6, QuietStep, Zenon
  <2>. QED BY <1>5, <2>7 DEF IInv, LInv, list
<1>6. CASE me[t].i = N /\ me[t].dev = NULL /\ me' = [me EXCEPT ![t] = Idle] /\ cur' = NULL
  <2>1. /\ Idle \in Mind /\ Idle.pc = "out" /\ Idle.tmp = NULL /\ Idle.dev = NULL
    BY Constants, SMTT(30) DEF Idle, Mind, Keys
  <2>2. ~Taken(Idle) /\ Fits(Idle) /\ Good(bh, hashed, Idle) /\ Ref(Idle) = NULL
    BY <2>1 DEF Taken, Fits, Ref, Good, HashPCs, ScanPCs, UsePCs, SyncPCs
  <2>3. Ref(me[t]) = NULL
    BY <1>1, <1>6, Zenon DEF Ref
  <2>4. Inv(bh, hashed, [me EXCEPT ![t] = Idle])
    BY <1>1, <2>1, <2>2, <2>3, QuietStep, Zenon
  <2>. QED BY <1>6, <2>4, Zenon DEF IInv, LInv, list
<1>7. CASE me[t].i = N /\ me[t].dev # NULL /\ me' = [me EXCEPT ![t] = s] /\ cur' = t
  <2>1. 0 \in 0..N /\ Taken(me[t]) /\ me[t].tmp \in Buffers
    BY <1>1, <1>2, <1>7, Constants
  <2>2. /\ s \in Mind /\ s.pc = "insert" /\ s.tmp = me[t].tmp
        /\ s.dev = NULL /\ s.want = me[t].want
    BY <1>1, <2>1, Zenon DEF Mind
  <2>3. me[t].i >= me[t].tmp
    BY <1>7, <2>1, Constants, SMTT(30) DEF Buffers
  <2>. HIDE DEF s
  <2>4. Taken(s)
    BY <2>1, <2>2, Zenon DEF Taken
  <2>5. Fits(s) /\ Ref(s) = Ref(me[t])
    BY <1>1, <2>1, <2>2, <2>4, Zenon DEF Fits, Ref, HashPCs, ScanPCs, UsePCs, SyncPCs
  <2>6. Good(bh, hashed, s)
    BY <1>1, <1>4, <2>1, <2>2, <2>3, Zenon DEF Good, UsePCs, SyncPCs
  <2>7. Inv(bh, hashed, [me EXCEPT ![t] = s])
    BY <1>1, <2>1, <2>2, <2>5, <2>6, QuietStep, Zenon
  <2>. QED BY <1>7, <2>7 DEF IInv, LInv, list
<1>. QED BY <1>3, <1>5, <1>6, <1>7, Zenon

(* sync_dev passes over other devices only, so never over its own buffer.   *)
LEMMA SyncStep ==
    ASSUME Counting, IInv, NEW t \in Tasks, Sync(t)
    PROVE  IInv'
<1>. DEFINE r == [me[t] EXCEPT !.pc = "syncwait"]
<1>1. /\ me[t].pc = "sync" /\ me[t] \in Mind /\ Fits(me[t]) /\ Good(bh, hashed, me[t])
      /\ Inv(bh, hashed, me) /\ UNCHANGED <<bh, hashed, list, disk, hit>>
  BY Mine DEF Sync
<1>2. CASE OtherDevice(t)
  <2>1. ~(Taken(me[t]) /\ me[t].i = me[t].tmp)
    BY <1>1, <1>2, Constants, Zenon DEF OtherDevice, Good, SyncPCs
  <2>. QED BY <1>1, <1>2, <2>1, TurnStep, Zenon DEF Sync, SyncPCs
<1>3. CASE ~OtherDevice(t)
  <2>1. me' = [me EXCEPT ![t] = r] /\ cur' \in {t, NULL}
    BY <1>3, Mine DEF Sync, wait_on_buffer
  <2>2. /\ r \in Mind /\ r.pc = "syncwait" /\ r.i = me[t].i /\ r.tmp = me[t].tmp
        /\ r.dev = me[t].dev /\ r.want = me[t].want
    BY <1>1 DEF Mind, SyncPCs
  <2>. HIDE DEF r
  <2>3. Taken(r) <=> Taken(me[t])
    BY <1>1, <2>2, ZenonT(30) DEF Taken, SyncPCs
  <2>4. Fits(r) /\ Ref(r) = Ref(me[t]) /\ Good(bh, hashed, r)
    BY <1>1, <2>2, <2>3 DEF Fits, Ref, Good, HashPCs, ScanPCs, UsePCs, SyncPCs
  <2>5. Inv(bh, hashed, [me EXCEPT ![t] = r])
    BY <1>1, <2>2, <2>3, <2>4, QuietStep, ZenonT(30)
  <2>. QED BY <1>1, <2>1, <2>5 DEF IInv, LInv, list
<1>. QED BY <1>2, <1>3

LEMMA WrittenStep ==
    ASSUME Counting, IInv, NEW t \in Tasks, Written(t)
    PROVE  IInv'
<1>1. /\ me[t].pc = "writing" /\ me[t] \in Mind /\ Good(bh, hashed, me[t])
      /\ bh[me[t].i].io = "idle" /\ UNCHANGED <<bh, hashed, list, disk, hit>>
  BY Mine, ZenonT(30) DEF Written, Locked
<1>2. Taken(me[t]) /\ me[t].i = me[t].tmp =>
          bh[me[t].tmp].io = "idle" /\ ~bh[me[t].tmp].dirt
  BY <1>1 DEF Good
<1>. QED BY <1>1, <1>2, TurnStep DEF Written, SyncPCs
-----------------------------------------------------------------------------
(* One buffer is locked, unlocked, changed or cleaned.                     *)
Calm(B, b, r) ==
    Taken(r) /\ r.tmp = b =>
        /\ r.pc = "insert" \/ r.i > r.tmp =>
             B[b].io = "idle" /\ (~B[b].dirt \/ B[b].key \in Bad)
        /\ r.pc = "writing" /\ r.i = r.tmp /\ B[b].io = "idle" => ~B[b].dirt

LEMMA OneHeader ==
    ASSUME NEW B, NEW H, NEW M, Inv(B, H, M), NEW C \in [Buffers -> Header],
           NEW b \in Buffers,
           \A c \in Buffers : C[c].key = B[c].key /\ C[c].count = B[c].count,
           \A c \in Buffers \ {b} : C[c].dirt = B[c].dirt /\ C[c].io = B[c].io,
           C[b].dirt \/ C[b].io # "idle" => C[b].key \in Blocks,
           \A u \in Tasks : Calm(C, b, M[u])
    PROVE  Inv(C, H, M)
<1>1. ASSUME NEW u \in Tasks PROVE Good(C, H, M[u])
  <2>1. M[u] \in Mind /\ Fits(M[u]) /\ Good(B, H, M[u]) /\ Calm(C, b, M[u])
    BY <1>1, Zenon DEF Inv
  <2>2. M[u].pc \in UsePCs \/ Taken(M[u]) => M[u].tmp \in Buffers
    BY <2>1, Zenon DEF Fits, Taken, Mind
  <2>3. CASE M[u].tmp = b
    BY <2>1, <2>2, <2>3, Zenon DEF Good, Calm
  <2>4. CASE M[u].tmp # b
    BY <2>1, <2>2, <2>4, Zenon DEF Good
  <2>. QED BY <2>3, <2>4
<1>2. Keyed(C)
  <2>. SUFFICES ASSUME NEW c \in Buffers, C[c].dirt \/ C[c].io # "idle" \/ c <= Len(Pinned)
                PROVE  C[c].key \in Blocks
    BY DEF Keyed
  <2>1. CASE c = b
    BY <2>1 DEF Inv, Keyed
  <2>2. CASE c # b
    BY <2>2 DEF Inv, Keyed
  <2>. QED BY <2>1, <2>2, Zenon
<1>. QED BY <1>1, <1>2, HeaderStep, Zenon

LEMMA SetIO ==
    ASSUME NEW h \in Header, NEW x \in {"idle", "READ", "WRITE", "TAKEN"}
    PROVE  /\ [h EXCEPT !.io = x] \in Header /\ [h EXCEPT !.io = x].io = x
           /\ [h EXCEPT !.io = x].key = h.key /\ [h EXCEPT !.io = x].count = h.count
           /\ [h EXCEPT !.io = x].dirt = h.dirt
BY DEF Header

LEMMA SetHeader ==
    ASSUME NEW B \in [Buffers -> Header], NEW b \in Buffers, NEW h \in Header,
           NEW C, C = [B EXCEPT ![b] = h]
    PROVE  C \in [Buffers -> Header] /\ C[b] = h /\ \A c \in Buffers \ {b} : C[c] = B[c]
OBVIOUS

(* ll_rw_block locks a buffer that no task has beyond its sync_dev.        *)
NobodyPast(M, b) ==
    \A u \in Tasks : Taken(M[u]) /\ M[u].tmp = b => M[u].pc # "insert" /\ ~(M[u].i > b)

Lock(B, b, x) == [B EXCEPT ![b].io = x]

LEMMA LockStep ==
    ASSUME NEW B, NEW H, NEW M, Inv(B, H, M), NEW b \in Buffers,
           NEW x \in {"READ", "WRITE"}, B[b].key \in Blocks,
           NobodyPast(M, b)
    PROVE  /\ Inv(Lock(B, b, x), H, M) /\ Lock(B, b, x)[b].io = x
           /\ \A c \in Buffers : Lock(B, b, x)[c].key = B[c].key
<1>. DEFINE h == [B[b] EXCEPT !.io = x]
            C == Lock(B, b, x)
<1>1. B \in [Buffers -> Header] /\ B[b] \in Header
  BY DEF Inv
<1>2. /\ h \in Header /\ h.io = x /\ h.key = B[b].key /\ h.count = B[b].count
      /\ h.dirt = B[b].dirt
  <2>1. x \in {"idle", "READ", "WRITE", "TAKEN"}
    OBVIOUS
  <2>. QED BY <1>1, <2>1, SetIO, ZenonT(30)
<1>3. C = [B EXCEPT ![b] = h]
  BY <1>1 DEF Lock
<1>. HIDE DEF h, C
<1>4. C \in [Buffers -> Header] /\ C[b] = h /\ \A c \in Buffers \ {b} : C[c] = B[c]
  BY <1>1, <1>2, <1>3, SetHeader
<1>5. \A c \in Buffers : C[c].key = B[c].key /\ C[c].count = B[c].count
  BY <1>2, <1>4, Zenon
<1>6. \A u \in Tasks : Calm(C, b, M[u])
  BY <1>2, <1>4 DEF Calm, NobodyPast
<1>7. \A c \in Buffers \ {b} : C[c].dirt = B[c].dirt /\ C[c].io = B[c].io
  BY <1>4
<1>8. C[b].key \in Blocks
  BY <1>5
<1>9. Inv(C, H, M)
  BY <1>4, <1>5, <1>6, <1>7, <1>8, OneHeader, Zenon
<1>. QED BY <1>2, <1>4, <1>5, <1>9 DEF C

(* A dirty buffer is locked and written; its task is not past it yet.       *)
LEMMA SyncWriteStep ==
    ASSUME Counting, IInv, NEW t \in Tasks, SyncWrite(t)
    PROVE  IInv'
<1>. DEFINE r == [me[t] EXCEPT !.pc = "writing"]
            b == me[t].i
<1>1. /\ me[t].pc = "syncwait" /\ me[t] \in Mind /\ Fits(me[t]) /\ Good(bh, hashed, me[t])
      /\ Inv(bh, hashed, me) /\ bh \in [Buffers -> Header]
      /\ bh[b].io = "idle" /\ UNCHANGED <<hashed, list, disk, hit>>
  BY Mine, Zenon DEF SyncWrite, Locked
<1>2. b \in Buffers
  BY <1>1 DEF Fits, SyncPCs, Buffers
<1>3. CASE ~(bh[b].dirt /\ bh[b].key \notin Bad)
  BY <1>1, <1>3, TurnStep, Zenon DEF SyncWrite, SyncPCs
<1>4. CASE bh[b].dirt /\ bh[b].key \notin Bad
  <2>1. bh' = [bh EXCEPT ![b].io = "WRITE"] /\ me' = [me EXCEPT ![t] = r] /\ cur' = NULL
    BY <1>4, Mine, Zenon DEF SyncWrite, StartIO
  <2>2. bh[b].key \in Blocks
    BY <1>1, <1>2, <1>4, ZenonT(30) DEF Inv, Keyed
  <2>3. NobodyPast(me, b)
    <3>1. \A u \in Tasks : Good(bh, hashed, me[u])
      BY Mine, Zenon
    <3>. QED BY <1>4, <3>1 DEF Good, NobodyPast
  <2>4. Inv(bh', hashed, me) /\ bh'[b].io = "WRITE" /\ \A c \in Buffers : bh'[c].key = bh[c].key
    <3>1. bh' = Lock(bh, b, "WRITE")
      BY <2>1 DEF Lock
    <3>. HIDE DEF b
    <3>. QED BY <1>1, <1>2, <2>2, <2>3, <3>1, LockStep, SMTT(30)
  <2>5. /\ r \in Mind /\ r.pc = "writing" /\ r.i = b /\ r.tmp = me[t].tmp
        /\ r.dev = me[t].dev /\ r.want = me[t].want
    BY <1>1 DEF Mind, SyncPCs
  <2>. HIDE DEF r
  <2>6. Taken(r) <=> Taken(me[t])
    BY <1>1, <2>5, Zenon DEF Taken, SyncPCs
  <2>7. Fits(r) /\ Ref(r) = Ref(me[t])
    BY <1>1, <2>5, <2>6, Zenon DEF Fits, Ref, HashPCs, ScanPCs, UsePCs, SyncPCs
  <2>8. Good(bh', hashed, me[t])
    BY <2>4, ZenonT(30) DEF Inv
  <2>9. Good(bh', hashed, r)
    BY <1>1, <2>4, <2>5, <2>6, <2>8, Zenon DEF Good, UsePCs, SyncPCs
  <2>10. Inv(bh', hashed, [me EXCEPT ![t] = r])
    BY <2>4, <2>5, <2>6, <2>7, <2>9, QuietStep, Zenon
  <2>. QED BY <1>1, <2>1, <2>10, Zenon DEF IInv, LInv, list
<1>. QED BY <1>3, <1>4
-----------------------------------------------------------------------------
(* Interrupts: a request goes on, or it ends and the buffer is clean.      *)
Put(B, b, h) == [B EXCEPT ![b] = h]

LEMMA PutStep ==
    ASSUME NEW B, NEW H, NEW M, Inv(B, H, M), NEW b \in Buffers, NEW h \in Header,
           h.key = B[b].key, h.count = B[b].count, h.key \in Blocks,
           (h.io # "idle" /\ B[b].io # "idle") \/ (h.io = "idle" /\ ~h.dirt)
    PROVE  Inv(Put(B, b, h), H, M)
<1>. DEFINE C == Put(B, b, h)
<1>1. B \in [Buffers -> Header]
  BY DEF Inv
<1>2. C = [B EXCEPT ![b] = h]
  BY DEF Put
<1>. HIDE DEF C
<1>3. C \in [Buffers -> Header] /\ C[b] = h /\ \A c \in Buffers \ {b} : C[c] = B[c]
  BY <1>1, <1>2, SetHeader, Zenon
<1>4. \A c \in Buffers : C[c].key = B[c].key /\ C[c].count = B[c].count
  BY <1>3
<1>5. \A c \in Buffers \ {b} : C[c].dirt = B[c].dirt /\ C[c].io = B[c].io
  BY <1>3, ZenonT(30)
<1>6. ASSUME NEW u \in Tasks PROVE Calm(C, b, M[u])
  <2>1. Good(B, H, M[u])
    BY Zenon DEF Inv
  <2>. QED BY <1>3, <2>1 DEF Good, Calm
<1>7. Inv(C, H, M)
  BY <1>3, <1>4, <1>5, <1>6, OneHeader, Zenon
<1>. QED BY <1>7 DEF C

(* The three steps of the disk interrupt.                                   *)
LEMMA InterruptStep ==
    ASSUME IInv, NEW b \in Buffers, Interrupt(b)
    PROVE  IInv'
<1>1. /\ bh[b] \in Header /\ bh \in [Buffers -> Header] /\ Inv(bh, hashed, me)
      /\ disk \in [Blocks -> BOOLEAN]
  BY DEF IInv, Inv, LInv
<1>2. bh[b].io # "idle" /\ bh[b].key \in Blocks
  BY <1>1 DEF Interrupt, Transfer, write_intr, read_intr, Inv, Keyed
<1>3. CASE Transfer(b)
  <2>. DEFINE h == [bh[b] EXCEPT !.io = "TAKEN", !.copy = bh[b].fresh]
  <2>1. bh' = Put(bh, b, h) /\ UNCHANGED <<hashed, list, disk, me, cur, hit>>
    BY <1>1, <1>3, Zenon DEF Transfer, Put
  <2>2. h \in Header /\ h.key = bh[b].key /\ h.count = bh[b].count /\ h.io = "TAKEN"
    BY <1>1, Zenon DEF Header
  <2>. HIDE DEF h
  <2>3. Inv(Put(bh, b, h), hashed, me)
    BY <1>1, <1>2, <2>2, PutStep, Zenon
  <2>. QED BY <2>1, <2>3 DEF IInv, LInv, list
<1>4. CASE write_intr(b)
  <2>. DEFINE h == [bh[b] EXCEPT !.io = "idle", !.uptodate = TRUE, !.dirt = FALSE, !.copy = FALSE]
  <2>1. /\ bh' = Put(bh, b, h) /\ UNCHANGED <<hashed, list, me, cur, hit>>
        /\ disk' = [disk EXCEPT ![bh[b].key] = bh[b].copy]
    BY <1>1, <1>4, Zenon DEF write_intr, Put
  <2>2. h \in Header /\ h.key = bh[b].key /\ h.count = bh[b].count /\ h.io = "idle" /\ ~h.dirt
    BY <1>1, Zenon DEF Header
  <2>3. disk' \in [Blocks -> BOOLEAN]
    <3>1. bh[b].copy \in BOOLEAN
      BY <1>1, Zenon DEF Header
    <3>. QED BY <1>1, <2>1, <3>1, Zenon
  <2>. HIDE DEF h
  <2>4. Inv(Put(bh, b, h), hashed, me)
    BY <1>1, <1>2, <2>2, PutStep, Zenon
  <2>. QED BY <2>1, <2>3, <2>4 DEF IInv, LInv, list
<1>5. CASE read_intr(b)
  <2>. DEFINE h == [bh[b] EXCEPT !.io = "idle", !.uptodate = TRUE, !.dirt = FALSE,
                                 !.fresh = disk[bh[b].key]]
  <2>1. /\ bh' = Put(bh, b, h) /\ UNCHANGED <<hashed, list, disk, me, cur>>
        /\ hit' \in {hit, hit \union {"unhashed"}}
    BY <1>1, <1>5, Zenon DEF read_intr, Put
  <2>2. disk[bh[b].key] \in BOOLEAN
    BY <1>1, <1>2
  <2>3. h \in Header /\ h.key = bh[b].key /\ h.count = bh[b].count /\ h.io = "idle" /\ ~h.dirt
    BY <1>1, <2>2, Zenon DEF Header
  <2>. HIDE DEF h
  <2>4. Inv(Put(bh, b, h), hashed, me)
    BY <1>1, <1>2, <2>3, PutStep
  <2>. QED BY <2>1, <2>4 DEF IInv, LInv, list
<1>. QED BY <1>3, <1>4, <1>5, Zenon DEF Interrupt

(* A task changes a block: its own, or one of the pinned.                  *)
LEMMA ChangeStep ==
    ASSUME IInv, NEW b \in Buffers, bh[b].key \in Blocks, Change(b),
           \A u \in Tasks : Taken(me[u]) => me[u].tmp # b,
           UNCHANGED <<hashed, list, me, cur>>
    PROVE  IInv'
<1>1. /\ bh \in [Buffers -> Header] /\ Inv(bh, hashed, me) /\ disk \in [Blocks -> BOOLEAN]
      /\ hit \subseteq {"unhashed", "rewritten"}
  BY Zenon DEF IInv, Inv, LInv
<1>2. bh' = [c \in Buffers |->
                IF c = b THEN [bh[c] EXCEPT !.dirt = TRUE, !.fresh = TRUE, !.copy = FALSE]
                ELSE IF bh[c].key = bh[b].key
                THEN [bh[c] EXCEPT !.fresh = FALSE, !.copy = FALSE] ELSE bh[c]]
  BY Zenon DEF Change
<1>3. ASSUME NEW h \in Header
      PROVE  /\ [h EXCEPT !.dirt = TRUE, !.fresh = TRUE, !.copy = FALSE] \in Header
             /\ [h EXCEPT !.dirt = TRUE, !.fresh = TRUE, !.copy = FALSE].key = h.key
             /\ [h EXCEPT !.dirt = TRUE, !.fresh = TRUE, !.copy = FALSE].count = h.count
             /\ [h EXCEPT !.fresh = FALSE, !.copy = FALSE] \in Header
             /\ [h EXCEPT !.fresh = FALSE, !.copy = FALSE].key = h.key
             /\ [h EXCEPT !.fresh = FALSE, !.copy = FALSE].count = h.count
             /\ [h EXCEPT !.fresh = FALSE, !.copy = FALSE].dirt = h.dirt
             /\ [h EXCEPT !.fresh = FALSE, !.copy = FALSE].io = h.io
  BY <1>3, Zenon DEF Header
<1>4. ASSUME NEW c \in Buffers
      PROVE  /\ bh'[c] \in Header /\ bh'[c].key = bh[c].key /\ bh'[c].count = bh[c].count
             /\ c # b => bh'[c].dirt = bh[c].dirt /\ bh'[c].io = bh[c].io
  <2>1. bh[c] \in Header
    BY <1>1
  <2>2. CASE c = b
    BY <1>2, <1>3, <2>1, <2>2, Zenon
  <2>3. CASE c # b /\ bh[c].key = bh[b].key
    BY <1>2, <1>3, <2>1, <2>3, Zenon
  <2>4. CASE c # b /\ bh[c].key # bh[b].key
    BY <1>2, <2>1, <2>4, Zenon
  <2>. QED BY <2>2, <2>3, <2>4
<1>5. bh' \in [Buffers -> Header]
  BY <1>2, <1>4, Zenon
<1>6. \A u \in Tasks : Calm(bh', b, me[u])
  BY DEF Calm
<1>7. bh'[b].key \in Blocks
  BY <1>4
<1>8. Inv(bh', hashed, me)
  <2>. DEFINE C == bh'
  <2>. HIDE DEF C
  <2>1. /\ C \in [Buffers -> Header] /\ C[b].key \in Blocks
        /\ \A u \in Tasks : Calm(C, b, me[u])
        /\ \A c \in Buffers : C[c].key = bh[c].key /\ C[c].count = bh[c].count
        /\ \A c \in Buffers \ {b} : C[c].dirt = bh[c].dirt /\ C[c].io = bh[c].io
    BY <1>4, <1>5, <1>6, <1>7, Zenon DEF C
  <2>2. Inv(C, hashed, me)
    BY <1>1, <2>1, OneHeader, Zenon
  <2>. QED BY <2>2, Zenon DEF C
<1>9. disk' \in [Blocks -> BOOLEAN] /\ hit' \subseteq {"unhashed", "rewritten"}
  BY <1>1, Zenon DEF Change
<1>. QED BY <1>8, <1>9 DEF IInv, LInv, list

LEMMA DirtiesStep ==
    ASSUME IInv, Dirties
    PROVE  IInv'
<1>1. ASSUME NEW t \in Tasks, Modify(t) PROVE IInv'
  <2>1. /\ me[t].pc = "use" /\ Fits(me[t]) /\ Good(bh, hashed, me[t]) /\ Inv(bh, hashed, me)
        /\ Change(me[t].tmp) /\ UNCHANGED <<hashed, list, me, cur>>
    BY <1>1, Mine, ZenonT(30) DEF Modify
  <2>2. me[t].tmp \in Buffers /\ bh[me[t].tmp].key \in Blocks /\ Ref(me[t]) = me[t].tmp
    BY <2>1, Zenon DEF Fits, Good, Ref, UsePCs
  <2>3. \A u \in Tasks : Taken(me[u]) => me[u].tmp # me[t].tmp
    BY <2>1, <2>2 DEF Inv, Alone, Taken, SyncPCs
  <2>. QED BY <2>1, <2>2, <2>3, ChangeStep
<1>2. ASSUME NEW b \in Buffers, ModifyPinned(b) PROVE IInv'
  <2>1. b <= Len(Pinned) /\ Change(b) /\ UNCHANGED <<hashed, list, me, cur>>
    BY <1>2, Constants, SMTT(30) DEF ModifyPinned, Buffers
  <2>2. bh[b].key \in Blocks
    BY <2>1 DEF IInv, Inv, Keyed
  <2>3. ASSUME NEW u \in Tasks, Taken(me[u]) PROVE me[u].tmp # b
    <3>1. Good(bh, hashed, me[u])
      BY Mine, Zenon
    <3>2. me[u].tmp > Len(Pinned)
      BY <2>3, <3>1, Zenon DEF Good
    <3>. QED BY <2>1, <3>2, Constants
  <2>. QED BY <2>1, <2>2, <2>3, ChangeStep
<1>. QED BY <1>1, <1>2, Zenon DEF Dirties
-----------------------------------------------------------------------------
(* b_count goes up or down.                                                *)
Counted(B, b, n) == [B EXCEPT ![b].count = n]

LEMMA CountedHeader ==
    ASSUME NEW B \in [Buffers -> Header], NEW b \in Buffers, NEW n \in Nat
    PROVE  /\ Counted(B, b, n) \in [Buffers -> Header] /\ Counted(B, b, n)[b].count = n
           /\ \A c \in Buffers : /\ Counted(B, b, n)[c].key = B[c].key
                                 /\ Counted(B, b, n)[c].io = B[c].io
                                 /\ Counted(B, b, n)[c].dirt = B[c].dirt
                                 /\ c # b => Counted(B, b, n)[c].count = B[c].count
<1>. DEFINE h == [B[b] EXCEPT !.count = n]
            C == Counted(B, b, n)
<1>1. B[b] \in Header
  OBVIOUS
<1>2. /\ h \in Header /\ h.count = n /\ h.key = B[b].key /\ h.io = B[b].io
      /\ h.dirt = B[b].dirt
  BY <1>1 DEF Header
<1>3. C = [B EXCEPT ![b] = h]
  BY DEF Counted
<1>. HIDE DEF h, C
<1>4. C \in [Buffers -> Header] /\ C[b] = h /\ \A c \in Buffers \ {b} : C[c] = B[c]
  BY <1>2, <1>3, SetHeader, Zenon
<1>5. ASSUME NEW c \in Buffers
      PROVE  /\ C[c].key = B[c].key /\ C[c].io = B[c].io /\ C[c].dirt = B[c].dirt
             /\ c # b => C[c].count = B[c].count
  <2>1. CASE c = b
    BY <1>2, <1>4, <2>1, Zenon
  <2>2. CASE c # b
    BY <1>4, <2>2, Zenon
  <2>. QED BY <2>1, <2>2
<1>. QED BY <1>2, <1>4, <1>5 DEF C

(* A buffer somebody refers to has a count.                                *)
LEMMA Referred ==
    ASSUME Counting, NEW B, NEW H, NEW M, Inv(B, H, M), NEW t \in Tasks, Ref(M[t]) \in Buffers
    PROVE  B[Ref(M[t])].count \in Nat /\ B[Ref(M[t])].count > 0
<1>. DEFINE b == Ref(M[t])
<1>1. Refs(Ptr(M), b) # 0
  BY RefsNone DEF Ptr
<1>2. Refs(Ptr(M), b) \in Nat
  BY RefsType
<1>3. B[b].count = Refs(Ptr(M), b) + IF b <= Len(Pinned) THEN 1 ELSE 0
  BY DEF Inv, Counts
<1>4. B[b].count \in Nat
  BY DEF Inv, Header
<1>. HIDE DEF b
<1>. QED BY <1>1, <1>2, <1>3, <1>4, SMTT(30) DEF b

(* brelse, wherever it is called.                                          *)
LEMMA ReleaseStep ==
    ASSUME Counting, IInv, NEW t \in Tasks, me[t].pc \in UsePCs, NEW r \in Mind,
           r.pc \in {"out", "hash"}, Fits(r), Release(t, r),
           UNCHANGED <<hashed, list, disk, hit>>, cur' \in {t, NULL, cur}
    PROVE  IInv'
<1>. DEFINE b == me[t].tmp
            n == bh[b].count - 1
            C == Counted(bh, b, n)
            L == Woken(t, r)
<1>1. /\ Inv(bh, hashed, me) /\ Fits(me[t]) /\ me[t] \in Mind /\ me \in [Tasks -> Mind]
      /\ bh \in [Buffers -> Header] /\ hashed \in SUBSET Buffers
  BY Mine, Zenon
<1>2. b \in Buffers /\ Ref(me[t]) = b /\ ~Taken(me[t])
  BY <1>1, Zenon DEF Fits, Ref, Taken, UsePCs, SyncPCs
<1>3. n \in Nat /\ bh[b].count \in Nat
  BY <1>1, <1>2, Referred
<1>4. bh' = C /\ me' = L
  BY Zenon DEF Release, Counted
<1>5. /\ ~Taken(r) /\ Ref(r) = NULL /\ Good(C, hashed, r)
  BY Zenon DEF Taken, Ref, Good, UsePCs, SyncPCs
<1>. HIDE DEF n, C
<1>6. /\ C \in [Buffers -> Header] /\ C[b].count = n
      /\ \A c \in Buffers : /\ C[c].key = bh[c].key /\ C[c].io = bh[c].io
                            /\ C[c].dirt = bh[c].dirt
                            /\ c # b => C[c].count = bh[c].count
  BY <1>1, <1>2, <1>3, CountedHeader, SMTT(30) DEF C
<1>7. ASSUME NEW u \in Tasks
      PROVE  L[u] \in Mind /\ (u # t => Same(me[u], L[u]))
  <2>1. me[u] \in Mind /\ Fits(me[u])
    BY Mine
  <2>2. u # t => Same(me[u], L[u])
    BY DEF Woken, Same
  <2>. QED BY <2>1, <2>2, SameMind, Zenon DEF Woken
<1>8. L \in [Tasks -> Mind] /\ L[t] = r
  BY <1>7, Zenon DEF Woken
<1>. HIDE DEF L
<1>9. ASSUME NEW u \in Tasks PROVE Good(C, hashed, me[u])
  <2>1. me[u] \in Mind /\ Fits(me[u]) /\ Good(bh, hashed, me[u])
    BY Mine, Zenon
  <2>2. me[u].pc \in UsePCs \/ Taken(me[u]) => me[u].tmp \in Buffers
    BY <2>1, Zenon DEF Fits, Taken, Mind
  <2>. QED BY <1>6, <2>1, <2>2, Zenon DEF Good
<1>10. \A u \in Tasks \ {t} : Taken(me[u]) => Ref(L[t]) # me[u].tmp
  BY <1>5, <1>8, Zenon DEF Taken
<1>11. ASSUME NEW c \in Buffers
       PROVE  C[c].count = bh[c].count - (IF Ref(me[t]) = c THEN 1 ELSE 0)
                                       + (IF Ref(L[t]) = c THEN 1 ELSE 0)
  <2>1. bh[c].count \in Nat /\ Ref(L[t]) # c
    BY <1>1, <1>5, <1>8, Constants, Zenon DEF Header
  <2>. QED BY <1>2, <1>3, <1>6, <2>1, SMTT(30) DEF n
<1>12. Unique(C, hashed) /\ Keyed(C)
  BY <1>1, <1>6, KeptKeyed, Zenon
<1>13. TaskMoves(bh, me, C, hashed, L, t)
  BY <1>1, <1>5, <1>6, <1>7, <1>8, <1>9, <1>10, <1>11, <1>12, Zenon DEF TaskMoves
<1>14. Inv(C, hashed, L)
  BY <1>1, <1>13, TaskStep, Zenon
<1>. QED BY <1>4, <1>14, Zenon DEF IInv, LInv, list

LEMMA IdleMind == Idle \in Mind /\ Idle.pc = "out" /\ Fits(Idle)
<1>1. Idle \in Mind /\ Idle.pc = "out" /\ Idle.tmp = NULL /\ Idle.dev = NULL
  BY Constants, SMTT(30) DEF Idle, Mind, Keys
<1>. QED BY <1>1, Zenon DEF Taken, Fits, HashPCs, ScanPCs, UsePCs, SyncPCs

LEMMA BrelseStep ==
    ASSUME Counting, IInv, NEW t \in Tasks, brelse(t)
    PROVE  IInv'
BY IdleMind, ReleaseStep DEF brelse, UsePCs

(* The user of a buffer goes on to another point of its call.              *)
LEMMA UserStep ==
    ASSUME Counting, NEW B, NEW H, NEW M, Inv(B, H, M), NEW t \in Tasks, M[t].pc \in UsePCs,
           NEW p \in UsePCs
    PROVE  Inv(B, H, [M EXCEPT ![t].pc = p])
<1>. DEFINE r == [M[t] EXCEPT !.pc = p]
<1>1. /\ M[t] \in Mind /\ Fits(M[t]) /\ Good(B, H, M[t])
      /\ [M EXCEPT ![t].pc = p] = [M EXCEPT ![t] = r]
  BY DEF Inv
<1>2. r \in Mind /\ r.pc = p /\ r.tmp = M[t].tmp /\ r.want = M[t].want /\ r.dev = M[t].dev
  BY <1>1, Zenon DEF Mind
<1>. HIDE DEF r
<1>3. ~Taken(r) /\ Fits(r) /\ Ref(r) = Ref(M[t]) /\ Good(B, H, r)
  BY <1>1, <1>2, Zenon DEF Taken, Fits, Ref, Good, HashPCs, ScanPCs, UsePCs, SyncPCs
<1>4. Inv(B, H, [M EXCEPT ![t] = r])
  BY <1>2, <1>3, QuietStep
<1>. QED BY <1>1, <1>4

(* The retry of get_hash_table is never taken.                              *)
LEMMA HashedStep ==
    ASSUME Counting, IInv, NEW t \in Tasks, Hashed(t)
    PROVE  IInv'
<1>1. /\ me[t].pc = "hashed" /\ "got" \in UsePCs /\ me[t].pc \in UsePCs
      /\ Good(bh, hashed, me[t]) /\ Inv(bh, hashed, me)
  BY Mine, Zenon DEF Hashed, UsePCs
<1>2. bh[me[t].tmp].key = me[t].want
  BY <1>1 DEF Good
<1>3. /\ me' = [me EXCEPT ![t].pc = "got"] /\ cur' = t
      /\ UNCHANGED <<bh, hashed, list, disk, hit>>
  BY <1>2 DEF Hashed
<1>4. Inv(bh, hashed, [me EXCEPT ![t].pc = "got"])
  BY <1>1, UserStep
<1>. QED BY <1>3, <1>4 DEF IInv, LInv, list

LEMMA ReadStep ==
    ASSUME Counting, IInv, NEW t \in Tasks, Read(t)
    PROVE  IInv'
<1>1. /\ me[t].pc \in UsePCs /\ "use" \in UsePCs /\ Inv(bh, hashed, me)
      /\ cur' = NULL /\ UNCHANGED <<hashed, list, disk, hit>>
  BY Mine DEF Read, UsePCs
<1>2. CASE bh[me[t].tmp].uptodate
  <2>1. me' = [me EXCEPT ![t].pc = "use"] /\ UNCHANGED bh
    BY <1>2 DEF Read
  <2>2. Inv(bh, hashed, [me EXCEPT ![t].pc = "use"])
    BY <1>1, UserStep, Zenon
  <2>. QED BY <1>1, <2>1, <2>2 DEF IInv, LInv, list
<1>3. CASE ~bh[me[t].tmp].uptodate
  <2>1. Release(t, Idle)
    BY <1>3 DEF Read
  <2>. QED BY <1>1, <2>1, IdleMind, ReleaseStep, Zenon
<1>. QED BY <1>2, <1>3

LEMMA GotStep ==
    ASSUME Counting, IInv, NEW t \in Tasks, Got(t)
    PROVE  IInv'
<1>. DEFINE b == me[t].tmp
<1>1. /\ me[t].pc \in UsePCs /\ "use" \in UsePCs /\ "reading" \in UsePCs
      /\ Inv(bh, hashed, me) /\ Good(bh, hashed, me[t]) /\ Fits(me[t])
      /\ cur' = NULL /\ UNCHANGED <<hashed, list, disk, hit>>
  BY Mine DEF Got, UsePCs
<1>2. CASE me' = [me EXCEPT ![t].pc = "use"] /\ UNCHANGED bh
  <2>2. Inv(bh, hashed, [me EXCEPT ![t].pc = "use"])
    BY <1>1, UserStep
  <2>. QED BY <1>1, <1>2, <2>2 DEF IInv, LInv, list
<1>3. CASE StartIO(b, "READ") /\ me' = [me EXCEPT ![t].pc = "reading"]
  <2>1. b \in Buffers /\ bh[b].key \in Blocks /\ Ref(me[t]) = b /\ ~Taken(me[t])
    BY <1>1, ZenonT(60) DEF Good, Fits, Ref, Taken, UsePCs, SyncPCs
  <2>2. NobodyPast(me, b)
    BY <1>1, <2>1, Zenon DEF Inv, Alone, NobodyPast
  <2>3. Inv(Lock(bh, b, "READ"), hashed, me)
    BY <1>1, <2>1, <2>2, LockStep, ZenonT(30)
  <2>4. Inv(Lock(bh, b, "READ"), hashed, [me EXCEPT ![t].pc = "reading"])
    BY <1>1, <2>3, UserStep
  <2>5. bh' = Lock(bh, b, "READ")
    BY <1>3, Zenon DEF StartIO, Lock
  <2>. QED BY <1>1, <1>3, <2>4, <2>5, ZenonT(30) DEF IInv, LInv, list
<1>4. CASE Release(t, Idle)
  BY <1>1, <1>4, IdleMind, ReleaseStep, Zenon
<1>. QED BY <1>2, <1>3, <1>4, Zenon DEF Got
-----------------------------------------------------------------------------
(* get_hash_table finds the buffer, which no task has taken.                *)
LEMMA HashStep ==
    ASSUME Counting, IInv, NEW t \in Tasks, get_hash_table(t)
    PROVE  IInv'
<1>1. /\ Inv(bh, hashed, me) /\ Fits(me[t]) /\ me[t] \in Mind /\ me \in [Tasks -> Mind]
      /\ bh \in [Buffers -> Header] /\ hashed \in SUBSET Buffers
      /\ me[t].pc = "hash" /\ UNCHANGED <<hashed, list, disk, hit>>
  BY Mine DEF get_hash_table
<1>2. Ref(me[t]) = NULL /\ ~Taken(me[t]) /\ me[t].want \in Blocks
  BY <1>1 DEF Ref, Taken, Fits, HashPCs, UsePCs, SyncPCs
<1>3. ASSUME NEW b \in find_buffer(me[t].want),
             bh' = [bh EXCEPT ![b].count = @ + 1],
             me' = [me EXCEPT ![t].pc = "hashed", ![t].tmp = b],
             wait_on_buffer(t, b)
      PROVE  IInv'
  <2>. DEFINE n == bh[b].count + 1
              C == Counted(bh, b, n)
              r == [me[t] EXCEPT !.pc = "hashed", !.tmp = b]
              L == [me EXCEPT ![t] = r]
  <2>1. b \in Buffers /\ b \in hashed /\ bh[b].key = me[t].want
    BY <1>1 DEF find_buffer
  <2>2. bh[b].count \in Nat /\ n \in Nat
    BY <1>1, <2>1 DEF Header
  <2>3. bh' = C /\ me' = L /\ cur' \in {t, NULL}
    BY <1>1, <1>3, Zenon DEF Counted, wait_on_buffer
  <2>4. r \in Mind /\ r.pc = "hashed" /\ r.tmp = b /\ r.want = me[t].want /\ r.dev = me[t].dev
    BY <1>1, <2>1, Zenon DEF Mind, UsePCs
  <2>. HIDE DEF n, C, r
  <2>5. /\ C \in [Buffers -> Header] /\ C[b].count = n
        /\ \A c \in Buffers : /\ C[c].key = bh[c].key /\ C[c].io = bh[c].io
                              /\ C[c].dirt = bh[c].dirt
                              /\ c # b => C[c].count = bh[c].count
    BY <1>1, <2>1, <2>2, CountedHeader DEF C
  <2>6. L \in [Tasks -> Mind] /\ L[t] = r /\ \A u \in Tasks \ {t} : Same(me[u], L[u])
    BY <1>1, <2>4 DEF Same
  <2>. HIDE DEF L
  <2>7. ~Taken(r) /\ Ref(r) = b /\ Fits(r) /\ Good(C, hashed, r)
    BY <1>1, <1>2, <2>1, <2>4, <2>5, ZenonT(30)
       DEF Taken, Ref, Fits, Good, HashPCs, ScanPCs, UsePCs, SyncPCs
  <2>8. ASSUME NEW u \in Tasks
        PROVE  Good(C, hashed, me[u]) /\ (Taken(me[u]) => me[u].tmp # b)
    <3>1. me[u] \in Mind /\ Fits(me[u]) /\ Good(bh, hashed, me[u])
      BY Mine, Zenon
    <3>2. me[u].pc \in UsePCs \/ Taken(me[u]) => me[u].tmp \in Buffers
      BY <3>1 DEF Fits, Taken, Mind
    <3>. QED BY <2>1, <2>5, <3>1, <3>2, Zenon DEF Good
  <2>9. ASSUME NEW c \in Buffers
        PROVE  C[c].count = bh[c].count - (IF Ref(me[t]) = c THEN 1 ELSE 0)
                                        + (IF Ref(L[t]) = c THEN 1 ELSE 0)
    <3>1. bh[c].count \in Nat /\ Ref(me[t]) # c
      BY <1>1, <1>2, Constants, Zenon DEF Header
    <3>. QED BY <2>2, <2>5, <2>6, <2>7, <3>1, SMTT(30) DEF n
  <2>10. Unique(C, hashed) /\ Keyed(C)
    BY <1>1, <2>5, KeptKeyed, Zenon
  <2>11. TaskMoves(bh, me, C, hashed, L, t)
    BY <1>1, <2>5, <2>6, <2>7, <2>8, <2>9, <2>10, Zenon DEF TaskMoves
  <2>12. Inv(C, hashed, L)
    BY <1>1, <2>11, TaskStep, Zenon
  <2>. QED BY <1>1, <2>3, <2>12, Zenon DEF IInv, LInv, list
<1>4. ASSUME me' = [me EXCEPT ![t].pc = "scan", ![t].tmp = free_list], cur' = t, UNCHANGED bh
      PROVE  IInv'
  <2>. DEFINE r == [me[t] EXCEPT !.pc = "scan", !.tmp = free_list]
  <2>1. free_list \in Buffers
    BY DEF IInv, LInv
  <2>2. me' = [me EXCEPT ![t] = r]
    BY <1>1, <1>4, Zenon
  <2>3. /\ r \in Mind /\ r.pc = "scan" /\ r.tmp = free_list /\ r.want = me[t].want
        /\ r.dev = me[t].dev
    BY <1>1, <2>1, Zenon DEF Mind, ScanPCs
  <2>. HIDE DEF r
  <2>4. ~Taken(r) /\ Ref(r) = Ref(me[t]) /\ Fits(r) /\ Good(bh, hashed, r)
    BY <1>1, <1>2, <2>1, <2>3
       DEF Taken, Ref, Fits, Good, HashPCs, ScanPCs, UsePCs, SyncPCs
  <2>5. Inv(bh, hashed, [me EXCEPT ![t] = r])
    BY <1>1, <2>3, <2>4, QuietStep, Zenon
  <2>. QED BY <1>1, <1>4, <2>2, <2>5, Zenon DEF IInv, LInv, list
<1>. QED BY <1>3, <1>4 DEF get_hash_table

(* getblk takes a buffer that is still unused after the wait.              *)
LEMMA TakesStep ==
    ASSUME Counting, IInv, NEW t \in Tasks, me[t].pc = "scanned", ~Locked(me[t].tmp),
           bh[me[t].tmp].count = 0, Takes(t), UNCHANGED <<disk, hit>>
    PROVE  IInv'
<1>. DEFINE b == me[t].tmp
            C == Counted(bh, b, 1)
            G == hashed \ {b}
            r == IF bh[b].dirt
                 THEN [me[t] EXCEPT !.pc = "sync", !.i = 1, !.dev = Dev[bh[b].key]]
                 ELSE [me[t] EXCEPT !.pc = "insert"]
            L == [me EXCEPT ![t] = r]
<1>1. /\ Inv(bh, hashed, me) /\ Fits(me[t]) /\ me[t] \in Mind /\ me \in [Tasks -> Mind]
      /\ bh \in [Buffers -> Header] /\ hashed \in SUBSET Buffers
  BY Mine
<1>2. /\ Ref(me[t]) = NULL /\ ~Taken(me[t]) /\ me[t].want \in Blocks /\ b \in Buffers
      /\ me[t].dev = NULL /\ bh[b].io = "idle"
  BY <1>1 DEF Ref, Taken, Fits, ScanPCs, UsePCs, SyncPCs, Locked
<1>3. bh' = C /\ hashed' = G /\ me' = L /\ cur' = t
  <2>1. bh' = C
    BY DEF Takes, Counted
  <2>2. bh[b].dirt => me' = L
    BY <1>1, Zenon DEF Takes
  <2>3. ~bh[b].dirt => me' = L
    BY <1>1 DEF Takes
  <2>. QED BY <2>1, <2>2, <2>3, Zenon DEF Takes, remove_from_queues
<1>4. LInv'
  <2>1. /\ free_list \in Buffers /\ next_free \in [Buffers -> Buffers]
        /\ prev_free \in [Buffers -> Buffers] /\ disk \in [Blocks -> BOOLEAN]
        /\ hit \subseteq {"unhashed", "rewritten"}
    BY Zenon DEF IInv, LInv
  <2>2. /\ next_free' = [next_free EXCEPT ![prev_free[b]] = next_free[b]]
        /\ prev_free' = [prev_free EXCEPT ![next_free[b]] = prev_free[b]]
        /\ free_list' \in {free_list, next_free[b]}
    BY DEF Takes, remove_from_queues
  <2>3. next_free[b] \in Buffers /\ prev_free[b] \in Buffers
    BY <1>2, <2>1, Zenon
  <2>4. /\ free_list' \in Buffers /\ next_free' \in [Buffers -> Buffers]
        /\ prev_free' \in [Buffers -> Buffers]
    BY <2>1, <2>2, <2>3, Zenon
  <2>. QED BY <1>3, <2>1, <2>4, Zenon DEF LInv
<1>5. (\A u \in Tasks : Ref(me[u]) # b) /\ b > Len(Pinned)
  <2>1. bh[b].count = Refs(Ptr(me), b) + IF b <= Len(Pinned) THEN 1 ELSE 0
    BY <1>1, <1>2 DEF Inv, Counts
  <2>2. Refs(Ptr(me), b) \in Nat /\ b \in Nat /\ Len(Pinned) \in Nat
    BY <1>2, RefsType, Constants, Zenon
  <2>3. Refs(Ptr(me), b) = 0 /\ ~(b <= Len(Pinned))
    BY <2>1, <2>2
  <2>4. \A u \in Tasks : Ptr(me)[u] # b
    BY <2>3, RefsNone
  <2>. QED BY <2>2, <2>3, <2>4, SMTT(30) DEF Ptr
<1>6. bh[b].dirt => bh[b].key \in Blocks /\ Dev[bh[b].key] # NULL
  BY <1>1, <1>2, Constants, ZenonT(30) DEF Inv, Keyed
<1>7. /\ r \in Mind /\ r.tmp = b /\ r.want = me[t].want
      /\ \/ bh[b].dirt /\ r.pc = "sync" /\ r.i = 1 /\ r.dev = Dev[bh[b].key]
         \/ ~bh[b].dirt /\ r.pc = "insert" /\ r.dev = NULL
  <2>1. 1 \in 0..N
    BY Constants, SMTT(30)
  <2>2. CASE bh[b].dirt
    BY <1>1, <1>2, <1>6, <2>1, <2>2, Zenon DEF Mind, SyncPCs
  <2>3. CASE ~bh[b].dirt
    BY <1>1, <1>2, <2>3, Zenon DEF Mind
  <2>. QED BY <2>2, <2>3, Zenon
<1>. HIDE DEF C, r
<1>8. /\ C \in [Buffers -> Header] /\ C[b].count = 1
      /\ \A c \in Buffers : /\ C[c].key = bh[c].key /\ C[c].io = bh[c].io
                            /\ C[c].dirt = bh[c].dirt
                            /\ c # b => C[c].count = bh[c].count
  BY <1>1, <1>2, CountedHeader DEF C
<1>9. L \in [Tasks -> Mind] /\ L[t] = r /\ \A u \in Tasks \ {t} : Same(me[u], L[u])
  BY <1>1, <1>7, Zenon DEF Same
<1>. HIDE DEF L
<1>10. Taken(r) /\ Ref(r) = b /\ b # NULL
  BY <1>2, <1>7, Constants DEF Taken, Ref, SyncPCs
<1>11. Fits(r)
  <2>1. r.pc \in SyncPCs => r.i \in 1..N
    BY <1>7, Constants, SMTT(30) DEF SyncPCs
  <2>. QED BY <1>2, <1>6, <1>7, <1>10, <2>1, Zenon DEF Fits, HashPCs, ScanPCs, UsePCs, SyncPCs
<1>12. Good(C, G, r)
  <2>1. r.pc = "sync" => ~(r.i > r.tmp)
    BY <1>2, <1>7, SMTT(30) DEF Buffers
  <2>. QED BY <1>2, <1>5, <1>6, <1>7, <1>8, <2>1, Zenon DEF Good, UsePCs, SyncPCs
<1>13. ASSUME NEW u \in Tasks
       PROVE  Good(C, G, me[u]) /\ (Taken(me[u]) => me[u].tmp # b)
  <2>1. me[u] \in Mind /\ Fits(me[u]) /\ Good(bh, hashed, me[u]) /\ Ref(me[u]) # b
    BY <1>5, Mine, Zenon
  <2>2. me[u].pc \in UsePCs \/ Taken(me[u]) => me[u].tmp \in Buffers /\ me[u].tmp # b
    BY <2>1 DEF Fits, Taken, Mind, Ref
  <2>. QED BY <1>8, <2>1, <2>2, ZenonT(60) DEF Good
<1>14. ASSUME NEW c \in Buffers
       PROVE  C[c].count = bh[c].count - (IF Ref(me[t]) = c THEN 1 ELSE 0)
                                       + (IF Ref(L[t]) = c THEN 1 ELSE 0)
  <2>1. bh[c].count \in Nat /\ Ref(me[t]) # c
    BY <1>1, <1>2, Constants, Zenon DEF Header
  <2>. QED BY <1>8, <1>9, <1>10, <2>1, SMTT(30)
<1>15. Unique(C, G) /\ Keyed(C) /\ G \in SUBSET Buffers
  <2>1. G \in SUBSET hashed /\ G \in SUBSET Buffers
    BY <1>1, Zenon DEF G
  <2>. QED BY <1>1, <1>8, <2>1, KeptKeyed, Zenon
<1>. HIDE DEF G
<1>16. TaskMoves(bh, me, C, G, L, t)
  BY <1>1, <1>5, <1>8, <1>9, <1>7, <1>10, <1>11, <1>12, <1>13, <1>14, <1>15, Zenon DEF TaskMoves
<1>17. Inv(C, G, L)
  BY <1>1, <1>16, TaskStep, Zenon
<1>. QED BY <1>3, <1>4, <1>17, Zenon DEF IInv

LEMMA ScannedStep ==
    ASSUME Counting, IInv, NEW t \in Tasks, Scanned(t)
    PROVE  IInv'
<1>1. CASE bh[me[t].tmp].count = 0
  BY <1>1, TakesStep DEF Scanned
<1>2. CASE bh[me[t].tmp].count # 0
  BY <1>2, AdvanceStep DEF Scanned, ScanPCs
<1>. QED BY <1>1, <1>2, Zenon
-----------------------------------------------------------------------------
(* The end of getblk: its buffer is clean, idle and nobody else's.          *)
LEMMA QueueTypes ==
    ASSUME LInv, NEW b \in Buffers, NEW k, insert_into_queues(b, k), cur' \in Tasks,
           UNCHANGED <<disk, hit>>
    PROVE  LInv'
<1>1. /\ free_list \in Buffers /\ next_free \in [Buffers -> Buffers]
      /\ prev_free \in [Buffers -> Buffers]
  BY DEF LInv
<1>2. prev_free[free_list] \in Buffers
  BY <1>1
<1>3. next_free' \in [Buffers -> Buffers] /\ prev_free' \in [Buffers -> Buffers]
  BY <1>1, <1>2 DEF insert_into_queues
<1>. QED BY <1>3 DEF LInv, insert_into_queues

(* Beaten or not, getblk ends with the invariant.                           *)
LEMMA InsertStep ==
    ASSUME Counting, IInv, NEW t \in Tasks, Insert(t)
    PROVE  IInv'
<1>. DEFINE b == me[t].tmp
            k == me[t].want
            z == [bh[b] EXCEPT !.key = NULL, !.count = 0, !.dirt = FALSE,
                               !.uptodate = FALSE, !.fresh = FALSE]
            h == [bh[b] EXCEPT !.key = k, !.dirt = FALSE,
                               !.uptodate = FALSE, !.fresh = FALSE]
            r == [me[t] EXCEPT !.pc = "hash", !.tmp = NULL]
            s == [me[t] EXCEPT !.pc = "got"]
<1>1. /\ Inv(bh, hashed, me) /\ Fits(me[t]) /\ me[t] \in Mind /\ me \in [Tasks -> Mind]
      /\ Good(bh, hashed, me[t])
      /\ bh \in [Buffers -> Header] /\ hashed \in SUBSET Buffers /\ LInv
      /\ me[t].pc = "insert" /\ cur' = t /\ UNCHANGED <<disk, hit>>
  BY Mine DEF Insert, IInv
<1>2. /\ b \in Buffers /\ b # NULL /\ Taken(me[t]) /\ Ref(me[t]) = b /\ k \in Blocks
      /\ me[t].dev = NULL
  BY <1>1, Constants, Zenon DEF Ref, Taken, Fits, SyncPCs
<1>3. b \notin hashed /\ b > Len(Pinned) /\ bh[b].io = "idle"
  BY <1>1, <1>2, Zenon DEF Good
<1>4. \A u \in Tasks \ {t} : Ref(me[u]) # b
  BY <1>1, <1>2 DEF Inv, Alone
<1>5. bh[b].count = 1
  <2>1. OnlyAt(t, Ptr(me), [Ptr(me) EXCEPT ![t] = NULL])
    BY DEF OnlyAt, Ptr
  <2>2. Ptr(me)[t] = b /\ [Ptr(me) EXCEPT ![t] = NULL][t] = NULL
    BY <1>2 DEF Ptr
  <2>3. \A u \in Tasks : [Ptr(me) EXCEPT ![t] = NULL][u] # b
    BY <1>2, <1>4 DEF Ptr
  <2>4. Refs([Ptr(me) EXCEPT ![t] = NULL], b) = 0
    BY <2>3, RefsNone, Zenon
  <2>5. 0 = Refs(Ptr(me), b) - 1 + 0
    BY <1>2, <2>1, <2>2, <2>4, RefsMove, SMTT(30)
  <2>6. bh[b].count = Refs(Ptr(me), b) + IF b <= Len(Pinned) THEN 1 ELSE 0
    BY <1>1, <1>2 DEF Inv, Counts
  <2>7. Refs(Ptr(me), b) \in Nat /\ b \in Nat /\ Len(Pinned) \in Nat
    BY <1>2, RefsType, Constants, Zenon
  <2>8. ~(b <= Len(Pinned))
    BY <1>3, <2>7
  <2>. DEFINE R == Refs(Ptr(me), b)
  <2>9. R \in Nat /\ 0 = R - 1 + 0 /\ bh[b].count = R + 0
    BY <2>5, <2>6, <2>7, <2>8
  <2>. HIDE DEF R
  <2>. QED BY <2>9
<1>6. ASSUME NEW g \in Header, g.io = "idle", ~g.dirt,
             NEW G, G \in {hashed, hashed \union {b}},
             NEW q \in Mind, ~Taken(q), Fits(q), Ref(q) \in {NULL, b},
             g.count = (IF Ref(q) = b THEN 1 ELSE 0),
             Good(Put(bh, b, g), G, q),
             b \in G => \A c \in hashed : bh[c].key # g.key
      PROVE  Inv(Put(bh, b, g), G, [me EXCEPT ![t] = q])
  <2>. DEFINE C == Put(bh, b, g)
              L == [me EXCEPT ![t] = q]
  <2>1. C = [bh EXCEPT ![b] = g]
    BY DEF Put
  <2>. HIDE DEF C
  <2>2. C \in [Buffers -> Header] /\ C[b] = g /\ \A c \in Buffers \ {b} : C[c] = bh[c]
    BY <1>1, <1>2, <2>1, SetHeader, Zenon
  <2>3. L \in [Tasks -> Mind] /\ L[t] = q /\ \A u \in Tasks \ {t} : Same(me[u], L[u])
    BY <1>1, <1>6 DEF Same
  <2>. HIDE DEF L
  <2>4. ASSUME NEW u \in Tasks \ {t}
        PROVE  Good(C, G, me[u]) /\ (Taken(me[u]) => Ref(L[t]) # me[u].tmp)
    <3>1. me[u] \in Mind /\ Fits(me[u]) /\ Good(bh, hashed, me[u]) /\ Ref(me[u]) # b
      BY <1>4, Mine, Zenon
    <3>2. me[u].pc \in UsePCs \/ Taken(me[u]) => me[u].tmp \in Buffers /\ me[u].tmp # b
      BY <3>1 DEF Fits, Taken, Mind, Ref
    <3>3. Taken(me[u]) => Ref(L[t]) # me[u].tmp
      BY <1>6, <2>3, <3>2, Zenon DEF Taken
    <3>4. Good(C, G, me[u])
      BY <1>6, <2>2, <3>1, <3>2, Zenon DEF Good
    <3>. QED BY <3>3, <3>4
  <2>5. ASSUME NEW c \in Buffers
        PROVE  C[c].count = bh[c].count - (IF Ref(me[t]) = c THEN 1 ELSE 0)
                                        + (IF Ref(L[t]) = c THEN 1 ELSE 0)
    <3>1. bh[c].count \in Nat /\ c # NULL
      BY <1>1, Constants, Zenon DEF Header
    <3>2. CASE c = b
      BY <1>2, <1>5, <1>6, <2>2, <2>3, <3>2, SMTT(30)
    <3>3. CASE c # b
      BY <1>2, <1>6, <2>2, <2>3, <3>1, <3>3, SMTT(30)
    <3>. QED BY <3>2, <3>3
  <2>6. Unique(C, G)
    <3>1. Unique(bh, hashed)
      BY <1>1 DEF Inv
    <3>. QED BY <1>1, <1>3, <1>6, <2>2, <3>1, SMTT(30) DEF Unique
  <2>7. Keyed(C)
    <3>. SUFFICES ASSUME NEW c \in Buffers, C[c].dirt \/ C[c].io # "idle" \/ c <= Len(Pinned)
                  PROVE  C[c].key \in Blocks
      BY Zenon DEF Keyed
    <3>1. c # b
      BY <1>2, <1>3, <1>6, <2>2, Constants, SMTT(30)
    <3>. QED BY <1>1, <2>2, <3>1 DEF Inv, Keyed
  <2>8. G \in SUBSET Buffers /\ Good(C, G, L[t]) /\ Fits(L[t]) /\ ~Taken(L[t])
    BY <1>1, <1>2, <1>6, <2>3, Zenon DEF C
  <2>9. TaskMoves(bh, me, C, G, L, t)
    BY <1>1, <2>2, <2>3, <2>4, <2>5, <2>6, <2>7, <2>8, Zenon DEF TaskMoves
  <2>10. Inv(C, G, L)
    BY <1>1, <2>9, TaskStep, Zenon
  <2>. QED BY <2>10 DEF C, L
<1>7. CASE Beaten(t, b)
  <2>1. /\ bh' = Put(bh, b, z) /\ hashed' = hashed /\ me' = [me EXCEPT ![t] = r]
        /\ insert_into_queues(b, NULL)
    BY <1>1, <1>7, Zenon DEF Beaten, Put, insert_into_queues
  <2>2. bh[b] \in Header
    BY <1>1, <1>2
  <2>3. z \in Header /\ z.io = "idle" /\ z.dirt = FALSE /\ z.count = 0
    BY <1>3, <2>2, Zenon DEF Header, Keys
  <2>4. r \in Mind /\ r.pc = "hash" /\ r.tmp = NULL /\ r.want = k /\ r.dev = NULL
    BY <1>1, <1>2, Zenon DEF Mind, HashPCs
  <2>. HIDE DEF z, r
  <2>5. ~Taken(r) /\ Ref(r) = NULL /\ Fits(r) /\ Good(Put(bh, b, z), hashed, r)
    BY <1>2, <2>4, Zenon DEF Taken, Ref, Fits, Good, HashPCs, ScanPCs, UsePCs, SyncPCs
  <2>6. Inv(Put(bh, b, z), hashed, [me EXCEPT ![t] = r])
    BY <1>2, <1>3, <1>6, <2>3, <2>4, <2>5, Zenon
  <2>7. LInv'
    BY <1>1, <1>2, <2>1, QueueTypes, Zenon
  <2>. QED BY <2>1, <2>6, <2>7, Zenon DEF IInv
<1>8. CASE find_buffer(k) = {} /\ Settles(t, b, k)
  <2>1. /\ bh' = Put(bh, b, h) /\ hashed' = hashed \union {b} /\ me' = [me EXCEPT ![t] = s]
        /\ insert_into_queues(b, k)
    BY <1>1, <1>2, <1>8, Constants, Zenon DEF Settles, Put, insert_into_queues
  <2>2. bh[b] \in Header
    BY <1>1, <1>2
  <2>3. h \in Header /\ h.io = "idle" /\ h.dirt = FALSE /\ h.count = 1 /\ h.key = k
    BY <1>2, <1>3, <1>5, <2>2, Zenon DEF Header, Keys
  <2>4. s \in Mind /\ s.pc = "got" /\ s.tmp = b /\ s.want = k /\ s.dev = NULL
    BY <1>1, <1>2 DEF Mind, UsePCs
  <2>5. \A c \in hashed : bh[c].key # k
    BY <1>8 DEF find_buffer
  <2>. HIDE DEF h, s
  <2>6. Put(bh, b, h)[b] = h
    BY <1>1, <1>2, Zenon DEF Put
  <2>7. ~Taken(s) /\ Ref(s) = b /\ Fits(s) /\ Good(Put(bh, b, h), hashed \union {b}, s)
    BY <1>2, <2>3, <2>4, <2>6, Zenon DEF Taken, Ref, Fits, Good, HashPCs, ScanPCs, UsePCs, SyncPCs
  <2>8. Inv(Put(bh, b, h), hashed \union {b}, [me EXCEPT ![t] = s])
    BY <1>6, <2>3, <2>4, <2>5, <2>7, Zenon
  <2>9. LInv'
    BY <1>1, <1>2, <2>1, QueueTypes, Zenon
  <2>. QED BY <2>1, <2>8, <2>9, Zenon DEF IInv
<1>. QED BY <1>7, <1>8 DEF Insert
-----------------------------------------------------------------------------
(* Every step keeps the invariant.                                          *)
LEMMA Next_IInv ==
    ASSUME Counting, IInv, [Next]_vars
    PROVE  IInv'
<1>1. ASSUME NEW t \in Tasks, Call(t) PROVE IInv'
  BY <1>1, BreadStep, SyncCallStep DEF Call
<1>2. ASSUME NEW t \in Tasks, Goes(t) PROVE IInv'
  BY <1>2, HashStep, HashedStep, ScanStep, ScannedStep, SyncStep, SyncWriteStep,
     WrittenStep, InsertStep, GotStep, ReadStep, Zenon DEF Goes
<1>3. CASE UNCHANGED vars
  BY <1>3 DEF vars, list, IInv, LInv
<1>. QED BY <1>1, <1>2, <1>3, BrelseStep, DirtiesStep, InterruptStep, Zenon DEF Next

-----------------------------------------------------------------------------
(* Two headers that differ in the count only.                              *)
SameContent(g, h) ==
    /\ g.key = h.key /\ g.uptodate = h.uptodate /\ g.fresh = h.fresh
    /\ g.dirt = h.dirt /\ g.copy = h.copy /\ g.io = h.io

(* One buffer b with header h: a block is read only into the buffer of the *)
(* hash queues, what is written is dirty, a dirty buffer has the newest    *)
(* contents and the disk has not, and what the hash queues hold is newest. *)
Sound(H, D, b, h) ==
    /\ h.io = "READ" => b \in H /\ ~h.uptodate
    /\ h.io \in {"WRITE", "TAKEN"} => h.dirt
    /\ h.io = "TAKEN" => h.copy
    /\ h.dirt => h.uptodate /\ h.fresh /\ ~D[h.key]
    /\ b \in H /\ h.uptodate => h.fresh
    /\ h.uptodate => h.key \in Blocks
    /\ b <= Len(Pinned) => b \in H /\ h.uptodate
    /\ h.key \in Bad => ~h.uptodate /\ h.io = "idle"

(* A dirty buffer is the only good one of its block: the others are clean, *)
(* and not in the hash queues with data.                                   *)
OneDirty(B, H) ==
    \A b, c \in Buffers :
        b # c /\ B[b].key = B[c].key /\ B[c].dirt => ~B[b].dirt /\ ~(b \in H /\ B[b].uptodate)

(* Where the disk is behind, a dirty buffer has the block.                 *)
Behind(B, D) ==
    \A k \in Blocks : ~D[k] => \E c \in Buffers : B[c].key = k /\ B[c].dirt

Fresh(B, H, D) ==
    /\ \A b \in Buffers : Sound(H, D, b, B[b])
    /\ OneDirty(B, H)
    /\ Behind(B, D)

(* Who uses a buffer has waited until it had data.                         *)
Used(B, M) == \A t \in Tasks : M[t].pc = "use" => B[M[t].tmp].uptodate

(* The invariant behind NoStaleUse and DirtyKept.                          *)
FInv == hit = {} => Fresh(bh, hashed, disk) /\ Used(bh, me)

(* Counts say nothing about contents.                                      *)
LEMMA KeepFresh ==
    ASSUME NEW B, NEW H, NEW D, Fresh(B, H, D), NEW C,
           \A b \in Buffers : SameContent(B[b], C[b])
    PROVE  Fresh(C, H, D)
<1>1. \A b \in Buffers : Sound(H, D, b, C[b])
  BY ZenonT(60) DEF Fresh, Sound, SameContent
<1>2. OneDirty(C, H)
  BY DEF Fresh, OneDirty, SameContent
<1>3. Behind(C, D)
  BY DEF Fresh, Behind, SameContent
<1>. QED BY <1>1, <1>2, <1>3, Zenon DEF Fresh

(* The driver's steps on the header of b that leave its contents.          *)
LEMMA DriverFresh ==
    ASSUME NEW B, NEW H, NEW D, Fresh(B, H, D), NEW C, NEW b \in Buffers,
           \A c \in Buffers \ {b} : C[c] = B[c],
           C[b].key = B[b].key, C[b].dirt = B[b].dirt, C[b].uptodate = B[b].uptodate,
           Sound(H, D, b, C[b])
    PROVE  Fresh(C, H, D)
<1>0. \A c \in Buffers : C[c].key = B[c].key /\ C[c].dirt = B[c].dirt /\ C[c].uptodate = B[c].uptodate
  OBVIOUS
<1>1. \A c \in Buffers : Sound(H, D, c, C[c])
  BY Zenon DEF Fresh
<1>2. OneDirty(C, H)
  BY <1>0, Zenon DEF Fresh, OneDirty
<1>3. Behind(C, D)
  BY <1>0 DEF Fresh, Behind
<1>. QED BY <1>1, <1>2, <1>3, Zenon DEF Fresh

(* write_intr: the copy that was taken is the newest, so the disk catches up*)
(* and the buffer is clean.                                                *)
LEMMA WrittenFresh ==
    ASSUME NEW B, NEW H, NEW D \in [Blocks -> BOOLEAN], Fresh(B, H, D), Keyed(B),
           NEW C, NEW b \in Buffers, NEW E,
           \A c \in Buffers \ {b} : C[c] = B[c], B[b].io = "TAKEN",
           C[b].key = B[b].key, C[b].fresh = B[b].fresh, C[b].io = "idle", C[b].uptodate, ~C[b].dirt,
           E = [D EXCEPT ![B[b].key] = B[b].copy]
    PROVE  Fresh(C, H, E)
<1>1. /\ Sound(H, D, b, B[b]) /\ B[b].dirt /\ B[b].copy /\ B[b].fresh /\ B[b].uptodate
      /\ B[b].key \in Blocks
  BY Zenon DEF Fresh, Sound, Keyed
<1>2. \A k \in Blocks : E[k] = IF k = B[b].key THEN B[b].copy ELSE D[k]
  BY Zenon
<1>3. ASSUME NEW c \in Buffers \ {b}, B[c].dirt
      PROVE  B[c].key # B[b].key /\ B[c].key \in Blocks
  BY <1>1, <1>3, Zenon DEF Fresh, OneDirty, Keyed
<1>4. ASSUME NEW c \in Buffers PROVE Sound(H, E, c, C[c])
  <2>1. CASE c = b
    BY <1>1, <2>1, ZenonT(30) DEF Sound
  <2>2. CASE c # b
    <3>1. Sound(H, D, c, B[c]) /\ C[c] = B[c]
      BY <2>2, Zenon DEF Fresh
    <3>2. B[c].dirt => E[B[c].key] = D[B[c].key]
      BY <1>2, <1>3, <2>2, Zenon
    <3>. QED BY <3>1, <3>2, Zenon DEF Sound
  <2>. QED BY <2>1, <2>2
<1>5. OneDirty(C, H)
  <2>. SUFFICES ASSUME NEW a \in Buffers, NEW c \in Buffers, a # c, C[a].key = C[c].key, C[c].dirt
                PROVE  ~C[a].dirt /\ ~(a \in H /\ C[a].uptodate)
    BY DEF OneDirty
  <2>1. c # b /\ C[c] = B[c] /\ a # b
    BY <1>3, Zenon
  <2>. QED BY <2>1, ZenonT(60) DEF Fresh, OneDirty
<1>6. Behind(C, E)
  <2>. SUFFICES ASSUME NEW k \in Blocks, ~E[k]
                PROVE  \E c \in Buffers : C[c].key = k /\ C[c].dirt
    BY Zenon DEF Behind
  <2>1. k # B[b].key /\ ~D[k]
    BY <1>1, <1>2, Zenon
  <2>2. PICK c \in Buffers : B[c].key = k /\ B[c].dirt
    BY <2>1, Zenon DEF Fresh, Behind
  <2>. QED BY <2>1, <2>2, Zenon
<1>. QED BY <1>4, <1>5, <1>6, Zenon DEF Fresh

(* read_intr: no buffer has anything newer, or the read is counted as a hit.*)
LEMMA ReadFresh ==
    ASSUME NEW B, NEW H, NEW D \in [Blocks -> BOOLEAN], Fresh(B, H, D), Unique(B, H), Keyed(B),
           NEW C, NEW b \in Buffers,
           \A c \in Buffers \ {b} : C[c] = B[c], B[b].io = "READ",
           C[b].key = B[b].key, C[b].io = "idle", C[b].uptodate, ~C[b].dirt,
           C[b].fresh = D[B[b].key],
           ~\E c \in Buffers \ H : B[c].key = B[b].key /\ ~D[B[b].key]
    PROVE  Fresh(C, H, D)
<1>1. /\ b \in H /\ ~B[b].uptodate /\ ~B[b].dirt /\ B[b].key \in Blocks /\ B[b].key \notin Bad
      /\ b <= Len(Pinned) => b \in H
  BY Zenon DEF Fresh, Sound, Keyed
<1>2. ASSUME NEW c \in Buffers, B[c].key = B[b].key PROVE ~B[c].dirt
  <2>1. Sound(H, D, c, B[c])
    BY DEF Fresh
  <2>2. CASE c \in H
    BY <1>1, <1>2, <2>2, Zenon DEF Unique
  <2>3. CASE c \notin H
    BY <1>2, <2>1, <2>3, Zenon DEF Sound
  <2>. QED BY <2>2, <2>3, Zenon
<1>3. D[B[b].key]
  BY <1>1, <1>2, Zenon DEF Fresh, Behind
<1>4. \A c \in Buffers : Sound(H, D, c, C[c])
  <2>. SUFFICES ASSUME NEW c \in Buffers PROVE Sound(H, D, c, C[c])
    OBVIOUS
  <2>1. Sound(H, D, c, B[c])
    BY DEF Fresh
  <2>2. CASE c = b
    BY <1>1, <1>3, <2>1, <2>2, Zenon DEF Sound
  <2>3. CASE c # b
    BY <2>1, <2>3, Zenon
  <2>. QED BY <2>2, <2>3, Zenon
<1>5. OneDirty(C, H)
  <2>. SUFFICES ASSUME NEW a \in Buffers, NEW c \in Buffers, a # c, C[a].key = C[c].key, C[c].dirt
                PROVE  ~C[a].dirt /\ ~(a \in H /\ C[a].uptodate)
    BY Zenon DEF OneDirty
  <2>1. c # b /\ C[c] = B[c] /\ a # b
    BY <1>2, Zenon
  <2>. QED BY <2>1, SMTT(30) DEF Fresh, OneDirty
<1>6. Behind(C, D)
  BY <1>1 DEF Fresh, Behind
<1>. QED BY <1>4, <1>5, <1>6, Zenon DEF Fresh

(* The headers after a change of the data of b: whatever else has its block*)
(* is old.                                                                 *)
Changed(B, H, C, b) ==
    /\ b \in H /\ B[b].uptodate /\ B[b].io # "TAKEN" /\ B[b].key \in Blocks
    /\ \A c \in Buffers : C[c].key = B[c].key /\ C[c].uptodate = B[c].uptodate /\ C[c].io = B[c].io
    /\ \A c \in Buffers \ {b} : C[c].dirt = B[c].dirt
    /\ \A c \in Buffers : B[c].key # B[b].key => C[c] = B[c]
    /\ C[b].dirt /\ C[b].fresh

(* A change of a buffer that is in the hash queues, has data and is not    *)
(* being copied by the driver.                                             *)
LEMMA ChangeFresh ==
    ASSUME NEW B, NEW H, NEW D \in [Blocks -> BOOLEAN], Fresh(B, H, D), Unique(B, H), Keyed(B),
           NEW C, NEW b \in Buffers, NEW E,
           Changed(B, H, C, b), E = [D EXCEPT ![B[b].key] = FALSE]
    PROVE  Fresh(C, H, E)
<1>. USE DEF Changed
<1>1. Sound(H, D, b, B[b])
  BY DEF Fresh
<1>2. \A k \in Blocks : E[k] = IF k = B[b].key THEN FALSE ELSE D[k]
  BY Zenon
<1>3. ASSUME NEW c \in Buffers \ {b}, B[c].key = B[b].key
      PROVE  ~B[c].dirt /\ c \notin H
  BY <1>3, Zenon DEF Fresh, OneDirty, Unique
<1>4. ASSUME NEW c \in Buffers PROVE Sound(H, E, c, C[c])
  <2>0. Sound(H, D, c, B[c])
    BY Zenon DEF Fresh
  <2>1. CASE c = b
    BY <1>1, <1>2, <2>1, Zenon DEF Sound
  <2>2. CASE c # b /\ B[c].key = B[b].key
    BY <1>3, <2>0, <2>2, ZenonT(60) DEF Sound
  <2>3. CASE B[c].key # B[b].key
    <3>1. B[c].dirt => E[B[c].key] = D[B[c].key]
      BY <1>2, <2>3, Zenon DEF Keyed
    <3>. QED BY <2>0, <2>3, <3>1, Zenon DEF Sound
  <2>. QED BY <2>1, <2>2, <2>3
<1>5. OneDirty(C, H)
  <2>. SUFFICES ASSUME NEW a \in Buffers, NEW c \in Buffers, a # c, C[a].key = C[c].key, C[c].dirt
                PROVE  ~C[a].dirt /\ ~(a \in H /\ C[a].uptodate)
    BY Zenon DEF OneDirty
  <2>1. CASE c = b
    BY <1>3, <2>1, Zenon
  <2>2. CASE c # b
    <3>1. B[c].dirt /\ B[c].key # B[b].key /\ a # b
      BY <1>3, <2>2, ZenonT(60)
    <3>. QED BY <3>1, ZenonT(60) DEF Fresh, OneDirty
  <2>. QED BY <2>1, <2>2, Zenon
<1>6. Behind(C, E)
  <2>. SUFFICES ASSUME NEW k \in Blocks, ~E[k]
                PROVE  \E c \in Buffers : C[c].key = k /\ C[c].dirt
    BY Zenon DEF Behind
  <2>1. CASE k = B[b].key
    BY <2>1, Zenon
  <2>2. CASE k # B[b].key
    <3>1. PICK c \in Buffers : B[c].key = k /\ B[c].dirt
      BY <1>2, <2>2, Zenon DEF Fresh, Behind
    <3>. QED BY <2>2, <3>1, Zenon
  <2>. QED BY <2>1, <2>2, Zenon
<1>. QED BY <1>4, <1>5, <1>6, Zenon DEF Fresh

(* remove_from_queues takes a buffer out of the hash queues.               *)
LEMMA TakenFresh ==
    ASSUME NEW B, NEW H, NEW D, Fresh(B, H, D), NEW b \in Buffers,
           B[b].io = "idle", ~(b <= Len(Pinned))
    PROVE  Fresh(B, H \ {b}, D)
<1>1. ASSUME NEW c \in Buffers PROVE Sound(H \ {b}, D, c, B[c])
  <2>1. Sound(H, D, c, B[c])
    BY DEF Fresh
  <2>2. CASE c = b
    BY <2>1, <2>2, Zenon DEF Sound
  <2>3. CASE c # b
    BY <2>1, <2>3, Zenon DEF Sound
  <2>. QED BY <2>2, <2>3, Zenon
<1>2. OneDirty(B, H \ {b})
  BY Zenon DEF Fresh, OneDirty
<1>. QED BY <1>1, <1>2, Zenon DEF Fresh

(* The headers after getblk has given b another block, or has put it back. *)
Renamed(B, H, C, G, b) ==
    /\ G \in {H, H \union {b}}
    /\ \A c \in Buffers \ {b} : C[c] = B[c]
    /\ C[b].io = "idle" /\ ~C[b].dirt /\ ~C[b].uptodate /\ ~B[b].dirt

(* getblk gives a clean buffer another block: no contents are lost.        *)
LEMMA InsertFresh ==
    ASSUME NEW B, NEW H, NEW D, Fresh(B, H, D), NEW C, NEW G, NEW b \in Buffers,
           Renamed(B, H, C, G, b), ~(b <= Len(Pinned))
    PROVE  Fresh(C, G, D)
<1>. USE DEF Renamed
<1>1. ASSUME NEW c \in Buffers PROVE Sound(G, D, c, C[c])
  <2>1. CASE c = b
    BY <2>1, ZenonT(60) DEF Sound
  <2>2. CASE c # b
    <3>1. Sound(H, D, c, B[c]) /\ C[c] = B[c] /\ (c \in G <=> c \in H)
      BY <2>2, Zenon DEF Fresh
    <3>. QED BY <3>1, SMTT(30) DEF Sound
  <2>. QED BY <2>1, <2>2, Zenon
<1>2. OneDirty(C, G)
  <2>. SUFFICES ASSUME NEW a \in Buffers, NEW c \in Buffers, a # c, C[a].key = C[c].key, C[c].dirt
                PROVE  ~C[a].dirt /\ ~(a \in G /\ C[a].uptodate)
    BY Zenon DEF OneDirty
  <2>1. CASE a = b
    BY <2>1, Zenon
  <2>2. CASE a # b
    BY <2>2, Zenon DEF Fresh, OneDirty
  <2>. QED BY <2>1, <2>2, Zenon
<1>3. Behind(C, D)
  BY ZenonT(60) DEF Fresh, Behind
<1>. QED BY <1>1, <1>2, <1>3, Zenon DEF Fresh
-----------------------------------------------------------------------------
(* The users keep their data through a step of t that does not begin a use.*)
LEMMA UsedStep ==
    ASSUME IInv, NEW t \in Tasks,
           \A u \in Tasks \ {t} : Same(me[u], me'[u]),
           \A u \in Tasks \ {t} : me[u].pc = "use" => bh'[me[u].tmp].uptodate,
           me'[t].pc = "use" => bh'[me'[t].tmp].uptodate
    PROVE  Used(bh', me')
<1>. SUFFICES ASSUME NEW u \in Tasks, me'[u].pc = "use" PROVE bh'[me'[u].tmp].uptodate
  BY DEF Used
<1>1. CASE u = t
  BY <1>1
<1>2. CASE u # t
  <2>1. me[u] \in Mind
    BY Mine, Zenon
  <2>2. me'[u] = me[u]
    BY <1>2, <2>1, Zenon DEF Same, Mind
  <2>. QED BY <1>2, <2>2, Zenon
<1>. QED BY <1>1, <1>2, Zenon

(* A step that touches no buffer.                                           *)
LEMMA QuietFresh ==
    ASSUME IInv, FInv, NEW t \in Tasks, UNCHANGED <<bh, hashed, disk, hit>>,
           \A u \in Tasks \ {t} : me'[u] = me[u], me'[t].pc # "use"
    PROVE  FInv'
<1>. SUFFICES ASSUME hit = {} PROVE Used(bh', me')
  BY Zenon DEF FInv
<1>1. Used(bh, me)
  BY Zenon DEF FInv
<1>. QED BY <1>1, UsedStep DEF Used, Same

(* A step that changes counts.                                              *)
LEMMA CountedFresh ==
    ASSUME IInv, FInv, NEW t \in Tasks, UNCHANGED <<hashed, disk, hit>>,
           \A b \in Buffers : SameContent(bh[b], bh'[b]),
           \A u \in Tasks \ {t} : Same(me[u], me'[u]), me'[t].pc # "use"
    PROVE  FInv'
<1>. SUFFICES ASSUME hit = {} PROVE Fresh(bh', hashed', disk') /\ Used(bh', me')
  BY Zenon DEF FInv
<1>1. Fresh(bh, hashed, disk) /\ Used(bh, me)
  BY Zenon DEF FInv
<1>2. Fresh(bh', hashed, disk)
  BY <1>1, KeepFresh, Zenon
<1>3. ASSUME NEW u \in Tasks, me[u].pc = "use" PROVE bh'[me[u].tmp].uptodate
  <2>1. me[u].tmp \in Buffers /\ bh[me[u].tmp].uptodate
    BY <1>1, <1>3, Mine, Zenon DEF Fits, UsePCs, Used
  <2>. QED BY <2>1, Zenon DEF SameContent
<1>4. Used(bh', me')
  BY <1>3, UsedStep, Zenon
<1>. QED BY <1>2, <1>4, Zenon

(* brelse.                                                                 *)
LEMMA ReleaseFresh ==
    ASSUME IInv, FInv, NEW t \in Tasks, NEW r, r.pc # "use", Release(t, r),
           UNCHANGED <<hashed, disk, hit>>
    PROVE  FInv'
<1>1. bh \in [Buffers -> Header] /\ me \in [Tasks -> Mind]
  BY Mine, Zenon
<1>2. ASSUME NEW b \in Buffers PROVE SameContent(bh[b], bh'[b])
  <2>1. bh[b] \in Header
    BY <1>1, Zenon
  <2>. QED BY <1>1, <2>1 DEF Release, SameContent, Header
<1>3. me'[t].pc # "use" /\ \A u \in Tasks \ {t} : Same(me[u], me'[u])
  BY DEF Release, Woken, Same
<1>. QED BY <1>2, <1>3, CountedFresh, Zenon

(* The calls begin with an empty hand.                                     *)
LEMMA CallFresh ==
    ASSUME IInv, FInv, NEW t \in Tasks, Call(t)
    PROVE  FInv'
<1>1. me \in [Tasks -> Mind] /\ me[t] \in Mind
  BY Mine
<1>2. UNCHANGED <<bh, hashed, disk, hit>>
  BY DEF Call, sys_sync, bread
<1>3. ASSUME NEW k, bread(t, k) PROVE me'[t].pc # "use" /\ \A u \in Tasks \ {t} : me'[u] = me[u]
  BY <1>1, <1>3, Zenon DEF bread, Mind
<1>4. CASE sys_sync(t)
  <2>1. me'[t].pc # "use" /\ \A u \in Tasks \ {t} : me'[u] = me[u]
    BY <1>1, <1>4, Zenon DEF sys_sync, Mind
  <2>. QED BY <1>2, <2>1, QuietFresh, Zenon
<1>. QED BY <1>2, <1>3, <1>4, QuietFresh, Zenon DEF Call

(* The next turn of a loop is no use of a buffer.                          *)
LEMMA TurnQuiet ==
    ASSUME me \in [Tasks -> Mind], NEW t \in Tasks, Turn(t) \/ Advance(t)
    PROVE  me'[t].pc # "use" /\ \A u \in Tasks \ {t} : me'[u] = me[u]
<1>1. me[t] \in Mind
  OBVIOUS
<1>. DEFINE Quiet == me'[t].pc # "use" /\ \A u \in Tasks \ {t} : me'[u] = me[u]
<1>. SUFFICES Quiet
  OBVIOUS
<1>2. CASE Turn(t)
  <2>1. CASE me' = [me EXCEPT ![t].pc = "sync", ![t].i = @ + 1]
    BY <1>1, <2>1, Zenon DEF Mind
  <2>2. CASE me' = [me EXCEPT ![t] = Idle]
    BY <1>1, <2>2, Zenon DEF Idle
  <2>3. CASE me' = [me EXCEPT ![t].pc = "insert", ![t].i = 0, ![t].dev = NULL]
    BY <1>1, <2>3, Zenon DEF Mind
  <2>. HIDE DEF Quiet
  <2>. QED BY <1>2, <2>1, <2>2, <2>3, Zenon DEF Turn
<1>3. CASE Advance(t)
  <2>. DEFINE n == next_free[me[t].tmp]
  <2>1. CASE me' = [me EXCEPT ![t].pc = "scan", ![t].tmp = n]
    BY <1>1, <2>1, Zenon DEF Mind
  <2>2. CASE me' = [me EXCEPT ![t].pc = "bufwait", ![t].tmp = NULL]
    BY <1>1, <2>2, Zenon DEF Mind
  <2>. HIDE DEF Quiet
  <2>. QED BY <1>3, <2>1, <2>2, Zenon DEF Advance
<1>. QED BY <1>2, <1>3, Zenon

(* The loops of getblk and sync_dev, up to what they wait for.             *)
LEMMA SyncFresh ==
    ASSUME IInv, FInv, NEW t \in Tasks, Scan(t) \/ Sync(t) \/ Written(t)
    PROVE  FInv'
<1>1. me \in [Tasks -> Mind] /\ me[t] \in Mind
  BY Mine
<1>2. UNCHANGED <<bh, hashed, disk, hit>>
  BY DEF Scan, Sync, Written
<1>3. ASSUME NEW x \in {"scanned", "syncwait"}, me' = [me EXCEPT ![t].pc = x]
      PROVE  me'[t].pc # "use" /\ \A u \in Tasks \ {t} : me'[u] = me[u]
  BY <1>1, <1>3 DEF Mind
<1>4. me'[t].pc # "use" /\ \A u \in Tasks \ {t} : me'[u] = me[u]
  BY <1>1, <1>3, TurnQuiet, Zenon DEF Scan, Sync, Written
<1>. QED BY <1>2, <1>4, QuietFresh, Zenon

(* get_hash_table: the count only.                                         *)
LEMMA HashFresh ==
    ASSUME IInv, FInv, NEW t \in Tasks, get_hash_table(t)
    PROVE  FInv'
<1>1. bh \in [Buffers -> Header] /\ me \in [Tasks -> Mind] /\ me[t] \in Mind
  BY Mine
<1>2. UNCHANGED <<hashed, disk, hit>>
  BY DEF get_hash_table
<1>3. ASSUME NEW c, bh' = [bh EXCEPT ![c].count = @ + 1],
             me' = [me EXCEPT ![t].pc = "hashed", ![t].tmp = c]
      PROVE  FInv'
  <2>1. ASSUME NEW b \in Buffers PROVE SameContent(bh[b], bh'[b])
    <3>1. bh[b] \in Header
      BY <1>1
    <3>. QED BY <1>1, <1>3, <3>1, Zenon DEF SameContent, Header
  <2>2. me'[t].pc # "use" /\ \A u \in Tasks \ {t} : Same(me[u], me'[u])
    BY <1>1, <1>3, Zenon DEF Same, Mind
  <2>. QED BY <1>2, <2>1, <2>2, CountedFresh, Zenon
<1>4. CASE me' = [me EXCEPT ![t].pc = "scan", ![t].tmp = free_list] /\ UNCHANGED bh
  <2>1. me'[t].pc # "use" /\ \A u \in Tasks \ {t} : me'[u] = me[u]
    BY <1>1, <1>4, Zenon DEF Mind
  <2>. QED BY <1>2, <1>4, <2>1, QuietFresh, Zenon
<1>. QED BY <1>3, <1>4, Zenon DEF get_hash_table

(* getblk takes a buffer: it leaves the hash queue, its contents stay.      *)
LEMMA ScannedFresh ==
    ASSUME Counting, IInv, FInv, NEW t \in Tasks, Scanned(t)
    PROVE  FInv'
<1>. DEFINE b == me[t].tmp
<1>1. bh \in [Buffers -> Header] /\ me \in [Tasks -> Mind] /\ me[t] \in Mind /\ Fits(me[t])
      /\ Inv(bh, hashed, me)
  BY Mine, ZenonT(60)
<1>2. me[t].pc = "scanned" /\ b \in Buffers /\ bh[b].io = "idle" /\ UNCHANGED <<disk, hit>>
  BY <1>1, Zenon DEF Scanned, Fits, ScanPCs, Locked
<1>3. CASE bh[b].count = 0 /\ Takes(t)
  <2>1. /\ bh' = [bh EXCEPT ![b].count = @ + 1] /\ hashed' = hashed \ {b}
        /\ \/ me' = [me EXCEPT ![t].pc = "sync", ![t].i = 1, ![t].dev = Dev[bh[b].key]]
           \/ me' = [me EXCEPT ![t].pc = "insert"]
    BY <1>3, Zenon DEF Takes, remove_from_queues
  <2>2. me'[t].pc # "use" /\ \A u \in Tasks \ {t} : me'[u] = me[u]
    <3>1. CASE me' = [me EXCEPT ![t].pc = "sync", ![t].i = 1, ![t].dev = Dev[bh[b].key]]
      BY <1>1, <3>1, Zenon DEF Mind
    <3>2. CASE me' = [me EXCEPT ![t].pc = "insert"]
      BY <1>1, <3>2, Zenon DEF Mind
    <3>. QED BY <2>1, <3>1, <3>2, Zenon
  <2>3. ASSUME NEW c \in Buffers PROVE SameContent(bh[c], bh'[c])
    <3>1. bh[c] \in Header
      BY <1>1, Zenon
    <3>. QED BY <1>1, <2>1, <3>1, Zenon DEF SameContent, Header
  <2>4. ~(b <= Len(Pinned))
    <3>1. bh[b].count = Refs(Ptr(me), b) + IF b <= Len(Pinned) THEN 1 ELSE 0
      BY <1>1, <1>2, Zenon DEF Inv, Counts
    <3>2. Refs(Ptr(me), b) \in Nat
      BY RefsType, Zenon
    <3>. QED BY <1>3, <3>1, <3>2, SMTT(30)
  <2>. SUFFICES ASSUME hit = {} PROVE Fresh(bh', hashed', disk) /\ Used(bh', me')
    BY <1>2, Zenon DEF FInv
  <2>5. Fresh(bh, hashed, disk) /\ Used(bh, me)
    BY DEF FInv
  <2>6. Fresh(bh, hashed \ {b}, disk)
    BY <1>2, <2>4, <2>5, TakenFresh, Zenon
  <2>7. Fresh(bh', hashed', disk)
    BY <2>1, <2>3, <2>6, KeepFresh, ZenonT(30)
  <2>8. ASSUME NEW u \in Tasks, me[u].pc = "use" PROVE bh'[me[u].tmp].uptodate
    <3>1. me[u].tmp \in Buffers /\ bh[me[u].tmp].uptodate
      BY <2>5, <2>8, Mine, Zenon DEF Fits, UsePCs, Used
    <3>. QED BY <2>3, <3>1, Zenon DEF SameContent
  <2>9. Used(bh', me')
    BY <2>2, <2>8, UsedStep, Zenon DEF Same
  <2>. QED BY <2>7, <2>9, Zenon
<1>4. CASE Advance(t) /\ UNCHANGED <<bh, hashed>>
  BY <1>1, <1>2, <1>4, TurnQuiet, QuietFresh, ZenonT(30)
<1>. QED BY <1>3, <1>4, Zenon DEF Scanned

(* ll_rw_block locks a buffer: one that is dirty, or one to be read.        *)
LEMMA LockFresh ==
    ASSUME IInv, FInv, NEW t \in Tasks, NEW b \in Buffers, NEW x, StartIO(b, x),
           \/ x = "WRITE" /\ bh[b].dirt
           \/ x = "READ" /\ b \in hashed /\ ~bh[b].uptodate,
           \A u \in Tasks \ {t} : me'[u] = me[u], me'[t].pc # "use",
           UNCHANGED <<hashed, disk, hit>>
    PROVE  FInv'
<1>1. bh \in [Buffers -> Header] /\ bh[b] \in Header
  BY Mine
<1>2. bh' = [bh EXCEPT ![b].io = x] /\ bh[b].key \notin Bad
  BY DEF StartIO
<1>3. /\ \A c \in Buffers \ {b} : bh'[c] = bh[c]
      /\ bh'[b].key = bh[b].key /\ bh'[b].dirt = bh[b].dirt /\ bh'[b].uptodate = bh[b].uptodate
      /\ bh'[b].fresh = bh[b].fresh /\ bh'[b].io = x
  BY <1>1, <1>2 DEF Header
<1>. SUFFICES ASSUME hit = {} PROVE Fresh(bh', hashed, disk) /\ Used(bh', me')
  BY Zenon DEF FInv
<1>4. Fresh(bh, hashed, disk) /\ Used(bh, me)
  BY ZenonT(60) DEF FInv
<1>5. Sound(hashed, disk, b, bh[b])
  BY <1>4 DEF Fresh
<1>6. Sound(hashed, disk, b, bh'[b])
  BY <1>2, <1>3, <1>5, Zenon DEF Sound
<1>7. Fresh(bh', hashed, disk)
  BY <1>3, <1>4, <1>6, DriverFresh, ZenonT(60)
<1>8. ASSUME NEW u \in Tasks, me[u].pc = "use" PROVE bh'[me[u].tmp].uptodate
  <2>1. me[u].tmp \in Buffers /\ bh[me[u].tmp].uptodate
    BY <1>4, <1>8, Mine, Zenon DEF Fits, UsePCs, Used
  <2>. QED BY <1>3, <2>1, Zenon
<1>9. Used(bh', me')
  BY <1>8, UsedStep, Zenon DEF Same
<1>. QED BY <1>7, <1>9, Zenon

(* sync_dev writes the dirty buffers.                                      *)
LEMMA SyncWriteFresh ==
    ASSUME IInv, FInv, NEW t \in Tasks, SyncWrite(t)
    PROVE  FInv'
<1>1. me \in [Tasks -> Mind] /\ me[t] \in Mind /\ Fits(me[t])
  BY Mine
<1>2. me[t].i \in Buffers /\ UNCHANGED <<hashed, disk, hit>>
  BY <1>1 DEF SyncWrite, Fits, SyncPCs, Buffers
<1>3. CASE /\ bh[me[t].i].dirt /\ StartIO(me[t].i, "WRITE")
           /\ me' = [me EXCEPT ![t].pc = "writing"]
  <2>1. me'[t].pc # "use" /\ \A u \in Tasks \ {t} : me'[u] = me[u]
    BY <1>1, <1>3, Zenon DEF Mind
  <2>. QED BY <1>2, <1>3, <2>1, LockFresh, Zenon
<1>4. CASE Turn(t) /\ UNCHANGED bh
  BY <1>1, <1>2, <1>4, TurnQuiet, QuietFresh, Zenon
<1>. QED BY <1>3, <1>4, Zenon DEF SyncWrite

(* A use begins with a buffer that has data.                               *)
LEMMA UseFresh ==
    ASSUME IInv, FInv, NEW t \in Tasks, bh[me[t].tmp].uptodate,
           me' = [me EXCEPT ![t].pc = "use"], UNCHANGED <<bh, hashed, disk, hit>>
    PROVE  FInv'
<1>1. me \in [Tasks -> Mind] /\ me[t] \in Mind
  BY Mine
<1>2. me'[t].tmp = me[t].tmp /\ \A u \in Tasks \ {t} : me'[u] = me[u]
  BY <1>1, Zenon DEF Mind
<1>. SUFFICES ASSUME hit = {} PROVE Used(bh', me')
  BY Zenon DEF FInv
<1>3. Used(bh, me)
  BY DEF FInv
<1>. QED BY <1>2, <1>3, UsedStep, Zenon DEF Used, Same

(* bread from the end of getblk on, and the users of a block.              *)
LEMMA UserFresh ==
    ASSUME IInv, FInv, NEW t \in Tasks, Hashed(t) \/ Got(t) \/ Read(t) \/ brelse(t)
    PROVE  FInv'
<1>1. me \in [Tasks -> Mind] /\ me[t] \in Mind /\ Fits(me[t]) /\ Good(bh, hashed, me[t])
  BY Mine, Zenon
<1>2. me[t].tmp \in hashed /\ me[t].tmp \in Buffers
  BY <1>1, Zenon DEF Hashed, Got, Read, brelse, Fits, Good, UsePCs
<1>3. UNCHANGED <<hashed, disk, hit>>
  BY DEF Hashed, Got, Read, brelse
<1>4. ASSUME NEW r, r.pc # "use", Release(t, r) PROVE FInv'
  BY <1>3, <1>4, ReleaseFresh, Zenon
<1>5. CASE bh[me[t].tmp].uptodate /\ me' = [me EXCEPT ![t].pc = "use"] /\ UNCHANGED bh
  BY <1>3, <1>5, UseFresh, Zenon
<1>6. Idle.pc # "use" /\ [me[t] EXCEPT !.pc = "hash", !.tmp = NULL].pc # "use"
  BY <1>1, Zenon DEF Idle, Mind
<1>7. CASE me' = [me EXCEPT ![t].pc = "got"] /\ UNCHANGED bh
  <2>1. me'[t].pc # "use" /\ \A u \in Tasks \ {t} : me'[u] = me[u]
    BY <1>1, <1>7, Zenon DEF Mind
  <2>. QED BY <1>3, <1>7, <2>1, QuietFresh, Zenon
<1>8. CASE ~bh[me[t].tmp].uptodate /\ StartIO(me[t].tmp, "READ") /\ me' = [me EXCEPT ![t].pc = "reading"]
  <2>1. me'[t].pc # "use" /\ \A u \in Tasks \ {t} : me'[u] = me[u]
    BY <1>1, <1>8, Zenon DEF Mind
  <2>. QED BY <1>2, <1>3, <1>8, <2>1, LockFresh, Zenon
<1>9. CASE Hashed(t)
  BY <1>4, <1>6, <1>7, <1>9, Zenon DEF Hashed
<1>10. CASE Got(t)
  BY <1>4, <1>5, <1>6, <1>8, <1>10, Zenon DEF Got
<1>11. CASE Read(t)
  BY <1>4, <1>5, <1>6, <1>11, Zenon DEF Read
<1>12. CASE brelse(t)
  BY <1>4, <1>6, <1>12, Zenon DEF brelse
<1>. QED BY <1>9, <1>10, <1>11, <1>12, Zenon

(* The end of getblk: the buffer that gets another block is clean.          *)
LEMMA InsertedFresh ==
    ASSUME IInv, FInv, NEW t \in Tasks, Insert(t)
    PROVE  FInv'
<1>. DEFINE b == me[t].tmp
<1>1. /\ bh \in [Buffers -> Header] /\ me \in [Tasks -> Mind] /\ me[t] \in Mind /\ Fits(me[t])
      /\ Inv(bh, hashed, me) /\ Good(bh, hashed, me[t])
  BY Mine
<1>2. me[t].pc = "insert" /\ b \in Buffers /\ b # NULL /\ Taken(me[t]) /\ UNCHANGED <<disk, hit>>
  BY <1>1, Constants, Zenon DEF Insert, Fits, Taken
<1>3. /\ b > Len(Pinned) /\ bh[b].io = "idle" /\ (~bh[b].dirt \/ bh[b].key \in Bad)
      /\ \A u \in Tasks \ {t} : Ref(me[u]) # b
  BY <1>1, <1>2, ZenonT(30) DEF Good, Inv, Alone
<1>4. /\ \A c \in Buffers \ {b} : bh'[c] = bh[c]
      /\ bh'[b].io = bh[b].io /\ ~bh'[b].dirt /\ ~bh'[b].uptodate
      /\ hashed' \in {hashed, hashed \union {b}}
      /\ me'[t].pc # "use" /\ \A u \in Tasks \ {t} : me'[u] = me[u]
  <2>0. bh[b] \in Header
    BY <1>1, <1>2
  <2>1. ASSUME Beaten(t, b) PROVE <1>4!:
    BY <1>1, <1>2, <2>0, <2>1, Zenon DEF Beaten, insert_into_queues, Header, Mind
  <2>2. ASSUME Settles(t, b, me[t].want) PROVE <1>4!:
    BY <1>1, <1>2, <2>0, <2>2, Zenon DEF Settles, insert_into_queues, Header, Mind
  <2>. QED BY <2>1, <2>2, Zenon DEF Insert
<1>. SUFFICES ASSUME hit = {} PROVE Fresh(bh', hashed', disk) /\ Used(bh', me')
  BY <1>2, ZenonT(30) DEF FInv
<1>5. Fresh(bh, hashed, disk) /\ Used(bh, me)
  BY ZenonT(60) DEF FInv
<1>6. ~bh[b].dirt /\ ~(b <= Len(Pinned))
  <2>1. Sound(hashed, disk, b, bh[b])
    BY <1>2, <1>5 DEF Fresh
  <2>2. b \in Nat /\ Len(Pinned) \in Nat
    BY <1>2, Constants, Zenon
  <2>3. ~bh[b].dirt
    BY <1>3, <2>1, Zenon DEF Sound
  <2>4. ~(b <= Len(Pinned))
    BY ONLY <1>3, <2>2, SMT
  <2>. QED BY <2>3, <2>4, Zenon
<1>7. Fresh(bh', hashed', disk)
  <2>. DEFINE C == bh'
              G == hashed'
  <2>. HIDE DEF C, G
  <2>1. /\ \A c \in Buffers \ {b} : C[c] = bh[c]
        /\ C[b].io = "idle" /\ ~C[b].dirt /\ ~C[b].uptodate
        /\ G \in {hashed, hashed \union {b}}
    BY <1>3, <1>4, Zenon DEF C, G
  <2>2. Renamed(bh, hashed, C, G, b)
    BY <1>6, <2>1, Zenon DEF Renamed
  <2>3. Fresh(C, G, disk)
    BY <1>2, <1>5, <1>6, <2>2, InsertFresh, Zenon
  <2>. QED BY <2>3, Zenon DEF C, G
<1>8. ASSUME NEW u \in Tasks \ {t}, me[u].pc = "use" PROVE bh'[me[u].tmp].uptodate
  <2>1. me[u].tmp \in Buffers /\ bh[me[u].tmp].uptodate /\ Ref(me[u]) = me[u].tmp
    BY <1>5, <1>8, Mine, Zenon DEF Fits, UsePCs, Used, Ref
  <2>. QED BY <1>3, <1>4, <2>1, Zenon
<1>9. Used(bh', me')
  BY <1>4, <1>8, UsedStep, Zenon DEF Same
<1>. QED BY <1>7, <1>9, Zenon

(* A change makes every other copy old, and the buffer dirty.               *)
LEMMA ChangedFresh ==
    ASSUME IInv, FInv, NEW b \in Buffers, bh[b].key \in Blocks, Change(b),
           hit = {} => b \in hashed /\ bh[b].uptodate, UNCHANGED <<hashed, me>>
    PROVE  FInv'
<1>. SUFFICES ASSUME hit' = {} PROVE Fresh(bh', hashed, disk') /\ Used(bh', me)
  BY Zenon DEF FInv, Used
<1>1. hit = {} /\ bh[b].io # "TAKEN" /\ b \in hashed /\ bh[b].uptodate
  BY Zenon DEF Change
<1>2. /\ bh \in [Buffers -> Header] /\ disk \in [Blocks -> BOOLEAN]
      /\ Unique(bh, hashed) /\ Keyed(bh) /\ Fresh(bh, hashed, disk) /\ Used(bh, me)
  BY <1>1 DEF IInv, LInv, Inv, FInv
<1>3. bh' = [c \in Buffers |->
                IF c = b THEN [bh[c] EXCEPT !.dirt = TRUE, !.fresh = TRUE, !.copy = FALSE]
                ELSE IF bh[c].key = bh[b].key
                THEN [bh[c] EXCEPT !.fresh = FALSE, !.copy = FALSE] ELSE bh[c]]
      /\ disk' = [disk EXCEPT ![bh[b].key] = FALSE]
  BY Zenon DEF Change
<1>4. ASSUME NEW c \in Buffers
      PROVE  /\ bh'[c].key = bh[c].key /\ bh'[c].uptodate = bh[c].uptodate /\ bh'[c].io = bh[c].io
             /\ c # b => bh'[c].dirt = bh[c].dirt
             /\ c = b => bh'[c].dirt /\ bh'[c].fresh
             /\ bh[c].key # bh[b].key => bh'[c] = bh[c]
  <2>1. bh[c] \in Header
    BY <1>2
  <2>2. CASE c = b
    BY <1>3, <2>1, <2>2, Zenon DEF Header
  <2>3. CASE c # b /\ bh[c].key = bh[b].key
    BY <1>3, <2>1, <2>3, Zenon DEF Header
  <2>4. CASE c # b /\ bh[c].key # bh[b].key
    BY <1>3, <2>1, <2>4, Zenon
  <2>. QED BY <2>2, <2>3, <2>4, Zenon
<1>5. Fresh(bh', hashed, disk')
  <2>. DEFINE C == bh'
              E == disk'
  <2>. HIDE DEF C, E
  <2>1. /\ \A c \in Buffers : C[c].key = bh[c].key /\ C[c].uptodate = bh[c].uptodate /\ C[c].io = bh[c].io
        /\ \A c \in Buffers \ {b} : C[c].dirt = bh[c].dirt
        /\ \A c \in Buffers : bh[c].key # bh[b].key => C[c] = bh[c]
        /\ C[b].dirt /\ C[b].fresh
        /\ E = [disk EXCEPT ![bh[b].key] = FALSE]
    BY <1>3, <1>4, Zenon DEF C, E
  <2>2. Changed(bh, hashed, C, b)
    BY <1>1, <2>1, Zenon DEF Changed
  <2>3. Fresh(C, hashed, E)
    BY <1>2, <2>1, <2>2, ChangeFresh, Zenon
  <2>. QED BY <2>3, Zenon DEF C, E
<1>6. ASSUME NEW u \in Tasks, me[u].pc = "use" PROVE bh'[me[u].tmp].uptodate
  <2>1. me[u].tmp \in Buffers /\ bh[me[u].tmp].uptodate
    BY <1>2, <1>6, Mine, Zenon DEF Fits, UsePCs, Used
  <2>. QED BY <1>4, <2>1, Zenon
<1>. QED BY <1>5, <1>6, Zenon DEF Used

(* The changes of a block in use and of a bitmap that mount_root holds.    *)
LEMMA DirtiesFresh ==
    ASSUME IInv, FInv, Dirties
    PROVE  FInv'
<1>1. ASSUME NEW t \in Tasks, Modify(t) PROVE FInv'
  <2>1. /\ me[t].pc = "use" /\ Fits(me[t]) /\ Good(bh, hashed, me[t])
        /\ Change(me[t].tmp) /\ UNCHANGED <<hashed, me>>
    BY <1>1, Mine, Zenon DEF Modify
  <2>2. me[t].tmp \in Buffers /\ bh[me[t].tmp].key \in Blocks /\ me[t].tmp \in hashed
    BY <2>1, ZenonT(60) DEF Fits, Good, UsePCs
  <2>3. hit = {} => bh[me[t].tmp].uptodate
    BY <2>1 DEF FInv, Used
  <2>. QED BY <2>1, <2>2, <2>3, ChangedFresh, Zenon
<1>2. ASSUME NEW b \in Buffers, ModifyPinned(b) PROVE FInv'
  <2>1. b <= Len(Pinned) /\ Change(b) /\ UNCHANGED <<hashed, me>>
    BY <1>2, Constants, SMTT(30) DEF ModifyPinned, Buffers
  <2>2. bh[b].key \in Blocks
    BY <2>1, Zenon DEF IInv, Inv, Keyed
  <2>3. hit = {} => Sound(hashed, disk, b, bh[b])
    BY DEF FInv, Fresh
  <2>4. hit = {} => b \in hashed /\ bh[b].uptodate
    BY <2>1, <2>3, Zenon DEF Sound
  <2>. QED BY <2>1, <2>2, <2>4, ChangedFresh, Zenon
<1>. QED BY <1>1, <1>2, Zenon DEF Dirties

(* The disk: what it gets is the newest, and what it gives.                 *)
LEMMA InterruptFresh ==
    ASSUME IInv, FInv, NEW b \in Buffers, Interrupt(b)
    PROVE  FInv'
<1>1. /\ bh[b] \in Header /\ bh \in [Buffers -> Header] /\ disk \in [Blocks -> BOOLEAN]
      /\ Unique(bh, hashed) /\ Keyed(bh)
  BY Zenon DEF IInv, Inv, LInv
<1>2. hit \subseteq hit' /\ UNCHANGED <<hashed, me>>
  BY DEF Interrupt, Transfer, write_intr, read_intr
<1>3. ASSUME Used(bh, me), \A c \in Buffers : bh[c].uptodate => bh'[c].uptodate
      PROVE  Used(bh', me)
  <2>1. ASSUME NEW u \in Tasks, me[u].pc = "use" PROVE bh'[me[u].tmp].uptodate
    <3>1. me[u].tmp \in Buffers /\ bh[me[u].tmp].uptodate
      BY <1>3, <2>1, Mine, ZenonT(30) DEF Fits, UsePCs, Used
    <3>. QED BY <1>3, <3>1, Zenon
  <2>. QED BY <2>1, Zenon DEF Used
<1>. SUFFICES ASSUME hit' = {} PROVE Fresh(bh', hashed, disk') /\ Used(bh', me)
  BY <1>2, Zenon DEF FInv, Used
<1>4. hit = {} /\ Fresh(bh, hashed, disk) /\ Used(bh, me)
  BY <1>2 DEF FInv
<1>5. Sound(hashed, disk, b, bh[b])
  BY <1>4, Zenon DEF Fresh
<1>6. CASE Transfer(b)
  <2>1. /\ \A c \in Buffers \ {b} : bh'[c] = bh[c]
        /\ bh'[b].key = bh[b].key /\ bh'[b].dirt = bh[b].dirt /\ bh'[b].uptodate = bh[b].uptodate
        /\ bh'[b].fresh = bh[b].fresh /\ bh'[b].copy = bh[b].fresh /\ bh'[b].io = "TAKEN"
        /\ disk' = disk /\ bh[b].io = "WRITE"
    BY <1>1, <1>6, Zenon DEF Transfer, Header
  <2>2. Sound(hashed, disk, b, bh'[b])
    BY <1>5, <2>1, Zenon DEF Sound
  <2>3. Fresh(bh', hashed, disk)
    BY <1>4, <2>1, <2>2, DriverFresh, ZenonT(60)
  <2>. QED BY <1>3, <1>4, <2>1, <2>3, Zenon
<1>7. CASE write_intr(b)
  <2>1. /\ \A c \in Buffers \ {b} : bh'[c] = bh[c]
        /\ bh'[b].key = bh[b].key /\ ~bh'[b].dirt /\ bh'[b].uptodate
        /\ bh'[b].fresh = bh[b].fresh /\ bh'[b].io = "idle"
        /\ disk' = [disk EXCEPT ![bh[b].key] = bh[b].copy] /\ bh[b].io = "TAKEN"
    BY <1>1, <1>7, Zenon DEF write_intr, Header
  <2>2. Fresh(bh', hashed, disk')
    BY <1>1, <1>4, <2>1, WrittenFresh, ZenonT(30)
  <2>. QED BY <1>3, <1>4, <2>1, <2>2, Zenon
<1>8. CASE read_intr(b)
  <2>1. /\ \A c \in Buffers \ {b} : bh'[c] = bh[c]
        /\ bh'[b].key = bh[b].key /\ ~bh'[b].dirt /\ bh'[b].uptodate
        /\ bh'[b].fresh = disk[bh[b].key] /\ bh'[b].io = "idle"
        /\ disk' = disk /\ bh[b].io = "READ"
    BY <1>1, <1>8, Zenon DEF read_intr, Header
  <2>2. ~\E c \in Buffers \ hashed : bh[c].key = bh[b].key /\ ~disk[bh[b].key]
    BY <1>8, Zenon DEF read_intr
  <2>3. Fresh(bh', hashed, disk)
    BY <1>1, <1>4, <2>1, <2>2, ReadFresh, ZenonT(30)
  <2>. QED BY <1>3, <1>4, <2>1, <2>3, Zenon
<1>. QED BY <1>6, <1>7, <1>8, Zenon DEF Interrupt
-----------------------------------------------------------------------------
LEMMA Init_FInv ==
    ASSUME Init
    PROVE  FInv
<1>. SUFFICES Fresh(bh, hashed, disk) /\ Used(bh, me)
  BY DEF FInv
<1>1. \A b \in Buffers :
        /\ bh[b].io = "idle" /\ ~bh[b].dirt
        /\ b <= Len(Pinned) => bh[b].uptodate /\ bh[b].fresh /\ bh[b].key = Pinned[b]
        /\ ~(b <= Len(Pinned)) => ~bh[b].uptodate
  BY Zenon DEF Init
<1>2. hashed = 1..Len(Pinned) /\ \A b \in Buffers : b \in hashed <=> b <= Len(Pinned)
  BY Constants, SMTT(30) DEF Init, Buffers
<1>3. \A b \in 1..Len(Pinned) : Pinned[b] \in Blocks /\ Pinned[b] \notin Bad
  BY BufferAssumption, SMTT(30)
<1>4. \A b \in Buffers : Sound(hashed, disk, b, bh[b])
  <2>1. \A b \in Buffers : b <= Len(Pinned) => b \in 1..Len(Pinned)
    BY <1>2, Zenon
  <2>. QED BY <1>1, <1>2, <1>3, <2>1, Zenon DEF Sound
<1>5. OneDirty(bh, hashed)
  BY <1>1, Zenon DEF OneDirty
<1>6. Behind(bh, disk)
  BY Zenon DEF Init, Behind
<1>7. Used(bh, me)
  BY DEF Init, Used, Idle
<1>. QED BY <1>4, <1>5, <1>6, <1>7, Zenon DEF Fresh

LEMMA Next_FInv ==
    ASSUME Counting, IInv, FInv, [Next]_vars
    PROVE  FInv'
<1>1. ASSUME NEW t \in Tasks, Goes(t) PROVE FInv'
  BY <1>1, HashFresh, UserFresh, SyncFresh, ScannedFresh, SyncWriteFresh, InsertedFresh, ZenonT(60)
     DEF Goes
<1>2. CASE UNCHANGED vars
  BY <1>2 DEF vars, FInv, Used
<1>. QED BY <1>1, <1>2, CallFresh, UserFresh, DirtiesFresh, InterruptFresh, ZenonT(30) DEF Next

-----------------------------------------------------------------------------
(* The free list.  The places of a ring of m buffers, 1 to m: the next and  *)
(* the one before.                                                          *)
Up(i, m)   == IF i = m THEN 1 ELSE i + 1
Down(i, m) == IF i = 1 THEN m ELSE i - 1

(* The list from fl is q[1], ..., q[m], linked both ways.                   *)
IsRing(q, m, fl, nx, pv) ==
    /\ m \in Nat \ {0} /\ q \in [1..m -> Buffers]
    /\ \A i, j \in 1..m : q[i] = q[j] => i = j
    /\ q[1] = fl
    /\ \A i \in 1..m : nx[q[i]] = q[Up(i, m)] /\ pv[q[i]] = q[Down(i, m)]

Covers(q, m, F) == /\ \A i \in 1..m : q[i] \in F
                   /\ \A b \in F : \E i \in 1..m : q[i] = b

Ring(F, fl, nx, pv) == \E m, q : IsRing(q, m, fl, nx, pv) /\ Covers(q, m, F)

LEMMA UpDown ==
    ASSUME NEW m \in Nat \ {0}, NEW i \in 1..m
    PROVE  /\ Up(i, m) \in 1..m /\ Down(i, m) \in 1..m
           /\ Up(Down(i, m), m) = i /\ Down(Up(i, m), m) = i
BY SMT DEF Up, Down

(* remove_from_queues, of a buffer that is not the only one.                *)
LEMMA RingOut ==
    ASSUME NEW F, NEW fl, NEW nx \in [Buffers -> Buffers], NEW pv \in [Buffers -> Buffers],
           Ring(F, fl, nx, pv), NEW b \in F, NEW c \in F, c # b
    PROVE  Ring(F \ {b}, IF fl = b THEN nx[b] ELSE fl, [nx EXCEPT ![pv[b]] = nx[b]],
                [pv EXCEPT ![nx[b]] = pv[b]])
<1>1. PICK m, q : IsRing(q, m, fl, nx, pv) /\ Covers(q, m, F)
  BY Zenon DEF Ring
<1>2. /\ m \in Nat \ {0} /\ q \in [1..m -> Buffers] /\ q[1] = fl
      /\ \A i, j \in 1..m : q[i] = q[j] => i = j
      /\ \A i \in 1..m : nx[q[i]] = q[Up(i, m)] /\ pv[q[i]] = q[Down(i, m)]
  BY <1>1, Zenon DEF IsRing
<1>3. PICK j \in 1..m : q[j] = b
  BY <1>1, Zenon DEF Covers
<1>4. PICK k \in 1..m : q[k] = c
  BY <1>1, Zenon DEF Covers
<1>5. m > 1
  BY <1>2, <1>3, <1>4, SMTT(30)
<1>. DEFINE n == m - 1
            Old(i) == IF i < j THEN i ELSE i + 1
            p == [i \in 1..n |-> q[Old(i)]]
            nx1 == [nx EXCEPT ![pv[b]] = nx[b]]
            pv1 == [pv EXCEPT ![nx[b]] = pv[b]]
            fl1 == IF fl = b THEN nx[b] ELSE fl
<1>6. n \in Nat \ {0} /\ \A i \in 1..n : Old(i) \in 1..m /\ Old(i) # j
  BY <1>2, <1>3, <1>5, SMTT(30)
<1>7. p \in [1..n -> Buffers] /\ \A i \in 1..n : p[i] = q[Old(i)]
  BY <1>2, <1>6
<1>8. \A i, h \in 1..n : p[i] = p[h] => i = h
  <2>1. ASSUME NEW i \in 1..n, NEW h \in 1..n, Old(i) = Old(h) PROVE i = h
    BY ONLY <2>1, <1>3, <1>2, <1>6, SMT
  <2>. QED BY <1>2, <1>6, <1>7, <2>1, Zenon
<1>9. nx[b] = q[Up(j, m)] /\ pv[b] = q[Down(j, m)]
  BY <1>2, <1>3, Zenon
<1>10. p[1] = fl1
  <2>1. 1 \in 1..n
    BY ONLY <1>2, <1>5, SMT
  <2>2. CASE j = 1
    <3>1. fl = b /\ Old(1) = 2 /\ Up(j, m) = 2
      BY <1>2, <1>3, <1>5, <2>2, SMT DEF Up
    <3>. QED BY <1>7, <1>9, <2>1, <3>1, Zenon
  <2>3. CASE j # 1
    <3>1. 1 \in 1..m /\ Old(1) = 1
      BY <1>2, <1>3, <2>3, SMT
    <3>2. fl # b
      BY <1>2, <1>3, <2>3, <3>1, Zenon
    <3>. QED BY <1>2, <1>7, <2>1, <3>1, <3>2, Zenon
  <2>. QED BY <2>2, <2>3
<1>11. ASSUME NEW i \in 1..n
       PROVE  nx1[p[i]] = p[Up(i, n)] /\ pv1[p[i]] = p[Down(i, n)]
  <2>. DEFINE o == Old(i)
  <2>1. o \in 1..m /\ o # j /\ p[i] = q[o] /\ q[o] \in Buffers
    BY <1>2, <1>6, <1>7
  <2>2. Up(i, n) \in 1..n /\ Down(i, n) \in 1..n
    BY <1>6, UpDown, ZenonT(60)
  <2>3. /\ Old(Up(i, n)) = IF o = Down(j, m) THEN Up(j, m) ELSE Up(o, m)
        /\ Old(Down(i, n)) = IF o = Up(j, m) THEN Down(j, m) ELSE Down(o, m)
    BY ONLY <1>2, <1>3, <1>5, <2>1, i \in 1..n, SMTT(60) DEF Up, Down
  <2>4. Up(j, m) \in 1..m /\ Down(j, m) \in 1..m
    BY <1>2, <1>3, UpDown
  <2>5. (q[o] = pv[b] <=> o = Down(j, m)) /\ (q[o] = nx[b] <=> o = Up(j, m))
    BY <1>2, <1>9, <2>1, <2>4, Zenon
  <2>6. nx[q[o]] = q[Up(o, m)] /\ pv[q[o]] = q[Down(o, m)]
    BY <1>2, <2>1, Zenon
  <2>7. /\ nx1[q[o]] = IF q[o] = pv[b] THEN nx[b] ELSE nx[q[o]]
        /\ pv1[q[o]] = IF q[o] = nx[b] THEN pv[b] ELSE pv[q[o]]
    <3>. HIDE DEF o
    <3>. QED BY <2>1
  <2>8. p[Up(i, n)] = q[Old(Up(i, n))] /\ p[Down(i, n)] = q[Old(Down(i, n))]
    BY <1>7, <2>2, Zenon
  <2>. HIDE DEF o, p, nx1, pv1, Old, n
  <2>. QED BY <1>9, <2>1, <2>3, <2>5, <2>6, <2>7, <2>8, ZenonT(60)
<1>12. IsRing(p, n, fl1, nx1, pv1)
  <2>. HIDE DEF n, p, fl1, nx1, pv1, Old
  <2>. QED BY <1>6, <1>7, <1>8, <1>10, <1>11, Zenon DEF IsRing
<1>13. Covers(p, n, F \ {b})
  <2>1. ASSUME NEW i \in 1..n PROVE p[i] \in F \ {b}
    BY <1>1, <1>2, <1>3, <1>6, <1>7, Zenon DEF Covers
  <2>2. ASSUME NEW x \in F \ {b} PROVE \E i \in 1..n : p[i] = x
    <3>1. PICK h \in 1..m : q[h] = x
      BY <1>1, Zenon DEF Covers
    <3>2. h # j
      BY <1>3, <3>1
    <3>. DEFINE i == IF h < j THEN h ELSE h - 1
    <3>3. i \in 1..n /\ Old(i) = h
      BY <1>2, <1>3, <3>2, SMT
    <3>. QED BY <1>7, <3>1, <3>3, Zenon
  <2>. QED BY <2>1, <2>2, Zenon DEF Covers
<1>. QED BY <1>12, <1>13, Zenon DEF Ring

(* insert_into_queues: at the end, before free_list.                        *)
LEMMA RingIn ==
    ASSUME NEW F, NEW fl, NEW nx \in [Buffers -> Buffers], NEW pv \in [Buffers -> Buffers],
           Ring(F, fl, nx, pv), NEW b \in Buffers, b \notin F
    PROVE  Ring(F \union {b}, fl, [nx EXCEPT ![b] = fl, ![pv[fl]] = b],
                [pv EXCEPT ![b] = pv[fl], ![fl] = b])
<1>1. PICK m, q : IsRing(q, m, fl, nx, pv) /\ Covers(q, m, F)
  BY Zenon DEF Ring
<1>2. /\ m \in Nat \ {0} /\ q \in [1..m -> Buffers] /\ q[1] = fl
      /\ \A i, j \in 1..m : q[i] = q[j] => i = j
      /\ \A i \in 1..m : nx[q[i]] = q[Up(i, m)] /\ pv[q[i]] = q[Down(i, m)]
  BY <1>1, Zenon DEF IsRing
<1>3. \A i \in 1..m : q[i] # b /\ q[i] \in Buffers
  BY <1>1, <1>2, SMTT(30) DEF Covers
<1>. DEFINE n == m + 1
            p == [i \in 1..n |-> IF i = n THEN b ELSE q[i]]
            nx1 == [nx EXCEPT ![b] = fl, ![pv[fl]] = b]
            pv1 == [pv EXCEPT ![b] = pv[fl], ![fl] = b]
<1>4. /\ n \in Nat \ {0} /\ 1 \in 1..m /\ m \in 1..m /\ n \notin 1..m
      /\ \A i : i \in 1..n <=> i \in 1..m \/ i = n
  BY <1>2, SMT
<1>5. /\ p \in [1..n -> Buffers] /\ p[n] = b /\ \A i \in 1..m : p[i] = q[i]
  <2>. HIDE DEF n
  <2>. QED BY <1>2, <1>4, ZenonT(60)
<1>6. pv[fl] = q[m] /\ fl \in Buffers /\ fl # b /\ q[m] # b /\ q[m] \in Buffers
  <2>1. Down(1, m) = m
    BY DEF Down
  <2>. QED BY <1>2, <1>3, <1>4, <2>1, Zenon
<1>7. /\ nx1[b] = fl /\ nx1[q[m]] = b /\ \A x \in Buffers \ {b, q[m]} : nx1[x] = nx[x]
      /\ pv1[b] = q[m] /\ pv1[fl] = b /\ \A x \in Buffers \ {b, fl} : pv1[x] = pv[x]
  BY <1>6
<1>. HIDE DEF n, p, nx1, pv1
<1>8. ASSUME NEW i \in 1..m
      PROVE  nx1[p[i]] = p[Up(i, n)] /\ pv1[p[i]] = p[Down(i, n)]
  <2>1. nx[q[i]] = q[Up(i, m)] /\ pv[q[i]] = q[Down(i, m)] /\ p[i] = q[i] /\ q[i] \in Buffers \ {b}
    BY <1>2, <1>3, <1>5, Zenon
  <2>2. Up(i, m) \in 1..m /\ Down(i, m) \in 1..m
    BY <1>2, UpDown, Zenon
  <2>3. /\ Up(i, n) = IF i = m THEN n ELSE Up(i, m)
        /\ Down(i, n) = IF i = 1 THEN n ELSE Down(i, m)
    BY ONLY <1>2, i \in 1..m, SMT DEF Up, Down, n
  <2>4. (q[i] = q[m] <=> i = m) /\ (q[i] = fl <=> i = 1)
    BY <1>2, <1>4, Zenon
  <2>5. nx1[q[i]] = p[Up(i, n)]
    <3>1. CASE i = m
      BY <1>5, <1>7, <2>3, <3>1, Zenon
    <3>2. CASE i # m
      <4>1. nx1[q[i]] = nx[q[i]]
        BY <1>7, <2>1, <2>4, <3>2, ZenonT(60)
      <4>. QED BY <1>5, <2>1, <2>2, <2>3, <3>2, <4>1, ZenonT(60)
    <3>. QED BY <3>1, <3>2
  <2>6. pv1[q[i]] = p[Down(i, n)]
    <3>1. CASE i = 1
      BY <1>2, <1>5, <1>7, <2>3, <3>1, Zenon
    <3>2. CASE i # 1
      <4>1. pv1[q[i]] = pv[q[i]]
        BY <1>7, <2>1, <2>4, <3>2, ZenonT(60)
      <4>. QED BY <1>5, <2>1, <2>2, <2>3, <3>2, <4>1, Zenon
    <3>. QED BY <3>1, <3>2
  <2>. QED BY <2>1, <2>5, <2>6
<1>9. nx1[p[n]] = p[Up(n, n)] /\ pv1[p[n]] = p[Down(n, n)]
  <2>1. Up(n, n) = 1 /\ Down(n, n) = m
    BY <1>2, SMTT(30) DEF Up, Down, n
  <2>2. p[n] = b /\ p[1] = fl /\ p[m] = q[m]
    BY <1>2, <1>4, <1>5
  <2>. QED BY <1>7, <2>1, <2>2
<1>10. IsRing(p, n, fl, nx1, pv1)
  <2>1. \A i \in 1..n : nx1[p[i]] = p[Up(i, n)] /\ pv1[p[i]] = p[Down(i, n)]
    BY <1>4, <1>8, <1>9, Zenon
  <2>2. \A i, j \in 1..n : p[i] = p[j] => i = j
    BY <1>2, <1>3, <1>4, <1>5, Zenon
  <2>3. p[1] = fl
    BY <1>2, <1>4, <1>5, Zenon
  <2>. QED BY <1>4, <1>5, <2>1, <2>2, <2>3, Zenon DEF IsRing
<1>11. Covers(p, n, F \union {b})
  BY <1>1, <1>4, <1>5, Zenon DEF Covers
<1>. QED BY <1>10, <1>11, Zenon DEF Ring, nx1, pv1

(* The least number with a property.                                        *)
LEMMA LeastIn ==
    ASSUME Counting, NEW S \in SUBSET Nat, S # {}
    PROVE  \E m \in S : \A k \in S : ~(k < m)
<1>1. PICK m \in S : \A k \in S : m <= k
  BY Zenon DEF Counting
<1>. QED BY <1>1, SMT

Follows(g, k, fl, nx) == g = [n \in 0..k |-> IF n = 0 THEN fl ELSE nx[g[n - 1]]]

(* The list can be followed any number of times.                            *)
LEMMA Followed ==
    ASSUME Counting, NEW fl \in Buffers, NEW nx \in [Buffers -> Buffers], NEW k \in Nat
    PROVE  \E g : Follows(g, k, fl, nx)
<1>. DEFINE S == {j \in Nat : ~\E g : Follows(g, j, fl, nx)}
<1>1. SUFFICES ASSUME S # {} PROVE FALSE
  BY Zenon
<1>2. PICK j \in S : \A i \in S : ~(i < j)
  BY <1>1, LeastIn, Zenon
<1>3. CASE j = 0
  <2>. DEFINE g == [n \in 0..0 |-> fl]
  <2>1. g = [n \in 0..0 |-> IF n = 0 THEN fl ELSE nx[g[n - 1]]]
    BY SMT
  <2>. QED BY <1>2, <1>3, <2>1, Zenon DEF Follows
<1>4. CASE j # 0
  <2>1. j - 1 \in Nat /\ j - 1 < j /\ j \in Nat
    BY <1>2, <1>4, SMT
  <2>2. PICK h : Follows(h, j - 1, fl, nx)
    BY <1>2, <2>1, Zenon
  <2>. DEFINE g == [n \in 0..j |-> IF n = j THEN nx[h[j - 1]] ELSE h[n]]
  <2>3. ASSUME NEW n \in 0..j PROVE g[n] = IF n = 0 THEN fl ELSE nx[g[n - 1]]
    BY <1>4, <2>1, <2>2, SMTT(30) DEF Follows
  <2>4. g = [n \in 0..j |-> IF n = 0 THEN fl ELSE nx[g[n - 1]]]
    BY <2>3, ZenonT(60)
  <2>. QED BY <1>2, <2>4, Zenon DEF Follows
<1>. QED BY <1>3, <1>4

(* Following the list from fl gives the buffers of the ring and no others.  *)
LEMMA RingFollowed ==
    ASSUME Counting, NEW F, NEW fl, NEW nx, NEW pv, Ring(F, fl, nx, pv), NEW g, Follows(g, N - 1, fl, nx)
    PROVE  /\ {g[n] : n \in 0..(N - 1)} = F
           /\ \A b \in F : pv[nx[b]] = b
<1>1. PICK m, q : IsRing(q, m, fl, nx, pv) /\ Covers(q, m, F)
  BY Zenon DEF Ring
<1>2. /\ m \in Nat \ {0} /\ q \in [1..m -> Buffers] /\ q[1] = fl
      /\ \A i, j \in 1..m : q[i] = q[j] => i = j
      /\ \A i \in 1..m : nx[q[i]] = q[Up(i, m)] /\ pv[q[i]] = q[Down(i, m)]
  BY <1>1, Zenon DEF IsRing
<1>3. m <= N
  <2>1. N \in Nat
    BY Constants, SMT
  <2>2. IsFiniteSet(1..N) /\ Cardinality(1..N) = N /\ Cardinality(1..m) = m
    BY <1>2, <2>1, Zenon DEF Counting
  <2>3. Cardinality(1..m) <= Cardinality(1..N)
    <3>1. Injections
      BY Zenon DEF Counting
    <3>. QED BY <1>2, <2>2, <3>1, Zenon DEF Buffers, Injections
  <2>. QED BY <2>2, <2>3, Zenon
<1>4. \A n \in 0..(N - 1) : g[n] = IF n = 0 THEN fl ELSE nx[g[n - 1]]
  BY Zenon DEF Follows
<1>5. \A i \in 1..m : g[i - 1] = q[i]
  <2>. DEFINE S == {i \in 1..m : g[i - 1] # q[i]}
  <2>1. SUFFICES ASSUME S # {} PROVE FALSE
    BY Zenon
  <2>2. PICK i \in S : \A k \in S : ~(k < i)
    <3>1. S \in SUBSET Nat
      BY <1>2, SMT
    <3>. QED BY <2>1, <3>1, LeastIn, Zenon
  <2>3. i \in 1..m /\ g[i - 1] # q[i]
    BY <2>2, ZenonT(60)
  <2>4. i # 1
    BY <1>2, <1>3, <1>4, <2>3, Constants, SMTT(30)
  <2>5. i - 1 \in 1..m /\ i - 1 < i /\ i - 1 \in 0..(N - 1) /\ i - 1 # 0 /\ Up(i - 1, m) = i
    BY ONLY <1>2, <1>3, <2>3, <2>4, Constants, SMT DEF Up
  <2>6. g[(i - 1) - 1] = q[i - 1]
    BY <2>2, <2>5, Zenon
  <2>7. g[i - 1] = nx[g[(i - 1) - 1]]
    BY <1>4, <2>5, Zenon
  <2>. QED BY <1>2, <2>3, <2>5, <2>6, <2>7, Zenon
<1>6. \A n \in 0..(N - 1) : g[n] \in F
  <2>. DEFINE S == {n \in 0..(N - 1) : g[n] \notin F}
  <2>1. SUFFICES ASSUME S # {} PROVE FALSE
    BY Zenon
  <2>2. PICK n \in S : \A k \in S : ~(k < n)
    <3>1. S \in SUBSET Nat
      BY SMT
    <3>. QED BY <2>1, <3>1, LeastIn, Zenon
  <2>3. n \in 0..(N - 1) /\ g[n] \notin F /\ 1 \in 1..m
    BY <1>2, <2>2
  <2>4. n # 0
    BY <1>1, <1>2, <1>4, <2>3, Zenon DEF Covers
  <2>5. n - 1 \in 0..(N - 1) /\ n - 1 < n
    BY ONLY <2>3, <2>4, Constants, SMT
  <2>6. PICK i \in 1..m : q[i] = g[n - 1]
    BY <1>1, <2>2, <2>5, Zenon DEF Covers
  <2>7. Up(i, m) \in 1..m
    BY <1>2, UpDown, Zenon
  <2>8. g[n] = q[Up(i, m)]
    BY <1>2, <1>4, <2>3, <2>4, <2>6, ZenonT(60)
  <2>. QED BY <1>1, <2>3, <2>7, <2>8, Zenon DEF Covers
<1>7. ASSUME NEW b \in F
      PROVE  pv[nx[b]] = b /\ \E n \in 0..(N - 1) : g[n] = b
  <2>1. PICK i \in 1..m : q[i] = b
    BY <1>1, Zenon DEF Covers
  <2>2. Up(i, m) \in 1..m /\ Down(Up(i, m), m) = i
    BY <1>2, UpDown, Zenon
  <2>3. pv[nx[b]] = b
    BY <1>2, <2>1, <2>2, Zenon
  <2>4. i - 1 \in 0..(N - 1)
    BY ONLY <1>2, <1>3, i \in 1..m, Constants, SMT
  <2>. QED BY <1>5, <2>1, <2>3, <2>4, Zenon
<1>. QED BY <1>6, <1>7
-----------------------------------------------------------------------------
(* The buffer a task with locals r has off the list; the buffers on it.     *)
Has(r)  == IF Taken(r) THEN r.tmp ELSE NULL
Free(M) == {b \in Buffers : \A t \in Tasks : Has(M[t]) # b}

(* The free list is one ring of the buffers no task has taken.             *)
RInv == Ring(Free(me), free_list, next_free, prev_free)

(* A step that takes or inserts no buffer.                                 *)
LEMMA KeepRing ==
    ASSUME IInv, RInv, NEW t \in Tasks, UNCHANGED list, Has(me'[t]) = Has(me[t]),
           \A u \in Tasks \ {t} : Same(me[u], me'[u])
    PROVE  RInv'
<1>1. ASSUME NEW u \in Tasks PROVE Has(me'[u]) = Has(me[u])
  <2>1. CASE u # t
    <3>1. me[u] \in Mind /\ Fits(me[u]) /\ Same(me[u], me'[u])
      BY <2>1, Mine, Zenon
    <3>2. me'[u].tmp = me[u].tmp /\ (Taken(me'[u]) <=> Taken(me[u]))
      BY <3>1, SameMind, Zenon
    <3>. QED BY <3>2, Zenon DEF Has
  <2>. QED BY <2>1, Zenon
<1>2. Free(me') = Free(me)
  BY <1>1, Zenon DEF Free
<1>. QED BY <1>2, Zenon DEF RInv, list

LEMMA KeepRingSame ==
    ASSUME RInv, UNCHANGED <<list, me>>
    PROVE  RInv'
BY DEF RInv, list

(* Only the place in the code changes, between two at which the task has    *)
(* no buffer off the list, or between two at which it has.                  *)
LEMMA HasAt ==
    ASSUME NEW r \in Mind, NEW s \in Mind, s.tmp = r.tmp,
           (s.pc \in SyncPCs \union {"insert"}) <=> (r.pc \in SyncPCs \union {"insert"})
    PROVE  Has(s) = Has(r)
BY Zenon DEF Has, Taken

LEMMA HasNone ==
    ASSUME NEW r, r.tmp = NULL \/ r.pc \notin SyncPCs \union {"insert"}
    PROVE  Has(r) = NULL
BY Zenon DEF Has, Taken

LEMMA CallRing ==
    ASSUME IInv, RInv, NEW t \in Tasks, Call(t)
    PROVE  RInv'
<1>1. me \in [Tasks -> Mind] /\ me[t] \in Mind /\ Fits(me[t])
  BY Mine
<1>2. UNCHANGED list /\ me[t].pc = "out"
  BY DEF Call, sys_sync, bread
<1>3. me[t].tmp = NULL
  BY <1>1, <1>2, Zenon DEF Fits
<1>4. ASSUME NEW k, bread(t, k)
      PROVE  me'[t].tmp = NULL /\ \A u \in Tasks \ {t} : Same(me[u], me'[u])
  BY <1>1, <1>3, <1>4, Zenon DEF bread, Mind, Same
<1>5. CASE sys_sync(t)
  <2>1. me'[t].tmp = NULL /\ \A u \in Tasks \ {t} : Same(me[u], me'[u])
    BY <1>1, <1>3, <1>5, Zenon DEF sys_sync, Mind, Same
  <2>. QED BY <1>2, <1>3, <2>1, HasNone, KeepRing, Zenon
<1>. QED BY <1>2, <1>3, <1>4, <1>5, HasNone, KeepRing, Zenon DEF Call

(* The next turn of a loop, of getblk or of sync_dev.                       *)
LEMMA AdvanceRing ==
    ASSUME IInv, NEW t \in Tasks, Advance(t), me[t].pc \in ScanPCs
    PROVE  Has(me'[t]) = Has(me[t]) /\ \A u \in Tasks \ {t} : Same(me[u], me'[u])
<1>1. me \in [Tasks -> Mind] /\ me[t] \in Mind
  BY Mine
<1>2. Has(me[t]) = NULL
  BY HasNone, Zenon DEF ScanPCs, SyncPCs
<1>. DEFINE n == next_free[me[t].tmp]
<1>3. CASE me' = [me EXCEPT ![t].pc = "scan", ![t].tmp = n]
  <2>1. me'[t].pc = "scan" /\ \A u \in Tasks \ {t} : Same(me[u], me'[u])
    BY <1>1, <1>3, Zenon DEF Mind, Same
  <2>. QED BY <1>2, <2>1, HasNone, Zenon DEF SyncPCs
<1>4. CASE me' = [me EXCEPT ![t].pc = "bufwait", ![t].tmp = NULL]
  <2>1. me'[t].pc = "bufwait" /\ \A u \in Tasks \ {t} : Same(me[u], me'[u])
    BY <1>1, <1>4, Zenon DEF Mind, Same
  <2>. QED BY <1>2, <2>1, HasNone, Zenon DEF SyncPCs
<1>. QED BY <1>3, <1>4, Zenon DEF Advance

LEMMA TurnRing ==
    ASSUME IInv, NEW t \in Tasks, Turn(t), me[t].pc \in SyncPCs
    PROVE  Has(me'[t]) = Has(me[t]) /\ \A u \in Tasks \ {t} : Same(me[u], me'[u])
<1>1. me \in [Tasks -> Mind] /\ me[t] \in Mind /\ Fits(me[t])
  BY Mine
<1>2. CASE me' = [me EXCEPT ![t].pc = "sync", ![t].i = @ + 1]
  <2>1. me'[t].pc = "sync" /\ me'[t].tmp = me[t].tmp /\ \A u \in Tasks \ {t} : Same(me[u], me'[u])
    BY <1>1, <1>2, Zenon DEF Mind, Same
  <2>. QED BY <2>1, Zenon DEF Has, Taken, SyncPCs
<1>3. CASE me' = [me EXCEPT ![t] = Idle] /\ me[t].dev = NULL
  <2>1. me'[t] = Idle /\ \A u \in Tasks \ {t} : Same(me[u], me'[u])
    BY <1>1, <1>3, Zenon DEF Same
  <2>2. me[t].tmp = NULL /\ Idle.tmp = NULL
    BY <1>1, <1>3, Zenon DEF Fits, Idle
  <2>. QED BY <2>1, <2>2, HasNone, Zenon
<1>4. CASE me' = [me EXCEPT ![t].pc = "insert", ![t].i = 0, ![t].dev = NULL]
  <2>1. me'[t].pc = "insert" /\ me'[t].tmp = me[t].tmp /\ \A u \in Tasks \ {t} : Same(me[u], me'[u])
    BY <1>1, <1>4, Zenon DEF Mind, Same
  <2>. QED BY <2>1, Zenon DEF Has, Taken, SyncPCs
<1>. QED BY <1>2, <1>3, <1>4, Zenon DEF Turn

(* A task goes from one place to another with the same buffer.              *)
LEMMA PlaceRing ==
    ASSUME IInv, NEW t \in Tasks, NEW p, me' = [me EXCEPT ![t].pc = p],
           p \in SyncPCs \union {"insert"} <=> me[t].pc \in SyncPCs \union {"insert"}
    PROVE  Has(me'[t]) = Has(me[t]) /\ \A u \in Tasks \ {t} : Same(me[u], me'[u])
<1>1. me \in [Tasks -> Mind] /\ me[t] \in Mind
  BY Mine
<1>2. me'[t].pc = p /\ me'[t].tmp = me[t].tmp /\ \A u \in Tasks \ {t} : Same(me[u], me'[u])
  BY <1>1, Zenon DEF Mind, Same
<1>. QED BY <1>2, Zenon DEF Has, Taken

(* brelse.                                                                 *)
LEMMA ReleaseRing ==
    ASSUME IInv, NEW t \in Tasks, NEW r, r.tmp = NULL, Release(t, r), me[t].pc \in UsePCs
    PROVE  Has(me'[t]) = Has(me[t]) /\ \A u \in Tasks \ {t} : Same(me[u], me'[u])
<1>1. me'[t] = r /\ \A u \in Tasks \ {t} : Same(me[u], me'[u])
  BY Zenon DEF Release, Woken, Same
<1>. QED BY <1>1, HasNone, Zenon DEF UsePCs, SyncPCs

(* getblk takes a buffer off the list.  It is not the last one there: a     *)
(* pinned buffer is never taken, or there are fewer tasks than buffers.     *)
LEMMA TakesRing ==
    ASSUME Counting, IInv, RInv, NEW t \in Tasks, me[t].pc = "scanned", bh[me[t].tmp].count = 0, Takes(t)
    PROVE  RInv'
<1>. DEFINE b == me[t].tmp
<1>1. /\ me \in [Tasks -> Mind] /\ me[t] \in Mind /\ Fits(me[t]) /\ Inv(bh, hashed, me)
      /\ bh \in [Buffers -> Header]
  BY Mine
<1>2. b \in Buffers /\ b # NULL /\ Has(me[t]) = NULL /\ NULL \notin Buffers
  BY <1>1, HasNone, Constants, Zenon DEF Fits, ScanPCs, SyncPCs
<1>3. ASSUME NEW u \in Tasks PROVE Has(me[u]) # b
  <2>. SUFFICES ASSUME Has(me[u]) = b PROVE FALSE
    OBVIOUS
  <2>1. Ref(me[u]) = b
    BY <1>2, Zenon DEF Has, Ref
  <2>2. bh[b].count > 0
    BY <1>1, <1>2, <2>1, Referred, ZenonT(60)
  <2>. QED BY <2>2, SMTT(30)
<1>4. /\ me'[t].tmp = b /\ me'[t].pc \in {"sync", "insert"}
      /\ \A u \in Tasks \ {t} : me'[u] = me[u]
  <2>1. CASE bh[b].dirt
    BY <1>1, <2>1, Zenon DEF Takes, Mind
  <2>2. CASE ~bh[b].dirt
    BY <1>1, <2>2, Zenon DEF Takes, Mind
  <2>. QED BY <2>1, <2>2
<1>5. Has(me'[t]) = b
  BY <1>2, <1>4, Zenon DEF Has, Taken, SyncPCs
<1>. HIDE DEF b
<1>6. Free(me') = Free(me) \ {b} /\ b \in Free(me)
  BY <1>2, <1>3, <1>4, <1>5 DEF Free
<1>7. \E c \in Free(me) : c # b
  <2>1. CASE Len(Pinned) > 0
    <3>1. 1 \in Buffers /\ bh[1].count # 0
      <4>1. Refs(Ptr(me), 1) \in Nat /\ 1 \in Buffers
        BY RefsType, Constants, Zenon
      <4>2. bh[1].count = Refs(Ptr(me), 1) + IF 1 <= Len(Pinned) THEN 1 ELSE 0
        BY <1>1, <4>1, Zenon DEF Inv, Counts
      <4>. QED BY ONLY <2>1, <4>1, <4>2, Constants, SMT
    <3>2. ASSUME NEW u \in Tasks PROVE Has(me[u]) # 1
      <4>1. Taken(me[u]) => me[u].tmp > Len(Pinned)
        BY <1>1, Zenon DEF Inv, Good
      <4>2. 1 # NULL /\ ~(1 > Len(Pinned))
        <5>1. ~(1 > Len(Pinned))
          BY <2>1, Constants, SMT
        <5>. QED BY <3>1, <5>1, Constants, Zenon
      <4>. QED BY <4>1, <4>2, Zenon DEF Has
    <3>. QED BY <3>1, <3>2, Zenon DEF Free, b
  <2>2. CASE Cardinality(Tasks) < N
    <3>. SUFFICES ASSUME \A c \in Free(me) : c = b PROVE FALSE
      BY Zenon
    <3>. DEFINE f == [u \in Tasks |-> IF Has(me[u]) \in Buffers THEN Has(me[u]) ELSE b]
    <3>1. f \in [Tasks -> Buffers]
      BY <1>2
    <3>2. ASSUME NEW c \in Buffers PROVE \E u \in Tasks : f[u] = c
      <4>1. CASE c = b
        BY <1>2, <4>1, Zenon
      <4>2. CASE c # b
        <5>1. PICK u \in Tasks : Has(me[u]) = c
          BY <4>2, Zenon DEF Free
        <5>. QED BY <5>1, Zenon
      <4>. QED BY <4>1, <4>2, Zenon
    <3>3. N \in Nat
      BY Constants, SMT
    <3>4. Cardinality(Buffers) <= Cardinality(Tasks)
      <4>. HIDE DEF f
      <4>1. Surjections
        BY Zenon DEF Counting
      <4>. QED BY <3>1, <3>2, <4>1, BufferAssumption, Zenon DEF Surjections
    <3>5. Cardinality(1..N) = N /\ Cardinality(Tasks) \in Nat
      BY <3>3, BufferAssumption, Zenon DEF Counting
    <3>. QED BY ONLY <2>2, <3>4, <3>5, Constants, SMT DEF Buffers
  <2>. QED BY <2>1, <2>2, BufferAssumption, Zenon
<1>8. PICK c \in Free(me) : c # b
  BY <1>7, Zenon
<1>9. /\ free_list' = (IF free_list = b THEN next_free[b] ELSE free_list)
      /\ next_free' = [next_free EXCEPT ![prev_free[b]] = next_free[b]]
      /\ prev_free' = [prev_free EXCEPT ![next_free[b]] = prev_free[b]]
      /\ next_free \in [Buffers -> Buffers] /\ prev_free \in [Buffers -> Buffers]
  BY Zenon DEF Takes, remove_from_queues, IInv, LInv, b
<1>10. Ring(Free(me) \ {b}, free_list', next_free', prev_free')
  BY <1>6, <1>8, <1>9, RingOut, Zenon DEF RInv
<1>. QED BY <1>6, <1>10, Zenon DEF RInv

(* The end of getblk: the buffer comes back, at the end of the list.        *)
LEMMA InsertRing ==
    ASSUME IInv, RInv, NEW t \in Tasks, Insert(t)
    PROVE  RInv'
<1>. DEFINE b == me[t].tmp
<1>1. /\ me \in [Tasks -> Mind] /\ me[t] \in Mind /\ Fits(me[t]) /\ Alone(me)
      /\ me[t].pc = "insert"
  BY Mine DEF Inv, Insert
<1>2. b \in Buffers /\ b # NULL /\ Taken(me[t]) /\ Has(me[t]) = b
  BY <1>1, Constants, Zenon DEF Fits, Taken, Has
<1>3. ASSUME NEW u \in Tasks \ {t} PROVE Has(me[u]) # b
  <2>1. Ref(me[u]) # b
    BY <1>1, <1>2, Zenon DEF Alone
  <2>. QED BY <1>2, <2>1, Zenon DEF Has, Ref
<1>4. me'[t].pc \in {"hash", "got"} /\ \A u \in Tasks \ {t} : me'[u] = me[u]
  <2>1. CASE me' = [me EXCEPT ![t].pc = "hash", ![t].tmp = NULL]
    BY <1>1, <2>1, Zenon DEF Mind
  <2>2. CASE me' = [me EXCEPT ![t].pc = "got"]
    BY <1>1, <2>2, Zenon DEF Mind
  <2>. QED BY <2>1, <2>2, Zenon DEF Insert, Beaten, Settles
<1>5. Has(me'[t]) = NULL
  BY <1>4, HasNone, Zenon DEF SyncPCs
<1>6. PICK k : insert_into_queues(b, k)
  BY Zenon DEF Insert, Beaten, Settles
<1>. HIDE DEF b
<1>7. Free(me') = Free(me) \union {b} /\ b \notin Free(me)
  BY <1>2, <1>3, <1>4, <1>5, Constants, ZenonT(60) DEF Free
<1>8. /\ free_list' = free_list
      /\ next_free' = [next_free EXCEPT ![b] = free_list, ![prev_free[free_list]] = b]
      /\ prev_free' = [prev_free EXCEPT ![b] = prev_free[free_list], ![free_list] = b]
      /\ next_free \in [Buffers -> Buffers] /\ prev_free \in [Buffers -> Buffers]
  BY <1>6, Zenon DEF insert_into_queues, IInv, LInv
<1>9. Ring(Free(me) \union {b}, free_list', next_free', prev_free')
  BY <1>2, <1>7, <1>8, RingIn, Zenon DEF RInv
<1>. QED BY <1>7, <1>9, Zenon DEF RInv

(* The steps of a call that leave the list alone.                          *)
LEMMA LoopRing ==
    ASSUME IInv, RInv, NEW t \in Tasks, Scan(t) \/ Sync(t) \/ SyncWrite(t) \/ Written(t)
    PROVE  RInv'
<1>. DEFINE Keeps == Has(me'[t]) = Has(me[t]) /\ \A u \in Tasks \ {t} : Same(me[u], me'[u])
<1>1. UNCHANGED list
  BY DEF Scan, Sync, SyncWrite, Written
<1>2. CASE Scan(t)
  <2>1. me[t].pc = "scan"
    BY <1>2 DEF Scan
  <2>2. ASSUME Advance(t) PROVE Keeps
    BY <2>1, <2>2, AdvanceRing, Zenon DEF ScanPCs
  <2>3. ASSUME me' = [me EXCEPT ![t].pc = "scanned"] PROVE Keeps
    BY <2>1, <2>3, PlaceRing, Zenon DEF SyncPCs
  <2>. HIDE DEF Keeps
  <2>4. Keeps
    BY <1>2, <2>2, <2>3, Zenon DEF Scan
  <2>. QED BY <1>1, <2>4, KeepRing, Zenon DEF Keeps
<1>3. CASE Sync(t) \/ SyncWrite(t) \/ Written(t)
  <2>1. me[t].pc \in SyncPCs
    BY <1>3 DEF Sync, SyncWrite, Written, SyncPCs
  <2>2. ASSUME Turn(t) PROVE Keeps
    BY <2>1, <2>2, TurnRing, Zenon
  <2>3. ASSUME NEW p \in SyncPCs, me' = [me EXCEPT ![t].pc = p] PROVE Keeps
    BY <2>1, <2>3, PlaceRing, Zenon
  <2>4. "syncwait" \in SyncPCs /\ "writing" \in SyncPCs
    BY DEF SyncPCs
  <2>. HIDE DEF Keeps
  <2>5. Keeps
    BY <1>3, <2>2, <2>3, <2>4, Zenon DEF Sync, SyncWrite, Written
  <2>. QED BY <1>1, <2>5, KeepRing, Zenon DEF Keeps
<1>. QED BY <1>2, <1>3, Zenon

LEMMA HashRing ==
    ASSUME IInv, RInv, NEW t \in Tasks, get_hash_table(t)
    PROVE  RInv'
<1>1. me \in [Tasks -> Mind] /\ me[t] \in Mind /\ me[t].pc = "hash" /\ UNCHANGED list
  BY Mine DEF get_hash_table
<1>2. me'[t].pc \in {"hashed", "scan"} /\ \A u \in Tasks \ {t} : Same(me[u], me'[u])
  <2>1. ASSUME NEW x, me' = [me EXCEPT ![t].pc = "hashed", ![t].tmp = x]
        PROVE  me'[t].pc = "hashed" /\ \A u \in Tasks \ {t} : Same(me[u], me'[u])
    BY <1>1, <2>1, Zenon DEF Mind, Same
  <2>2. CASE me' = [me EXCEPT ![t].pc = "scan", ![t].tmp = free_list]
    BY <1>1, <2>2, Zenon DEF Mind, Same
  <2>. QED BY <2>1, <2>2, Zenon DEF get_hash_table
<1>3. Has(me'[t]) = NULL /\ Has(me[t]) = NULL
  BY <1>1, <1>2, HasNone, Zenon DEF SyncPCs
<1>. QED BY <1>1, <1>2, <1>3, KeepRing, Zenon

LEMMA UserRing ==
    ASSUME IInv, RInv, NEW t \in Tasks, Hashed(t) \/ Got(t) \/ Read(t) \/ brelse(t)
    PROVE  RInv'
<1>. DEFINE Keeps == Has(me'[t]) = Has(me[t]) /\ \A u \in Tasks \ {t} : Same(me[u], me'[u])
<1>1. UNCHANGED list /\ me[t].pc \in UsePCs /\ me[t] \in Mind
  BY Mine DEF Hashed, Got, Read, brelse, UsePCs
<1>2. ASSUME NEW p \in {"got", "use", "reading"}, me' = [me EXCEPT ![t].pc = p] PROVE Keeps
  BY <1>1, <1>2, PlaceRing, Zenon DEF SyncPCs, UsePCs
<1>3. ASSUME Release(t, Idle) PROVE Keeps
  <2>1. Idle.tmp = NULL
    BY DEF Idle
  <2>. QED BY <1>1, <1>3, <2>1, ReleaseRing, Zenon
<1>4. ASSUME Release(t, [me[t] EXCEPT !.pc = "hash", !.tmp = NULL]) PROVE Keeps
  <2>1. [me[t] EXCEPT !.pc = "hash", !.tmp = NULL].tmp = NULL
    BY <1>1, Zenon DEF Mind
  <2>. QED BY <1>1, <1>4, <2>1, ReleaseRing, Zenon
<1>. HIDE DEF Keeps
<1>5. Keeps
  BY <1>2, <1>3, <1>4, Zenon DEF Hashed, Got, Read, brelse
<1>. QED BY <1>1, <1>5, KeepRing, Zenon DEF Keeps

LEMMA ScannedRing ==
    ASSUME Counting, IInv, RInv, NEW t \in Tasks, Scanned(t)
    PROVE  RInv'
<1>1. CASE bh[me[t].tmp].count = 0
  BY <1>1, TakesRing, Zenon DEF Scanned
<1>2. CASE bh[me[t].tmp].count # 0
  <2>1. me[t].pc \in ScanPCs /\ Advance(t) /\ UNCHANGED list
    BY <1>2 DEF Scanned, ScanPCs
  <2>. QED BY <2>1, AdvanceRing, KeepRing, ZenonT(60)
<1>. QED BY <1>1, <1>2, Zenon

LEMMA Init_RInv ==
    ASSUME Init
    PROVE  RInv
<1>. DEFINE s == Len(Pinned)
            q == [i \in 1..N |-> IF i + s <= N THEN i + s ELSE i + s - N]
<1>1. /\ free_list = s + 1 /\ next_free = [b \in Buffers |-> IF b = N THEN 1 ELSE b + 1]
      /\ prev_free = [b \in Buffers |-> IF b = 1 THEN N ELSE b - 1]
  BY DEF Init
<1>2. s \in Nat /\ N \in Nat \ {0} /\ s < N
  BY Constants, SMT DEF Buffers
<1>3. Free(me) = Buffers
  <2>1. ASSUME NEW t \in Tasks PROVE Has(me[t]) = NULL
    <3>1. me[t].tmp = NULL
      BY DEF Init, Idle
    <3>. QED BY <3>1, HasNone, ZenonT(60)
  <2>. QED BY <2>1, Constants DEF Free
<1>. HIDE DEF s
<1>4. q \in [1..N -> Buffers] /\ \A i \in 1..N : q[i] = IF i + s <= N THEN i + s ELSE i + s - N
  BY <1>2 DEF Buffers
<1>. HIDE DEF q
<1>5. \A i, j \in 1..N : q[i] = q[j] => i = j
  BY ONLY <1>2, <1>4, SMT
<1>6. q[1] = free_list
  BY ONLY <1>1, <1>2, <1>4, SMTT(30)
<1>7. ASSUME NEW i \in 1..N
      PROVE  next_free[q[i]] = q[Up(i, N)] /\ prev_free[q[i]] = q[Down(i, N)]
  <2>1. Up(i, N) \in 1..N /\ Down(i, N) \in 1..N
    BY <1>2, UpDown
  <2>2. q[i] \in Buffers
    BY <1>4
  <2>3. /\ next_free[q[i]] = (IF q[i] = N THEN 1 ELSE q[i] + 1)
        /\ prev_free[q[i]] = (IF q[i] = 1 THEN N ELSE q[i] - 1)
    BY <1>1, <2>2
  <2>4. /\ q[Up(i, N)] = (IF Up(i, N) + s <= N THEN Up(i, N) + s ELSE Up(i, N) + s - N)
        /\ q[Down(i, N)] = (IF Down(i, N) + s <= N THEN Down(i, N) + s ELSE Down(i, N) + s - N)
        /\ q[i] = (IF i + s <= N THEN i + s ELSE i + s - N)
    BY <1>4, <2>1, Zenon
  <2>. QED BY ONLY <1>2, <2>3, <2>4, i \in 1..N, SMT DEF Up, Down
<1>8. IsRing(q, N, free_list, next_free, prev_free)
  BY <1>2, <1>4, <1>5, <1>6, <1>7, Zenon DEF IsRing
<1>9. ASSUME NEW b \in Buffers PROVE \E i \in 1..N : q[i] = b
  <2>. DEFINE i == IF b > s THEN b - s ELSE b - s + N
  <2>1. i \in 1..N /\ (IF i + s <= N THEN i + s ELSE i + s - N) = b
    BY ONLY <1>2, b \in Buffers, SMT DEF Buffers
  <2>. HIDE DEF i
  <2>2. q[i] = b
    BY <1>4, <2>1
  <2>. QED BY <2>1, <2>2, Zenon
<1>10. Covers(q, N, Buffers)
  BY <1>4, <1>9, Zenon DEF Covers
<1>. QED BY <1>3, <1>8, <1>10, Zenon DEF Ring, RInv

LEMMA Next_RInv ==
    ASSUME Counting, IInv, RInv, [Next]_vars
    PROVE  RInv'
<1>1. ASSUME NEW t \in Tasks, Goes(t) PROVE RInv'
  BY <1>1, HashRing, UserRing, LoopRing, ScannedRing, InsertRing, Zenon DEF Goes
<1>2. CASE Dirties \/ (\E b \in Buffers : Interrupt(b)) \/ UNCHANGED vars
  <2>1. UNCHANGED <<list, me>>
    BY <1>2, Zenon DEF Dirties, Modify, ModifyPinned, Interrupt, Transfer, write_intr, read_intr, vars
  <2>. QED BY <2>1, KeepRingSame, Zenon
<1>. QED BY <1>1, <1>2, CallRing, UserRing, Zenon DEF Next
-----------------------------------------------------------------------------
INSTANCE FiniteSetTheorems

LEMMA CountingHolds == Counting
<1>1. \A A : IsFiniteSet(A) => Cardinality(A) \in Nat /\ (Cardinality(A) = 0 <=> A = {})
  BY FS_CardinalityType, FS_EmptySet, Zenon
<1>2. \A A : \A B \in SUBSET A : IsFiniteSet(A) => IsFiniteSet(B)
  BY FS_Subset, Zenon
<1>3. \A A, x : IsFiniteSet(A) => IsFiniteSet(A \union {x}) /\ IsFiniteSet(A \ {x})
  BY FS_AddElement, FS_RemoveElement, Zenon
<1>4. \A A, x : IsFiniteSet(A) /\ x \notin A => Cardinality(A \union {x}) = Cardinality(A) + 1
  BY FS_AddElement, Zenon
<1>5. \A A, x : IsFiniteSet(A) =>
        Cardinality(A \ {x}) = IF x \in A THEN Cardinality(A) - 1 ELSE Cardinality(A)
  BY FS_RemoveElement, Zenon
<1>6. ASSUME NEW A \in SUBSET Nat, A # {} PROVE \E x \in A : \A y \in A : x <= y
  <2>1. PICK m \in A : \A k \in A : ~(<<k, m>> \in OpToRel(<, Nat))
    BY <1>6, NatLessThanWellFounded, WFMin, Zenon
  <2>2. \A k \in A : ~(k < m)
    BY <2>1, Zenon DEF OpToRel
  <2>. QED BY <2>2
<1>7. ASSUME NEW n \in Nat PROVE IsFiniteSet(1..n) /\ Cardinality(1..n) = n
  <2>1. IsFiniteSet(1..n) /\ Cardinality(1..n) = IF 1 > n THEN 0 ELSE n - 1 + 1
    BY FS_Interval
  <2>. QED BY <2>1, SMTT(30)
<1>8. Injections
  BY FS_Injection, Zenon DEF Injections, Injection, IsInjective
<1>9. Surjections
  <2>1. ASSUME NEW A, NEW B, NEW f \in [A -> B], IsFiniteSet(A), \A y \in B : \E x \in A : f[x] = y
        PROVE  Cardinality(B) <= Cardinality(A)
    <3>1. f \in Surjection(A, B)
      BY <2>1, Zenon DEF Surjection
    <3>. QED BY <2>1, <3>1, FS_Surjection, Zenon
  <2>. QED BY <2>1, Zenon DEF Surjections
<1>. QED BY <1>1, <1>2, <1>3, <1>4, <1>5, <1>6, <1>7, <1>8, <1>9, Zenon DEF Counting

LEMMA Invariance == Spec => []IInv
<1>1. Init => IInv
  BY Init_IInv, CountingHolds
<1>2. IInv /\ [Next]_vars => IInv'
  BY Next_IInv, CountingHolds, ZenonT(60)
<1>. QED BY <1>1, <1>2, PTL DEF Spec

(* The buffer heads, the links of the free list and the locals of every    *)
(* task keep their types.                                                  *)
THEOREM TypeCorrect == Spec => []TypeOK
<1>1. IInv => TypeOK
  BY Zenon DEF IInv, LInv, Inv, TypeOK, Header, Mind, HashPCs, ScanPCs, SyncPCs, UsePCs
<1>. QED BY <1>1, Invariance, PTL

(* b_count is the number of references, whoever sleeps where: brelse finds *)
(* it above zero, and getblk takes a buffer only if nobody refers to it.   *)
THEOREM CountsExact == Spec => []CountExact
<1>1. IInv => CountExact
  <2>. SUFFICES ASSUME IInv, NEW b \in Buffers
                PROVE  bh[b].count = Cardinality({t \in Tasks : Holding(t, b)})
                                     + IF b <= Len(Pinned) THEN 1 ELSE 0
    BY ZenonT(60) DEF CountExact
  <2>1. ASSUME NEW t \in Tasks PROVE Holding(t, b) <=> Ptr(me)[t] = b
    BY Constants DEF Holding, Removing, Using, Ptr, Ref, Taken, SyncPCs, UsePCs
  <2>2. {t \in Tasks : Holding(t, b)} = {t \in Tasks : Ptr(me)[t] = b}
    BY <2>1, Zenon
  <2>. QED BY <2>2, ZenonT(60) DEF IInv, Inv, Counts, Refs
<1>. QED BY <1>1, Invariance, PTL

(* What getblk returns is the only buffer in the hash queues with the      *)
(* block that was asked for, and stays it until brelse: find_buffer is     *)
(* asked again after the last sleep, and a buffer in use is never taken.   *)
THEOREM RightBlocks == Spec => []RightBlock
<1>1. IInv => RightBlock
  <2>. SUFFICES ASSUME IInv, NEW t \in Tasks, Using(t)
                PROVE  find_buffer(me[t].want) = {me[t].tmp}
    BY ZenonT(60) DEF RightBlock
  <2>1. me[t].tmp \in hashed /\ bh[me[t].tmp].key = me[t].want
    BY Mine DEF Using, Good, UsePCs
  <2>2. Unique(bh, hashed)
    BY DEF IInv, Inv
  <2>. QED BY <2>1, <2>2, ZenonT(60) DEF find_buffer, Unique
<1>. QED BY <1>1, Invariance, PTL

(* getblk gives a buffer another block only when no request for it is      *)
(* under way: the loop of sync_dev has waited for it, and nobody else can  *)
(* have started one since.                                                 *)
THEOREM NoRename == Spec => NoRenameInFlight
<1>1. ASSUME IInv, [Next]_vars, NEW b \in Buffers, Locked(b)
      PROVE  bh'[b].key = bh[b].key
  <2>. DEFINE KeysKept == \A c \in Buffers : bh'[c].key = bh[c].key
  <2>1. /\ bh \in [Buffers -> Header] /\ Inv(bh, hashed, me)
    BY <1>1 DEF IInv, Inv
  <2>2. ASSUME NEW t \in Tasks, NEW r, Release(t, r) PROVE KeysKept
    BY <2>1, <2>2 DEF Release
  <2>3. ASSUME NEW c, NEW x, StartIO(c, x) PROVE KeysKept
    BY <2>1, <2>3 DEF StartIO
  <2>4. ASSUME NEW t \in Tasks, Call(t) PROVE KeysKept
    BY <2>4, ZenonT(60) DEF Call, bread, sys_sync
  <2>5. ASSUME NEW t \in Tasks, get_hash_table(t) \/ Scan(t) \/ Scanned(t) \/ Sync(t) \/ Written(t)
        PROVE  KeysKept
    <3>1. ASSUME NEW c, bh' = [bh EXCEPT ![c].count = @ + 1] PROVE KeysKept
      BY <2>1, <3>1
    <3>2. CASE UNCHANGED bh
      BY <3>2, Zenon
    <3>. HIDE DEF KeysKept
    <3>. QED BY <2>5, <3>1, <3>2, Zenon DEF get_hash_table, Scan, Scanned, Takes, Sync, Written
  <2>6. ASSUME NEW t \in Tasks, Hashed(t) \/ SyncWrite(t) \/ Got(t) \/ Read(t) \/ brelse(t)
        PROVE  KeysKept
    BY <2>2, <2>3, <2>6, Zenon DEF Hashed, SyncWrite, Got, Read, brelse
  <2>7. ASSUME NEW t \in Tasks, Insert(t) PROVE bh'[b].key = bh[b].key
    <3>1. me[t].pc = "insert" /\ Fits(me[t]) /\ Good(bh, hashed, me[t])
      BY <1>1, <2>7, Mine, Zenon DEF Insert
    <3>2. bh[me[t].tmp].io = "idle" /\ me[t].tmp \in Buffers
      BY <3>1, Constants, ZenonT(60) DEF Fits, Good, Taken
    <3>3. b # me[t].tmp
      BY <1>1, <3>2, ZenonT(60) DEF Locked
    <3>. QED BY <2>1, <2>7, <3>3, Zenon DEF Insert, Beaten, Settles
  <2>8. ASSUME NEW c \in Buffers, Interrupt(c) PROVE KeysKept
    <3>1. CASE Transfer(c)
      BY <2>1, <3>1, SMTT(30) DEF Transfer
    <3>2. CASE write_intr(c)
      BY <2>1, <3>2 DEF write_intr
    <3>3. CASE read_intr(c)
      BY <2>1, <3>3, SMTT(30) DEF read_intr
    <3>. QED BY <2>8, <3>1, <3>2, <3>3, Zenon DEF Interrupt
  <2>9. ASSUME NEW c, Change(c) PROVE KeysKept
    <3>1. ASSUME NEW d \in Buffers PROVE bh'[d].key = bh[d].key
      <4>1. bh[d] \in Header
        BY <2>1
      <4>. QED BY <2>9, <4>1, Zenon DEF Change, Header
    <3>. QED BY <3>1, Zenon
  <2>10. CASE UNCHANGED vars
    BY <2>10 DEF vars
  <2>11. CASE Dirties
    BY <2>9, <2>11, Zenon DEF Dirties, Modify, ModifyPinned
  <2>. HIDE DEF KeysKept
  <2>12. CASE \E t \in Tasks : Goes(t)
    BY <2>5, <2>6, <2>7, <2>12, Zenon DEF Goes, KeysKept
  <2>. QED BY <1>1, <2>4, <2>6, <2>8, <2>10, <2>11, <2>12, Zenon DEF Next, KeysKept
<1>2. IInv /\ [Next]_vars => [\A b \in Buffers : Locked(b) => bh'[b].key = bh[b].key]_vars
  BY <1>1
<1>. QED BY <1>2, Invariance, PTL DEF Spec, NoRenameInFlight

LEMMA Freshness == Spec => [](IInv /\ FInv)
<1>1. Init => IInv /\ FInv
  BY Init_IInv, CountingHolds, Init_FInv, Zenon
<1>2. IInv /\ FInv /\ [Next]_vars => (IInv /\ FInv)'
  BY Next_IInv, CountingHolds, Next_FInv, Zenon
<1>. QED BY <1>1, <1>2, PTL DEF Spec

(* A task that uses a block sees what was last written to it, for any      *)
(* number of buffers, blocks and tasks and through any evictions, unless   *)
(* one of the two windows was hit (getblk's sleep in sync_dev with the     *)
(* buffer unhashed; a change while the driver copies the data).            *)
THEOREM NeverStale == Spec => []NoStaleUse
<1>1. IInv /\ FInv => NoStaleUse
  <2>. SUFFICES ASSUME IInv, FInv, hit = {}, NEW t \in Tasks, me[t].pc = "use"
                PROVE  bh[me[t].tmp].fresh
    BY DEF NoStaleUse
  <2>1. me[t].tmp \in hashed /\ me[t].tmp \in Buffers
    BY Mine, Zenon DEF Good, UsePCs
  <2>2. bh[me[t].tmp].uptodate /\ Sound(hashed, disk, me[t].tmp, bh[me[t].tmp])
    BY <2>1, Zenon DEF FInv, Used, Fresh
  <2>. QED BY <2>1, <2>2, ZenonT(30) DEF Sound
<1>. QED BY <1>1, Freshness, PTL

(* A buffer whose contents the disk has not got is dirty, so that the next *)
(* sync writes it, with the same exceptions.                               *)
THEOREM DirtyStays == Spec => []DirtyKept
<1>1. IInv /\ FInv => DirtyKept
  <2>. SUFFICES ASSUME IInv, FInv, hit = {}, NEW b \in hashed, bh[b].uptodate, ~bh[b].dirt, bh[b].fresh
                PROVE  disk[bh[b].key]
    BY ZenonT(30) DEF DirtyKept
  <2>1. b \in Buffers /\ bh[b].key \in Blocks /\ Fresh(bh, hashed, disk)
    <3>1. b \in Buffers /\ Fresh(bh, hashed, disk)
      BY DEF IInv, Inv, FInv
    <3>. QED BY <3>1, ZenonT(60) DEF Fresh, Sound
  <2>. SUFFICES ASSUME ~disk[bh[b].key] PROVE FALSE
    OBVIOUS
  <2>2. PICK c \in Buffers : bh[c].key = bh[b].key /\ bh[c].dirt
    BY <2>1, Zenon DEF Fresh, Behind
  <2>3. c # b
    BY <2>2
  <2>. QED BY <2>1, <2>2, <2>3, Zenon DEF Fresh, OneDirty
<1>. QED BY <1>1, Freshness, PTL

(* remove_from_queues and insert_into_queues keep the free list one ring,   *)
(* linked both ways, of exactly the buffers no task has taken off it: the   *)
(* loop of getblk over b_next_free comes back to free_list, having seen     *)
(* each of them once.                                                       *)
THEOREM OneRing == Spec => []FreeRing
<1>1. IInv /\ RInv => FreeRing
  <2>. SUFFICES ASSUME IInv, RInv PROVE FreeRing
    OBVIOUS
  <2>1. free_list \in Buffers /\ next_free \in [Buffers -> Buffers] /\ N - 1 \in Nat
    <3>1. N - 1 \in Nat
      BY Constants, SMTT(30) DEF Buffers
    <3>. QED BY <3>1, Zenon DEF IInv, LInv
  <2>2. \E g : Follows(g, N - 1, free_list, next_free)
    BY <2>1, Followed, CountingHolds, Zenon
  <2>3. Follows(Nth, N - 1, free_list, next_free)
    BY <2>2, Zenon DEF Follows, Nth
  <2>4. /\ {Nth[n] : n \in 0..(N - 1)} = Free(me)
        /\ \A b \in Free(me) : prev_free[next_free[b]] = b
    BY <2>3, RingFollowed, CountingHolds, Zenon DEF RInv
  <2>5. ASSUME NEW b \in Buffers, NEW t \in Tasks
        PROVE  (Removing(t) /\ me[t].tmp = b) <=> Has(me[t]) = b
    BY Constants, Zenon DEF Removing, Has, Taken, SyncPCs
  <2>6. Free(me) = {b \in Buffers : \A t \in Tasks : ~(Removing(t) /\ me[t].tmp = b)}
    BY <2>5, Zenon DEF Free
  <2>. QED BY <2>4, <2>6, Zenon DEF FreeRing
<1>2. Init => IInv /\ RInv
  BY Init_IInv, CountingHolds, Init_RInv, Zenon
<1>3. IInv /\ RInv /\ [Next]_vars => (IInv /\ RInv)'
  BY Next_IInv, CountingHolds, Next_RInv, Zenon
<1>. QED BY <1>1, <1>2, <1>3, PTL DEF Spec
==============================================================================
