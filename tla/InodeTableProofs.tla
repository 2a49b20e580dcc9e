--------------------------- MODULE InodeTableProofs ---------------------------
(***************************************************************************)
(* The reference counts of the in-core inodes are exact for any number of  *)
(* tasks and any size of the table and the file system, whatever windows   *)
(* other tasks hit.  Every lookup holds two inodes for a while, the one it *)
(* claims before it searches the table and the one it finds; the invariant *)
(* says which of them a task at each place of iget, new_inode and iput     *)
(* refers to, and that a claimed inode is nobody else's until it is named. *)
(***************************************************************************)
EXTENDS InodeTable, FiniteSetTheorems, WellFoundedInduction, TLAPS

Refs(f, i) == Cardinality({t \in Tasks : f[t] = i})

LEMMA RefsType ==
    ASSUME NEW f, NEW i
    PROVE  IsFiniteSet({t \in Tasks : f[t] = i}) /\ Refs(f, i) \in Nat
<1>1. {t \in Tasks : f[t] = i} \in SUBSET Tasks
  OBVIOUS
<1>2. IsFiniteSet({t \in Tasks : f[t] = i})
  BY <1>1, FS_Subset, InodeTableAssumption
<1>. QED BY <1>2, FS_CardinalityType DEF Refs

(* What it does to the counts that one task's pointer changes.             *)
LEMMA RefsMove ==
    ASSUME NEW f, f = [u \in Tasks |-> f[u]], NEW t \in Tasks, NEW v, NEW i
    PROVE  Refs([f EXCEPT ![t] = v], i) =
             (IF f[t] = i THEN Refs(f, i) - 1 ELSE Refs(f, i)) + (IF v = i THEN 1 ELSE 0)
<1>. DEFINE S == {u \in Tasks : f[u] = i}
            R == {u \in Tasks : [f EXCEPT ![t] = v][u] = i}
<1>1. IsFiniteSet(S) /\ Cardinality(S) \in Nat
  BY RefsType, Zenon DEF Refs
<1>2. \A u \in Tasks : [f EXCEPT ![t] = v][u] = IF u = t THEN v ELSE f[u]
  OBVIOUS
<1>3. IsFiniteSet(S \ {t}) /\ Cardinality(S \ {t}) = IF f[t] = i THEN Cardinality(S) - 1 ELSE Cardinality(S)
  BY <1>1, FS_RemoveElement, Zenon
<1>4. R = IF v = i THEN (S \ {t}) \union {t} ELSE S \ {t}
  BY <1>2
<1>5. Cardinality((S \ {t}) \union {t}) = Cardinality(S \ {t}) + 1
  BY <1>3, FS_AddElement, Zenon
<1>6. Cardinality(R) = Cardinality(S \ {t}) + (IF v = i THEN 1 ELSE 0)
  <2>. HIDE DEF R, S
  <2>1. Cardinality(S \ {t}) \in Nat
    BY <1>3, FS_CardinalityType
  <2>. QED BY <1>4, <1>5, <2>1
<1>. HIDE DEF R, S
<1>7. Cardinality(R) = (IF f[t] = i THEN Cardinality(S) - 1 ELSE Cardinality(S)) + (IF v = i THEN 1 ELSE 0)
  BY <1>3, <1>6
<1>. QED BY <1>7 DEF R, S, Refs

LEMMA RefsNone ==
    ASSUME NEW f, NEW i
    PROVE  Refs(f, i) = 0 <=> \A t \in Tasks : f[t] # i
<1>. DEFINE S == {u \in Tasks : f[u] = i}
<1>1. IsFiniteSet(S)
  BY RefsType, Zenon
<1>2. Cardinality(S) = 0 <=> S = {}
  BY <1>1, FS_EmptySet
<1>. QED BY <1>2 DEF Refs

(* The least member of a set of numbers is one of them.                    *)
LEMMA MinIn ==
    ASSUME NEW S \in SUBSET Nat, S # {}
    PROVE  Min(S) \in S
<1>1. PICK m \in S : \A k \in S : ~(<<k, m>> \in OpToRel(<, Nat))
  BY NatLessThanWellFounded, WFMin, Zenon
<1>2. \A k \in S : ~(k < m)
  BY <1>1, Zenon DEF OpToRel
<1>3. \E x \in S : \A y \in S : x <= y
  BY <1>2
<1>. QED BY <1>3, Zenon DEF Min

LEMMA ModIn ==
    ASSUME NEW x \in Nat, NEW n \in Nat \ {0}
    PROVE  (x % n) \in 0..n - 1
OBVIOUS
-----------------------------------------------------------------------------
Record == [num : 0..s_ninodes, count : Int, lock : BOOLEAN, dirt : BOOLEAN,
           nlinks : 0..MaxLinks]

Claiming == {"search", "empty", "emptyWrite"}
Claimed  == {"iget", "igetWait", "new"}
Putting  == {"iput", "repeat", "iputWrite", "truncate"}
Syncing  == {"sync", "syncWrite", "syncNext"}

TInv ==
    /\ inode \in [Table -> Record]
    /\ imap \subseteq Nums
    /\ disk \in [Nums -> 0..MaxLinks] /\ entries \in [Nums -> 0..MaxLinks]
    /\ last_allocated_inode \in Table
    /\ current \in Tasks \union {None}
    /\ pc \in [Tasks -> {"user", "read"} \union Claiming \union Claimed
                          \union Putting \union Syncing]
    /\ op \in [Tasks -> {"none", "iget", "new"}]
    /\ slot \in [Tasks -> Table \union {None}]
    /\ empty \in [Tasks -> Table \union {None}]
    /\ held \in [Tasks -> Table \union {None}]
    /\ nr \in [Tasks -> 0..s_ninodes]
    /\ hit \subseteq {"stale", "locked"}

(* What task t refers to where.                                            *)
Place(t) ==
    /\ pc[t] \notin {"user", "search", "iget", "new"} => slot[t] \in Table
    /\ pc[t] \in Claimed \union {"read"} => empty[t] \in Table
    /\ pc[t] \notin Claimed \union {"read"} => empty[t] = None
    /\ pc[t] = "read" => slot[t] = empty[t]
    /\ pc[t] \in Claiming \union Claimed \union {"read"} => held[t] = None
    /\ pc[t] \in Putting => held[t] = slot[t]
    /\ pc[t] \in Claiming => op[t] \in {"iget", "new"}
    /\ pc[t] \in Claiming /\ op[t] = "iget" => nr[t] \in Nums
    /\ pc[t] \in {"iget", "igetWait", "read"} => nr[t] \in Nums

PlaceInv == \A t \in Tasks : Place(t)

(* A claimed inode has no number yet and is nobody else's.                 *)
FreshInv ==
    \A t \in Tasks : pc[t] \in Claimed =>
        /\ inode[empty[t]].num = 0
        /\ \A u \in Tasks : held[u] # empty[t] /\ (u # t => empty[u] # empty[t])

CountInv == \A i \in Table : inode[i].count = Refs(held, i) + Refs(empty, i)

IInv == TInv /\ PlaceInv /\ FreshInv /\ CountInv

LEMMA Init_IInv == Init => IInv
<1>. SUFFICES ASSUME Init PROVE IInv
  OBVIOUS
<1>1. 0 \in Table /\ None \notin Table
  BY InodeTableAssumption DEF Table, None
<1>c. 0 \in 0..s_ninodes /\ 0 \in 0..MaxLinks /\ 1 \in 0..MaxLinks
  <2>1. s_ninodes \in Nat \ {0} /\ MaxLinks \in Nat \ {0}
    BY InodeTableAssumption
  <2>. QED BY <2>1
<1>d. /\ inode = [i \in Table |-> Zeroed]
      /\ disk = [n \in Nums |-> IF n \in imap THEN 1 ELSE 0] /\ entries = disk
      /\ nr = [t \in Tasks |-> 0]
  BY Zenon DEF Init
<1>z. Zeroed \in Record /\ Zeroed.count = 0
  BY <1>c DEF Record, Zeroed
<1>2. TInv
  <2>1. inode \in [Table -> Record]
    BY <1>z, <1>d
  <2>2. disk \in [Nums -> 0..MaxLinks] /\ entries = disk
    BY <1>c, <1>d
  <2>3. /\ pc \in [Tasks -> {"user", "read"} \union Claiming \union Claimed
                             \union Putting \union Syncing]
        /\ op \in [Tasks -> {"none", "iget", "new"}]
        /\ slot \in [Tasks -> Table \union {None}]
        /\ empty \in [Tasks -> Table \union {None}]
        /\ held \in [Tasks -> Table \union {None}]
    BY Zenon DEF Init
  <2>4. nr \in [Tasks -> 0..s_ninodes]
    BY <1>c, <1>d
  <2>5. /\ imap \subseteq Nums /\ hit \subseteq {"stale", "locked"}
        /\ last_allocated_inode \in Table /\ current \in Tasks \union {None}
    BY <1>1, Zenon DEF Init
  <2>. QED BY <2>1, <2>2, <2>3, <2>4, <2>5 DEF TInv
<1>3. PlaceInv /\ FreshInv
  BY Zenon DEF Init, PlaceInv, Place, FreshInv, Claiming, Claimed, Putting
<1>4. CountInv
  <2>1. \A i \in Table : Refs(held, i) = 0 /\ Refs(empty, i) = 0
    BY <1>1, RefsNone, Zenon DEF Init
  <2>. QED BY <2>1, <1>z, <1>d DEF CountInv
<1>. QED BY <1>2, <1>3, <1>4 DEF IInv
-----------------------------------------------------------------------------
(* A step that moves one task and leaves numbers, counts and references.   *)
LEMMA MoveStep ==
    ASSUME IInv, NEW t \in Tasks, NEW p, pc' = [pc EXCEPT ![t] = p],
           TInv', UNCHANGED <<empty, held>>,
           \A i \in Table : inode'[i].count = inode[i].count,
           \A i \in Table : inode'[i].num = inode[i].num,
           \A u \in Tasks \ {t} : slot'[u] = slot[u] /\ op'[u] = op[u] /\ nr'[u] = nr[u],
           Place(t)', p \in Claimed => pc[t] \in Claimed
    PROVE  IInv'
<1>1. PlaceInv'
  <2>. SUFFICES ASSUME NEW u \in Tasks PROVE Place(u)'
    BY DEF PlaceInv
  <2>1. CASE u # t
    <3>1. UNCHANGED <<pc[u], slot[u], op[u], nr[u], empty[u], held[u]>>
      BY <2>1 DEF IInv, TInv
    <3>2. Place(u)
      BY DEF IInv, PlaceInv
    <3>. QED BY <3>1, <3>2 DEF Place
  <2>. QED BY <2>1
<1>2. FreshInv'
  <2>1. \A u \in Tasks : pc'[u] \in Claimed => pc[u] \in Claimed
    BY DEF IInv, TInv
  <2>2. \A u \in Tasks : pc[u] \in Claimed => empty[u] \in Table
    BY DEF IInv, PlaceInv, Place
  <2>. QED BY <2>1, <2>2 DEF IInv, FreshInv
<1>3. CountInv'
  BY Zenon DEF IInv, CountInv, Refs
<1>. QED BY <1>1, <1>2, <1>3 DEF IInv

(* Updates of fields of one inode.                                         *)
LEMMA SetLock ==
    ASSUME NEW r \in Record, NEW b \in BOOLEAN, NEW c \in BOOLEAN
    PROVE  /\ [r EXCEPT !.lock = b] \in Record /\ [r EXCEPT !.lock = b].count = r.count
           /\ [r EXCEPT !.lock = b].num = r.num
           /\ [r EXCEPT !.lock = b, !.dirt = c] \in Record
           /\ [r EXCEPT !.lock = b, !.dirt = c].count = r.count
           /\ [r EXCEPT !.lock = b, !.dirt = c].num = r.num
BY Zenon DEF Record

LEMMA SetLinks ==
    ASSUME NEW r \in Record, NEW c \in BOOLEAN, NEW l \in 0..MaxLinks
    PROVE  /\ [r EXCEPT !.nlinks = l, !.dirt = c] \in Record
           /\ [r EXCEPT !.nlinks = l, !.dirt = c].count = r.count
           /\ [r EXCEPT !.nlinks = l, !.dirt = c].num = r.num
           /\ [r EXCEPT !.nlinks = l, !.lock = c] \in Record
           /\ [r EXCEPT !.nlinks = l, !.lock = c].count = r.count
           /\ [r EXCEPT !.nlinks = l, !.lock = c].num = r.num
BY Zenon DEF Record

LEMMA SetNum ==
    ASSUME NEW r \in Record, NEW c \in BOOLEAN, NEW n \in 0..s_ninodes
    PROVE  /\ [r EXCEPT !.num = n, !.lock = c] \in Record
           /\ [r EXCEPT !.num = n, !.lock = c].count = r.count
           /\ [r EXCEPT !.num = n, !.lock = c].num = n
BY Zenon DEF Record

LEMMA SetCount ==
    ASSUME NEW r \in Record, NEW k \in Int
    PROVE  /\ [r EXCEPT !.count = k] \in Record /\ [r EXCEPT !.count = k].count = k
           /\ [r EXCEPT !.count = k].num = r.num
BY DEF Record

LEMMA Update ==
    ASSUME NEW f \in [Table -> Record], NEW i \in Table, NEW r \in Record,
           r.count = f[i].count, r.num = f[i].num, NEW g, g = [f EXCEPT ![i] = r]
    PROVE  /\ g \in [Table -> Record]
           /\ \A k \in Table : g[k].count = f[k].count /\ g[k].num = f[k].num
OBVIOUS

(* Whoever runs has a record of the table to work on.                      *)
LEMMA Fields ==
    ASSUME TInv, NEW i \in Table
    PROVE  /\ inode[i] \in Record
           /\ inode[i].num \in 0..s_ninodes /\ inode[i].count \in Int
           /\ inode[i].lock \in BOOLEAN /\ inode[i].dirt \in BOOLEAN
           /\ inode[i].nlinks \in 0..MaxLinks
BY DEF TInv, Record

LEMMA Constants ==
    0 \in 0..s_ninodes /\ 0 \in 0..MaxLinks /\ 0 \notin Nums /\ Table \subseteq Nat
BY InodeTableAssumption DEF Nums, Table

LEMMA NoneIsNothing == None \notin Table /\ None \notin Tasks
BY InodeTableAssumption DEF None, Table

(* Calls begin: Lookup, Create, iput and sync.                             *)
LEMMA BeginStep ==
    ASSUME IInv, NEW t \in Tasks,
           \/ \E n \in Nums : Lookup(t, n)
           \/ Create(t) \/ iputCall(t) \/ syncCall(t)
    PROVE  IInv'
<1>. USE NoneIsNothing DEF IInv
<1>0. pc[t] = "user" /\ Place(t)
  BY DEF PlaceInv, Lookup, Create, iputCall, syncCall
<1>1. ASSUME NEW n \in Nums, Lookup(t, n) PROVE IInv'
  <2>1. /\ held[t] = None
        /\ nr' = [nr EXCEPT ![t] = n] /\ op' = [op EXCEPT ![t] = "iget"]
        /\ pc' = [pc EXCEPT ![t] = "search"] /\ current' = None
        /\ UNCHANGED <<slot, inode, disk, entries, imap, empty, held,
                       last_allocated_inode, hit>>
    BY <1>1 DEF Lookup, Sleep, file
  <2>2. TInv'
    BY <2>1 DEF TInv, Claiming, Nums
  <2>3. Place(t)'
    BY <1>0, <2>1 DEF Place, TInv, Claiming, Claimed, Putting
  <2>. QED BY <2>1, <2>2, <2>3, MoveStep, Zenon DEF TInv, Claimed
<1>2. ASSUME Create(t) PROVE IInv'
  <2>1. /\ held[t] = None /\ op' = [op EXCEPT ![t] = "new"]
        /\ pc' = [pc EXCEPT ![t] = "search"] /\ current' = None
        /\ UNCHANGED <<slot, nr, inode, disk, entries, imap, empty, held,
                       last_allocated_inode, hit>>
    BY <1>2 DEF Create, Sleep, file
  <2>2. TInv'
    BY <2>1, ZenonT(60) DEF TInv, Claiming
  <2>3. Place(t)'
    BY <1>0, <2>1 DEF Place, TInv, Claiming, Claimed, Putting
  <2>. QED BY <2>1, <2>2, <2>3, MoveStep, Zenon DEF TInv, Claimed
<1>3. ASSUME iputCall(t) PROVE IInv'
  <2>1. /\ held[t] # None /\ slot' = [slot EXCEPT ![t] = held[t]]
        /\ pc' = [pc EXCEPT ![t] = "iput"] /\ current' \in {t, None}
        /\ UNCHANGED <<op, nr, inode, disk, entries, imap, empty, held,
                       last_allocated_inode, hit>>
    BY <1>3 DEF iputCall, At, file
  <2>2. TInv'
    BY <2>1, ZenonT(60) DEF TInv, Putting
  <2>3. Place(t)'
    BY <1>0, <2>1 DEF Place, TInv, Claiming, Claimed, Putting
  <2>. QED BY <2>1, <2>2, <2>3, MoveStep, Zenon DEF TInv, Claimed
<1>4. ASSUME syncCall(t) PROVE IInv'
  <2>1. /\ slot' = [slot EXCEPT ![t] = 0]
        /\ pc' = [pc EXCEPT ![t] = "sync"] /\ current' \in {t, None}
        /\ UNCHANGED <<op, nr, inode, disk, entries, imap, empty, held,
                       last_allocated_inode, hit>>
    BY <1>4 DEF syncCall, At, file
  <2>2. 0 \in Table
    BY InodeTableAssumption DEF Table
  <2>3. TInv'
    BY <2>1, <2>2, Zenon DEF TInv, Syncing
  <2>4. Place(t)'
    BY <1>0, <2>1, <2>2 DEF Place, TInv, Claiming, Claimed, Putting
  <2>. QED BY <2>1, <2>3, <2>4, MoveStep, Zenon DEF TInv, Claimed
<1>. QED BY <1>1, <1>2, <1>3, <1>4
-----------------------------------------------------------------------------
(* write_inode, the scan for an empty inode, sync and link change neither  *)
(* a count nor a number.                                                   *)
LEMMA SearchStep ==
    ASSUME IInv, NEW t \in Tasks, search(t), UNCHANGED panic
    PROVE  IInv'
<1>. USE NoneIsNothing DEF IInv
<1>. DEFINE free == {k \in 0..NR_INODE - 1 :
                       inode[(last_allocated_inode + k) % NR_INODE].count = 0}
            i == (last_allocated_inode + Min(free)) % NR_INODE
<1>0. pc[t] = "search" /\ panic = "" /\ Place(t)
  BY Zenon DEF search, Runs, PlaceInv
<1>1. free # {}
  BY <1>0, Zenon DEF search, Panic
<1>2. /\ last_allocated_inode' = i /\ At(t, "empty", i)
      /\ UNCHANGED <<inode, file, op, empty, nr, held, hit>>
  BY <1>1, Zenon DEF search
<1>3. i \in Table
  <2>1. NR_INODE \in Nat \ {0}
    BY InodeTableAssumption
  <2>2. free \in SUBSET Nat
    BY <2>1
  <2>3. Min(free) \in Nat
    BY <1>1, <2>2, MinIn, Zenon
  <2>4. last_allocated_inode + Min(free) \in Nat
    BY <2>1, <2>3 DEF TInv, Table
  <2>. HIDE DEF free
  <2>. QED BY <2>1, <2>4, ModIn DEF Table
<1>. HIDE DEF i, free
<1>4. /\ pc' = [pc EXCEPT ![t] = "empty"] /\ slot' = [slot EXCEPT ![t] = i]
      /\ current' \in {t, None}
      /\ UNCHANGED <<inode, imap, disk, entries, op, empty, nr, held, hit>>
  BY <1>2 DEF At, file
<1>5. TInv'
  BY <1>2, <1>3, <1>4 DEF TInv, Claiming
<1>6. Place(t)'
  BY <1>0, <1>3, <1>4, Zenon DEF Place, TInv, Claiming, Claimed, Putting
<1>. QED BY <1>4, <1>5, <1>6, MoveStep, Zenon DEF TInv, Claimed

(* write_inode takes the lock, and gives it back with the inode clean.     *)
LEMMA WriteBeginsStep ==
    ASSUME IInv, NEW t \in Tasks, NEW p, WriteBegins(t, p), slot[t] \in Table,
           UNCHANGED <<imap, disk, entries, op, empty, nr, held, last_allocated_inode, hit>>,
           \/ pc[t] = "empty" /\ p = "emptyWrite"
           \/ pc[t] = "repeat" /\ p = "iputWrite"
           \/ pc[t] = "sync" /\ p = "syncWrite"
    PROVE  IInv'
<1>. USE NoneIsNothing DEF IInv
<1>1. /\ inode' = [inode EXCEPT ![slot[t]].lock = TRUE]
      /\ pc' = [pc EXCEPT ![t] = p] /\ current' = None /\ UNCHANGED slot
  BY ZenonT(60) DEF WriteBegins, Sleep
<1>2. /\ inode' \in [Table -> Record]
      /\ \A i \in Table : inode'[i].count = inode[i].count /\ inode'[i].num = inode[i].num
  <2>. DEFINE r == [inode[slot[t]] EXCEPT !.lock = TRUE]
  <2>1. inode' = [inode EXCEPT ![slot[t]] = r]
    BY <1>1
  <2>2. r \in Record /\ r.count = inode[slot[t]].count /\ r.num = inode[slot[t]].num
    BY SetLock, Fields, Zenon
  <2>. HIDE DEF r
  <2>. QED BY <2>1, <2>2, Update DEF TInv
<1>3. TInv'
  BY <1>1, <1>2, ZenonT(60) DEF TInv, Claiming, Putting, Syncing
<1>4. Place(t)'
  BY <1>1 DEF PlaceInv, Place, TInv, Claiming, Claimed, Putting
<1>. QED BY <1>1, <1>2, <1>3, <1>4, MoveStep, Zenon DEF TInv, Claimed

LEMMA WriteEndsStep ==
    ASSUME IInv, NEW t \in Tasks, WriteEnds(t)
    PROVE  IInv'
<1>. USE NoneIsNothing DEF IInv
<1>0. pc[t] \in {"emptyWrite", "iputWrite", "syncWrite"} /\ Place(t)
  BY DEF WriteEnds, PlaceInv
<1>s. slot[t] \in Table
  BY <1>0 DEF Place
<1>. DEFINE p == CASE pc[t] = "emptyWrite" -> "empty"
                   [] pc[t] = "iputWrite"  -> "repeat"
                   [] pc[t] = "syncWrite"  -> "syncNext"
<1>1. /\ disk' = [disk EXCEPT ![InBlock(inode[slot[t]].num)] = inode[slot[t]].nlinks]
      /\ inode' = [inode EXCEPT ![slot[t]].lock = FALSE, ![slot[t]].dirt = FALSE]
      /\ pc' = [pc EXCEPT ![t] = p] /\ current' = t
      /\ UNCHANGED <<imap, entries, op, slot, empty, nr, held, last_allocated_inode, hit>>
  BY <1>0 DEF WriteEnds, Written, TInv
<1>2. \/ pc[t] = "emptyWrite" /\ p = "empty"
      \/ pc[t] = "iputWrite" /\ p = "repeat"
      \/ pc[t] = "syncWrite" /\ p = "syncNext"
  BY <1>0
<1>. HIDE DEF p
<1>3. /\ inode' \in [Table -> Record]
      /\ \A i \in Table : inode'[i].count = inode[i].count /\ inode'[i].num = inode[i].num
  <2>. DEFINE r == [inode[slot[t]] EXCEPT !.lock = FALSE, !.dirt = FALSE]
  <2>1. inode' = [inode EXCEPT ![slot[t]] = r]
    BY <1>1, <1>s, Zenon DEF TInv
  <2>2. r \in Record /\ r.count = inode[slot[t]].count /\ r.num = inode[slot[t]].num
    BY <1>s, SetLock, Fields, Zenon
  <2>. HIDE DEF r
  <2>. QED BY <1>s, <2>1, <2>2, Update DEF TInv
<1>4. disk' \in [Nums -> 0..MaxLinks]
  <2>1. inode[slot[t]].nlinks \in 0..MaxLinks
    BY <1>s, Fields
  <2>. QED BY <1>1, <2>1, Zenon DEF TInv
<1>5. TInv'
  BY <1>1, <1>2, <1>3, <1>4, ZenonT(60) DEF TInv, Claiming, Putting, Syncing
<1>6. Place(t)'
  BY <1>0, <1>1, <1>2, ZenonT(60) DEF Place, TInv, Claiming, Claimed, Putting
<1>7. p \notin Claimed
  BY <1>2 DEF Claimed
<1>. QED BY <1>1, <1>3, <1>5, <1>6, <1>7, MoveStep, Zenon

(* sync_inodes.                                                            *)
LEMMA SyncStep ==
    ASSUME IInv, NEW t \in Tasks, sync_inodes(t) \/ syncNext(t)
    PROVE  IInv'
<1>. USE NoneIsNothing DEF IInv
<1>0. pc[t] \in {"sync", "syncNext"} /\ Place(t)
  BY DEF sync_inodes, syncNext, PlaceInv
<1>s. slot[t] \in Table /\ empty[t] = None
  BY <1>0 DEF Place, Claimed
<1>1. CASE sync_inodes(t) /\ inode[slot[t]].dirt
  <2>1. /\ WriteBegins(t, "syncWrite") /\ pc[t] = "sync"
        /\ UNCHANGED <<imap, disk, entries, op, empty, nr, held, last_allocated_inode, hit>>
    BY <1>1 DEF sync_inodes, file
  <2>. QED BY <2>1, <1>s, WriteBeginsStep, ZenonT(60)
<1>2. CASE sync_inodes(t) /\ ~inode[slot[t]].dirt
  <2>1. /\ pc' = [pc EXCEPT ![t] = "syncNext"] /\ slot' = [slot EXCEPT ![t] = slot[t]]
        /\ current' \in {t, None} 
        /\ UNCHANGED <<inode, imap, disk, entries, op, empty, nr, held, last_allocated_inode, hit>>
    BY <1>2 DEF sync_inodes, At, file
  <2>2. TInv'
    BY <2>1, ZenonT(60) DEF TInv, Syncing
  <2>3. Place(t)'
    BY <1>0, <1>s, <2>1 DEF Place, TInv, Claiming, Claimed, Putting
  <2>. QED BY <2>1, <2>2, <2>3, MoveStep, Zenon DEF TInv, Claimed
<1>3. CASE syncNext(t) /\ slot[t] = NR_INODE - 1
  <2>1. /\ pc' = [pc EXCEPT ![t] = "user"] /\ op' = [op EXCEPT ![t] = "none"]
        /\ slot' = [slot EXCEPT ![t] = None] /\ nr' = [nr EXCEPT ![t] = 0]
        /\ empty' = [empty EXCEPT ![t] = None] /\ held' = [held EXCEPT ![t] = held[t]]
        /\ current' = None
        /\ UNCHANGED <<inode, imap, disk, entries, last_allocated_inode, hit>>
    BY <1>3 DEF syncNext, Return, file
  <2>2. empty' = empty /\ held' = held
    BY <1>s, <2>1, Zenon DEF TInv
  <2>3. TInv'
    BY <2>1, <2>2, InodeTableAssumption DEF TInv
  <2>4. Place(t)'
    BY <1>s, <2>1, <2>2 DEF Place, TInv, Claiming, Claimed, Putting
  <2>. QED BY <2>1, <2>2, <2>3, <2>4, MoveStep, Zenon DEF TInv, Claimed
<1>4. CASE syncNext(t) /\ slot[t] # NR_INODE - 1
  <2>1. /\ pc' = [pc EXCEPT ![t] = "sync"] /\ slot' = [slot EXCEPT ![t] = slot[t] + 1]
        /\ current' \in {t, None}
        /\ UNCHANGED <<inode, imap, disk, entries, op, empty, nr, held, last_allocated_inode, hit>>
    BY <1>4 DEF syncNext, At, file
  <2>2. slot[t] + 1 \in Table
    BY <1>s, <1>4, InodeTableAssumption, SMTT(30) DEF Table
  <2>3. TInv'
    BY <2>1, <2>2, Zenon DEF TInv, Syncing
  <2>4. Place(t)'
    BY <1>s, <2>1, <2>2 DEF Place, TInv, Claiming, Claimed, Putting
  <2>. QED BY <2>1, <2>3, <2>4, MoveStep, Zenon DEF TInv, Claimed
<1>. QED BY <1>1, <1>2, <1>3, <1>4, Zenon

(* sys_link and sys_unlink.                                                *)
LEMMA LinkStep ==
    ASSUME IInv, NEW t \in Tasks, NEW by \in {-1, 1}, link(t, by)
    PROVE  IInv'
<1>. USE NoneIsNothing DEF IInv
<1>0. /\ pc[t] = "user" /\ held[t] \in Table /\ Place(t)
      /\ UNCHANGED <<imap, disk, pc, op, slot, empty, nr, held, current,
                     last_allocated_inode, hit>>
  BY ZenonT(60) DEF link, TInv, PlaceInv, task
<1>. DEFINE i == held[t]
            n == inode[i].num
            x == inode[i].nlinks + by
<1>1. /\ entries[n] > 0 /\ entries[n] + by <= MaxLinks /\ x <= MaxLinks
      /\ entries' = [entries EXCEPT ![n] = @ + by]
      /\ inode' = [inode EXCEPT ![i].nlinks = Max({0, @ + by}), ![i].dirt = TRUE]
  BY ZenonT(60) DEF link
<1>2. MaxLinks \in Nat /\ inode[i].nlinks \in 0..MaxLinks /\ x \in Int
  BY <1>0, Fields, InodeTableAssumption
<1>3. Max({0, x}) \in 0..MaxLinks
  <2>1. \E y \in {0, x} : \A z \in {0, x} : y >= z
    BY <1>2
  <2>2. Max({0, x}) \in {0, x} /\ Max({0, x}) >= 0
    BY <2>1, <1>2 DEF Max
  <2>. HIDE DEF x
  <2>. QED BY <2>2, <1>1, <1>2
<1>4. /\ inode' \in [Table -> Record]
      /\ \A k \in Table : inode'[k].count = inode[k].count /\ inode'[k].num = inode[k].num
  <2>1. inode' = [inode EXCEPT ![i].nlinks = Max({0, x}), ![i].dirt = TRUE]
    BY <1>1
  <2>. DEFINE m == Max({0, x})
              r == [inode[i] EXCEPT !.nlinks = m, !.dirt = TRUE]
  <2>2. inode' = [inode EXCEPT ![i] = r]
    BY <2>1, <1>0, Zenon DEF TInv
  <2>. HIDE DEF m
  <2>3. r \in Record /\ r.count = inode[i].count /\ r.num = inode[i].num
    <3>1. m \in 0..MaxLinks /\ inode[i] \in Record
      BY <1>0, <1>3, Fields DEF m
    <3>. QED BY <3>1, SetLinks, Zenon
  <2>. HIDE DEF r, i
  <2>. QED BY <1>0, <2>2, <2>3, Update, ZenonT(60) DEF TInv, i
<1>5. entries' \in [Nums -> 0..MaxLinks]
  <2>1. CASE n \in Nums
    <3>1. entries[n] \in 0..MaxLinks
      BY <2>1, Zenon DEF TInv
    <3>2. entries[n] + by \in 0..MaxLinks
      BY <3>1, <1>1, <1>2
    <3>. HIDE DEF n
    <3>. QED BY <3>2, <1>1, Zenon DEF TInv
  <2>2. CASE n \notin Nums
    <3>. HIDE DEF n
    <3>. QED BY <2>2, <1>1, Zenon DEF TInv
  <2>. QED BY <2>1, <2>2
<1>6. TInv'
  BY <1>0, <1>4, <1>5 DEF TInv
<1>7. pc' = [pc EXCEPT ![t] = "user"]
  BY <1>0, ZenonT(60) DEF TInv
<1>8. Place(t)'
  BY <1>0 DEF Place
<1>. QED BY <1>0, <1>4, <1>6, <1>7, <1>8, MoveStep, Zenon DEF TInv, Claimed
-----------------------------------------------------------------------------
(* One when the pointer a is i.                                            *)
One(a, i) == IF a = i THEN 1 ELSE 0

(* What moving the pointers of a task, held from h to h1 and empty from e  *)
(* to e1, must do to the count of inode k: a task claims an inode, returns *)
(* another one than it claimed, returns the claimed one, or drops one.     *)
Balance(c, d, h, e, h1, e1, k) ==
    d = ((c - One(h, k)) - One(e, k)) + (One(h1, k) + One(e1, k))

LEMMA Claims ==
    ASSUME NEW k, NEW c \in Int, NEW d, NEW h, NEW e, NEW h1, NEW e1,
           h # k, e # k, h1 # k, d = IF k = e1 THEN c + 1 ELSE c
    PROVE  Balance(c, d, h, e, h1, e1, k)
BY DEF Balance, One

LEMMA Exchanges ==
    ASSUME NEW k, NEW c \in Int, NEW d, NEW h, NEW e, NEW h1, NEW e1,
           h # k, e1 # k, h1 # e,
           d = IF k = h1 THEN c + 1 ELSE IF k = e THEN c - 1 ELSE c
    PROVE  Balance(c, d, h, e, h1, e1, k)
BY DEF Balance, One

LEMMA Hands ==
    ASSUME NEW k, NEW c \in Int, NEW d, NEW h, NEW e, NEW h1, NEW e1,
           \/ h # k /\ e1 # k /\ h1 = e
           \/ h1 = h /\ e1 = e,
           d = c
    PROVE  Balance(c, d, h, e, h1, e1, k)
BY DEF Balance, One

LEMMA Drops ==
    ASSUME NEW k, NEW c \in Int, NEW d, NEW h, NEW e, NEW h1, NEW e1, NEW i,
           h1 # k, e1 # k, (h = i /\ e # k) \/ (h # k /\ e = i), d = c - One(k, i)
    PROVE  Balance(c, d, h, e, h1, e1, k)
BY DEF Balance, One

(* The pointers f and g are the same but for task t's.                     *)
OnlyAt(f, g, t) ==
    /\ f \in [Tasks -> Table \union {None}] /\ g \in [Tasks -> Table \union {None}]
    /\ \A u \in Tasks \ {t} : g[u] = f[u]

(* The references to inode i after task t has moved its pointer.           *)
LEMMA RefsUpdate ==
    ASSUME NEW f, NEW g, NEW t \in Tasks, NEW i, OnlyAt(f, g, t)
    PROVE  Refs(g, i) = (Refs(f, i) - One(f[t], i)) + One(g[t], i)
<1>1. g = [f EXCEPT ![t] = g[t]] /\ f = [u \in Tasks |-> f[u]]
  BY DEF OnlyAt
<1>2. Refs([f EXCEPT ![t] = g[t]], i)
        = (IF f[t] = i THEN Refs(f, i) - 1 ELSE Refs(f, i)) + (IF g[t] = i THEN 1 ELSE 0)
  BY <1>1, RefsMove
<1>3. Refs(f, i) \in Nat
  BY RefsType, Zenon
<1>. QED BY <1>1, <1>2, <1>3 DEF One

LEMMA Recount ==
    ASSUME NEW r \in Nat, NEW q \in Nat, NEW h, NEW e, NEW h1, NEW e1, NEW k, NEW d,
           Balance(r + q, d, h, e, h1, e1, k)
    PROVE  d = ((r - One(h, k)) + One(h1, k)) + ((q - One(e, k)) + One(e1, k))
BY DEF Balance, One

(* Only task t moves.                                                      *)
Others(t) ==
    \A u \in Tasks \ {t} :
        UNCHANGED <<pc[u], held[u], empty[u], slot[u], op[u], nr[u]>>

Balanced(t) ==
    \A k \in Table : Balance(inode[k].count, inode'[k].count,
                             held[t], empty[t], held'[t], empty'[t], k)

(* A step in which task t changes what it refers to, and the counts with   *)
(* it.                                                                     *)
LEMMA RefStep ==
    ASSUME IInv, NEW t \in Tasks, TInv', FreshInv', Place(t)', Others(t), Balanced(t)
    PROVE  IInv'
<1>1. PlaceInv'
  <2>. SUFFICES ASSUME NEW u \in Tasks PROVE Place(u)'
    BY DEF PlaceInv
  <2>1. CASE u # t
    <3>1. UNCHANGED <<pc[u], slot[u], op[u], nr[u], empty[u], held[u]>>
      BY <2>1 DEF Others
    <3>2. Place(u)
      BY Zenon DEF IInv, PlaceInv
    <3>. QED BY <3>1, <3>2, Zenon DEF Place
  <2>. QED BY <2>1
<1>2. CountInv'
  <2>. SUFFICES ASSUME NEW i \in Table
                PROVE  inode'[i].count = Refs(held', i) + Refs(empty', i)
    BY DEF CountInv, Refs
  <2>1. inode[i].count = Refs(held, i) + Refs(empty, i)
    BY Zenon DEF IInv, CountInv
  <2>2. Refs(held, i) \in Nat /\ Refs(empty, i) \in Nat
    BY RefsType, Zenon
  <2>3. held \in [Tasks -> Table \union {None}] /\ held' \in [Tasks -> Table \union {None}]
        /\ empty \in [Tasks -> Table \union {None}] /\ empty' \in [Tasks -> Table \union {None}]
    BY Zenon DEF IInv, TInv
  <2>4. OnlyAt(held, held', t) /\ OnlyAt(empty, empty', t)
    BY <2>3, Zenon DEF Others, OnlyAt
  <2>5. Refs(held', i) = (Refs(held, i) - One(held[t], i)) + One(held'[t], i)
    BY <2>4, RefsUpdate, ZenonT(60)
  <2>6. Refs(empty', i) = (Refs(empty, i) - One(empty[t], i)) + One(empty'[t], i)
    BY <2>4, RefsUpdate, ZenonT(60)
  <2>7. Balance(Refs(held, i) + Refs(empty, i), inode'[i].count,
                held[t], empty[t], held'[t], empty'[t], i)
    BY <2>1, Zenon DEF Balanced
  <2>. QED BY <2>2, <2>5, <2>6, <2>7, Recount, ZenonT(60)
<1>. QED BY <1>1, <1>2 DEF IInv

(* The others' claimed inodes keep their number 0 and stay their own.      *)
LEMMA StaysFresh ==
    ASSUME IInv, NEW t \in Tasks, Others(t), pc'[t] \notin Claimed,
           \A u \in Tasks \ {t} : pc[u] \in Claimed =>
              /\ held'[t] # empty[u] /\ empty'[t] # empty[u]
              /\ inode'[empty[u]].num = inode[empty[u]].num
    PROVE  FreshInv'
<1>. SUFFICES ASSUME NEW u \in Tasks, pc'[u] \in Claimed, NEW v \in Tasks
              PROVE  /\ inode'[empty'[u]].num = 0
                     /\ held'[v] # empty'[u] /\ (v # u => empty'[v] # empty'[u])
  BY DEF FreshInv
<1>1. u # t /\ pc[u] \in Claimed /\ empty'[u] = empty[u]
  BY DEF Others
<1>2. /\ inode[empty[u]].num = 0
      /\ held[v] # empty[u] /\ (v # u => empty[v] # empty[u])
  BY <1>1, Zenon DEF IInv, FreshInv
<1>3. v # t => held'[v] = held[v] /\ empty'[v] = empty[v]
  BY DEF Others
<1>. QED BY <1>1, <1>2, <1>3

(* The end of a call in which t gives a reference back.                    *)
LEMMA DropStep ==
    ASSUME IInv, NEW t \in Tasks, NEW i \in Table, Return(t, None), 
           pc[t] \in Putting \/ pc[t] = "new",
           i = IF pc[t] = "new" THEN empty[t] ELSE held[t],
           inode' \in [Table -> Record], imap' \subseteq Nums,
           hit' \subseteq {"stale", "locked"},
           UNCHANGED <<disk, entries, last_allocated_inode>>,
           \A k \in Table : inode'[k].count = inode[k].count - One(k, i),
           \A k \in Table : inode'[k].num = inode[k].num \/ (k = i /\ pc[t] # "new")
    PROVE  IInv'
<1>. USE NoneIsNothing DEF IInv
<1>0. Place(t)
  BY Zenon DEF PlaceInv
<1>1. /\ pc' = [pc EXCEPT ![t] = "user"] /\ op' = [op EXCEPT ![t] = "none"]
      /\ slot' = [slot EXCEPT ![t] = None] /\ nr' = [nr EXCEPT ![t] = 0]
      /\ empty' = [empty EXCEPT ![t] = None] /\ held' = [held EXCEPT ![t] = None]
      /\ current' = None
  BY Zenon DEF Return
<1>2. TInv'
  <2>1. 0 \in 0..s_ninodes
    BY Constants, Zenon
  <2>. QED BY <1>1, <2>1 DEF TInv
<1>3. Place(t)'
  BY <1>1 DEF Place, TInv, Claiming, Claimed, Putting
<1>6. Others(t)
  BY <1>1, ZenonT(60) DEF TInv, Others
<1>4. FreshInv'
  <2>1. ASSUME NEW u \in Tasks \ {t}, pc[u] \in Claimed
        PROVE  empty[u] \in Table /\ empty[u] # held[t]
    BY <2>1, SMTT(30) DEF FreshInv, PlaceInv, Place
  <2>2. \A u \in Tasks \ {t} : pc[u] \in Claimed =>
          None # empty[u] /\ inode'[empty[u]].num = inode[empty[u]].num
    BY <2>1, Zenon
  <2>3. pc'[t] \notin Claimed /\ held'[t] = None /\ empty'[t] = None
    BY <1>1, Zenon DEF Claimed, TInv
  <2>. QED BY <1>6, <2>2, <2>3, StaysFresh, Zenon
<1>5. held'[t] = None /\ empty'[t] = None
  BY <1>1, Zenon DEF TInv
<1>7. Balanced(t)
  <2>. SUFFICES ASSUME NEW k \in Table
                PROVE  Balance(inode[k].count, inode'[k].count,
                               held[t], empty[t], held'[t], empty'[t], k)
    BY Zenon DEF Balanced
  <2>1. (held[t] = i /\ empty[t] = None) \/ (held[t] = None /\ empty[t] = i)
    BY <1>0, Zenon DEF Place, Claimed, Putting
  <2>2. inode[k].count \in Int /\ k # None /\ inode'[k].count = inode[k].count - One(k, i)
    BY Fields, Zenon
  <2>. QED BY <1>5, <2>1, <2>2, Drops, Zenon
<1>. QED BY <1>2, <1>3, <1>4, <1>5, <1>6, <1>7, RefStep, Zenon

LEMMA StutterStep ==
    ASSUME IInv, UNCHANGED <<inode, file, task, last_allocated_inode, hit>>
    PROVE  IInv'
<1>1. UNCHANGED <<inode, disk, entries, imap, pc, op, slot, empty, nr, held, current,
                  last_allocated_inode, hit>>
  BY DEF file, task
<1>2. TInv' /\ PlaceInv'
  BY <1>1, Zenon DEF IInv, TInv, PlaceInv, Place
<1>3. FreshInv' /\ CountInv'
  BY <1>1 DEF IInv, FreshInv, CountInv, Refs
<1>. QED BY <1>2, <1>3 DEF IInv
-----------------------------------------------------------------------------
(* get_empty_inode claims an inode only if, awake again, it finds it       *)
(* still unreferenced.                                                     *)
LEMMA GetEmptyStep ==
    ASSUME IInv, NEW t \in Tasks, get_empty_inode(t)
    PROVE  IInv'
<1>. USE NoneIsNothing DEF IInv
<1>. DEFINE i == slot[t]
<1>0. pc[t] = "empty" /\ Place(t) /\ i \in Table /\ held[t] = None /\ empty[t] = None
      /\ op[t] \in {"iget", "new"}
  BY DEF get_empty_inode, PlaceInv, Place, Claiming, Claimed
<1>u. UNCHANGED <<imap, disk, entries, op, nr, held, last_allocated_inode, hit>>
  BY Zenon DEF get_empty_inode, file
<1>1. CASE inode[i].dirt
  <2>1. WriteBegins(t, "emptyWrite") /\ UNCHANGED empty
    BY <1>1, Zenon DEF get_empty_inode
  <2>. QED BY <1>0, <1>u, <2>1, WriteBeginsStep
<1>2. CASE ~inode[i].dirt /\ inode[i].count = 0
  <2>1. /\ inode' = [inode EXCEPT ![i] = [Zeroed EXCEPT !.count = 1]]
        /\ empty' = [empty EXCEPT ![t] = i]
        /\ pc' = [pc EXCEPT ![t] = op[t]] /\ current' = t /\ UNCHANGED slot
    BY <1>2 DEF get_empty_inode
  <2>. DEFINE z == [Zeroed EXCEPT !.count = 1]
  <2>2. z \in Record /\ z.count = 1 /\ z.num = 0
    <3>1. 0 \in 0..s_ninodes /\ 0 \in 0..MaxLinks
      BY Constants, Zenon
    <3>2. Zeroed \in Record /\ Zeroed.num = 0
      BY <3>1 DEF Zeroed, Record
    <3>. QED BY <3>2, SetCount
  <2>. HIDE DEF z
  <2>3. /\ inode' \in [Table -> Record]
        /\ inode'[i].count = 1 /\ inode'[i].num = 0
        /\ \A k \in Table : k # i => inode'[k] = inode[k]
    BY <1>0, <2>1, <2>2 DEF TInv, z
  <2>4. TInv'
    BY <1>0, <1>u, <2>1, <2>3 DEF TInv, Claimed
  <2>5. pc'[t] = op[t] /\ empty'[t] = i /\ op[t] \in Claimed /\ Others(t)
    BY <1>0, <1>u, <2>1, Zenon DEF TInv, Claimed, Others
  <2>6. Place(t)'
    BY <1>0, <1>u, <2>1, <2>5 DEF Place, Claiming, Claimed, Putting
  <2>7. \A v \in Tasks : held[v] # i /\ empty[v] # i
    <3>1. Refs(held, i) + Refs(empty, i) = 0
      BY <1>0, <1>2 DEF CountInv
    <3>3. Refs(held, i) \in Nat /\ Refs(empty, i) \in Nat
      BY RefsType, Zenon
    <3>. HIDE DEF i
    <3>2. Refs(held, i) = 0 /\ Refs(empty, i) = 0
      BY <3>1, <3>3
    <3>. QED BY <3>2, RefsNone
  <2>8. FreshInv'
    <3>. SUFFICES ASSUME NEW u \in Tasks, pc'[u] \in Claimed, NEW v \in Tasks
                  PROVE  /\ inode'[empty'[u]].num = 0
                         /\ held'[v] # empty'[u] /\ (v # u => empty'[v] # empty'[u])
      BY DEF FreshInv
    <3>1. CASE u = t
      <4>1. empty'[u] = i /\ held'[v] = held[v] /\ (v # u => empty'[v] = empty[v])
        BY <3>1, <1>u, <2>5, Zenon DEF Others
      <4>. QED BY <4>1, <2>3, <2>7, Zenon
    <3>2. CASE u # t
      <4>1. pc[u] \in Claimed /\ empty'[u] = empty[u] /\ empty[u] \in Table
        BY <3>2, <2>5, Zenon DEF Others, PlaceInv, Place
      <4>2. empty[u] # i /\ inode[empty[u]].num = 0 /\ held[v] # empty[u]
            /\ (v # u => empty[v] # empty[u])
        BY <4>1, <2>7, Zenon DEF FreshInv
      <4>3. empty'[v] = IF v = t THEN i ELSE empty[v]
        BY <2>5, Zenon DEF Others
      <4>. QED BY <1>u, <4>1, <4>2, <4>3, <2>3
    <3>. QED BY <3>1, <3>2
  <2>9. Balanced(t)
    <3>. SUFFICES ASSUME NEW k \in Table
                  PROVE  Balance(inode[k].count, inode'[k].count,
                                 held[t], empty[t], held'[t], empty'[t], k)
      BY Zenon DEF Balanced
    <3>1. inode[k].count \in Int /\ k # None
      BY Fields, Zenon
    <3>2. held'[t] = None /\ inode'[k].count = IF k = i THEN 0 + 1 ELSE inode[k].count
      BY <1>0, <1>u, <2>3
    <3>3. inode'[k].count = IF k = empty'[t] THEN inode[k].count + 1 ELSE inode[k].count
      BY <1>2, <2>5, <3>2, Zenon
    <3>. QED BY <1>0, <3>1, <3>2, <3>3, Claims, Zenon
  <2>. QED BY <2>4, <2>5, <2>6, <2>8, <2>9, RefStep
<1>3. CASE ~inode[i].dirt /\ inode[i].count # 0
  <2>1. /\ pc' = [pc EXCEPT ![t] = "search"] /\ slot' = [slot EXCEPT ![t] = i]
        /\ current' \in {t, None} /\ UNCHANGED <<inode, empty>>
    BY <1>3 DEF get_empty_inode, At
  <2>2. TInv'
    BY <1>u, <2>1, Zenon DEF TInv, Claiming
  <2>3. Place(t)'
    BY <1>0, <1>u, <2>1, Zenon DEF Place, TInv, Claiming, Claimed, Putting
  <2>. QED BY <1>u, <2>1, <2>2, <2>3, MoveStep, Zenon DEF TInv, Claimed
<1>. QED BY <1>1, <1>2, <1>3

(* iget finds the number in the table, or gives it to the inode it claimed. *)
LEMMA IgetStep ==
    ASSUME IInv, NEW t \in Tasks, iget(t)
    PROVE  IInv'
<1>. USE NoneIsNothing DEF IInv
<1>. DEFINE found == {k \in Table : inode[k].num = nr[t]}
            e == empty[t]
<1>0. pc[t] = "iget" /\ Place(t) /\ e \in Table /\ held[t] = None /\ nr[t] \in Nums
  BY DEF iget, PlaceInv, Place, Claimed
<1>u. /\ UNCHANGED <<imap, disk, entries, op, empty, nr, held, last_allocated_inode>>
      /\ hit' \subseteq {"stale", "locked"}
  BY Zenon DEF iget, NoteStale, file, TInv
<1>1. CASE found # {}
  <2>1. /\ pc' = [pc EXCEPT ![t] = "igetWait"] /\ slot' = [slot EXCEPT ![t] = Min(found)]
        /\ current' \in {t, None} /\ UNCHANGED inode
    BY <1>1 DEF iget, At
  <2>2. Min(found) \in Table
    <3>1. Table \subseteq Nat
      BY Constants, Zenon
    <3>. QED BY <1>1, <3>1, MinIn
  <2>3. TInv'
    BY <1>u, <2>1, <2>2, Zenon DEF TInv, Claimed
  <2>4. Place(t)'
    BY <1>0, <1>u, <2>1, <2>2 DEF Place, TInv, Claiming, Claimed, Putting
  <2>. HIDE DEF found
  <2>. QED BY <1>0, <1>u, <2>1, <2>3, <2>4, MoveStep, Zenon DEF TInv, Claimed
<1>2. CASE found = {}
  <2>1. /\ inode' = [inode EXCEPT ![e].num = nr[t], ![e].lock = TRUE]
        /\ pc' = [pc EXCEPT ![t] = "read"] /\ slot' = [slot EXCEPT ![t] = e]
        /\ current' = None
    BY <1>2, Zenon DEF iget
  <2>. DEFINE r == [inode[e] EXCEPT !.num = nr[t], !.lock = TRUE]
  <2>2. r \in Record /\ r.count = inode[e].count
    <3>1. inode[e] \in Record /\ nr[t] \in 0..s_ninodes
      BY <1>0, Fields DEF TInv
    <3>. QED BY <3>1, SetNum, Zenon
  <2>3. inode' = [inode EXCEPT ![e] = r]
    BY <1>0, <2>1, Zenon DEF TInv
  <2>. HIDE DEF r
  <2>4. /\ inode' \in [Table -> Record]
        /\ \A k \in Table : k # e => inode'[k] = inode[k]
        /\ \A k \in Table : inode'[k].count = inode[k].count
    BY <1>0, <2>2, <2>3 DEF TInv
  <2>5. TInv'
    BY <1>0, <1>u, <2>1, <2>4 DEF TInv
  <2>6. Others(t) /\ pc'[t] \notin Claimed
    BY <1>u, <2>1 DEF Others, TInv, Claimed
  <2>7. Place(t)'
    BY <1>0, <1>u, <2>1, Zenon DEF Place, TInv, Claiming, Claimed, Putting
  <2>8. FreshInv'
    <3>1. ASSUME NEW u \in Tasks \ {t}, pc[u] \in Claimed
          PROVE  empty[u] \in Table /\ empty[u] # e
      BY <1>0, <3>1, ZenonT(60) DEF FreshInv, PlaceInv, Place, Claimed
    <3>2. \A u \in Tasks \ {t} : pc[u] \in Claimed =>
            /\ held'[t] # empty[u] /\ empty'[t] # empty[u]
            /\ inode'[empty[u]].num = inode[empty[u]].num
      BY <1>0, <1>u, <2>4, <3>1
    <3>. QED BY <2>6, <3>2, StaysFresh, Zenon
  <2>9. Balanced(t)
    <3>. SUFFICES ASSUME NEW k \in Table
                  PROVE  Balance(inode[k].count, inode'[k].count,
                                 held[t], empty[t], held'[t], empty'[t], k)
      BY Zenon DEF Balanced
    <3>1. inode[k].count \in Int /\ k # None
      BY Fields, Zenon
    <3>. QED BY <1>u, <2>4, <3>1, Hands, Zenon
  <2>. QED BY <2>5, <2>6, <2>7, <2>8, <2>9, RefStep, Zenon
<1>. QED BY <1>1, <1>2

(* iget counts the inode it found, which is not a claimed one, and gives   *)
(* its own claimed one back.                                               *)
LEMMA FoundStep ==
    ASSUME IInv, NEW t \in Tasks, igetFound(t)
    PROVE  IInv'
<1>. USE NoneIsNothing DEF IInv
<1>. DEFINE i == slot[t]
            e == empty[t]
<1>0. pc[t] = "igetWait" /\ Place(t) /\ i \in Table /\ e \in Table /\ held[t] = None
      /\ nr[t] \in Nums
  BY DEF igetFound, PlaceInv, Place, Claimed
<1>u. /\ UNCHANGED <<imap, disk, entries, last_allocated_inode>>
      /\ hit' \subseteq {"stale", "locked"}
  BY DEF igetFound, NoteStale, file, TInv
<1>1. CASE inode[i].num = nr[t]
  <2>1. inode' = [inode EXCEPT ![i].count = @ + 1, ![e].count = @ - 1] /\ Return(t, i)
    BY <1>1 DEF igetFound
  <2>2. inode[i].num # 0
    BY <1>0, <1>1, Constants, Zenon
  <2>3. i # e
    BY <1>0, <2>2 DEF FreshInv, Claimed
  <2>. DEFINE a == [inode[i] EXCEPT !.count = inode[i].count + 1]
              b == [inode[e] EXCEPT !.count = inode[e].count - 1]
  <2>4. /\ a \in Record /\ a.count = inode[i].count + 1 /\ a.num = inode[i].num
        /\ b \in Record /\ b.count = inode[e].count - 1 /\ b.num = inode[e].num
    <3>1. inode[i] \in Record /\ inode[e] \in Record /\ inode[i].count \in Int
          /\ inode[e].count \in Int
      BY <1>0, Fields, Zenon DEF TInv
    <3>2. inode[i].count + 1 \in Int /\ inode[e].count - 1 \in Int
      BY <3>1
    <3>. QED BY <3>1, <3>2, SetCount, Zenon
  <2>5. inode' = [[inode EXCEPT ![i] = a] EXCEPT ![e] = b]
    BY <1>0, <2>1, <2>3, Zenon DEF TInv
  <2>. HIDE DEF a, b
  <2>6. /\ inode' \in [Table -> Record]
        /\ \A k \in Table : inode'[k].num = inode[k].num
        /\ inode'[i].count = inode[i].count + 1 /\ inode'[e].count = inode[e].count - 1
        /\ \A k \in Table \ {i, e} : inode'[k].count = inode[k].count
    BY <1>0, <2>3, <2>4, <2>5 DEF TInv
  <2>7. /\ pc' = [pc EXCEPT ![t] = "user"] /\ op' = [op EXCEPT ![t] = "none"]
        /\ slot' = [slot EXCEPT ![t] = None] /\ nr' = [nr EXCEPT ![t] = 0]
        /\ empty' = [empty EXCEPT ![t] = None] /\ held' = [held EXCEPT ![t] = i]
        /\ current' = None
    BY <2>1, Zenon DEF Return
  <2>8. TInv'
    <3>1. 0 \in 0..s_ninodes
      BY Constants, Zenon
    <3>. QED BY <1>0, <1>u, <2>6, <2>7, <3>1 DEF TInv
  <2>9. Others(t) /\ pc'[t] \notin Claimed /\ held'[t] = i /\ empty'[t] = None
    BY <2>7 DEF Others, TInv, Claimed
  <2>10. Place(t)'
    BY <2>7, Zenon DEF Place, TInv, Claiming, Claimed, Putting
  <2>11. FreshInv'
    <3>1. ASSUME NEW u \in Tasks \ {t}, pc[u] \in Claimed
          PROVE  empty[u] \in Table /\ empty[u] # i
      BY <3>1, <2>2, ZenonT(60) DEF FreshInv, PlaceInv, Place
    <3>2. \A u \in Tasks \ {t} : pc[u] \in Claimed =>
            /\ held'[t] # empty[u] /\ empty'[t] # empty[u]
            /\ inode'[empty[u]].num = inode[empty[u]].num
      BY <2>6, <2>9, <3>1, Zenon
    <3>. QED BY <2>9, <3>2, StaysFresh, Zenon
  <2>12. Balanced(t)
    <3>. SUFFICES ASSUME NEW k \in Table
                  PROVE  Balance(inode[k].count, inode'[k].count,
                                 held[t], empty[t], held'[t], empty'[t], k)
      BY Zenon DEF Balanced
    <3>1. inode[k].count \in Int /\ k # None
      BY Fields, Zenon
    <3>2. inode'[k].count = IF k = i THEN inode[k].count + 1
                            ELSE IF k = e THEN inode[k].count - 1 ELSE inode[k].count
      BY <2>6, Zenon
    <3>. QED BY <1>0, <2>3, <2>9, <3>1, <3>2, Exchanges, Zenon
  <2>. QED BY <2>8, <2>9, <2>10, <2>11, <2>12, RefStep, Zenon
<1>2. CASE inode[i].num # nr[t]
  <2>1. /\ pc' = [pc EXCEPT ![t] = "iget"] /\ slot' = [slot EXCEPT ![t] = i]
        /\ current' \in {t, None} /\ UNCHANGED <<inode, op, empty, nr, held>>
    BY <1>2, Zenon DEF igetFound, At
  <2>2. TInv'
    BY <1>0, <1>u, <2>1, Zenon DEF TInv, Claimed
  <2>3. Place(t)'
    BY <1>0, <1>u, <2>1 DEF Place, TInv, Claiming, Claimed, Putting
  <2>. QED BY <1>0, <1>u, <2>1, <2>2, <2>3, MoveStep, Zenon DEF TInv, Claimed
<1>. QED BY <1>1, <1>2, Zenon

(* A claimed inode that has been given its number becomes the one held.    *)
LEMMA HoldStep ==
    ASSUME IInv, NEW t \in Tasks, pc[t] \in {"read", "new"}, Return(t, empty[t]),
           inode' \in [Table -> Record], imap' \subseteq Nums,
           disk' \in [Nums -> 0..MaxLinks], entries' \in [Nums -> 0..MaxLinks],
           UNCHANGED <<last_allocated_inode, hit>>,
           \A k \in Table : inode'[k].count = inode[k].count,
           \A k \in Table : inode'[k].num = inode[k].num \/ (k = empty[t] /\ pc[t] = "new")
    PROVE  IInv'
<1>. USE NoneIsNothing DEF IInv
<1>0. Place(t) /\ empty[t] \in Table /\ held[t] = None
  BY Zenon DEF PlaceInv, Place, Claimed
<1>1. /\ pc' = [pc EXCEPT ![t] = "user"] /\ op' = [op EXCEPT ![t] = "none"]
      /\ slot' = [slot EXCEPT ![t] = None] /\ nr' = [nr EXCEPT ![t] = 0]
      /\ empty' = [empty EXCEPT ![t] = None] /\ held' = [held EXCEPT ![t] = empty[t]]
      /\ current' = None
  BY Zenon DEF Return
<1>2. TInv'
  <2>1. 0 \in 0..s_ninodes
    BY Constants, Zenon
  <2>. QED BY <1>0, <1>1, <2>1, Zenon DEF TInv
<1>3. Place(t)'
  BY <1>1, Zenon DEF Place, TInv, Claiming, Claimed, Putting
<1>4. Others(t) /\ pc'[t] \notin Claimed /\ held'[t] = empty[t] /\ empty'[t] = None
  BY <1>1, Zenon DEF Others, TInv, Claimed
<1>5. FreshInv'
  <2>1. ASSUME NEW u \in Tasks \ {t}, pc[u] \in Claimed
        PROVE  empty[u] \in Table /\ empty[u] # empty[t]
    BY <2>1, Zenon DEF FreshInv, PlaceInv, Place
  <2>2. \A u \in Tasks \ {t} : pc[u] \in Claimed =>
          /\ held'[t] # empty[u] /\ empty'[t] # empty[u]
          /\ inode'[empty[u]].num = inode[empty[u]].num
    BY <1>4, <2>1, Zenon
  <2>. QED BY <1>4, <2>2, StaysFresh, Zenon
<1>6. Balanced(t)
  <2>. SUFFICES ASSUME NEW k \in Table
                PROVE  Balance(inode[k].count, inode'[k].count,
                               held[t], empty[t], held'[t], empty'[t], k)
    BY Zenon DEF Balanced
  <2>1. inode[k].count \in Int /\ k # None
    BY Fields, Zenon
  <2>. QED BY <1>0, <1>4, <2>1, Hands, Zenon
<1>. QED BY <1>2, <1>3, <1>4, <1>5, <1>6, RefStep, Zenon

LEMMA ReadStep ==
    ASSUME IInv, NEW t \in Tasks, read_inode(t)
    PROVE  IInv'
<1>. USE DEF IInv
<1>0. pc[t] = "read" /\ slot[t] = empty[t] /\ empty[t] \in Table /\ nr[t] \in Nums
  BY DEF read_inode, PlaceInv, Place
<1>1. /\ inode' = [inode EXCEPT ![slot[t]].nlinks = disk[nr[t]], ![slot[t]].lock = FALSE]
      /\ Return(t, slot[t])
      /\ UNCHANGED <<imap, disk, entries, last_allocated_inode, hit>>
  BY DEF read_inode, file
<1>. DEFINE r == [inode[slot[t]] EXCEPT !.nlinks = disk[nr[t]], !.lock = FALSE]
<1>2. r \in Record /\ r.count = inode[slot[t]].count /\ r.num = inode[slot[t]].num
  <2>1. inode[slot[t]] \in Record /\ disk[nr[t]] \in 0..MaxLinks
    BY <1>0 DEF TInv
  <2>. QED BY <2>1, Zenon DEF Record
<1>3. inode' = [inode EXCEPT ![slot[t]] = r]
  BY <1>0, <1>1, Zenon DEF TInv
<1>. HIDE DEF r
<1>4. /\ inode' \in [Table -> Record]
      /\ \A k \in Table : inode'[k].count = inode[k].count /\ inode'[k].num = inode[k].num
  BY <1>0, <1>2, <1>3 DEF TInv
<1>5. imap' \subseteq Nums /\ disk' \in [Nums -> 0..MaxLinks] /\ entries' \in [Nums -> 0..MaxLinks]
  BY <1>1 DEF TInv
<1>. QED BY <1>0, <1>1, <1>4, <1>5, HoldStep, Zenon

(* The count one less at one place.                                        *)
LEMMA OneLess ==
    ASSUME TInv, NEW i \in Table,
           inode' = [inode EXCEPT ![i].count = @ - 1]
    PROVE  /\ inode' \in [Table -> Record]
           /\ \A k \in Table : inode'[k].count = inode[k].count - One(k, i)
           /\ \A k \in Table : inode'[k].num = inode[k].num
<1>. DEFINE r == [inode[i] EXCEPT !.count = inode[i].count - 1]
<1>1. \A k \in Table : inode[k] \in Record /\ inode[k].count \in Int
  BY DEF TInv, Record
<1>2. r \in Record /\ r.count = inode[i].count - 1 /\ r.num = inode[i].num
  <2>1. inode[i].count - 1 \in Int
    BY <1>1
  <2>. QED BY <1>1, <2>1, SetCount
<1>3. inode' = [inode EXCEPT ![i] = r]
  BY DEF TInv
<1>. HIDE DEF r
<1>4. \A k \in Table : inode'[k] = IF k = i THEN r ELSE inode[k]
  BY <1>3 DEF TInv
<1>5. \A k \in Table : inode'[k].count = inode[k].count - One(k, i)
  BY <1>1, <1>2, <1>4 DEF One
<1>6. \A k \in Table : inode'[k].num = inode[k].num
  BY <1>2, <1>4
<1>7. inode' \in [Table -> Record]
  BY <1>2, <1>3 DEF TInv
<1>. QED BY <1>5, <1>6, <1>7

(* new_inode fills the inode it claimed, whose count is 1, or gives it     *)
(* back when no inode is free on the device.                               *)
LEMMA NewStep ==
    ASSUME IInv, NEW t \in Tasks, new_inode(t)
    PROVE  IInv'
<1>. USE NoneIsNothing DEF IInv
<1>. DEFINE e == empty[t]
<1>0. pc[t] = "new" /\ e \in Table /\ held[t] = None
  BY DEF new_inode, PlaceInv, Place, Claimed
<1>1. CASE Nums \subseteq imap
  <2>1. /\ inode' = [inode EXCEPT ![e].count = @ - 1] /\ Return(t, None)
        /\ UNCHANGED <<disk, entries, imap, last_allocated_inode, hit>>
    BY <1>1 DEF new_inode, file
  <2>2. imap' \subseteq Nums /\ hit' \subseteq {"stale", "locked"}
    BY <2>1 DEF TInv
  <2>3. /\ inode' \in [Table -> Record]
        /\ \A k \in Table : inode'[k].count = inode[k].count - One(k, e)
        /\ \A k \in Table : inode'[k].num = inode[k].num
    BY <1>0, <2>1, OneLess, Zenon
  <2>. QED BY <1>0, <2>1, <2>2, <2>3, DropStep
<1>2. CASE ~(Nums \subseteq imap)
  <2>. DEFINE j == Min(Nums \ imap)
              r == [num |-> j, count |-> 1, lock |-> FALSE, dirt |-> TRUE, nlinks |-> 1]
  <2>1. /\ imap' = imap \union {j} /\ inode' = [inode EXCEPT ![e] = r]
        /\ entries' = [entries EXCEPT ![j] = 1] /\ Return(t, e)
        /\ UNCHANGED <<disk, last_allocated_inode, hit>>
    BY <1>2, Zenon DEF new_inode
  <2>2. j \in Nums /\ j \in 0..s_ninodes
    <3>1. Nums \ imap \subseteq Nat /\ Nums \ imap # {}
      BY <1>2, InodeTableAssumption DEF Nums
    <3>2. j \in Nums \ imap
      BY <3>1, MinIn
    <3>. QED BY <3>2, InodeTableAssumption DEF Nums
  <2>. HIDE DEF j
  <2>3. 1 \in 0..MaxLinks
    BY InodeTableAssumption
  <2>4. r \in Record /\ r.count = 1
    BY <2>2, <2>3 DEF Record
  <2>. HIDE DEF r
  <2>5. inode[e].count = 1
    <3>1. \A v \in Tasks : held[v] # e /\ (v # t => empty[v] # e)
      BY <1>0 DEF FreshInv, Claimed
    <3>2. Refs(held, e) = 0
      BY <3>1, RefsNone
    <3>3. empty = [u \in Tasks |-> empty[u]]
      BY DEF TInv
    <3>4. Refs([empty EXCEPT ![t] = None], e) = Refs(empty, e) - 1
      <4>1. Refs([empty EXCEPT ![t] = None], e) =
              (IF empty[t] = e THEN Refs(empty, e) - 1 ELSE Refs(empty, e))
              + (IF None = e THEN 1 ELSE 0)
        BY <3>3, RefsMove, SMTT(30)
      <4>2. Refs(empty, e) \in Nat
        BY RefsType, Zenon
      <4>. QED BY <1>0, <4>1, <4>2
    <3>5. Refs([empty EXCEPT ![t] = None], e) = 0
      <4>1. \A v \in Tasks : [empty EXCEPT ![t] = None][v] # e
        BY <1>0, <3>1, <3>3
      <4>. QED BY <4>1, RefsNone, Zenon
    <3>6. Refs(empty, e) \in Nat /\ inode[e].count = Refs(held, e) + Refs(empty, e)
      BY <1>0, RefsType, Zenon DEF CountInv
    <3>. QED BY <3>2, <3>4, <3>5, <3>6
  <2>6. /\ inode' \in [Table -> Record]
        /\ \A k \in Table : inode'[k].count = inode[k].count
        /\ \A k \in Table : inode'[k].num = inode[k].num \/ k = e
    BY <1>0, <2>1, <2>4, <2>5, Zenon DEF TInv
  <2>7. imap' \subseteq Nums /\ disk' \in [Nums -> 0..MaxLinks]
        /\ entries' \in [Nums -> 0..MaxLinks]
    BY <2>1, <2>2, <2>3 DEF TInv
  <2>. QED BY <1>0, <2>1, <2>6, <2>7, HoldStep
<1>. QED BY <1>1, <1>2
-----------------------------------------------------------------------------
(* The steps of iput; a count of 0 is a panic, in which nothing changes.   *)
LEMMA PutStep ==
    ASSUME IInv, NEW t \in Tasks, iput_wait(t) \/ iput(t)
    PROVE  IInv'
<1>. USE NoneIsNothing DEF IInv
<1>. DEFINE i == slot[t]
<1>0. pc[t] \in {"iput", "repeat"} /\ Place(t)
  BY Zenon DEF iput_wait, iput, PlaceInv
<1>s. i \in Table /\ held[t] = i /\ empty[t] = None
  BY <1>0 DEF Place, Putting, Claimed
<1>1. CASE Panic("iput: trying to free free inode")
  BY <1>1, StutterStep, Zenon DEF Panic
<1>2. CASE /\ inode' = [inode EXCEPT ![i].count = @ - 1] /\ Return(t, None)
           /\ UNCHANGED <<file, last_allocated_inode, hit>>
  <2>1. UNCHANGED <<disk, entries, imap, last_allocated_inode, hit>>
    BY <1>2 DEF file
  <2>2. imap' \subseteq Nums /\ hit' \subseteq {"stale", "locked"}
    BY <2>1 DEF TInv
  <2>3. /\ inode' \in [Table -> Record]
        /\ \A k \in Table : inode'[k].count = inode[k].count - One(k, i)
        /\ \A k \in Table : inode'[k].num = inode[k].num
    BY <1>s, <1>2, OneLess, Zenon
  <2>4. pc[t] \in Putting /\ i = IF pc[t] = "new" THEN empty[t] ELSE held[t]
    BY <1>0, <1>s, Zenon DEF Putting
  <2>. QED BY <1>s, <1>2, <2>1, <2>2, <2>3, <2>4, DropStep, Zenon
<1>3. CASE /\ pc[t] = "repeat" /\ WriteBegins(t, "iputWrite")
           /\ UNCHANGED <<op, empty, nr, held>>
           /\ UNCHANGED <<file, last_allocated_inode, hit>>
  BY <1>s, <1>3, WriteBeginsStep DEF file
<1>4. CASE /\ \E p \in {"repeat", "truncate"} : pc' = [pc EXCEPT ![t] = p]
           /\ slot' = slot /\ current' \in {t, None}
           /\ UNCHANGED <<inode, op, empty, nr, held>>
           /\ UNCHANGED <<file, last_allocated_inode, hit>>
  <2>1. PICK p \in {"repeat", "truncate"} : pc' = [pc EXCEPT ![t] = p]
    BY <1>4, Zenon
  <2>2. UNCHANGED <<inode, disk, entries, imap, slot, op, empty, nr, held,
                    last_allocated_inode, hit>>
    BY <1>4, Zenon DEF file
  <2>3. TInv'
    BY <1>4, <2>1, <2>2, Zenon DEF TInv, Putting
  <2>4. Place(t)'
    BY <1>s, <2>1, <2>2 DEF Place, TInv, Claiming, Claimed, Putting
  <2>. QED BY <2>1, <2>2, <2>3, <2>4, MoveStep, Zenon DEF Claimed
<1>5. CASE iput_wait(t)
  <2>1. ASSUME At(t, "repeat", i)
        PROVE  pc' = [pc EXCEPT ![t] = "repeat"] /\ slot' = slot /\ current' \in {t, None}
    BY <2>1, Zenon DEF At, TInv
  <2>. QED BY <1>1, <1>2, <1>4, <1>5, <2>1, Zenon DEF iput_wait
<1>6. CASE iput(t)
  <2>1. ASSUME Sleep(t, "truncate")
        PROVE  pc' = [pc EXCEPT ![t] = "truncate"] /\ slot' = slot /\ current' \in {t, None}
    BY <2>1, Zenon DEF Sleep
  <2>. QED BY <1>2, <1>3, <1>4, <1>6, <2>1, Zenon DEF iput
<1>. QED BY <1>5, <1>6

(* free_inode resets an inode whose only reference is the caller's.        *)
LEMMA FreeStep ==
    ASSUME IInv, NEW t \in Tasks, free_inode(t)
    PROVE  IInv'
<1>. USE NoneIsNothing DEF IInv
<1>. DEFINE i == slot[t]
<1>0. pc[t] = "truncate" /\ i \in Table /\ held[t] = i
  BY Zenon DEF free_inode, PlaceInv, Place, Putting
<1>1. CASE \E what : Panic(what)
  BY <1>1, StutterStep, Zenon DEF Panic
<1>2. CASE /\ ~(inode[i].count > 1) /\ imap' = imap \ {inode[i].num}
           /\ inode' = [inode EXCEPT ![i] = Zeroed] /\ Return(t, None)
           /\ hit' \in {hit, hit \union {"locked"}}
           /\ UNCHANGED <<disk, entries, last_allocated_inode, panic>>
  <2>1. inode[i].count = 1
    <3>1. Refs(held, i) # 0
      BY <1>0, RefsNone, Zenon
    <3>2. Refs(held, i) \in Nat /\ Refs(empty, i) \in Nat
      BY RefsType, Zenon
    <3>3. inode[i].count = Refs(held, i) + Refs(empty, i)
      BY <1>0 DEF CountInv
    <3>. HIDE DEF i
    <3>. QED BY <1>2, <3>1, <3>2, <3>3, SMTT(30)
  <2>2. Zeroed \in Record /\ Zeroed.count = 0
    <3>1. 0 \in 0..s_ninodes /\ 0 \in 0..MaxLinks
      BY Constants, Zenon
    <3>. QED BY <3>1, SMTT(30) DEF Zeroed, Record
  <2>3. \A k \in Table : inode'[k] = IF k = i THEN Zeroed ELSE inode[k]
    BY <1>0, <1>2, Zenon DEF TInv
  <2>4. inode' \in [Table -> Record]
    BY <1>0, <1>2, <2>2, Zenon DEF TInv
  <2>5. \A k \in Table : inode[k].count \in Int
    BY Fields
  <2>6. \A k \in Table : inode'[k].count = inode[k].count - One(k, i)
    <3>. SUFFICES ASSUME NEW k \in Table PROVE inode'[k].count = inode[k].count - One(k, i)
      OBVIOUS
    <3>1. inode[k].count \in Int /\ inode'[k].count = IF k = i THEN 0 ELSE inode[k].count
      BY <2>2, <2>3, <2>5, Zenon
    <3>2. k = i => inode[k].count = 1
      BY <2>1, Zenon
    <3>. HIDE DEF i
    <3>. QED BY <3>1, <3>2, SMTT(30) DEF One
  <2>7. \A k \in Table : inode'[k].num = inode[k].num \/ k = i
    BY <2>3, Zenon
  <2>8. imap' \subseteq Nums /\ hit' \subseteq {"stale", "locked"}
    BY <1>2 DEF TInv
  <2>9. pc[t] \in Putting /\ pc[t] # "new"
    BY <1>0 DEF Putting
  <2>. QED BY <1>0, <1>2, <2>4, <2>6, <2>7, <2>8, <2>9, DropStep, Zenon
<1>. QED BY <1>1, <1>2, Zenon DEF free_inode
-----------------------------------------------------------------------------
LEMMA Next_IInv ==
    ASSUME IInv, [Next]_vars
    PROVE  IInv'
<1>1. CASE UNCHANGED vars
  BY <1>1, StutterStep, Zenon DEF vars
<1>2. ASSUME NEW t \in Tasks, search(t)
      PROVE  IInv'
  <2>1. CASE UNCHANGED panic
    BY <1>2, <2>1, SearchStep
  <2>2. CASE Panic("No free inodes in mem")
    BY <2>2, StutterStep, Zenon DEF Panic
  <2>. QED BY <1>2, <2>1, <2>2, Zenon DEF search
<1>3. ASSUME NEW t \in Tasks, NEW by \in {-1, 1}, link(t, by)
      PROVE  IInv'
  BY <1>3, LinkStep, Zenon
<1>4. CASE Next
  <2>1. PICK t \in Tasks :
          \/ \E n \in Nums : Lookup(t, n)
          \/ Create(t) \/ iputCall(t) \/ syncCall(t)
          \/ \E by \in {-1, 1} : link(t, by)
          \/ search(t) \/ get_empty_inode(t) \/ WriteEnds(t)
          \/ iget(t) \/ igetFound(t) \/ read_inode(t) \/ new_inode(t)
          \/ iput_wait(t) \/ iput(t) \/ free_inode(t)
          \/ sync_inodes(t) \/ syncNext(t)
    BY <1>4 DEF Next
  <2>2. CASE (\E n \in Nums : Lookup(t, n)) \/ Create(t) \/ iputCall(t) \/ syncCall(t)
    BY <2>2, BeginStep
  <2>3. CASE \E by \in {-1, 1} : link(t, by)
    BY <2>3, <1>3
  <2>4. CASE search(t)
    BY <2>4, <1>2
  <2>5. CASE get_empty_inode(t)
    BY <2>5, GetEmptyStep
  <2>6. CASE WriteEnds(t)
    BY <2>6, WriteEndsStep, Zenon
  <2>7. CASE iget(t)
    BY <2>7, IgetStep
  <2>8. CASE igetFound(t)
    BY <2>8, FoundStep
  <2>9. CASE read_inode(t)
    BY <2>9, ReadStep
  <2>10. CASE new_inode(t)
    BY <2>10, NewStep
  <2>11. CASE iput_wait(t) \/ iput(t)
    BY <2>11, PutStep
  <2>12. CASE free_inode(t)
    BY <2>12, FreeStep
  <2>13. CASE sync_inodes(t) \/ syncNext(t)
    BY <2>13, SyncStep
  <2>. QED BY <2>1, <2>2, <2>3, <2>4, <2>5, <2>6, <2>7, <2>8, <2>9, <2>10, <2>11,
              <2>12, <2>13, Zenon
<1>. QED BY <1>1, <1>4

LEMMA AlwaysIInv == Spec => []IInv
<1>1. Init => IInv
  BY Init_IInv
<1>2. IInv /\ [Next]_vars => IInv'
  BY Next_IInv
<1>. QED BY <1>1, <1>2, PTL DEF Spec

(* Every i_count is exactly the number of references that tasks have: iget *)
(* counts the inode it found and gives the empty one back, iput and        *)
(* free_inode drop one, whatever sleeps in between.                        *)
THEOREM CountsExact == Spec => []CountExact
<1>1. IInv => CountExact
  BY DEF IInv, CountInv, CountExact, Refs
<1>. QED BY <1>1, AlwaysIInv, PTL

(* The types of the inode table, and that no i_count goes below 0 or above *)
(* two references per task.                                                *)
THEOREM TypeCorrect == Spec => []TypeOK
<1>1. ASSUME IInv PROVE TypeOK
  <2>1. Cardinality(Tasks) \in Nat
    BY FS_CardinalityType, InodeTableAssumption
  <2>2. ASSUME NEW f, NEW i
        PROVE  Refs(f, i) \in Nat /\ Refs(f, i) <= Cardinality(Tasks)
    <3>1. {u \in Tasks : f[u] = i} \in SUBSET Tasks
      OBVIOUS
    <3>2. Cardinality({u \in Tasks : f[u] = i}) <= Cardinality(Tasks)
      BY <3>1, FS_Subset, InodeTableAssumption, Zenon
    <3>. QED BY <3>2, RefsType, Zenon DEF Refs
  <2>3. ASSUME NEW i \in Table
        PROVE  inode[i].count \in 0..2 * Cardinality(Tasks)
    <3>1. inode[i].count = Refs(held, i) + Refs(empty, i)
      BY <1>1 DEF IInv, CountInv
    <3>. QED BY <2>1, <2>2, <3>1
  <2>4. inode \in [Table -> [num : 0..s_ninodes, count : 0..2 * Cardinality(Tasks),
                             lock : BOOLEAN, dirt : BOOLEAN, nlinks : 0..MaxLinks]]
    BY <1>1, <2>3 DEF IInv, TInv, Record
  <2>. QED BY <1>1, <2>4 DEF IInv, TInv, TypeOK
<1>. QED BY <1>1, AlwaysIInv, PTL
=============================================================================
